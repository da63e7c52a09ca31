--------------------------- MODULE PortmapProofs ---------------------------
(***************************************************************************)
(* Proofs about Portmap, for any number of containers, mappings, plugins   *)
(* and faults.                                                             *)
(***************************************************************************)
EXTENDS Portmap, FiniteSetTheorems, SequenceTheorems, TLAPS

(* The inductive invariant *)

\* A rule occurs at most once.
Once(s, r) == \A j, k \in 1 .. Len(s) : s[j] = r /\ s[k] = r => j = k

\* Before every occurrence of q there is one of r.
Precedes(s, r, q) ==
  \A k \in 1 .. Len(s) : s[k] = q => \E j \in 1 .. Len(s) : j < k /\ s[j] = r

Has(s, r) == s # Absent /\ Contains(s, r)

\* The ADD that runs, or succeeded last, has done its k-th command.
Passed(c, k) ==
  /\ Mappings[c] # <<>> /\ k \in 1 .. Len(Program(c))
  /\ state[c] = "ready" \/ (state[c] = "add" /\ k < at[c])

\* The table.
NatInv ==
  /\ nat = [chain \in Chains |-> nat[chain]]
  /\ \A chain \in Chains : nat[chain] # Absent => nat[chain] \in Seq(Rules(chain))

\* What the plugins are at.
PluginInv ==
  /\ state \in [Containers -> {"none", "add", "ready", "failed", "del"}]
  /\ at \in [Containers -> Nat] /\ phase \in [Containers -> {"check", "add"}]
  /\ podIp \in [Containers -> Ips \cup {None}]
  /\ \A c \in Containers :
       /\ state[c] = "add" =>
            at[c] \in 1 .. Len(Program(c)) /\ Mappings[c] # <<>>
       /\ state[c] \in {"add", "ready"} => podIp[c] \in Ips
       /\ state[c] = "del" => at[c] \in 1 .. 3
       /\ state[c] \notin {"add", "del"} => at[c] = 0
  /\ spared \subseteq Containers /\ flushed \subseteq Containers
  /\ faults \in 0 .. MaxFaults

\* A chain that an ADD has made is there, flushed or not.
MadeInv ==
  /\ \A hook \in Hooks : nat[hook] # Absent
  /\ \A c \in Containers : \A k \in 1 .. Len(Program(c)) :
       Passed(c, k) /\ Program(c)[k].op = "new" => nat[Program(c)[k].chain] # Absent

\* A rule that an ADD has found or put is there, unless all were flushed.
DoneInv ==
  \A c \in Containers \ flushed : \A k \in 1 .. Len(Program(c)) :
    Passed(c, k) /\ Program(c)[k].op # "new"
      => Has(nat[Program(c)[k].chain], Program(c)[k].rule)

\* A container without a plugin has no chain, unless a fault spared it.
CleanInv ==
  \A c \in Containers :
    /\ Mappings[c] = <<>> => nat[c] = Absent
    /\ c \notin spared /\ (state[c] = "none" \/ (state[c] = "add" /\ at[c] <= 9))
         => nat[c] = Absent
    /\ c \notin spared /\ state[c] = "del" /\ at[c] = 3 => nat[c] \in {Absent, <<>>}

\* ... and no jump, of which there is never a second one.
JumpInv ==
  \A c \in Containers :
    /\ Mappings[c] = <<>> => ~ Has(nat["TOP"], Jump(c))
    /\ /\ c \notin spared
       /\ \/ state[c] = "none"
          \/ state[c] = "add" /\ at[c] <= 10
          \/ state[c] = "del" /\ at[c] >= 2
       => ~ Has(nat["TOP"], Jump(c))
    /\ c \notin spared /\ nat["TOP"] # Absent => Once(nat["TOP"], Jump(c))

\* No DNAT without its mark before it, and what follows up the mark behind it.
MarkInv ==
  \A c \in Containers \ flushed : nat[c] # Absent =>
    /\ \A p \in Ports, i \in Ips : Precedes(nat[c], Localhost(p), Dnat(p, i))
    /\ nat[c] # <<>> =>
         /\ Has(nat["SETMARK"], Mark) /\ Has(nat["MASQ"], Masquerade)
         /\ Has(nat["POSTROUTING"], Jump("MASQ"))

\* A pod's DNATs are to its own address.
OwnInv ==
  \A c \in Containers \ spared : state[c] \in {"add", "ready"} =>
    \A p \in Ports, i \in Ips : Has(nat[c], Dnat(p, i)) => i = podIp[c]

\* The jump to MASQ comes before flanneld's RETURN.
PostInv ==
  Has(nat["POSTROUTING"], Jump("MASQ")) =>
    Precedes(nat["POSTROUTING"], Jump("MASQ"), LocalReturn)

FitsInv ==
  \A c, d \in Containers : c # d /\ state[c] # "none" /\ state[d] # "none" => ~ Shares(c, d)

\* The plugins that looked for a rule of the chain and will put it there.
Pending(chain) ==
  {c \in Containers : state[c] = "add" /\ phase[c] = "add"
                        /\ Current(c).op # "new" /\ Current(c).chain = chain}

Returns(s) == IF Contains(s, LocalReturn) THEN 1 ELSE 0

\* A look that was right found no copy; each other one was a fault.
CountInv ==
  /\ Once(nat["POSTROUTING"], LocalReturn)
  /\ \A chain \in Shared \ {"TOP"} : nat[chain] # Absent =>
       Len(nat[chain]) + Cardinality(Pending(chain))
         <= Cardinality(Containers) + faults + Returns(nat[chain])

IInv ==
  /\ NatInv /\ PluginInv /\ MadeInv /\ DoneInv /\ CleanInv /\ JumpInv
  /\ MarkInv /\ OwnInv /\ PostInv /\ FitsInv /\ CountInv

-----------------------------------------------------------------------------
(* Sequences of rules *)

\* A set of numbers that is not empty has a least element.
LEMMA MinFacts ==
  ASSUME NEW S \in SUBSET Nat, S # {}
  PROVE  Min(S) \in S /\ \A k \in S : Min(S) <= k
  <1> DEFINE R == OpToRel(<, Nat)
  <1>1. \A x, y \in Nat : <<y, x>> \in R <=> y < x
    BY DEF OpToRel
  <1>2. IsWellFoundedOn(R, Nat)
    BY NatLessThanWellFounded
  <1> HIDE DEF R
  <1>3. PICK x \in S : \A y \in S : ~ (<<y, x>> \in R)
    BY <1>2, WFMin
  <1>4. ASSUME NEW k \in S PROVE x <= k
    <2>1. x \in Nat /\ k \in Nat
      OBVIOUS
    <2>2. ~ (k < x)
      BY <1>1, <1>3, <2>1
    <2>3. QED
      BY <2>1, <2>2
  <1>5. QED
    BY <1>4 DEF Min

LEMMA AppendFacts ==
  ASSUME NEW S, NEW s \in Seq(S), NEW e \in S
  PROVE  /\ Append(s, e) \in Seq(S)
         /\ Len(Append(s, e)) = Len(s) + 1
         /\ \A r : Contains(Append(s, e), r) <=> Contains(s, r) \/ r = e
         /\ \A r : Once(s, r) /\ (r = e => ~ Contains(s, r)) => Once(Append(s, e), r)
         /\ \A r, q : Precedes(s, r, q) /\ (e = q => Contains(s, r)) => Precedes(Append(s, e), r, q)
  <1>1. /\ Append(s, e) \in Seq(S) /\ Len(s) \in Nat /\ Len(Append(s, e)) = Len(s) + 1
        /\ \A k \in 1 .. Len(s) : Append(s, e)[k] = s[k]
        /\ Append(s, e)[Len(s) + 1] = e
    OBVIOUS
  <1> DEFINE n == Len(s)  t == Append(s, e)
  <1>2. n \in Nat /\ Len(t) = n + 1 /\ (\A k \in 1 .. n : t[k] = s[k]) /\ t[n + 1] = e
    BY <1>1
  <1> HIDE DEF n, t
  <1>3. \A r : Contains(t, r) <=> Contains(s, r) \/ r = e
    BY <1>2 DEF Contains, n
  <1>4. ASSUME NEW r, Once(s, r), r = e => ~ Contains(s, r)
        PROVE  Once(t, r)
    BY <1>2, <1>4 DEF Once, Contains, n
  <1>5. ASSUME NEW r, NEW q, Precedes(s, r, q), e = q => Contains(s, r)
        PROVE  Precedes(t, r, q)
    BY <1>2, <1>5 DEF Precedes, Contains, n
  <1>6. QED
    BY <1>1, <1>3, <1>4, <1>5 DEF t

LEMMA PrependFacts ==
  ASSUME NEW S, NEW s \in Seq(S), NEW e \in S
  PROVE  /\ <<e>> \o s \in Seq(S)
         /\ Len(<<e>> \o s) = Len(s) + 1
         /\ \A r : Contains(<<e>> \o s, r) <=> Contains(s, r) \/ r = e
         /\ \A r : Once(s, r) /\ r # e => Once(<<e>> \o s, r)
         /\ \A q : q # e => Precedes(<<e>> \o s, e, q)
  <1> DEFINE n == Len(s)  t == <<e>> \o s
  <1>1. t \in Seq(S)
    OBVIOUS
  <1>2. /\ n \in Nat /\ Len(t) = n + 1 /\ t[1] = e
        /\ \A k \in 1 .. n : t[k + 1] = s[k]
    OBVIOUS
  <1>3. \A k \in 2 .. n + 1 : k - 1 \in 1 .. n /\ t[k] = s[k - 1]
    <2>1. ASSUME NEW k \in 2 .. n + 1 PROVE k - 1 \in 1 .. n /\ t[k] = s[k - 1]
      <3>1. k - 1 \in 1 .. n /\ (k - 1) + 1 = k
        BY <1>2
      <3>2. QED
        BY <1>2, <3>1
    <2>2. QED
      BY <2>1
  <1> HIDE DEF n, t
  <1>4. ASSUME NEW r PROVE Contains(t, r) <=> Contains(s, r) \/ r = e
    <2>1. Contains(t, r) => Contains(s, r) \/ r = e
      BY <1>2, <1>3 DEF Contains, n
    <2>2. Contains(s, r) => Contains(t, r)
      <3>1. ASSUME NEW k \in 1 .. n, s[k] = r PROVE k + 1 \in 1 .. Len(t) /\ t[k + 1] = r
        BY <1>2, <3>1
      <3>2. QED
        BY <3>1 DEF Contains, n
    <2>3. r = e => Contains(t, r)
      BY <1>2 DEF Contains
    <2>4. QED
      BY <2>1, <2>2, <2>3
  <1>5. ASSUME NEW q, q # e PROVE Precedes(t, e, q)
    BY <1>2, <1>5 DEF Precedes
  <1>6. ASSUME NEW r, Once(s, r), r # e PROVE Once(t, r)
    <2>1. \A k \in 1 .. Len(t) : t[k] = r => k \in 2 .. n + 1
      BY <1>2, <1>6
    <2>2. SUFFICES ASSUME NEW j \in 2 .. n + 1, NEW k \in 2 .. n + 1, t[j] = r, t[k] = r
                   PROVE  j = k
      BY <2>1 DEF Once
    <2>3. j - 1 = k - 1
      BY <1>3, <1>6, <2>2 DEF Once, n
    <2>4. QED
      BY <1>2, <2>3
  <1>7. QED
    BY <1>1, <1>2, <1>4, <1>5, <1>6 DEF t, n

LEMMA RemoveFacts ==
  ASSUME NEW S, NEW s \in Seq(S), NEW e
  PROVE  /\ RemoveFirst(s, e) \in Seq(S)
         /\ \A r : r # e => (Contains(RemoveFirst(s, e), r) <=> Contains(s, r))
         /\ Once(s, e) => ~ Contains(RemoveFirst(s, e), e)
         /\ \A r : Once(s, r) => Once(RemoveFirst(s, e), r)
  <1>1. CASE ~ Contains(s, e)
    BY <1>1 DEF Contains, RemoveFirst
  <1>2. CASE Contains(s, e)
    <2> DEFINE I == {i \in 1 .. Len(s) : s[i] = e}  m == Min(I)
               n == Len(s)  t == RemoveFirst(s, e)
    <2>1. n \in Nat /\ I # {} /\ I \in SUBSET Nat
      BY <1>2 DEF Contains
    <2>2. m \in 1 .. n /\ s[m] = e
      BY <2>1, MinFacts
    <2>3. SelectInSeq(s, LAMBDA v : v = e) = m
      BY <2>1 DEF SelectInSeq
    <2>4. t = SubSeq(s, 1, m - 1) \o SubSeq(s, m + 1, n)
      BY <1>2, <2>3 DEF RemoveFirst, RemoveAt, Contains
    <2> HIDE DEF I, m, t
    <2>5. t \in Seq(S)
      BY <2>2, <2>4
    <2>6. /\ Len(t) = n - 1
          /\ \A k \in 1 .. m - 1 : t[k] = s[k]
          /\ \A k \in m .. n - 1 : t[k] = s[k + 1]
      <3> DEFINE u == SubSeq(s, 1, m - 1)  v == SubSeq(s, m + 1, n)
      <3>1. /\ u \in Seq(S) /\ Len(u) = m - 1
            /\ \A k \in 1 .. m - 1 : u[k] = s[k]
        BY <2>1, <2>2
      <3>2. /\ v \in Seq(S) /\ Len(v) = n - m
            /\ \A k \in 1 .. n - m : v[k] = s[m + k]
        BY <2>1, <2>2
      <3> HIDE DEF u, v
      <3>3. t = u \o v
        BY <2>4 DEF u, v
      <3>4. /\ Len(t) = Len(u) + Len(v)
            /\ \A k \in 1 .. Len(u) : t[k] = u[k]
            /\ \A k \in Len(u) + 1 .. Len(u) + Len(v) : t[k] = v[k - Len(u)]
        BY <3>1, <3>2, <3>3, ConcatProperties
      <3>5. ASSUME NEW k \in m .. n - 1 PROVE t[k] = s[k + 1]
        <4>1. /\ k \in Len(u) + 1 .. Len(u) + Len(v)
              /\ k - Len(u) \in 1 .. n - m
              /\ m + (k - Len(u)) = k + 1
          BY <2>1, <2>2, <3>1, <3>2
        <4>2. QED
          BY <3>2, <3>4, <4>1
      <3>6. QED
        BY <2>1, <2>2, <3>1, <3>2, <3>4, <3>5
    <2> HIDE DEF n
    <2> DEFINE old(k) == IF k < m THEN k ELSE k + 1
    <2>7. \A k \in 1 .. Len(t) : old(k) \in 1 .. n /\ old(k) # m /\ t[k] = s[old(k)]
      BY <2>1, <2>2, <2>6
    <2>8. \A j, k \in 1 .. Len(t) : old(j) = old(k) => j = k
      BY <2>1, <2>2, <2>6
    <2>9. \A i \in 1 .. n : i # m => \E k \in 1 .. Len(t) : old(k) = i
      <3>1. ASSUME NEW i \in 1 .. n, i # m
            PROVE  \E k \in 1 .. Len(t) : old(k) = i
        <4>1. CASE i < m
          BY <2>1, <2>2, <2>6, <4>1
        <4>2. CASE i > m
          <5>1. i - 1 \in 1 .. Len(t) /\ old(i - 1) = i
            BY <2>1, <2>2, <2>6, <4>2
          <5>2. QED
            BY <5>1
        <4>3. QED
          BY <2>2, <3>1, <4>1, <4>2
      <3>2. QED
        BY <3>1
    <2> HIDE DEF old
    <2>10. ASSUME NEW r, r # e PROVE Contains(t, r) <=> Contains(s, r)
      <3>1. Contains(t, r) => Contains(s, r)
        BY <2>7 DEF Contains, n
      <3>2. ASSUME Contains(s, r) PROVE Contains(t, r)
        <4>1. PICK i \in 1 .. n : s[i] = r
          BY <3>2 DEF Contains, n
        <4>2. PICK k \in 1 .. Len(t) : old(k) = i
          BY <2>2, <2>9, <2>10, <4>1
        <4>3. QED
          BY <2>7, <4>1, <4>2 DEF Contains
      <3>3. QED
        BY <3>1, <3>2
    <2>11. ASSUME Once(s, e) PROVE ~ Contains(t, e)
      BY <2>2, <2>7, <2>11 DEF Contains, Once, n
    <2>12. ASSUME NEW r, Once(s, r) PROVE Once(t, r)
      BY <2>7, <2>8, <2>12 DEF Once, n
    <2>13. QED
      BY <2>5, <2>10, <2>11, <2>12 DEF t
  <1>3. QED
    BY <1>1, <1>2

-----------------------------------------------------------------------------
(* The commands of an ADD *)

\* The ten commands before the loop of apply, then three for each mapping.
ProgramShape(P, c, i) ==
  LET n == Len(Mappings[c])
  IN  /\ n \in Nat /\ Len(P) = 10 + 3 * n
      /\ P[1] = New("TOP") /\ P[9] = New(c)
      /\ P[2] = Insert("PREROUTING", Jump("TOP")) /\ P[3] = Insert("OUTPUT", Jump("TOP"))
      /\ P[4] = New("SETMARK") /\ P[5] = Append_("SETMARK", Mark)
      /\ P[6] = New("MASQ") /\ P[7] = Append_("MASQ", Masquerade)
      /\ P[8] = Insert("POSTROUTING", Jump("MASQ")) /\ P[10] = Append_("TOP", Jump(c))
      /\ \A j \in 1 .. n :
           /\ P[8 + 3 * j] = Append_(c, Hairpin(Mappings[c][j], i))
           /\ P[9 + 3 * j] = Append_(c, Localhost(Mappings[c][j]))
           /\ P[10 + 3 * j] = Append_(c, Dnat(Mappings[c][j], i))
      /\ \A k \in 11 .. Len(P) :
           \E j \in 1 .. n : k \in {8 + 3 * j, 9 + 3 * j, 10 + 3 * j}

LEMMA ProgramFacts ==
  ASSUME NEW c \in Containers, NEW i
  PROVE  ProgramShape(Commands(c, i), c, i)
  <1> DEFINE P == Commands(c, i)  n == Len(Mappings[c])
  <1> DEFINE top == TopCommands \o << New(c), Append_("TOP", Jump(c)) >>
             body(k) == MappingCommands(c, Mappings[c][(k + 2) \div 3], i)[((k + 2) % 3) + 1]
             loop == [k \in 1 .. 3 * n |-> body(k)]
  <1>1. n \in Nat
    BY MappingsAssumption
  <1> DEFINE end == << New(c), Append_("TOP", Jump(c)) >>
             All == {TopCommands[k] : k \in 1 .. 8} \cup {end[1], end[2]}
                      \cup {body(k) : k \in 1 .. 3 * n}
  <1>2. /\ TopCommands \in Seq(All) /\ Len(TopCommands) = 8
        /\ end \in Seq(All) /\ Len(end) = 2
    <2>1. TopCommands = [k \in 1 .. 8 |-> TopCommands[k]]
      BY DEF TopCommands
    <2>2. end = [k \in 1 .. 2 |-> end[k]]
      OBVIOUS
    <2> HIDE DEF end
    <2>3. TopCommands \in Seq(All) /\ end \in Seq(All)
      BY <2>1, <2>2, IsASeq
    <2>4. QED
      BY <2>3 DEF TopCommands, end
  <1> HIDE DEF All
  <1>3. /\ top \in Seq(All) /\ Len(top) = 10
        /\ \A k \in 1 .. 8 : top[k] = TopCommands[k]
        /\ top[9] = end[1] /\ top[10] = end[2]
    <2> HIDE DEF end
    <2>1. top = TopCommands \o end
      BY DEF end
    <2> HIDE DEF top
    <2>2. /\ TopCommands \o end \in Seq(All)
          /\ Len(TopCommands \o end) = Len(TopCommands) + Len(end)
          /\ \A k \in 1 .. Len(TopCommands) + Len(end) :
               (TopCommands \o end)[k] =
                 IF k <= Len(TopCommands) THEN TopCommands[k] ELSE end[k - Len(TopCommands)]
      BY <1>2, ConcatProperties
    <2>3. /\ top \in Seq(All) /\ Len(top) = 8 + 2
          /\ \A k \in 1 .. 8 + 2 : top[k] = IF k <= 8 THEN TopCommands[k] ELSE end[k - 8]
      BY <1>2, <2>1, <2>2
    <2>4. QED
      BY <2>3
  <1> HIDE DEF top
  <1>4. loop \in Seq(All) /\ Len(loop) = 3 * n
    <2>1. loop \in [1 .. 3 * n -> All]
      BY DEF All
    <2>2. 3 * n \in Nat
      BY <1>1
    <2> HIDE DEF loop
    <2>3. QED
      BY <2>1, <2>2
  <1>5. P = top \o loop
    BY DEF Commands, top
  <1> HIDE DEF loop, P
  <1>6. /\ Len(P) = 10 + 3 * n
        /\ \A k \in 1 .. 10 : P[k] = top[k]
        /\ \A k \in 11 .. 10 + 3 * n : P[k] = loop[k - 10]
    <2>1. /\ Len(top \o loop) = Len(top) + Len(loop)
          /\ \A k \in 1 .. Len(top) + Len(loop) :
               (top \o loop)[k] = IF k <= Len(top) THEN top[k] ELSE loop[k - Len(top)]
      BY <1>3, <1>4, ConcatProperties
    <2>2. /\ Len(P) = 10 + 3 * n
          /\ \A k \in 1 .. 10 + 3 * n : P[k] = IF k <= 10 THEN top[k] ELSE loop[k - 10]
      BY <1>3, <1>4, <1>5, <2>1
    <2>3. ASSUME NEW k \in 1 .. 10 PROVE P[k] = top[k]
      BY <1>1, <2>2
    <2>4. ASSUME NEW k \in 11 .. 10 + 3 * n PROVE P[k] = loop[k - 10]
      BY <1>1, <2>2
    <2>5. QED
      BY <2>2, <2>3, <2>4
  <1>7. \A k \in 1 .. 3 * n : loop[k] = body(k)
    BY DEF loop
  <1>8. ASSUME NEW j \in 1 .. n
        PROVE  /\ P[8 + 3 * j] = Append_(c, Hairpin(Mappings[c][j], i))
               /\ P[9 + 3 * j] = Append_(c, Localhost(Mappings[c][j]))
               /\ P[10 + 3 * j] = Append_(c, Dnat(Mappings[c][j], i))
    <2>1. /\ 3 * j - 2 \in 1 .. 3 * n /\ 3 * j - 1 \in 1 .. 3 * n /\ 3 * j \in 1 .. 3 * n
          /\ 8 + 3 * j \in 11 .. 10 + 3 * n /\ (8 + 3 * j) - 10 = 3 * j - 2
          /\ 9 + 3 * j \in 11 .. 10 + 3 * n /\ (9 + 3 * j) - 10 = 3 * j - 1
          /\ 10 + 3 * j \in 11 .. 10 + 3 * n /\ (10 + 3 * j) - 10 = 3 * j
      BY <1>1
    <2>2. /\ ((3 * j - 2) + 2) \div 3 = j /\ ((3 * j - 2) + 2) % 3 = 0
          /\ ((3 * j - 1) + 2) \div 3 = j /\ ((3 * j - 1) + 2) % 3 = 1
          /\ (3 * j + 2) \div 3 = j /\ (3 * j + 2) % 3 = 2
      BY <1>1
    <2>3. /\ body(3 * j - 2) = Append_(c, Hairpin(Mappings[c][j], i))
          /\ body(3 * j - 1) = Append_(c, Localhost(Mappings[c][j]))
          /\ body(3 * j) = Append_(c, Dnat(Mappings[c][j], i))
      BY <2>2 DEF MappingCommands
    <2> HIDE DEF body
    <2>4. QED
      BY <1>6, <1>7, <2>1, <2>3
  <1>9. ASSUME NEW k \in 11 .. 10 + 3 * n
        PROVE  \E j \in 1 .. n : k \in {8 + 3 * j, 9 + 3 * j, 10 + 3 * j}
    <2>1. /\ (k - 8) \div 3 \in 1 .. n
          /\ k \in {8 + 3 * ((k - 8) \div 3), 9 + 3 * ((k - 8) \div 3),
                    10 + 3 * ((k - 8) \div 3)}
      BY <1>1
    <2>2. QED
      BY <2>1
  <1>10. /\ P[1] = New("TOP") /\ P[9] = New(c)
         /\ P[2] = Insert("PREROUTING", Jump("TOP")) /\ P[3] = Insert("OUTPUT", Jump("TOP"))
         /\ P[4] = New("SETMARK") /\ P[5] = Append_("SETMARK", Mark)
         /\ P[6] = New("MASQ") /\ P[7] = Append_("MASQ", Masquerade)
         /\ P[8] = Insert("POSTROUTING", Jump("MASQ")) /\ P[10] = Append_("TOP", Jump(c))
    <2>1. ASSUME NEW k \in 1 .. 8 PROVE P[k] = TopCommands[k]
      <3>1. k \in 1 .. 10
        OBVIOUS
      <3>2. QED
        BY <1>3, <1>6, <3>1
    <2>2. P[9] = end[1] /\ P[10] = end[2]
      BY <1>3, <1>6
    <2>3. QED
      BY <2>1, <2>2 DEF TopCommands
  <1>11. QED
    BY <1>1, <1>6, <1>8, <1>9, <1>10 DEF ProgramShape, P

\* What its k-th command is, told from the chain it works on.
CommandShape(P, c, i, k) ==
  /\ P[k].chain \in Shared \cup {c}
  /\ P[k].op = "new" =>
       /\ P[k].chain \in {"TOP", "SETMARK", "MASQ", c}
       /\ P[k].chain = c => k = 9
  /\ P[k].op # "new" =>
       /\ P[k].rule \in Rules(P[k].chain)
       /\ P[k].chain \in Hooks \/
            \E j \in 1 .. Len(P) : j < k /\ P[j].op = "new" /\ P[j].chain = P[k].chain
       /\ P[k].chain = "TOP" => k = 10 /\ P[k].rule = Jump(c)
       /\ P[k].chain \in Shared \ {"TOP"} =>
            P[k].rule # LocalReturn /\ Rules(P[k].chain) \subseteq {P[k].rule, LocalReturn}
       /\ P[k].chain = "POSTROUTING" => P[k].op = "insert" /\ P[k].rule = Jump("MASQ")
       /\ P[k].chain = c =>
            /\ k > 10 /\ P[k].op = "append"
            /\ \A p, j : P[k].rule = Dnat(p, j) => j = i /\ P[k - 1] = Append_(c, Localhost(p))

LEMMA CommandFacts ==
  ASSUME NEW c \in Containers, NEW i \in Ips, NEW k \in 1 .. Len(Commands(c, i))
  PROVE  CommandShape(Commands(c, i), c, i, k)
  <1> DEFINE P == Commands(c, i)  n == Len(Mappings[c])
  <1>1. c \notin Shared /\ c # None
    BY NamesAssumption
  <1>2. n \in Nat /\ \A j \in 1 .. n : Mappings[c][j] \in Range(Mappings[c])
    BY MappingsAssumption DEF Range
  <1>0. ProgramShape(P, c, i)
    BY ProgramFacts
  <1> SUFFICES CommandShape(P, c, i, k)
    OBVIOUS
  <1>5. Len(P) \in Nat /\ Len(P) >= 10 /\ k \in 1 .. Len(P)
    BY <1>0 DEF ProgramShape
  <1> HIDE DEF P
  <1> USE DEF New, Append_, Insert
  <1>3. CASE k <= 10
    <2>1. k \in 1 .. 10
      BY <1>3
    <2>2. /\ Len(P) >= 10
          /\ P[1] = New("TOP") /\ P[9] = New(c)
          /\ P[2] = Insert("PREROUTING", Jump("TOP")) /\ P[3] = Insert("OUTPUT", Jump("TOP"))
          /\ P[4] = New("SETMARK") /\ P[5] = Append_("SETMARK", Mark)
          /\ P[6] = New("MASQ") /\ P[7] = Append_("MASQ", Masquerade)
          /\ P[8] = Insert("POSTROUTING", Jump("MASQ")) /\ P[10] = Append_("TOP", Jump(c))
      BY <1>0, <1>2 DEF ProgramShape
    <2>3. /\ Jump("TOP") \in Rules("PREROUTING") /\ Rules("PREROUTING") \subseteq {Jump("TOP")}
          /\ Jump("TOP") \in Rules("OUTPUT") /\ Rules("OUTPUT") \subseteq {Jump("TOP")}
          /\ Mark \in Rules("SETMARK") /\ Rules("SETMARK") \subseteq {Mark}
          /\ Masquerade \in Rules("MASQ") /\ Rules("MASQ") \subseteq {Masquerade}
          /\ Jump("MASQ") \in Rules("POSTROUTING")
          /\ Rules("POSTROUTING") \subseteq {Jump("MASQ"), LocalReturn}
          /\ Jump(c) \in Rules("TOP")
      BY DEF Rules, SharedRules, Shared, Hooks
    <2>4. /\ Jump("TOP") # LocalReturn /\ Mark # LocalReturn /\ Masquerade # LocalReturn
          /\ Jump("MASQ") # LocalReturn
      BY DEF Jump, Mark, Masquerade, LocalReturn
    <2> HIDE DEF Jump, Mark, Masquerade, LocalReturn, Rules
    <2>5. QED
      <3>1. CASE k \in {1, 4, 6, 9}
        BY <1>1, <2>2, <3>1 DEF CommandShape, Shared
      <3>2. CASE k \in {2, 3, 8}
        BY <1>1, <2>2, <2>3, <2>4, <3>2 DEF CommandShape, Shared, Hooks
      <3>3. CASE k \in {5, 7, 10}
        <4>1. \E j \in 1 .. Len(P) : j < k /\ P[j].op = "new" /\ P[j].chain = P[k].chain
          <5>1. k = 5 => /\ 4 \in 1 .. Len(P) /\ 4 < k
                            /\ P[4].op = "new" /\ P[4].chain = P[k].chain
            BY <1>5, <2>2
          <5>2. k = 7 => /\ 6 \in 1 .. Len(P) /\ 6 < k
                            /\ P[6].op = "new" /\ P[6].chain = P[k].chain
            BY <1>5, <2>2
          <5>3. k = 10 => /\ 1 \in 1 .. Len(P) /\ 1 < k
                            /\ P[1].op = "new" /\ P[1].chain = P[k].chain
            BY <1>5, <2>2
          <5>4. QED
            BY <3>3, <5>1, <5>2, <5>3
        <4>2. QED
          BY <1>1, <2>2, <2>3, <2>4, <3>3, <4>1 DEF CommandShape, Shared, Hooks
      <3>4. QED
        BY <2>1, <3>1, <3>2, <3>3
  <1>4. CASE k > 10
    <2>1. PICK j \in 1 .. n : k \in {8 + 3 * j, 9 + 3 * j, 10 + 3 * j}
      <3>1. k \in 11 .. Len(P)
        BY <1>4, <1>5
      <3>2. QED
        BY <1>0, <3>1 DEF ProgramShape
    <2> DEFINE p == Mappings[c][j]
    <2>2. /\ P[8 + 3 * j] = Append_(c, Hairpin(p, i))
          /\ P[9 + 3 * j] = Append_(c, Localhost(p))
          /\ P[10 + 3 * j] = Append_(c, Dnat(p, i))
          /\ P[9] = New(c)
      BY <1>0 DEF ProgramShape
    <2>3. {Hairpin(p, i), Localhost(p), Dnat(p, i)} \subseteq Rules(c)
      BY <1>1, <1>2 DEF Rules, OwnRules
    <2>4. \A q, j1, r : /\ Dnat(q, j1) = Dnat(p, i) => q = p /\ j1 = i
                       /\ Dnat(q, j1) # Hairpin(p, i) /\ Dnat(q, j1) # Localhost(p)
      BY DEF Dnat, Hairpin, Localhost
    <2>5. P[k].chain = c /\ P[k].op = "append" /\ P[k].rule \in Rules(c)
      BY <2>1, <2>2, <2>3
    <2>6. ASSUME NEW q, NEW j1, P[k].rule = Dnat(q, j1)
          PROVE  j1 = i /\ P[k - 1] = Append_(c, Localhost(q))
      <3>1. k = 10 + 3 * j
        BY <2>1, <2>2, <2>4, <2>6
      <3>2. k - 1 = 9 + 3 * j
        BY <1>2, <3>1
      <3>3. QED
        BY <2>2, <2>4, <2>6, <3>1, <3>2
    <2>7. 9 \in 1 .. Len(P) /\ 9 < k
      BY <1>4, <1>5
    <2>8. \E j2 \in 1 .. Len(P) : j2 < k /\ P[j2].op = "new" /\ P[j2].chain = P[k].chain
      BY <2>2, <2>5, <2>7
    <2>9. c \notin Hooks /\ c # "TOP" /\ c # "POSTROUTING"
      BY <1>1 DEF Shared, Hooks
    <2> HIDE DEF p
    <2>10. QED
      BY <1>1, <1>4, <2>5, <2>6, <2>8, <2>9 DEF CommandShape
  <1>6. QED
    BY <1>3, <1>4, <1>5

\* The command at hand, when the chains of the earlier ones are there.
LEMMA CurrentFacts ==
  ASSUME PluginInv, MadeInv, NEW c \in Containers, state[c] = "add"
  PROVE  /\ CommandShape(Program(c), c, podIp[c], at[c])
         /\ Current(c).chain \in Chains
         /\ Current(c).op # "new" =>
              nat[Current(c).chain] # Absent /\ Current(c).rule \in Rules(Current(c).chain)
  <1> DEFINE k == at[c]  P == Program(c)
  <1>1. /\ k \in Nat /\ k \in 1 .. Len(P) /\ Mappings[c] # <<>> /\ podIp[c] \in Ips
    BY DEF PluginInv
  <1>2. CommandShape(P, c, podIp[c], k)
    BY <1>1, CommandFacts DEF Program
  <1>3. \A j \in 1 .. Len(P) : j < k => Passed(c, j)
    BY <1>1 DEF Passed
  <1> HIDE DEF k, P
  <1>4. Current(c) = P[k]
    BY DEF Current, P, k
  <1>5. P[k].op # "new" => nat[P[k].chain] # Absent
    <2>1. CASE P[k].op # "new" /\ P[k].chain \in Hooks
      BY <2>1 DEF MadeInv
    <2>2. CASE P[k].op # "new" /\ P[k].chain \notin Hooks
      <3>1. PICK j \in 1 .. Len(P) : j < k /\ P[j].op = "new" /\ P[j].chain = P[k].chain
        BY <1>2, <2>2 DEF CommandShape
      <3>2. QED
        BY <1>3, <3>1 DEF MadeInv, P
    <2>3. QED
      BY <2>1, <2>2
  <1>6. QED
    BY <1>2, <1>4, <1>5 DEF CommandShape, Chains, P, k

-----------------------------------------------------------------------------
(* What the steps do to the table *)

\* From one table to the next, what is there stays.
Grows(old, new) ==
  \A x \in Chains : old[x] # Absent =>
    new[x] # Absent /\ \A r : Has(old[x], r) => Has(new[x], r)

\* ... but for one chain of a container, and the jump to it.
GrowsBut(old, new, c) ==
  \A x \in Chains \ {c} : old[x] # Absent =>
    /\ new[x] # Absent
    /\ \A r : Has(old[x], r) /\ ~ (x = "TOP" /\ r = Jump(c)) => Has(new[x], r)

LEMMA PutFacts ==
  ASSUME NatInv, NEW chain \in Chains, nat[chain] # Absent, NEW r \in Rules(chain),
         \/ nat' = [nat EXCEPT ![chain] = Append(@, r)]
         \/ nat' = [nat EXCEPT ![chain] = <<r>> \o @]
  PROVE  /\ NatInv' /\ Grows(nat, nat')
         /\ nat[chain] \in Seq(Rules(chain))
         /\ \A x \in Chains \ {chain} : nat'[x] = nat[x]
         /\ nat'[chain] \in {Append(nat[chain], r), <<r>> \o nat[chain]}
         /\ nat'[chain] # Absent
         /\ Len(nat'[chain]) = Len(nat[chain]) + 1
         /\ \A q : Has(nat'[chain], q) <=> Has(nat[chain], q) \/ q = r
  <1>1. nat[chain] \in Seq(Rules(chain))
    BY DEF NatInv
  <1>2. /\ \A x \in Chains \ {chain} : nat'[x] = nat[x]
        /\ nat'[chain] \in {Append(nat[chain], r), <<r>> \o nat[chain]}
        /\ nat' = [x \in Chains |-> nat'[x]]
    BY DEF NatInv
  <1> DEFINE s == nat[chain]  t == nat'[chain]
  <1>3. /\ t \in Seq(Rules(chain)) /\ Len(t) = Len(s) + 1
        /\ \A q : Contains(t, q) <=> Contains(s, q) \/ q = r
    <2>1. CASE t = Append(s, r)
      BY <1>1, <2>1, AppendFacts
    <2>2. CASE t = <<r>> \o s
      BY <1>1, <2>2, PrependFacts
    <2>3. QED
      BY <1>2, <2>1, <2>2
  <1>4. t # Absent
    BY <1>3, NamesAssumption
  <1>5. \A q : Has(t, q) <=> Has(s, q) \/ q = r
    BY <1>3, <1>4 DEF Has
  <1>6. Grows(nat, nat')
    BY <1>2, <1>4, <1>5 DEF Grows
  <1>7. NatInv'
    BY <1>2, <1>3 DEF NatInv
  <1>8. QED
    BY <1>1, <1>2, <1>3, <1>4, <1>5, <1>6, <1>7

LEMMA MakeFacts ==
  ASSUME NatInv, NEW chain \in Chains, nat[chain] = Absent, nat' = [nat EXCEPT ![chain] = <<>>]
  PROVE  /\ NatInv' /\ Grows(nat, nat')
         /\ \A x \in Chains \ {chain} : nat'[x] = nat[x]
         /\ nat'[chain] = <<>> /\ nat'[chain] # Absent
  <1>1. /\ \A x \in Chains \ {chain} : nat'[x] = nat[x]
        /\ nat'[chain] = <<>> /\ nat' = [x \in Chains |-> nat'[x]]
    BY DEF NatInv
  <1>2. <<>> # Absent /\ <<>> \in Seq(Rules(chain))
    <2>1. <<>> \in Seq(Rules(chain))
      OBVIOUS
    <2>2. QED
      BY <2>1, NamesAssumption
  <1>3. NatInv'
    BY <1>1, <1>2 DEF NatInv
  <1>4. Grows(nat, nat')
    BY <1>1, <1>2 DEF Grows
  <1>5. QED
    BY <1>1, <1>2, <1>3, <1>4

LEMMA UndoFacts ==
  ASSUME NatInv, NEW c \in Containers, Unjump(c) \/ Flush(c) \/ DeleteChain(c) \/ UNCHANGED nat
  PROVE  /\ NatInv' /\ GrowsBut(nat, nat', c)
         /\ \A x \in Chains \ {c, "TOP"} : nat'[x] = nat[x]
         /\ nat["TOP"] = Absent => nat'["TOP"] = Absent
         /\ \A r : Has(nat'["TOP"], r) => Has(nat["TOP"], r)
         /\ nat'[c] \in {nat[c], Absent, <<>>}
         /\ nat[c] = Absent => nat'[c] = Absent
         /\ \A d \in Containers : nat["TOP"] # Absent /\ Once(nat["TOP"], Jump(d))
                                 => Once(nat'["TOP"], Jump(d))
  <1>1. "TOP" \in Chains /\ c \in Chains /\ c # "TOP"
    BY NamesAssumption DEF Chains, Shared
  <1>2. CASE UNCHANGED nat
    BY <1>2 DEF NatInv, GrowsBut
  <1>3. CASE Unjump(c) /\ nat["TOP"] # Absent
    <2> DEFINE s == nat["TOP"]  t == nat'["TOP"]
    <2>1. s \in Seq(Rules("TOP"))
      BY <1>1, <1>3 DEF NatInv
    <2>2. /\ \A x \in Chains \ {"TOP"} : nat'[x] = nat[x]
          /\ t = RemoveFirst(s, Jump(c)) /\ nat' = [x \in Chains |-> nat'[x]]
      BY <1>1, <1>3 DEF NatInv, Unjump
    <2> HIDE DEF s, t
    <2>3. /\ t \in Seq(Rules("TOP"))
          /\ \A r : r # Jump(c) => (Contains(t, r) <=> Contains(s, r))
          /\ Once(s, Jump(c)) => ~ Contains(t, Jump(c))
          /\ \A r : Once(s, r) => Once(t, r)
      BY <2>1, <2>2, RemoveFacts
    <2>4. t # Absent /\ s # Absent
      BY <1>1, <1>3, <2>3, NamesAssumption DEF s
    <2>5. NatInv'
      BY <2>2, <2>3 DEF NatInv, t
    <2>6. GrowsBut(nat, nat', c)
      BY <2>2, <2>3, <2>4 DEF GrowsBut, Has, s, t
    <2>7. \A r : Has(t, r) => Has(s, r)
      <3>1. ASSUME Contains(t, Jump(c)) PROVE Contains(s, Jump(c))
        <4>1. CASE Contains(s, Jump(c))
          BY <4>1
        <4>2. CASE ~ Contains(s, Jump(c))
          BY <2>2, <3>1, <4>2 DEF RemoveFirst, Contains
        <4>3. QED
          BY <4>1, <4>2
      <3>2. QED
        BY <2>3, <2>4, <3>1 DEF Has
    <2>8. QED
      BY <1>1, <2>2, <2>3, <2>4, <2>5, <2>6, <2>7 DEF s, t
  <1>4. CASE Unjump(c) /\ nat["TOP"] = Absent
    BY <1>4, <1>2 DEF Unjump
  <1>5. CASE Flush(c) \/ DeleteChain(c)
    <2>1. /\ \A x \in Chains \ {c} : nat'[x] = nat[x]
          /\ nat'[c] \in {nat[c], Absent, <<>>} /\ nat' = [x \in Chains |-> nat'[x]]
          /\ nat[c] = Absent => nat'[c] = Absent
      BY <1>1, <1>5 DEF NatInv, Flush, DeleteChain
    <2>2. <<>> \in Seq(Rules(c))
      OBVIOUS
    <2>3. NatInv'
      BY <1>1, <2>1, <2>2 DEF NatInv
    <2>4. GrowsBut(nat, nat', c)
      BY <2>1 DEF GrowsBut
    <2>5. QED
      BY <1>1, <2>1, <2>3, <2>4
  <1>6. QED
    BY <1>2, <1>3, <1>4, <1>5

LEMMA UnjumpFacts ==
  ASSUME NatInv, NEW c \in Containers, Unjump(c),
         nat["TOP"] # Absent => Once(nat["TOP"], Jump(c))
  PROVE  ~ Has(nat'["TOP"], Jump(c))
  <1>1. "TOP" \in Chains
    BY DEF Chains, Shared
  <1>2. CASE nat["TOP"] # Absent
    <2>1. nat["TOP"] \in Seq(Rules("TOP"))
      BY <1>1, <1>2 DEF NatInv
    <2>2. nat'["TOP"] = RemoveFirst(nat["TOP"], Jump(c))
      BY <1>1, <1>2 DEF NatInv, Unjump
    <2>3. QED
      BY <1>2, <2>1, <2>2, RemoveFacts DEF Has
  <1>3. CASE nat["TOP"] = Absent
    BY <1>3 DEF Unjump, Has
  <1>4. QED
    BY <1>2, <1>3

LEMMA PutEffect ==
  ASSUME NatInv, PluginInv, MadeInv, NEW c \in Containers, PutRule(c), ~ UNCHANGED nat
  PROVE  /\ Current(c).chain \in Chains /\ nat[Current(c).chain] # Absent
         /\ Current(c).rule \in Rules(Current(c).chain)
         /\ IF Current(c).op = "insert"
            THEN nat' = [nat EXCEPT ![Current(c).chain] = <<Current(c).rule>> \o @]
            ELSE nat' = [nat EXCEPT ![Current(c).chain] = Append(@, Current(c).rule)]
         /\ NextCommand(c) /\ UNCHANGED <<podIp, spared, flushed, faults>>
  <1>1. /\ Current(c).chain \in Chains /\ nat[Current(c).chain] # Absent
        /\ Current(c).rule \in Rules(Current(c).chain)
    BY CurrentFacts DEF PutRule
  <1>2. QED
    BY <1>1 DEF PutRule, Fail

LEMMA NatStep ==
  ASSUME NatInv, PluginInv, MadeInv, [Next]_vars
  PROVE  NatInv'
  <1>1. CASE UNCHANGED nat
    BY <1>1 DEF NatInv
  <1>2. ASSUME NEW c \in Containers, EnsureChain(c) PROVE NatInv'
    <2>1. Current(c).chain \in Chains
      BY <1>2, CurrentFacts DEF EnsureChain
    <2>2. \/ UNCHANGED nat
          \/ /\ nat[Current(c).chain] = Absent
             /\ nat' = [nat EXCEPT ![Current(c).chain] = <<>>]
      BY <1>2 DEF EnsureChain, Fail
    <2>3. QED
      BY <1>1, <2>1, <2>2, MakeFacts
  <1>3. ASSUME NEW c \in Containers, PutRule(c) PROVE NatInv'
    <2>1. CASE UNCHANGED nat
      BY <1>1, <2>1
    <2>2. CASE ~ UNCHANGED nat
      BY <1>3, <2>2, PutEffect, PutFacts
    <2>3. QED
      BY <2>1, <2>2
  <1>4. ASSUME NEW c \in Containers, Undo(c) PROVE NatInv'
    <2>1. Unjump(c) \/ Flush(c) \/ DeleteChain(c) \/ UNCHANGED nat
      BY <1>4 DEF Undo
    <2>2. QED
      BY <2>1, UndoFacts
  <1>5. CASE FlushNat
    <2>1. \A x \in Chains : <<>> \in Seq(Rules(x))
      OBVIOUS
    <2>2. QED
      BY <1>5, <2>1 DEF FlushNat, NatInv
  <1>6. CASE FlanneldReturn
    <2>1. "POSTROUTING" \in Chains /\ nat["POSTROUTING"] # Absent
      BY DEF Chains, Shared, Hooks, MadeInv
    <2>2. LocalReturn \in Rules("POSTROUTING")
      BY DEF Rules, SharedRules, Shared, Hooks
    <2>3. QED
      BY <1>6, <2>1, <2>2, PutFacts DEF FlanneldReturn
  <1>7. ASSUME NEW c \in Containers, Add(c) \/ Del(c) \/ CheckRule(c) \/ Kill(c)
        PROVE  UNCHANGED nat
    BY <1>7 DEF Add, Del, CheckRule, Kill
  <1>8. QED
    BY <1>1, <1>2, <1>3, <1>4, <1>5, <1>6, <1>7 DEF Next, vars

LEMMA DisturbedFacts ==
  ASSUME PluginInv, NEW kind, Disturbed(kind)
  PROVE  faults' \in 0 .. MaxFaults /\ faults' = faults + 1 /\ faults \in Nat
  BY BoundsAssumption DEF Disturbed, PluginInv

\* What a plugin is at after a step of its own that ends at command k.
LEMMA TurnKeeps ==
  ASSUME PluginInv, NEW c \in Containers, NEW s, NEW k \in Nat, Turn(c, s, k),
         podIp' \in [Containers -> Ips \cup {None}],
         \A d \in Containers \ {c} : podIp'[d] = podIp[d],
         s \in {"none", "add", "ready", "failed", "del"},
         s = "add" => k \in 1 .. Len(Commands(c, podIp'[c])) /\ Mappings[c] # <<>>,
         s \in {"add", "ready"} => podIp'[c] \in Ips,
         s = "del" => k \in 1 .. 3,
         s \notin {"add", "del"} => k = 0,
         spared' \subseteq Containers, flushed' \subseteq Containers,
         faults' \in 0 .. MaxFaults
  PROVE  PluginInv'
  BY DEF PluginInv, Turn, Program

LEMMA NextCommandKeeps ==
  ASSUME PluginInv, NEW c \in Containers, state[c] = "add", NextCommand(c), UNCHANGED podIp,
         spared' \subseteq Containers, flushed' \subseteq Containers,
         faults' \in 0 .. MaxFaults
  PROVE  PluginInv'
  <1>1. /\ at[c] \in 1 .. Len(Program(c)) /\ Mappings[c] # <<>> /\ podIp[c] \in Ips
        /\ podIp \in [Containers -> Ips \cup {None}] /\ at[c] \in Nat
    BY DEF PluginInv
  <1>2. Len(Program(c)) \in Nat /\ Program(c) = Commands(c, podIp'[c])
    BY ProgramFacts DEF ProgramShape, Program
  <1>3. CASE at[c] = Len(Program(c))
    BY <1>1, <1>3, TurnKeeps DEF NextCommand
  <1>4. CASE at[c] # Len(Program(c))
    <2>1. at[c] + 1 \in 1 .. Len(Program(c)) /\ at[c] + 1 \in Nat
      BY <1>1, <1>2, <1>4
    <2>2. Turn(c, "add", at[c] + 1)
      BY <1>4 DEF NextCommand
    <2>3. QED
      BY <1>1, <1>2, <2>1, <2>2, TurnKeeps
  <1>5. QED
    BY <1>3, <1>4

LEMMA PluginStep ==
  ASSUME NatInv, PluginInv, MadeInv, [Next]_vars
  PROVE  PluginInv'
  <1>1. /\ podIp \in [Containers -> Ips \cup {None}]
        /\ spared \subseteq Containers /\ flushed \subseteq Containers
        /\ faults \in 0 .. MaxFaults
    BY DEF PluginInv
  <1>2. ASSUME NEW c \in Containers, Add(c) PROVE PluginInv'
    <2>1. PICK i \in Ips : podIp' = [podIp EXCEPT ![c] = i]
      BY <1>2 DEF Add
    <2>2. /\ podIp' \in [Containers -> Ips \cup {None}] /\ podIp'[c] \in Ips
          /\ \A d \in Containers \ {c} : podIp'[d] = podIp[d]
      BY <1>1, <2>1
    <2>3. /\ spared' \subseteq Containers /\ flushed' \subseteq Containers
          /\ faults' \in 0 .. MaxFaults
      BY <1>1, <1>2, DisturbedFacts DEF Add
    <2>4. 1 \in 1 .. Len(Commands(c, podIp'[c]))
      BY ProgramFacts DEF ProgramShape
    <2>5. CASE Mappings[c] # <<>> /\ Turn(c, "add", 1)
      BY <2>2, <2>3, <2>4, <2>5, TurnKeeps
    <2>6. CASE Turn(c, "ready", 0)
      BY <2>2, <2>3, <2>6, TurnKeeps
    <2>7. CASE Turn(c, "failed", 0)
      BY <2>2, <2>3, <2>7, TurnKeeps
    <2>8. QED
      BY <1>2, <2>5, <2>6, <2>7 DEF Add
  <1>3. ASSUME NEW c \in Containers, Del(c) PROVE PluginInv'
    <2>1. /\ podIp' \in [Containers -> Ips \cup {None}]
          /\ \A d \in Containers \ {c} : podIp'[d] = podIp[d]
      BY <1>1, <1>3 DEF Del
    <2>2. /\ spared' \subseteq Containers /\ flushed' \subseteq Containers
          /\ faults' \in 0 .. MaxFaults
      BY <1>1, <1>3, DisturbedFacts DEF Del
    <2>3. CASE Turn(c, "none", 0)
      BY <2>1, <2>2, <2>3, TurnKeeps
    <2>4. CASE Turn(c, "del", 1)
      BY <2>1, <2>2, <2>4, TurnKeeps
    <2>5. QED
      BY <1>3, <2>3, <2>4 DEF Del
  <1>4. CASE FlushNat
    <2>1. faults' \in 0 .. MaxFaults
      BY <1>4, DisturbedFacts DEF FlushNat
    <2>2. QED
      BY <1>4, <2>1 DEF FlushNat, PluginInv, Program
  <1>5. CASE FlanneldReturn \/ UNCHANGED vars
    BY <1>5 DEF FlanneldReturn, PluginInv, Program, vars
  <1>6. ASSUME NEW c \in Containers, Fail(c), UNCHANGED <<podIp, spared, flushed>>
        PROVE  PluginInv'
    BY <1>1, <1>6, DisturbedFacts, TurnKeeps DEF Fail
  <1>7. ASSUME NEW c \in Containers, EnsureChain(c) PROVE PluginInv'
    BY <1>1, <1>6, <1>7, NextCommandKeeps DEF EnsureChain
  <1>8. ASSUME NEW c \in Containers, CheckRule(c) PROVE PluginInv'
    <2>1. CASE NextCommand(c) /\ UNCHANGED <<spared, faults>>
      BY <1>1, <1>8, <2>1, NextCommandKeeps DEF CheckRule
    <2>2. CASE phase' = [phase EXCEPT ![c] = "add"] /\ UNCHANGED <<state, at>>
      <3>1. spared' \subseteq Containers /\ faults' \in 0 .. MaxFaults
        BY <1>1, <1>8, DisturbedFacts DEF CheckRule
      <3>2. QED
        BY <1>8, <2>2, <3>1 DEF CheckRule, PluginInv, Program
    <2>3. QED
      BY <1>8, <2>1, <2>2 DEF CheckRule
  <1>9. ASSUME NEW c \in Containers, PutRule(c) PROVE PluginInv'
    BY <1>1, <1>6, <1>9, NextCommandKeeps DEF PutRule
  <1>10. ASSUME NEW c \in Containers, Undo(c) PROVE PluginInv'
    <2>1. /\ spared' \subseteq Containers /\ flushed' \subseteq Containers
          /\ faults' \in 0 .. MaxFaults
      BY <1>1, <1>10, DisturbedFacts DEF Undo
    <2>2. at[c] \in 1 .. 3
      BY <1>10 DEF Undo, PluginInv
    <2>3. /\ podIp' \in [Containers -> Ips \cup {None}]
          /\ \A d \in Containers \ {c} : podIp'[d] = podIp[d]
      BY <1>1, <1>10 DEF Undo
    <2>4. CASE at[c] = 3
      BY <1>10, <2>1, <2>3, <2>4, TurnKeeps DEF Undo
    <2>5. CASE at[c] # 3
      <3>1. at[c] + 1 \in 1 .. 3 /\ at[c] + 1 \in Nat /\ Turn(c, "del", at[c] + 1)
        BY <1>10, <2>2, <2>5 DEF Undo
      <3>2. QED
        BY <2>1, <2>3, <3>1, TurnKeeps
    <2>6. QED
      BY <2>4, <2>5
  <1>11. ASSUME NEW c \in Containers, Kill(c) PROVE PluginInv'
    BY <1>1, <1>11, DisturbedFacts, TurnKeeps DEF Kill
  <1>12. QED
    BY <1>2, <1>3, <1>4, <1>5, <1>7, <1>8, <1>9, <1>10, <1>11 DEF Next

-----------------------------------------------------------------------------
(* What an ADD has done *)

LEMMA TableStep ==
  ASSUME NatInv, PluginInv, MadeInv, [Next]_vars
  PROVE  Grows(nat, nat') \/ FlushNat \/ \E d \in Containers : Undo(d) /\ GrowsBut(nat, nat', d)
  <1>1. ASSUME UNCHANGED nat PROVE Grows(nat, nat')
    BY <1>1 DEF Grows
  <1>2. ASSUME NEW c \in Containers, EnsureChain(c) PROVE Grows(nat, nat')
    <2>1. Current(c).chain \in Chains
      BY <1>2, CurrentFacts DEF EnsureChain
    <2>2. \/ UNCHANGED nat
          \/ /\ nat[Current(c).chain] = Absent
             /\ nat' = [nat EXCEPT ![Current(c).chain] = <<>>]
      BY <1>2 DEF EnsureChain, Fail
    <2>3. CASE /\ nat[Current(c).chain] = Absent
               /\ nat' = [nat EXCEPT ![Current(c).chain] = <<>>]
      <3> DEFINE chain == Current(c).chain
      <3> HIDE DEF chain
      <3>1. chain \in Chains /\ nat[chain] = Absent /\ nat' = [nat EXCEPT ![chain] = <<>>]
        BY <2>1, <2>3 DEF chain
      <3>2. QED
        BY <3>1, MakeFacts
    <2>4. QED
      BY <1>1, <2>2, <2>3
  <1>3. ASSUME NEW c \in Containers, PutRule(c) PROVE Grows(nat, nat')
    <2>1. CASE ~ UNCHANGED nat
      <3> DEFINE chain == Current(c).chain  r == Current(c).rule
      <3> HIDE DEF chain, r
      <3>1. /\ chain \in Chains /\ nat[chain] # Absent /\ r \in Rules(chain)
            /\ \/ nat' = [nat EXCEPT ![chain] = Append(@, r)]
               \/ nat' = [nat EXCEPT ![chain] = <<r>> \o @]
        BY <1>3, <2>1, PutEffect DEF chain, r
      <3>2. QED
        BY <3>1, PutFacts
    <2>2. QED
      BY <1>1, <2>1
  <1>4. ASSUME NEW c \in Containers, Undo(c) PROVE GrowsBut(nat, nat', c)
    <2>1. Unjump(c) \/ Flush(c) \/ DeleteChain(c) \/ UNCHANGED nat
      BY <1>4 DEF Undo
    <2>2. QED
      BY <2>1, UndoFacts
  <1>5. CASE FlanneldReturn
    <2>1. "POSTROUTING" \in Chains /\ nat["POSTROUTING"] # Absent
      BY DEF Chains, Shared, Hooks, MadeInv
    <2>2. LocalReturn \in Rules("POSTROUTING")
      BY DEF Rules, SharedRules, Shared, Hooks
    <2>3. QED
      BY <1>5, <2>1, <2>2, PutFacts DEF FlanneldReturn
  <1>6. ASSUME NEW c \in Containers, Add(c) \/ Del(c) \/ CheckRule(c) \/ Kill(c)
        PROVE  UNCHANGED nat
    BY <1>6 DEF Add, Del, CheckRule, Kill
  <1>7. QED
    BY <1>1, <1>2, <1>3, <1>4, <1>5, <1>6 DEF Next, vars

\* A command is done by its own ADD, when it has had its effect.
LEMMA PassedStep ==
  ASSUME PluginInv, [Next]_vars, NEW c \in Containers, NEW k \in Nat, Passed(c, k)'
  PROVE  /\ podIp'[c] = podIp[c] /\ k \in 1 .. Len(Program(c))
         /\ c \notin flushed' => c \notin flushed /\ ~ FlushNat
         /\ ~ Undo(c)
         /\ \/ Passed(c, k)
            \/ /\ k = at[c] /\ NextCommand(c) /\ state[c] = "add"
               /\ EnsureChain(c) \/ CheckRule(c) \/ PutRule(c)
  <1>1. /\ state \in [Containers -> {"none", "add", "ready", "failed", "del"}]
        /\ at \in [Containers -> Nat] /\ podIp \in [Containers -> Ips \cup {None}]
        /\ Len(Program(c)) \in Nat
    BY ProgramFacts DEF PluginInv, ProgramShape, Program
  <1>2. /\ Mappings[c] # <<>> /\ k \in 1 .. Len(Commands(c, podIp'[c]))
        /\ state'[c] = "ready" \/ (state'[c] = "add" /\ k < at'[c])
    BY DEF Passed, Program
  <1>3. ~ Undo(c) /\ ~ Add(c) /\ ~ Del(c) /\ ~ Kill(c)
    BY <1>1, <1>2 DEF Undo, Add, Del, Kill, Turn, PluginInv
  <1>4. c \notin flushed' => ~ FlushNat
    BY <1>2 DEF FlushNat
  <1>7. CASE UNCHANGED <<state, at, podIp>> /\ (UNCHANGED flushed \/ FlushNat)
    BY <1>2, <1>3, <1>4, <1>7 DEF Passed, Program
  <1>5. ASSUME NEW d \in Containers \ {c},
               \/ Add(d) \/ EnsureChain(d) \/ CheckRule(d) \/ PutRule(d)
               \/ Del(d) \/ Undo(d) \/ Kill(d)
        PROVE  /\ state'[c] = state[c] /\ at'[c] = at[c] /\ podIp'[c] = podIp[c]
               /\ c \in flushed' <=> c \in flushed
    BY <1>1, <1>5
       DEF Add, EnsureChain, CheckRule, PutRule, Del, Undo, Kill, Fail, NextCommand, Turn
  <1>6. ASSUME EnsureChain(c) \/ CheckRule(c) \/ PutRule(c), ~ UNCHANGED <<state, at>>
        PROVE  /\ podIp'[c] = podIp[c] /\ UNCHANGED flushed
               /\ state[c] = "add" /\ NextCommand(c)
    BY <1>1, <1>2, <1>6 DEF EnsureChain, CheckRule, PutRule, Fail, Turn
  <1>8. ASSUME EnsureChain(c) \/ CheckRule(c) \/ PutRule(c), ~ UNCHANGED <<state, at>>
        PROVE  Passed(c, k) \/ k = at[c]
    BY <1>1, <1>2, <1>6, <1>8 DEF NextCommand, Turn, Passed, Program
  <1>9. ASSUME NEW d \in Containers \ {c},
               \/ Add(d) \/ EnsureChain(d) \/ CheckRule(d) \/ PutRule(d)
               \/ Del(d) \/ Undo(d) \/ Kill(d)
        PROVE  Passed(c, k)
    BY <1>2, <1>5, <1>9 DEF Passed, Program
  <1>10. CASE \E d \in Containers \ {c} :
                \/ Add(d) \/ EnsureChain(d) \/ CheckRule(d) \/ PutRule(d)
                \/ Del(d) \/ Undo(d) \/ Kill(d)
    <2>1. podIp'[c] = podIp[c] /\ (c \in flushed' <=> c \in flushed) /\ Passed(c, k)
      BY <1>5, <1>9, <1>10
    <2>2. k \in 1 .. Len(Program(c))
      BY <1>2, <2>1 DEF Program
    <2>3. QED
      BY <1>3, <1>4, <2>1, <2>2
  <1>11. CASE (EnsureChain(c) \/ CheckRule(c) \/ PutRule(c)) /\ ~ UNCHANGED <<state, at>>
    <2>1. k \in 1 .. Len(Program(c))
      BY <1>2, <1>6, <1>11 DEF Program
    <2>2. QED
      BY <1>3, <1>4, <1>6, <1>8, <1>11, <2>1
  <1>12. (EnsureChain(c) \/ CheckRule(c) \/ PutRule(c)) => UNCHANGED podIp /\ UNCHANGED flushed
    BY DEF EnsureChain, CheckRule, PutRule
  <1>13. /\ UNCHANGED vars => UNCHANGED <<state, at, podIp, flushed>>
         /\ FlanneldReturn => UNCHANGED <<state, at, podIp, flushed>>
         /\ FlushNat => UNCHANGED <<state, at, podIp>>
    BY DEF vars, FlanneldReturn, FlushNat
  <1>14. \/ UNCHANGED vars \/ FlanneldReturn \/ FlushNat
         \/ \E d \in Containers :
              \/ Add(d) \/ EnsureChain(d) \/ CheckRule(d) \/ PutRule(d)
              \/ Del(d) \/ Undo(d) \/ Kill(d)
    BY DEF Next
  <1>15. QED
    BY <1>3, <1>7, <1>10, <1>11, <1>12, <1>13, <1>14

\* A command that has passed is one of those CommandShape describes.
LEMMA PassedShape ==
  ASSUME PluginInv, [Next]_vars, NEW c \in Containers, NEW k \in Nat, Passed(c, k)'
  PROVE  /\ Program(c)' = Program(c) /\ CommandShape(Program(c), c, podIp[c], k)
         /\ Program(c)[k].chain \in Chains
  <1>1. podIp'[c] = podIp[c] /\ k \in 1 .. Len(Program(c))
    BY PassedStep
  <1>2. podIp[c] \in Ips
    BY PassedStep DEF PluginInv, Passed
  <1>3. CommandShape(Program(c), c, podIp[c], k)
    BY <1>1, <1>2, CommandFacts DEF Program
  <1>4. Program(c)' = Program(c)
    BY <1>1 DEF Program
  <1>5. QED
    BY <1>3, <1>4 DEF CommandShape, Chains

LEMMA EmptyThere == <<>> # Absent
  <1>1. "TOP" \in Chains /\ <<>> \in Seq(Rules("TOP"))
    BY DEF Chains, Shared
  <1>2. QED
    BY <1>1, NamesAssumption

\* An ADD that goes on has not failed.
LEMMA NotFailed ==
  ASSUME PluginInv, NEW c \in Containers, NextCommand(c)
  PROVE  ~ Fail(c) /\ phase'[c] = "check"
  <1>1. /\ state \in [Containers -> {"none", "add", "ready", "failed", "del"}]
        /\ phase \in [Containers -> {"check", "add"}]
    BY DEF PluginInv
  <1>2. QED
    BY <1>1 DEF NextCommand, Fail, Turn

\* The chains of all commands, in the step after.
LEMMA ChainsStay ==
  ASSUME NatInv, PluginInv, MadeInv, [Next]_vars,
         NEW x \in Chains, nat[x] # Absent,
         \A d \in Containers : Undo(d) => x # d
  PROVE  /\ nat'[x] # Absent
         /\ ~ FlushNat => \A r : /\ Has(nat[x], r)
                                 /\ \A d \in Containers : Undo(d) => ~ (x = "TOP" /\ r = Jump(d))
                                 => Has(nat'[x], r)
  <1>1. CASE Grows(nat, nat')
    BY <1>1 DEF Grows
  <1>2. CASE FlushNat
    BY <1>2, EmptyThere DEF FlushNat
  <1>3. ASSUME NEW d \in Containers, Undo(d), GrowsBut(nat, nat', d)
        PROVE  /\ nat'[x] # Absent
               /\ \A r : Has(nat[x], r) /\ ~ (x = "TOP" /\ r = Jump(d)) => Has(nat'[x], r)
    BY <1>3 DEF GrowsBut
  <1>4. QED
    BY <1>1, <1>2, <1>3, TableStep

LEMMA MadeStep ==
  ASSUME NatInv, PluginInv, MadeInv, [Next]_vars
  PROVE  MadeInv'
  <1>1. ASSUME NEW hook \in Hooks PROVE nat'[hook] # Absent
    <2>1. hook \in Chains /\ hook \notin Containers /\ nat[hook] # Absent
      BY NamesAssumption DEF Chains, Shared, MadeInv
    <2>2. QED
      BY <2>1, ChainsStay
  <1>2. ASSUME NEW c \in Containers, NEW k \in 1 .. Len(Program(c)'),
               Passed(c, k)', Program(c)'[k].op = "new"
        PROVE  nat'[Program(c)'[k].chain] # Absent
    <2> DEFINE chain == Program(c)[k].chain
    <2>1. /\ Program(c)' = Program(c) /\ k \in 1 .. Len(Program(c)) /\ k \in Nat
          /\ CommandShape(Program(c), c, podIp[c], k) /\ chain \in Chains
      BY <1>2, PassedStep, PassedShape
    <2>2. \A d \in Containers : Undo(d) => chain # d
      BY <1>2, <2>1, PassedStep, NamesAssumption DEF CommandShape
    <2>3. CASE nat[chain] # Absent
      BY <2>1, <2>2, <2>3, ChainsStay
    <2>4. CASE nat[chain] = Absent
      <3>1. ~ Passed(c, k)
        BY <1>2, <2>1, <2>4 DEF MadeInv
      <3>2. k = at[c] /\ NextCommand(c) /\ (EnsureChain(c) \/ CheckRule(c) \/ PutRule(c))
        BY <1>2, <2>1, <3>1, PassedStep
      <3>3. EnsureChain(c) /\ Current(c).chain = chain
        BY <1>2, <2>1, <3>2 DEF CheckRule, PutRule, Current
      <3>4. nat' = [nat EXCEPT ![chain] = <<>>]
        BY <2>4, <3>2, <3>3, NotFailed DEF EnsureChain
      <3>5. QED
        BY <2>1, <2>4, <3>4, MakeFacts
    <2>5. QED
      BY <2>3, <2>4
  <1>3. QED
    BY <1>1, <1>2 DEF MadeInv

LEMMA DoneStep ==
  ASSUME NatInv, PluginInv, MadeInv, DoneInv, [Next]_vars
  PROVE  DoneInv'
  <1> SUFFICES ASSUME NEW c \in Containers, c \notin flushed', NEW k \in 1 .. Len(Program(c)'),
                      Passed(c, k)', Program(c)'[k].op # "new"
               PROVE  Has(nat'[Program(c)'[k].chain], Program(c)'[k].rule)
    BY DEF DoneInv
  <1> DEFINE chain == Program(c)[k].chain  r == Program(c)[k].rule
  <1>1. /\ Program(c)' = Program(c) /\ k \in 1 .. Len(Program(c)) /\ k \in Nat
        /\ CommandShape(Program(c), c, podIp[c], k) /\ chain \in Chains
        /\ c \notin flushed /\ ~ FlushNat /\ ~ Undo(c)
    BY PassedStep, PassedShape
  <1> SUFFICES Has(nat'[chain], r)
    BY <1>1
  <1>2. CASE Passed(c, k)
    <2>1. Has(nat[chain], r)
      BY <1>1, <1>2 DEF DoneInv
    <2>2. \A d \in Containers : Undo(d) => chain # d /\ ~ (chain = "TOP" /\ r = Jump(d))
      BY <1>1, NamesAssumption DEF CommandShape, Jump
    <2>3. QED
      BY <1>1, <2>1, <2>2, ChainsStay DEF Has
  <1>3. CASE ~ Passed(c, k)
    <2>1. /\ k = at[c] /\ NextCommand(c) /\ state[c] = "add"
          /\ EnsureChain(c) \/ CheckRule(c) \/ PutRule(c)
      BY <1>1, <1>3, PassedStep
    <2>2. Current(c).chain = chain /\ Current(c).rule = r /\ Current(c).op # "new"
      BY <1>1, <2>1 DEF Current
    <2>3. CASE CheckRule(c)
      <3>1. phase'[c] = "check" /\ phase \in [Containers -> {"check", "add"}]
        BY <2>1, NotFailed DEF PluginInv
      <3>2. Present(Current(c).chain, Current(c).rule) /\ UNCHANGED nat
        BY <2>3, <3>1 DEF CheckRule
      <3>3. QED
        BY <2>2, <3>2 DEF Present, Has
    <2>4. CASE PutRule(c)
      <3>1. nat[chain] # Absent /\ r \in Rules(chain)
        BY <2>1, <2>2, CurrentFacts
      <3>2. \/ nat' = [nat EXCEPT ![chain] = Append(@, r)]
            \/ nat' = [nat EXCEPT ![chain] = <<r>> \o @]
        BY <2>1, <2>2, <2>4, NotFailed DEF PutRule
      <3> HIDE DEF chain, r
      <3>3. QED
        BY <1>1, <3>1, <3>2, PutFacts
    <2>5. QED
      BY <2>1, <2>2, <2>3, <2>4 DEF EnsureChain
  <1>4. QED
    BY <1>2, <1>3

-----------------------------------------------------------------------------
(* What a DEL undoes *)

Own(c) ==
  \/ Add(c) \/ EnsureChain(c) \/ CheckRule(c) \/ PutRule(c)
  \/ Del(c) \/ Undo(c) \/ Kill(c)

\* A step of one plugin leaves what the others are at.
LEMMA OthersKept ==
  ASSUME PluginInv, NEW c \in Containers, NEW d \in Containers \ {c}, Own(d)
  PROVE  /\ state'[c] = state[c] /\ at'[c] = at[c] /\ phase'[c] = phase[c]
         /\ podIp'[c] = podIp[c]
         /\ c \in spared' <=> c \in spared
         /\ c \in flushed' <=> c \in flushed
  <1>1. /\ state \in [Containers -> {"none", "add", "ready", "failed", "del"}]
        /\ at \in [Containers -> Nat] /\ podIp \in [Containers -> Ips \cup {None}]
        /\ phase \in [Containers -> {"check", "add"}]
    BY DEF PluginInv
  <1>2. QED
    BY <1>1
       DEF Own, Add, EnsureChain, CheckRule, PutRule, Del, Undo, Kill, Fail, NextCommand, Turn

\* ... and that of the environment.
LEMMA Steps ==
  ASSUME [Next]_vars
  PROVE  \/ UNCHANGED vars \/ FlanneldReturn \/ FlushNat
         \/ \E d \in Containers : Own(d)
  BY DEF Next, Own

\* Who changes the chain of a container.
LEMMA OwnChain ==
  ASSUME NatInv, PluginInv, MadeInv, [Next]_vars, NEW c \in Containers
  PROVE  /\ \/ nat'[c] = nat[c]
            \/ FlushNat /\ nat'[c] = IF nat[c] = Absent THEN Absent ELSE <<>>
            \/ EnsureChain(c) /\ at[c] = 9 /\ nat[c] = Absent /\ nat'[c] = <<>>
            \/ /\ PutRule(c) /\ NextCommand(c) /\ nat[c] # Absent
               /\ Current(c).chain = c /\ Current(c).op = "append" /\ at[c] > 10
               /\ nat'[c] = Append(nat[c], Current(c).rule)
            \/ Undo(c)
         /\ \A d \in Containers \ {c} : Own(d) => nat'[c] = nat[c]
  <1>1. c \in Chains /\ c \notin Shared
    BY NamesAssumption DEF Chains
  <1>2. CASE UNCHANGED nat
    BY <1>2
  <1>3. ASSUME FlanneldReturn PROVE nat'[c] = nat[c]
    BY <1>1, <1>3 DEF FlanneldReturn, NatInv, Shared, Hooks
  <1>4. ASSUME FlushNat PROVE nat'[c] = IF nat[c] = Absent THEN Absent ELSE <<>>
    BY <1>1, <1>4 DEF FlushNat
  <1>5. ASSUME NEW d \in Containers, EnsureChain(d), ~ UNCHANGED nat
        PROVE  nat'[c] = nat[c] \/ (d = c /\ at[c] = 9 /\ nat[c] = Absent /\ nat'[c] = <<>>)
    <2>1. /\ state[d] = "add" /\ Current(d).op = "new" /\ nat[Current(d).chain] = Absent
          /\ nat' = [nat EXCEPT ![Current(d).chain] = <<>>]
      BY <1>5 DEF EnsureChain, Fail
    <2>2. /\ Current(d).chain \in {"TOP", "SETMARK", "MASQ", d}
          /\ Current(d).chain = d => at[d] = 9
          /\ Current(d).chain \in Chains
      BY <2>1, CurrentFacts DEF CommandShape, Current
    <2>3. CASE Current(d).chain = c
      BY <1>1, <1>5, <2>1, <2>2, <2>3, MakeFacts DEF Shared
    <2>4. CASE Current(d).chain # c
      BY <1>1, <2>1, <2>2, <2>4, MakeFacts
    <2>5. QED
      BY <2>3, <2>4
  <1>6. ASSUME NEW d \in Containers, PutRule(d), ~ UNCHANGED nat
        PROVE  \/ nat'[c] = nat[c]
               \/ /\ d = c /\ NextCommand(c) /\ nat[c] # Absent
                  /\ Current(c).chain = c /\ Current(c).op = "append" /\ at[c] > 10
                  /\ nat'[c] = Append(nat[c], Current(c).rule)
    <2> DEFINE chain == Current(d).chain  r == Current(d).rule
    <2>1. /\ chain \in Chains /\ nat[chain] # Absent /\ r \in Rules(chain)
          /\ IF Current(d).op = "insert" THEN nat' = [nat EXCEPT ![chain] = <<r>> \o @]
                                         ELSE nat' = [nat EXCEPT ![chain] = Append(@, r)]
          /\ NextCommand(d)
      BY <1>6, PutEffect
    <2>2. /\ state[d] = "add" /\ Current(d).op # "new"
          /\ chain \in Shared \cup {d}
          /\ chain = d => Current(d).op = "append" /\ at[d] > 10
      BY <1>6, CurrentFacts DEF PutRule, CommandShape, Current
    <2>3. CASE chain = c
      <3>1. c = d
        BY <1>1, <2>2, <2>3
      <3>2. nat' = [nat EXCEPT ![c] = Append(@, Current(c).rule)]
        BY <2>1, <2>2, <2>3, <3>1
      <3>3. QED
        BY <1>1, <1>6, <2>1, <2>2, <2>3, <3>1, <3>2 DEF NatInv
    <2>4. CASE chain # c
      BY <1>1, <2>1, <2>4 DEF NatInv
    <2>5. QED
      BY <2>3, <2>4
  <1>7. ASSUME NEW d \in Containers, Undo(d) PROVE nat'[c] = nat[c] \/ d = c
    <2>1. Unjump(d) \/ Flush(d) \/ DeleteChain(d) \/ UNCHANGED nat
      BY <1>7 DEF Undo
    <2>2. \A x \in Chains \ {d, "TOP"} : nat'[x] = nat[x]
      BY <2>1, UndoFacts
    <2>3. QED
      BY <1>1, <1>7, <2>2 DEF Shared
  <1>8. ASSUME NEW d \in Containers, Add(d) \/ Del(d) \/ CheckRule(d) \/ Kill(d)
        PROVE  UNCHANGED nat
    BY <1>8 DEF Add, Del, CheckRule, Kill
  <1>9. UNCHANGED vars => UNCHANGED nat
    BY DEF vars
  <1>10. ASSUME NEW d \in Containers \ {c}, Own(d) PROVE nat'[c] = nat[c]
    BY <1>5, <1>6, <1>7, <1>8, <1>10 DEF Own
  <1>11. ASSUME Own(c)
         PROVE  \/ nat'[c] = nat[c]
                \/ EnsureChain(c) /\ at[c] = 9 /\ nat[c] = Absent /\ nat'[c] = <<>>
                \/ /\ PutRule(c) /\ NextCommand(c) /\ nat[c] # Absent
                   /\ Current(c).chain = c /\ Current(c).op = "append" /\ at[c] > 10
                   /\ nat'[c] = Append(nat[c], Current(c).rule)
                \/ Undo(c)
    <2>1. CASE EnsureChain(c)
      BY <1>5, <2>1
    <2>2. CASE PutRule(c)
      BY <1>6, <2>2
    <2>3. CASE Add(c) \/ Del(c) \/ CheckRule(c) \/ Kill(c)
      BY <1>8, <2>3
    <2>4. QED
      BY <1>11, <2>1, <2>2, <2>3 DEF Own
  <1>12. \/ UNCHANGED vars \/ FlanneldReturn \/ FlushNat \/ Own(c)
         \/ \E d \in Containers \ {c} : Own(d)
    BY Steps
  <1>13. CASE UNCHANGED vars \/ FlanneldReturn \/ FlushNat
    BY ONLY <1>3, <1>4, <1>9, <1>10, <1>13
  <1>14. QED
    BY ONLY <1>10, <1>11, <1>12, <1>13

\* A command that is done moves its ADD on.
LEMMA PutMoves ==
  ASSUME PluginInv, NEW c \in Containers, NextCommand(c), state[c] = "add"
  PROVE  ~ UNCHANGED <<state, at>> /\ (state'[c] = state[c] => at'[c] # at[c])
  <1>1. /\ state \in [Containers -> {"none", "add", "ready", "failed", "del"}]
        /\ at \in [Containers -> Nat]
    BY DEF PluginInv
  <1>2. QED
    BY <1>1 DEF NextCommand, Turn

\* Where a container is after a step of its own ADD that is none of a chain of its own.
LEMMA AddTurns ==
  ASSUME PluginInv, NEW c \in Containers, EnsureChain(c) \/ CheckRule(c) \/ PutRule(c)
  PROVE  /\ state[c] = "add" /\ Mappings[c] # <<>> /\ UNCHANGED <<podIp, flushed>>
         /\ spared \subseteq spared'
         /\ \/ NextCommand(c) /\ UNCHANGED <<spared, faults>>
               /\ IF at[c] = Len(Program(c)) THEN state'[c] = "ready" /\ at'[c] = 0
                                             ELSE state'[c] = "add" /\ at'[c] = at[c] + 1
            \/ state'[c] = "failed" /\ at'[c] = 0 /\ UNCHANGED nat
            \/ /\ CheckRule(c) /\ UNCHANGED <<nat, state, at>>
               /\ Present(Current(c).chain, Current(c).rule) => c \in spared'
         /\ Len(Program(c)) > 10 /\ at[c] \in 1 .. Len(Program(c)) /\ at[c] \in Nat
  <1>1. /\ state \in [Containers -> {"none", "add", "ready", "failed", "del"}]
        /\ at \in [Containers -> Nat]
    BY DEF PluginInv
  <1>2. state[c] = "add" /\ Mappings[c] # <<>> /\ at[c] \in 1 .. Len(Program(c))
    BY DEF EnsureChain, CheckRule, PutRule, PluginInv
  <1>3. Len(Program(c)) > 10
    <2>1. Len(Mappings[c]) \in Nat /\ Len(Mappings[c]) # 0
      BY <1>2, MappingsAssumption
    <2>2. Len(Program(c)) = 10 + 3 * Len(Mappings[c])
      BY ProgramFacts DEF ProgramShape, Program
    <2>3. QED
      BY <2>1, <2>2
  <1>4. NextCommand(c) =>
          IF at[c] = Len(Program(c)) THEN state'[c] = "ready" /\ at'[c] = 0
                                     ELSE state'[c] = "add" /\ at'[c] = at[c] + 1
    BY <1>1 DEF NextCommand, Turn
  <1>5. Fail(c) => state'[c] = "failed" /\ at'[c] = 0 /\ UNCHANGED nat
    BY <1>1 DEF Fail, Turn
  <1>6. CASE EnsureChain(c)
    BY <1>1, <1>2, <1>3, <1>4, <1>5, <1>6 DEF EnsureChain
  <1>7. CASE CheckRule(c)
    BY <1>1, <1>2, <1>3, <1>4, <1>7 DEF CheckRule
  <1>8. CASE PutRule(c)
    BY <1>1, <1>2, <1>3, <1>4, <1>5, <1>8 DEF PutRule
  <1>9. QED
    BY <1>6, <1>7, <1>8

LEMMA OwnFlush ==
  ASSUME FlushNat, NEW c \in Containers
  PROVE  nat'[c] = IF nat[c] = Absent THEN Absent ELSE <<>>
  BY DEF FlushNat, Chains

LEMMA CleanStep ==
  ASSUME NatInv, PluginInv, MadeInv, CleanInv, JumpInv, [Next]_vars
  PROVE  CleanInv'
  <1> SUFFICES ASSUME NEW c \in Containers
               PROVE  /\ Mappings[c] = <<>> => nat'[c] = Absent
                      /\ c \notin spared'
                         /\ (state'[c] = "none" \/ (state'[c] = "add" /\ at'[c] <= 9))
                         => nat'[c] = Absent
                      /\ c \notin spared' /\ state'[c] = "del" /\ at'[c] = 3
                         => nat'[c] \in {Absent, <<>>}
    BY DEF CleanInv
  <1>1. /\ Mappings[c] = <<>> => nat[c] = Absent
        /\ c \notin spared /\ (state[c] = "none" \/ (state[c] = "add" /\ at[c] <= 9))
             => nat[c] = Absent
        /\ c \notin spared /\ state[c] = "del" /\ at[c] = 3 => nat[c] \in {Absent, <<>>}
    BY DEF CleanInv
  <1>2. /\ state \in [Containers -> {"none", "add", "ready", "failed", "del"}]
        /\ at \in [Containers -> Nat] /\ spared \subseteq Containers
    BY DEF PluginInv
  <1>3. CASE UNCHANGED vars \/ FlanneldReturn \/ FlushNat
    <2>1. UNCHANGED <<state, at, spared>>
      BY <1>3 DEF vars, FlanneldReturn, FlushNat
    <2>2. nat'[c] = nat[c] \/ nat'[c] = IF nat[c] = Absent THEN Absent ELSE <<>>
      <3>1. c \in Chains /\ c # "POSTROUTING"
        BY NamesAssumption DEF Chains, Shared, Hooks
      <3>2. QED
        BY <1>3, <3>1 DEF vars, FlanneldReturn, FlushNat, NatInv
    <2>3. QED
      BY <1>1, <2>1, <2>2
  <1>4. CASE \E d \in Containers \ {c} : Own(d)
    BY <1>1, <1>4, OwnChain, OthersKept
  <1>5. CASE Add(c) \/ Del(c) \/ Kill(c)
    BY <1>1, <1>2, <1>5 DEF Add, Del, Kill, Turn
  <1>6. CASE EnsureChain(c) \/ CheckRule(c) \/ PutRule(c)
    <2>1. CASE nat'[c] = nat[c]
      BY <1>1, <1>6, <2>1, AddTurns
    <2>2. CASE nat'[c] # nat[c]
      <3>1. state[c] = "add" /\ ~ Undo(c) /\ at[c] \in Nat
        BY <1>6, AddTurns DEF Undo
      <3>2. \/ nat'[c] = IF nat[c] = Absent THEN Absent ELSE <<>>
            \/ at[c] = 9
            \/ at[c] > 10 /\ nat[c] # Absent
        BY <2>2, <3>1, OwnChain
      <3>3. \/ state'[c] = "ready"
            \/ state'[c] = "add" /\ at'[c] = at[c] + 1 /\ UNCHANGED spared
        BY <1>6, <2>2, AddTurns
      <3>4. QED
        BY <1>1, <3>1, <3>2, <3>3, <1>6, AddTurns
    <2>3. QED
      BY <2>1, <2>2
  <1>7. CASE Undo(c)
    <2>1. /\ state[c] = "del" /\ spared \subseteq spared' /\ at[c] \in 1 .. 3 /\ c \in Chains
          /\ at' = [at EXCEPT ![c] = IF at[c] = 3 THEN 0 ELSE at[c] + 1]
          /\ at'[c] = IF at[c] = 3 THEN 0 ELSE at[c] + 1
          /\ state'[c] = IF at[c] = 3 THEN "none" ELSE "del"
      BY <1>2, <1>7 DEF Undo, Turn, PluginInv, Chains
    <2>2. CASE c \notin spared'
      <3>1. Unjump(c) \/ Flush(c) \/ DeleteChain(c)
        BY <1>7, <2>2 DEF Undo
      <3>2. CASE at[c] = 1
        <4>1. nat'[c] = nat[c]
          BY <2>1, <3>1, <3>2, NamesAssumption DEF Unjump, Flush, DeleteChain, Shared, NatInv
        <4>2. QED
          BY <1>1, <2>1, <3>2, <4>1
      <3>3. CASE at[c] = 2
        <4>1. nat'[c] = IF nat[c] = Absent THEN Absent ELSE <<>>
          BY <2>1, <3>1, <3>3 DEF Unjump, Flush, DeleteChain, NatInv
        <4>2. QED
          BY <1>1, <2>1, <3>3, <4>1
      <3>4. CASE at[c] = 3
        <4>1. c \notin spared /\ nat[c] \in {Absent, <<>>} /\ ~ Has(nat["TOP"], Jump(c))
          BY <1>1, <2>1, <2>2, <3>4 DEF JumpInv
        <4>2. nat'[c] = Absent
          BY <2>1, <3>1, <3>4, <4>1 DEF Unjump, Flush, DeleteChain, NatInv, Has, Present
        <4>3. QED
          BY <2>1, <3>4, <4>2
      <3>5. QED
        BY <2>1, <3>2, <3>3, <3>4
    <2>3. CASE c \in spared'
      <3>1. Mappings[c] = <<>> => nat'[c] = Absent
        <4>1. nat'[c] = nat[c] \/ (nat[c] # Absent)
          BY <1>7, <2>1, UndoFacts DEF Undo, Unjump, Flush, DeleteChain, NatInv
        <4>2. QED
          BY <1>1, <4>1
      <3>2. QED
        BY <2>3, <3>1
    <2>4. QED
      BY <2>2, <2>3
  <1>8. QED
    BY <1>3, <1>4, <1>5, <1>6, <1>7, Steps DEF Own

\* Who changes a chain that the plugins share.
LEMMA SharedStep ==
  ASSUME NatInv, PluginInv, MadeInv, [Next]_vars, NEW x \in Shared
  PROVE  \/ nat'[x] = nat[x]
         \/ FlushNat /\ nat'[x] = IF nat[x] = Absent THEN Absent ELSE <<>>
         \/ /\ FlanneldReturn /\ x = "POSTROUTING" /\ nat[x] # Absent
            /\ ~ Has(nat[x], LocalReturn) /\ nat'[x] = Append(nat[x], LocalReturn)
         \/ nat[x] = Absent /\ nat'[x] = <<>> /\ \E c \in Containers : EnsureChain(c)
         \/ \E c \in Containers :
              /\ PutRule(c) /\ NextCommand(c) /\ nat[x] # Absent
              /\ Current(c).chain = x /\ Current(c).rule \in Rules(x)
              /\ nat'[x] = IF Current(c).op = "insert" THEN <<Current(c).rule>> \o nat[x]
                                                        ELSE Append(nat[x], Current(c).rule)
         \/ x = "TOP" /\ \E c \in Containers : Undo(c)
  <1>1. x \in Chains /\ x \notin Containers
    BY NamesAssumption DEF Chains
  <1>2. CASE UNCHANGED nat
    BY <1>2
  <1>3. CASE FlanneldReturn
    <2>1. nat["POSTROUTING"] # Absent
      BY DEF MadeInv, Hooks
    <2>2. QED
      BY <1>1, <1>3, <2>1 DEF FlanneldReturn, NatInv, Present, Has
  <1>4. CASE FlushNat
    BY <1>1, <1>4 DEF FlushNat
  <1>5. CASE ~ UNCHANGED nat /\ \E c \in Containers : EnsureChain(c)
    <2>1. PICK c \in Containers : EnsureChain(c)
      BY <1>5
    <2>2. /\ nat[Current(c).chain] = Absent /\ Current(c).chain \in Chains
          /\ nat' = [nat EXCEPT ![Current(c).chain] = <<>>]
      BY <1>5, <2>1, CurrentFacts DEF EnsureChain, Fail
    <2>3. QED
      BY <1>1, <2>1, <2>2, MakeFacts
  <1>6. CASE ~ UNCHANGED nat /\ \E c \in Containers : PutRule(c)
    <2>1. PICK c \in Containers : PutRule(c)
      BY <1>6
    <2>2. /\ Current(c).chain \in Chains /\ nat[Current(c).chain] # Absent
          /\ Current(c).rule \in Rules(Current(c).chain)
          /\ IF Current(c).op = "insert"
             THEN nat' = [nat EXCEPT ![Current(c).chain] = <<Current(c).rule>> \o @]
             ELSE nat' = [nat EXCEPT ![Current(c).chain] = Append(@, Current(c).rule)]
          /\ NextCommand(c)
      BY <1>6, <2>1, PutEffect
    <2>3. CASE Current(c).chain = x
      <3>1. nat'[x] = IF Current(c).op = "insert" THEN <<Current(c).rule>> \o nat[x]
                                                  ELSE Append(nat[x], Current(c).rule)
        BY <1>1, <2>2, <2>3 DEF NatInv
      <3>2. QED
        BY <2>1, <2>2, <2>3, <3>1
    <2>4. CASE Current(c).chain # x
      BY <1>1, <2>2, <2>4 DEF NatInv
    <2>5. QED
      BY <2>3, <2>4
  <1>7. CASE \E c \in Containers : Undo(c)
    <2>1. PICK c \in Containers : Undo(c)
      BY <1>7
    <2>2. Unjump(c) \/ Flush(c) \/ DeleteChain(c) \/ UNCHANGED nat
      BY <2>1 DEF Undo
    <2>3. \A y \in Chains \ {c, "TOP"} : nat'[y] = nat[y]
      BY <2>2, UndoFacts
    <2>4. QED
      BY <1>1, <2>1, <2>3
  <1>8. \A c \in Containers : Add(c) \/ Del(c) \/ CheckRule(c) \/ Kill(c) => UNCHANGED nat
    BY DEF Add, Del, CheckRule, Kill
  <1>9. UNCHANGED vars => UNCHANGED nat
    BY DEF vars
  <1>10. QED
    BY <1>2, <1>3, <1>4, <1>5, <1>6, <1>7, <1>8, <1>9, Steps DEF Own

\* The jump to a container's chain is put by its own ADD only, and never doubled.
LEMMA JumpFacts ==
  ASSUME NatInv, PluginInv, MadeInv, [Next]_vars, NEW c \in Containers
  PROVE  /\ Has(nat'["TOP"], Jump(c)) =>
              Has(nat["TOP"], Jump(c)) \/ (PutRule(c) /\ NextCommand(c) /\ at[c] = 10)
         /\ /\ nat'["TOP"] # Absent
            /\ nat["TOP"] # Absent => Once(nat["TOP"], Jump(c))
            /\ PutRule(c) /\ at[c] = 10 => ~ Has(nat["TOP"], Jump(c))
            => Once(nat'["TOP"], Jump(c))
  <1> DEFINE s == nat["TOP"]  t == nat'["TOP"]  q == Jump(c)
  <1>1. /\ "TOP" \in Shared /\ "TOP" \in Chains
        /\ s # Absent => s \in Seq(Rules("TOP"))
    BY DEF Shared, Chains, NatInv
  <1>2. \A r : ~ Contains(<<>>, r) /\ Once(<<>>, r)
    BY DEF Contains, Once
  <1>3. CASE t = s \/ t = Absent \/ t = <<>>
    BY <1>2, <1>3 DEF Has
  <1>4. CASE \E d \in Containers :
               /\ PutRule(d) /\ NextCommand(d) /\ s # Absent
               /\ Current(d).chain = "TOP" /\ Current(d).rule \in Rules("TOP")
               /\ t = IF Current(d).op = "insert" THEN <<Current(d).rule>> \o s
                                                 ELSE Append(s, Current(d).rule)
    <2>1. PICK d \in Containers :
               /\ PutRule(d) /\ NextCommand(d) /\ s # Absent
               /\ Current(d).chain = "TOP" /\ Current(d).rule \in Rules("TOP")
               /\ t = IF Current(d).op = "insert" THEN <<Current(d).rule>> \o s
                                                 ELSE Append(s, Current(d).rule)
      BY <1>4
    <2>2. /\ CommandShape(Program(d), d, podIp[d], at[d]) /\ Current(d).op # "new"
          /\ Current(d) = Program(d)[at[d]]
      BY <2>1, CurrentFacts DEF PutRule, Current
    <2>3. at[d] = 10 /\ Current(d).rule = Jump(d) /\ Current(d).op = "append"
      <3>1. at[d] = 10 /\ Current(d).rule = Jump(d)
        BY <2>1, <2>2 DEF CommandShape
      <3>2. Program(d)[10] = Append_("TOP", Jump(d))
        BY ProgramFacts DEF ProgramShape, Program
      <3>3. QED
        BY <2>2, <3>1, <3>2 DEF Append_
    <2>4. s \in Seq(Rules("TOP")) /\ Jump(d) \in Rules("TOP") /\ t = Append(s, Jump(d))
      BY <1>1, <2>1, <2>3
    <2>5. Jump(d) = q => d = c
      BY DEF Jump
    <2>6. /\ \A r : Contains(t, r) <=> Contains(s, r) \/ r = Jump(d)
          /\ Once(s, q) /\ (q = Jump(d) => ~ Contains(s, q)) => Once(t, q)
      BY <2>4, AppendFacts
    <2>7. QED
      BY <2>1, <2>3, <2>5, <2>6 DEF Has
  <1>5. CASE \E d \in Containers : Undo(d)
    <2>1. PICK d \in Containers : Unjump(d) \/ Flush(d) \/ DeleteChain(d) \/ UNCHANGED nat
      BY <1>5 DEF Undo
    <2>2. /\ s = Absent => t = Absent
          /\ Has(t, q) => Has(s, q)
          /\ s # Absent /\ Once(s, q) => Once(t, q)
      BY <2>1, UndoFacts
    <2>3. QED
      BY <2>2
  <1>6. QED
    BY <1>1, <1>3, <1>4, <1>5, SharedStep

LEMMA JumpStep ==
  ASSUME NatInv, PluginInv, MadeInv, JumpInv, [Next]_vars
  PROVE  JumpInv'
  <1> SUFFICES ASSUME NEW c \in Containers
               PROVE  /\ Mappings[c] = <<>> => ~ Has(nat'["TOP"], Jump(c))
                      /\ /\ c \notin spared'
                         /\ \/ state'[c] = "none"
                            \/ state'[c] = "add" /\ at'[c] <= 10
                            \/ state'[c] = "del" /\ at'[c] >= 2
                         => ~ Has(nat'["TOP"], Jump(c))
                      /\ c \notin spared' /\ nat'["TOP"] # Absent => Once(nat'["TOP"], Jump(c))
    BY DEF JumpInv
  <1>1. /\ Mappings[c] = <<>> => ~ Has(nat["TOP"], Jump(c))
        /\ /\ c \notin spared
           /\ \/ state[c] = "none"
              \/ state[c] = "add" /\ at[c] <= 10
              \/ state[c] = "del" /\ at[c] >= 2
           => ~ Has(nat["TOP"], Jump(c))
        /\ c \notin spared /\ nat["TOP"] # Absent => Once(nat["TOP"], Jump(c))
    BY DEF JumpInv
  <1>2. /\ state \in [Containers -> {"none", "add", "ready", "failed", "del"}]
        /\ at \in [Containers -> Nat] /\ at[c] \in Nat
        /\ state[c] = "add" => at[c] \in 1 .. Len(Program(c)) /\ Mappings[c] # <<>>
        /\ state[c] = "del" => at[c] \in 1 .. 3
        /\ c \in spared => c \in spared'
    <2>1. c \in spared => c \in spared'
      <3>1. CASE \E d \in Containers : Own(d)
        BY <3>1 DEF Own, Add, EnsureChain, CheckRule, PutRule, Del, Undo, Kill
      <3>2. CASE UNCHANGED vars \/ FlanneldReturn \/ FlushNat
        BY <3>2 DEF vars, FlanneldReturn, FlushNat
      <3>3. QED
        BY <3>1, <3>2, Steps
    <2>2. QED
      BY <2>1 DEF PluginInv
  <1>3. PutRule(c) => state[c] = "add"
    BY DEF PutRule
  <1>4. Mappings[c] = <<>> => ~ Has(nat'["TOP"], Jump(c))
    BY <1>1, <1>2, <1>3, JumpFacts
  <1>5. c \notin spared' /\ nat'["TOP"] # Absent => Once(nat'["TOP"], Jump(c))
    BY <1>1, <1>2, <1>3, JumpFacts
  <1>6. ASSUME c \notin spared',
               \/ state'[c] = "none"
               \/ state'[c] = "add" /\ at'[c] <= 10
               \/ state'[c] = "del" /\ at'[c] >= 2
        PROVE  ~ Has(nat'["TOP"], Jump(c))
    <2>1. c \notin spared
      BY <1>2, <1>6
    <2>2. CASE UNCHANGED vars \/ FlanneldReturn \/ FlushNat
      <3>1. UNCHANGED <<state, at>> /\ ~ (PutRule(c) /\ NextCommand(c))
        BY <1>3, <2>2, PutMoves DEF vars, FlanneldReturn, FlushNat
      <3>2. QED
        BY <1>1, <1>6, <2>1, <3>1, JumpFacts
    <2>3. CASE \E d \in Containers \ {c} : Own(d)
      <3>1. state'[c] = state[c] /\ at'[c] = at[c]
        BY <2>3, OthersKept
      <3>2. ~ (PutRule(c) /\ NextCommand(c))
        BY <1>2, <1>3, <3>1, PutMoves
      <3>3. QED
        BY <1>1, <1>6, <2>1, <3>1, <3>2, JumpFacts
    <2>4. CASE Add(c) \/ Del(c) \/ Kill(c)
      <3>1. state[c] = "none" \/ Mappings[c] = <<>>
        BY <1>2, <1>6, <2>4 DEF Add, Del, Kill, Turn
      <3>2. UNCHANGED nat
        BY <2>4 DEF Add, Del, Kill
      <3>3. QED
        BY <1>1, <2>1, <3>1, <3>2
    <2>5. CASE EnsureChain(c) \/ CheckRule(c) \/ PutRule(c)
      <3>1. /\ state[c] = "add" /\ at[c] \in Nat /\ Len(Program(c)) > 10
            /\ \/ NextCommand(c) /\ at'[c] = at[c] + 1 /\ at'[c] <= 10
               \/ UNCHANGED <<state, at>> /\ at'[c] <= 10
        BY <1>6, <2>5, AddTurns
      <3>2. NextCommand(c) => at'[c] = at[c] + 1
        BY <3>1, PutMoves
      <3>3. at[c] <= 10 /\ (at[c] = 10 => ~ NextCommand(c))
        BY <3>1, <3>2
      <3>4. QED
        BY <1>1, <2>1, <3>1, <3>3, JumpFacts
    <2>6. CASE Undo(c)
      <3>1. state[c] = "del" /\ at[c] \in 1 .. 3 /\ ~ PutRule(c)
        BY <1>2, <2>6 DEF Undo, PutRule
      <3>2. CASE at[c] = 1
        <4>1. Unjump(c)
          BY <1>6, <2>6, <3>2 DEF Undo, Flush, DeleteChain
        <4>2. QED
          BY <1>1, <2>1, <4>1, UnjumpFacts
      <3>3. CASE at[c] # 1
        BY <1>1, <2>1, <3>1, <3>3, JumpFacts
      <3>4. QED
        BY <3>2, <3>3
    <2>7. QED
      BY <2>2, <2>3, <2>4, <2>5, <2>6, Steps DEF Own
  <1>7. QED
    BY <1>4, <1>5, <1>6

-----------------------------------------------------------------------------
(* What the chains of the pods hold *)

LEMMA MarkStep ==
  ASSUME NatInv, PluginInv, MadeInv, DoneInv, CleanInv, MarkInv, [Next]_vars
  PROVE  MarkInv'
  <1> DEFINE Follows(t) == /\ Has(t["SETMARK"], Mark) /\ Has(t["MASQ"], Masquerade)
                           /\ Has(t["POSTROUTING"], Jump("MASQ"))
             Marks(s) == \A p \in Ports, i \in Ips : Precedes(s, Localhost(p), Dnat(p, i))
  <1> SUFFICES ASSUME NEW c \in Containers, c \notin flushed', nat'[c] # Absent
               PROVE  Marks(nat'[c]) /\ (nat'[c] # <<>> => Follows(nat'))
    BY DEF MarkInv
  <1>1. c \notin flushed /\ nat[c] # Absent =>
          Marks(nat[c]) /\ (nat[c] # <<>> => Follows(nat))
    BY DEF MarkInv
  <1>2. Marks(<<>>)
    BY DEF Precedes
  <1>3. ~ FlushNat /\ Follows(nat) => Follows(nat')
    <2>1. ASSUME NEW x \in Shared, NEW r, x # "TOP", Has(nat[x], r), ~ FlushNat
          PROVE  Has(nat'[x], r)
      <3>1. x \in Chains /\ x \notin Containers /\ nat[x] # Absent
        BY <2>1, NamesAssumption DEF Chains, Has
      <3>2. QED
        BY <2>1, <3>1, ChainsStay
    <2>2. QED
      BY <2>1 DEF Shared, Hooks
  <1>4. CASE nat'[c] = <<>>
    BY <1>2, <1>4
  <1>5. CASE nat'[c] = nat[c] /\ ~ FlushNat
    <2>1. c \notin flushed
      <3>1. Add(c) /\ c \in flushed => c \notin spared /\ state[c] = "none"
        BY DEF Add
      <3>2. ~ (Add(c) /\ c \in flushed)
        BY <1>5, <3>1 DEF CleanInv
      <3>3. CASE \E d \in Containers \ {c} : Own(d)
        BY <3>3, OthersKept
      <3>4. CASE Own(c) /\ ~ Add(c)
        BY <3>4 DEF Own, EnsureChain, CheckRule, PutRule, Del, Undo, Kill
      <3>5. CASE UNCHANGED vars \/ FlanneldReturn
        BY <3>5 DEF vars, FlanneldReturn
      <3>6. CASE Add(c)
        BY <3>2, <3>6
      <3>7. QED
        BY <1>5, <3>3, <3>4, <3>5, <3>6, Steps
    <2>2. QED
      BY <1>1, <1>3, <1>5, <2>1
  <1>6. CASE /\ PutRule(c) /\ NextCommand(c) /\ nat[c] # Absent
             /\ Current(c).chain = c /\ Current(c).op = "append" /\ at[c] > 10
             /\ nat'[c] = Append(nat[c], Current(c).rule)
    <2> DEFINE P == Program(c)  k == at[c]
    <2>1. /\ c \notin flushed /\ state[c] = "add" /\ k \in 1 .. Len(P) /\ k \in Nat
          /\ Mappings[c] # <<>> /\ c \in Chains /\ nat[c] \in Seq(Rules(c))
      BY <1>6 DEF PutRule, PluginInv, NatInv, Chains
    <2>2. CommandShape(P, c, podIp[c], k) /\ Current(c).op # "new" /\ Current(c).rule \in Rules(c)
      BY <1>6, <2>1, CurrentFacts DEF PutRule
    <2>3. ASSUME NEW j \in 1 .. Len(P), j < k, P[j].op # "new"
          PROVE  Has(nat[P[j].chain], P[j].rule)
      BY <2>1, <2>3 DEF DoneInv, Passed
    <2>4. Follows(nat)
      <3>1. /\ P[5] = Append_("SETMARK", Mark) /\ P[7] = Append_("MASQ", Masquerade)
            /\ P[8] = Insert("POSTROUTING", Jump("MASQ")) /\ Len(P) \in Nat
        BY ProgramFacts DEF ProgramShape, Program
      <3>2. \A j \in {5, 7, 8} : j \in 1 .. Len(P) /\ j < k
        BY <1>6, <2>1, <3>1
      <3>3. Has(nat["SETMARK"], Mark)
        BY <2>3, <3>1, <3>2 DEF Append_
      <3>4. Has(nat["MASQ"], Masquerade)
        BY <2>3, <3>1, <3>2 DEF Append_
      <3>5. Has(nat["POSTROUTING"], Jump("MASQ"))
        BY <2>3, <3>1, <3>2 DEF Insert
      <3>6. QED
        BY <3>3, <3>4, <3>5
    <2>5. ~ FlushNat
      BY <1>6, <2>1, EmptyThere DEF FlushNat, PutRule, PluginInv
    <2>6. ASSUME NEW p \in Ports, NEW i \in Ips
          PROVE  Precedes(nat'[c], Localhost(p), Dnat(p, i))
      <3>1. ASSUME Current(c).rule = Dnat(p, i) PROVE Contains(nat[c], Localhost(p))
        <4>1. P[k - 1] = Append_(c, Localhost(p))
          BY <1>6, <2>2, <3>1 DEF CommandShape, Current
        <4>2. k - 1 \in 1 .. Len(P) /\ k - 1 < k
          BY <1>6, <2>1
        <4>3. Has(nat[c], Localhost(p))
          BY <2>3, <4>1, <4>2 DEF Append_
        <4>4. QED
          BY <4>3 DEF Has
      <3>2. Precedes(nat[c], Localhost(p), Dnat(p, i))
        BY <1>1, <1>6, <2>1
      <3>3. QED
        BY <1>6, <2>1, <2>2, <3>1, <3>2, AppendFacts
    <2>7. QED
      BY <1>3, <2>4, <2>5, <2>6
  <1>7. CASE Undo(c)
    <2>1. nat'[c] \in {nat[c], Absent, <<>>}
      BY <1>7, UndoFacts DEF Undo
    <2>2. CASE FlushNat
      BY <1>4, <2>2, OwnFlush
    <2>3. QED
      BY <1>4, <1>5, <2>1, <2>2
  <1>8. CASE FlushNat
    BY <1>4, <1>8, OwnFlush
  <1>9. QED
    BY <1>4, <1>5, <1>6, <1>7, <1>8, OwnChain

LEMMA OwnStep ==
  ASSUME NatInv, PluginInv, MadeInv, CleanInv, OwnInv, [Next]_vars
  PROVE  OwnInv'
  <1> SUFFICES ASSUME NEW c \in Containers, c \notin spared', state'[c] \in {"add", "ready"},
                      NEW p \in Ports, NEW i \in Ips, Has(nat'[c], Dnat(p, i))
               PROVE  i = podIp'[c]
    BY DEF OwnInv
  <1>1. c \notin spared /\ state[c] \in {"add", "ready"} =>
          (Has(nat[c], Dnat(p, i)) => i = podIp[c])
    BY DEF OwnInv
  <1>2. ~ Has(<<>>, Dnat(p, i)) /\ ~ Has(Absent, Dnat(p, i))
    BY DEF Has, Contains
  <1>3. state \in [Containers -> {"none", "add", "ready", "failed", "del"}]
    BY DEF PluginInv
  <1>4. CASE UNCHANGED vars \/ FlanneldReturn \/ FlushNat
    <2>1. UNCHANGED <<state, podIp, spared>>
      BY <1>4 DEF vars, FlanneldReturn, FlushNat
    <2>2. nat'[c] = nat[c] \/ nat'[c] = Absent \/ nat'[c] = <<>>
      <3>1. c \in Chains /\ c # "POSTROUTING"
        BY NamesAssumption DEF Chains, Shared, Hooks
      <3>2. QED
        BY <1>4, <3>1 DEF vars, FlanneldReturn, FlushNat, NatInv
    <2>3. QED
      BY <1>1, <1>2, <2>1, <2>2
  <1>5. CASE \E d \in Containers \ {c} : Own(d)
    BY <1>1, <1>5, OwnChain, OthersKept
  <1>6. CASE Add(c)
    <2>1. nat'[c] = nat[c] /\ state[c] = "none" /\ c \notin spared
      BY <1>6 DEF Add
    <2>2. QED
      BY <1>2, <2>1 DEF CleanInv
  <1>7. ~ Del(c) /\ ~ Undo(c) /\ ~ Kill(c)
    BY <1>3 DEF Del, Undo, Kill, Turn
  <1>8. CASE EnsureChain(c) \/ CheckRule(c) \/ PutRule(c)
    <2>1. state[c] = "add" /\ UNCHANGED podIp /\ c \notin spared
      BY <1>8, AddTurns
    <2>2. CASE nat'[c] = nat[c]
      BY <1>1, <2>1, <2>2
    <2>3. CASE nat'[c] = Absent \/ nat'[c] = <<>>
      BY <1>2, <2>3
    <2>4. CASE /\ PutRule(c) /\ nat[c] # Absent
               /\ Current(c).chain = c
               /\ nat'[c] = Append(nat[c], Current(c).rule)
      <3>1. /\ CommandShape(Program(c), c, podIp[c], at[c]) /\ Current(c).op # "new"
            /\ Current(c).rule \in Rules(c) /\ nat[c] \in Seq(Rules(c))
        BY <2>1, <2>4, CurrentFacts DEF PutRule, NatInv, Chains
      <3>2. Contains(nat[c], Dnat(p, i)) \/ Current(c).rule = Dnat(p, i)
        BY <2>4, <3>1, AppendFacts DEF Has
      <3>3. Current(c).rule = Dnat(p, i) => i = podIp[c]
        BY <2>4, <3>1 DEF CommandShape, Current
      <3>4. QED
        BY <1>1, <2>1, <2>4, <3>2, <3>3 DEF Has
    <2>5. ~ Undo(c)
      BY <2>1 DEF Undo
    <2>6. QED
      BY <2>2, <2>3, <2>4, <2>5, OwnChain
  <1>9. QED
    BY <1>4, <1>5, <1>6, <1>7, <1>8, Steps DEF Own

LEMMA PostStep ==
  ASSUME NatInv, PluginInv, MadeInv, PostInv, [Next]_vars
  PROVE  PostInv'
  <1> DEFINE s == nat["POSTROUTING"]  t == nat'["POSTROUTING"]  q == Jump("MASQ")
  <1>1. /\ "POSTROUTING" \in Shared /\ "POSTROUTING" \in Chains /\ s \in Seq(Rules("POSTROUTING"))
        /\ q # LocalReturn /\ LocalReturn \in Rules("POSTROUTING")
    BY DEF Shared, Hooks, Chains, NatInv, MadeInv, Jump, LocalReturn, Rules, SharedRules
  <1>2. ~ Has(<<>>, q) /\ ~ Has(Absent, q)
    BY DEF Has, Contains
  <1>3. CASE t = s
    BY <1>3 DEF PostInv
  <1>4. CASE t = Absent \/ t = <<>>
    BY <1>2, <1>4 DEF PostInv
  <1>5. CASE s # Absent /\ t = Append(s, LocalReturn)
    BY <1>1, <1>5, AppendFacts DEF PostInv, Has
  <1>6. ASSUME NEW c \in Containers, PutRule(c), Current(c).chain = "POSTROUTING",
               t = IF Current(c).op = "insert" THEN <<Current(c).rule>> \o s
                                               ELSE Append(s, Current(c).rule)
        PROVE  PostInv'
    <2>1. /\ CommandShape(Program(c), c, podIp[c], at[c]) /\ Current(c).op # "new"
          /\ Current(c).rule \in Rules("POSTROUTING")
      BY <1>6, CurrentFacts DEF PutRule
    <2>2. Current(c).op = "insert" /\ Current(c).rule = q
      BY <1>6, <2>1 DEF CommandShape, Current
    <2>3. t = <<q>> \o s /\ q \in Rules("POSTROUTING")
      BY <1>6, <2>1, <2>2
    <2>4. QED
      BY <1>1, <2>3, PrependFacts DEF PostInv
  <1>7. QED
    BY <1>1, <1>3, <1>4, <1>5, <1>6, SharedStep

LEMMA FitsStep ==
  ASSUME PluginInv, FitsInv, [Next]_vars
  PROVE  FitsInv'
  <1> SUFFICES ASSUME NEW c \in Containers, NEW d \in Containers,
                      c # d, state'[c] # "none", state'[d] # "none"
               PROVE  ~ Shares(c, d)
    BY DEF FitsInv, Shares
  <1>1. state \in [Containers -> {"none", "add", "ready", "failed", "del"}]
    BY DEF PluginInv
  <1>2. state[c] # "none" /\ state[d] # "none" => ~ Shares(c, d)
    BY DEF FitsInv
  <1>3. ASSUME NEW e \in Containers, NEW f \in Containers \ {e},
               state[e] = "none", state'[e] # "none", state'[f] # "none"
        PROVE  ~ Shares(e, f)
    <2>1. Add(e)
      <3>1. CASE \E g \in Containers \ {e} : Own(g)
        BY <1>3, <3>1, OthersKept
      <3>2. CASE UNCHANGED vars \/ FlanneldReturn \/ FlushNat
        BY <1>3, <3>2 DEF vars, FlanneldReturn, FlushNat
      <3>3. ~ (EnsureChain(e) \/ CheckRule(e) \/ PutRule(e) \/ Del(e) \/ Undo(e) \/ Kill(e))
        BY <1>3 DEF EnsureChain, CheckRule, PutRule, Del, Undo, Kill
      <3>4. QED
        BY <3>1, <3>2, <3>3, Steps DEF Own
    <2>2. state'[f] = state[f]
      BY <2>1, OthersKept DEF Own
    <2>3. QED
      BY <1>3, <2>1, <2>2 DEF Add, Fits
  <1>4. CASE state[c] = "none"
    BY <1>3, <1>4
  <1>5. CASE state[d] = "none"
    <2>1. ~ Shares(d, c)
      BY <1>3, <1>5
    <2>2. QED
      BY <2>1 DEF Shares
  <1>6. QED
    BY <1>2, <1>4, <1>5

-----------------------------------------------------------------------------
(* How many copies there are *)

\* Who is about to put a rule: only a look makes one more.
LEMMA PendingStep ==
  ASSUME PluginInv, [Next]_vars, NEW x
  PROVE  \/ Pending(x)' \subseteq Pending(x)
         \/ \E c \in Containers :
              /\ CheckRule(c) /\ Current(c).chain = x
              /\ Pending(x)' \subseteq Pending(x) \cup {c}
              /\ Present(Current(c).chain, Current(c).rule) => faults' = faults + 1
  <1>1. /\ state \in [Containers -> {"none", "add", "ready", "failed", "del"}]
        /\ phase \in [Containers -> {"check", "add"}]
    BY DEF PluginInv
  <1>2. ASSUME NEW c \in Containers, NEW d \in Containers \ {c}, Own(d), c \in Pending(x)'
        PROVE  c \in Pending(x)
    BY <1>2, OthersKept DEF Pending, Current, Program
  <1>3. CASE UNCHANGED vars \/ FlanneldReturn \/ FlushNat
    <2>1. UNCHANGED <<state, at, phase, podIp>>
      BY <1>3 DEF vars, FlanneldReturn, FlushNat
    <2>2. QED
      BY <2>1 DEF Pending, Current, Program
  <1>4. ASSUME NEW c \in Containers, Own(c)
        PROVE  \/ phase'[c] = "check"
               \/ /\ CheckRule(c) /\ UNCHANGED <<state, at, podIp>> /\ Current(c).op # "new"
                  /\ Present(Current(c).chain, Current(c).rule) => faults' = faults + 1
    BY <1>1, <1>4
       DEF Own, Add, EnsureChain, CheckRule, PutRule, Del, Undo, Kill, Fail, NextCommand, Turn,
           Disturbed
  <1>5. ASSUME NEW c \in Containers, Own(c)
        PROVE  \/ Pending(x)' \subseteq Pending(x)
               \/ /\ CheckRule(c) /\ Current(c).chain = x
                  /\ Pending(x)' \subseteq Pending(x) \cup {c}
                  /\ Present(Current(c).chain, Current(c).rule) => faults' = faults + 1
    <2>1. Pending(x)' \subseteq Pending(x) \cup {c}
      BY <1>2, <1>5 DEF Pending
    <2>2. CASE phase'[c] = "check"
      <3>1. c \notin Pending(x)'
        BY <2>2 DEF Pending
      <3>2. QED
        BY <2>1, <3>1
    <2>3. CASE /\ CheckRule(c) /\ UNCHANGED <<state, at, podIp>> /\ Current(c).op # "new"
               /\ Present(Current(c).chain, Current(c).rule) => faults' = faults + 1
      <3>1. c \in Pending(x)' => Current(c).chain = x
        BY <2>3 DEF Pending, Current, Program
      <3>2. QED
        BY <2>1, <2>3, <3>1
    <2>4. QED
      BY <1>4, <1>5, <2>2, <2>3
  <1>6. QED
    BY <1>3, <1>5, Steps

\* Who has put it is not.
LEMMA PutLeaves ==
  ASSUME PluginInv, [Next]_vars, NEW c \in Containers, PutRule(c), NextCommand(c),
         NEW x, Current(c).chain = x
  PROVE  c \in Pending(x) /\ c \notin Pending(x)' /\ ~ CheckRule(c)
  <1>1. phase'[c] = "check"
    BY NotFailed
  <1>2. c \notin Pending(x)'
    BY <1>1 DEF Pending
  <1>3. QED
    BY <1>2 DEF Pending, PutRule, CheckRule

LEMMA PendingSize ==
  ASSUME NEW x
  PROVE  /\ IsFiniteSet(Pending(x)) /\ Cardinality(Pending(x)) \in Nat
         /\ Cardinality(Containers) \in Nat
         /\ Cardinality(Pending(x)) <= Cardinality(Containers)
  <1>1. Pending(x) \subseteq Containers
    BY DEF Pending
  <1>2. QED
    BY <1>1, ContainersAssumption, FS_Subset, FS_CardinalityType

\* A chain with no copy of its plugins' rule has at most flanneld's RETURN.
LEMMA NoCopy ==
  ASSUME NEW x \in Shared \ {"TOP"}, NEW s \in Seq(Rules(x)), NEW r,
         Rules(x) \subseteq {r, LocalReturn}, ~ Contains(s, r),
         x = "POSTROUTING" => Once(s, LocalReturn)
  PROVE  Len(s) <= Returns(s)
  <1>1. Len(s) \in Nat /\ \A k \in 1 .. Len(s) : s[k] \in Rules(x)
    OBVIOUS
  <1>2. \A k \in 1 .. Len(s) : s[k] = LocalReturn
    BY <1>1 DEF Contains
  <1>3. CASE Len(s) = 0
    BY <1>3 DEF Returns
  <1>4. CASE Len(s) # 0
    <2>1. 1 \in 1 .. Len(s) /\ s[1] = LocalReturn /\ LocalReturn \in Rules(x)
      BY <1>1, <1>2, <1>4
    <2>2. Returns(s) = 1
      BY <2>1 DEF Returns, Contains
    <2>3. x = "POSTROUTING"
      BY <2>1 DEF Rules, SharedRules, Shared, Hooks, LocalReturn, Jump, Mark, Masquerade
    <2>4. \A k \in 1 .. Len(s) : k = 1
      BY <1>2, <2>1, <2>3 DEF Once
    <2>5. Len(s) = 1
      <3>1. Len(s) \in 1 .. Len(s)
        BY <1>1, <1>4
      <3>2. QED
        BY <2>4, <3>1
    <2>6. QED
      BY <2>2, <2>5
  <1>5. QED
    BY <1>3, <1>4

LEMMA CountStep ==
  ASSUME NatInv, PluginInv, MadeInv, CountInv, [Next]_vars
  PROVE  CountInv'
  <1>1. /\ "POSTROUTING" \in Shared \ {"TOP"} /\ "POSTROUTING" \in Chains
        /\ nat["POSTROUTING"] \in Seq(Rules("POSTROUTING")) /\ nat["POSTROUTING"] # Absent
        /\ LocalReturn \in Rules("POSTROUTING")
    BY DEF Shared, Hooks, Chains, NatInv, MadeInv, Rules, SharedRules
  <1>2. ASSUME NEW x \in Shared \ {"TOP"}, NEW c \in Containers, state[c] = "add",
               Current(c).op # "new", Current(c).chain = x
        PROVE  /\ Current(c).rule \in Rules(x) /\ Current(c).rule # LocalReturn
               /\ Rules(x) \subseteq {Current(c).rule, LocalReturn}
               /\ x = "POSTROUTING" => Current(c).op = "insert"
    BY <1>2, CurrentFacts DEF CommandShape, Current
  <1>3. Once(nat'["POSTROUTING"], LocalReturn)
    <2> DEFINE s == nat["POSTROUTING"]  t == nat'["POSTROUTING"]
    <2>1. Once(s, LocalReturn) /\ Once(<<>>, LocalReturn)
      BY DEF CountInv, Once
    <2>2. CASE /\ ~ Has(s, LocalReturn) /\ t = Append(s, LocalReturn)
      BY <1>1, <2>1, <2>2, AppendFacts DEF Has
    <2>3. ASSUME NEW c \in Containers, PutRule(c), Current(c).chain = "POSTROUTING",
                 t = IF Current(c).op = "insert" THEN <<Current(c).rule>> \o s
                                                 ELSE Append(s, Current(c).rule)
          PROVE  Once(t, LocalReturn)
      <3>1. Current(c).rule \in Rules("POSTROUTING") /\ Current(c).rule # LocalReturn
        BY <1>1, <1>2, <2>3 DEF PutRule
      <3>2. t = <<Current(c).rule>> \o s
        BY <1>1, <1>2, <2>3 DEF PutRule
      <3>3. QED
        BY <1>1, <2>1, <3>1, <3>2, PrependFacts
    <2>4. QED
      BY <1>1, <2>1, <2>2, <2>3, SharedStep
  <1>4. SUFFICES ASSUME NEW x \in Shared \ {"TOP"}, nat'[x] # Absent
                 PROVE  Len(nat'[x]) + Cardinality(Pending(x)')
                          <= Cardinality(Containers) + faults' + Returns(nat'[x])
    BY <1>3 DEF CountInv, Pending, Current, Program
  <1> DEFINE n == Cardinality(Containers)  p == Cardinality(Pending(x))
             q == Cardinality(Pending(x)')
  <1>5. p \in Nat /\ n \in Nat /\ p <= n /\ q \in Nat /\ q <= n /\ IsFiniteSet(Pending(x))
    <2>1. Pending(x)' \subseteq Containers
      BY DEF Pending
    <2>2. QED
      BY <2>1, PendingSize, ContainersAssumption, FS_Subset, FS_CardinalityType
  <1>6. faults \in Nat /\ faults' \in Nat /\ faults <= faults'
    <2>1. faults' = faults \/ \E kind \in Disturbances : Disturbed(kind)
      <3>1. CASE \E c \in Containers : Own(c)
        BY <3>1 DEF Own, Add, EnsureChain, CheckRule, PutRule, Del, Undo, Kill, Fail, Disturbances
      <3>2. CASE UNCHANGED vars \/ FlanneldReturn \/ FlushNat
        BY <3>2 DEF vars, FlanneldReturn, FlushNat, Disturbances
      <3>3. QED
        BY <3>1, <3>2, Steps
    <2>2. QED
      BY <2>1, DisturbedFacts DEF PluginInv
  <1>7. /\ x \in Chains /\ x \in Shared
        /\ nat[x] # Absent => nat[x] \in Seq(Rules(x)) /\ Len(nat[x]) \in Nat
        /\ nat[x] # Absent => Len(nat[x]) + p <= n + faults + Returns(nat[x])
        /\ \A s : Returns(s) \in 0 .. 1
    <2>1. x \in Chains /\ x \in Shared
      BY DEF Chains
    <2>2. nat[x] # Absent => nat[x] \in Seq(Rules(x)) /\ Len(nat[x]) \in Nat
      BY <2>1 DEF NatInv
    <2>3. nat[x] # Absent => Len(nat[x]) + p <= n + faults + Returns(nat[x])
      BY DEF CountInv
    <2>4. \A s : Returns(s) \in 0 .. 1
      BY DEF Returns
    <2>5. QED
      BY <2>1, <2>2, <2>3, <2>4
  <1> HIDE DEF n, p, q
  <1>8. CASE nat'[x] = nat[x]
    <2>1. CASE Pending(x)' \subseteq Pending(x)
      <3>1. q <= p
        BY <1>5, <2>1, FS_Subset DEF p, q
      <3>2. QED
        BY <1>4, <1>5, <1>6, <1>7, <1>8, <3>1 DEF n, p, q
    <2>2. CASE \E c \in Containers :
                 /\ CheckRule(c) /\ Current(c).chain = x
                 /\ Pending(x)' \subseteq Pending(x) \cup {c}
                 /\ Present(Current(c).chain, Current(c).rule) => faults' = faults + 1
      <3>1. PICK c \in Containers :
                 /\ CheckRule(c) /\ Current(c).chain = x
                 /\ Pending(x)' \subseteq Pending(x) \cup {c}
                 /\ Present(Current(c).chain, Current(c).rule) => faults' = faults + 1
        BY <2>2
      <3>2. CASE Present(Current(c).chain, Current(c).rule)
        <4>1. /\ IsFiniteSet(Pending(x) \cup {c})
              /\ Cardinality(Pending(x) \cup {c}) \in {p, p + 1}
          BY <1>5, FS_AddElement DEF p
        <4>2. q <= p + 1
          BY <1>5, <3>1, <4>1, FS_Subset DEF q
        <4>3. QED
          BY <1>4, <1>5, <1>6, <1>7, <1>8, <3>1, <3>2, <4>2 DEF n, p, q
      <3>3. CASE ~ Present(Current(c).chain, Current(c).rule)
        <4>1. /\ Rules(x) \subseteq {Current(c).rule, LocalReturn}
              /\ ~ Contains(nat[x], Current(c).rule)
          BY <1>2, <1>4, <1>8, <3>1, <3>3 DEF CheckRule, Present
        <4>2. Len(nat[x]) <= Returns(nat[x])
          BY <1>4, <1>7, <1>8, <4>1, NoCopy DEF CountInv
        <4>3. /\ Len(nat'[x]) <= Returns(nat'[x])
              /\ Len(nat'[x]) \in Nat /\ Returns(nat'[x]) \in Nat
          BY ONLY <1>4, <1>7, <1>8, <4>2
        <4>4. Len(nat'[x]) + q <= n + faults' + Returns(nat'[x])
          BY ONLY <1>5, <1>6, <4>3
        <4>5. QED
          BY ONLY <4>4 DEF n, q
      <3>4. QED
        BY <3>2, <3>3
    <2>3. QED
      BY <2>1, <2>2, PendingStep
  <1>9. CASE nat'[x] = <<>>
    <2>1. Len(nat'[x]) = 0 /\ Returns(nat'[x]) \in 0 .. 1
      BY <1>7, <1>9
    <2>2. QED
      BY <1>5, <1>6, <2>1 DEF n, q
  <1>10. CASE FlanneldReturn /\ nat[x] # Absent /\ ~ Has(nat[x], LocalReturn)
                /\ nat'[x] = Append(nat[x], LocalReturn) /\ x = "POSTROUTING"
    <2>1. Len(nat'[x]) = Len(nat[x]) + 1 /\ Contains(nat'[x], LocalReturn)
      BY <1>1, <1>7, <1>10, AppendFacts
    <2>2. Returns(nat[x]) = 0 /\ Returns(nat'[x]) = 1
      BY <1>10, <2>1 DEF Returns, Has
    <2>3. q = p
      <3>1. Pending(x)' = Pending(x)
        BY <1>10 DEF FlanneldReturn, Pending, Current, Program
      <3>2. QED
        BY <3>1 DEF p, q
    <2>4. QED
      BY <1>5, <1>6, <1>7, <1>10, <2>1, <2>2, <2>3 DEF n, p, q
  <1>11. ASSUME NEW c \in Containers,
                PutRule(c), NextCommand(c), nat[x] # Absent,
                Current(c).chain = x, Current(c).rule \in Rules(x),
                nat'[x] = IF Current(c).op = "insert" THEN <<Current(c).rule>> \o nat[x]
                                                      ELSE Append(nat[x], Current(c).rule)
         PROVE  Len(nat'[x]) + Cardinality(Pending(x)')
                  <= Cardinality(Containers) + faults' + Returns(nat'[x])
    <2>1. Current(c).rule # LocalReturn
      BY <1>2, <1>11 DEF PutRule
    <2>2. /\ Len(nat'[x]) = Len(nat[x]) + 1
          /\ Contains(nat'[x], LocalReturn) <=> Contains(nat[x], LocalReturn)
      <3> DEFINE s == nat[x]  e == Current(c).rule
      <3>1. s \in Seq(Rules(x)) /\ e \in Rules(x) /\ e # LocalReturn
        BY <1>7, <1>11, <2>1
      <3>2. nat'[x] \in {Append(s, e), <<e>> \o s}
        BY <1>11
      <3> HIDE DEF s, e
      <3>3. /\ Len(Append(s, e)) = Len(s) + 1
            /\ Contains(Append(s, e), LocalReturn) <=> Contains(s, LocalReturn)
        BY <3>1, AppendFacts
      <3>4. /\ Len(<<e>> \o s) = Len(s) + 1
            /\ Contains(<<e>> \o s, LocalReturn) <=> Contains(s, LocalReturn)
        BY <3>1, PrependFacts
      <3>5. QED
        BY <3>2, <3>3, <3>4 DEF s
    <2>3. Returns(nat'[x]) = Returns(nat[x])
      BY <2>2 DEF Returns
    <2>4. q <= p - 1
      <3>1. c \in Pending(x) /\ c \notin Pending(x)'
        BY <1>11, PutLeaves
      <3>2. Pending(x)' \subseteq Pending(x) \ {c}
        <4>1. ASSUME NEW d \in Containers \ {c} PROVE ~ CheckRule(d)
          <5>1. CheckRule(d) => state'[c] = state[c] /\ at'[c] = at[c]
            BY OthersKept DEF Own
          <5>2. state[c] = "add"
            BY <1>11 DEF PutRule
          <5>3. QED
            BY <1>11, <5>1, <5>2, PutMoves
        <4>2. ~ CheckRule(c)
          BY <1>11, PutLeaves
        <4>3. QED
          BY <3>1, <4>1, <4>2, PendingStep
      <3>3. Cardinality(Pending(x) \ {c}) = p - 1 /\ IsFiniteSet(Pending(x) \ {c})
        BY <1>5, <3>1, FS_RemoveElement DEF p
      <3>4. QED
        BY <3>2, <3>3, FS_Subset DEF q
    <2>5. /\ Len(nat[x]) + p <= n + faults + Returns(nat[x])
          /\ Len(nat[x]) \in Nat /\ Returns(nat[x]) \in Nat
      BY <1>7, <1>11
    <2>6. Len(nat'[x]) + q <= n + faults' + Returns(nat'[x])
      <3>1. Len(nat'[x]) = Len(nat[x]) + 1
        BY ONLY <2>2
      <3>2. n \in Nat /\ p \in Nat /\ q \in Nat
        BY ONLY <1>5
      <3>3. QED
        BY ONLY <1>6, <2>3, <2>4, <2>5, <3>1, <3>2
    <2>7. QED
      BY ONLY <2>6 DEF n, q
  <1>12. \/ nat'[x] = nat[x] \/ nat'[x] = <<>>
         \/ FlanneldReturn /\ nat[x] # Absent /\ ~ Has(nat[x], LocalReturn)
               /\ nat'[x] = Append(nat[x], LocalReturn) /\ x = "POSTROUTING"
         \/ \E c \in Containers :
              /\ PutRule(c) /\ NextCommand(c) /\ nat[x] # Absent
              /\ Current(c).chain = x /\ Current(c).rule \in Rules(x)
              /\ nat'[x] = IF Current(c).op = "insert" THEN <<Current(c).rule>> \o nat[x]
                                                        ELSE Append(nat[x], Current(c).rule)
    BY <1>4, <1>7, SharedStep
  <1>13. QED
    BY ONLY <1>8, <1>9, <1>10, <1>11, <1>12

-----------------------------------------------------------------------------
(* The invariant holds *)

LEMMA InitHolds == Init => IInv
  <1> SUFFICES ASSUME Init PROVE IInv
    OBVIOUS
  <1>1. /\ \A x \in Chains : nat[x] = IF x \in Hooks THEN <<>> ELSE Absent
        /\ nat = [x \in Chains |-> nat[x]]
        /\ \A c \in Containers : state[c] = "none" /\ at[c] = 0 /\ phase[c] = "check"
                                 /\ podIp[c] = None
        /\ spared = {} /\ flushed = {} /\ faults = 0
    BY DEF Init
  <1>2. \A c \in Containers : c \in Chains /\ nat[c] = Absent
    BY <1>1, NamesAssumption DEF Chains, Shared
  <1>3. nat["TOP"] = Absent /\ "POSTROUTING" \in Hooks /\ nat["POSTROUTING"] = <<>>
    BY <1>1 DEF Chains, Shared, Hooks
  <1>4. NatInv
    <2>1. \A x \in Chains : <<>> \in Seq(Rules(x))
      OBVIOUS
    <2>2. QED
      BY <1>1, <2>1 DEF NatInv
  <1>5. PluginInv
    <2>1. 0 \in 0 .. MaxFaults
      BY BoundsAssumption
    <2>2. QED
      BY <1>1, <2>1 DEF Init, PluginInv
  <1>6. MadeInv /\ DoneInv
    <2>1. \A c \in Containers : \A k : ~ Passed(c, k)
      BY <1>1 DEF Passed
    <2>2. \A hook \in Hooks : nat[hook] # Absent
      BY <1>1, EmptyThere DEF Chains, Shared
    <2>3. QED
      BY <2>1, <2>2 DEF MadeInv, DoneInv
  <1>7. CleanInv /\ MarkInv
    BY <1>1, <1>2 DEF CleanInv, MarkInv
  <1>8. JumpInv
    BY <1>3 DEF JumpInv, Has
  <1>9. OwnInv /\ FitsInv
    BY <1>1 DEF OwnInv, FitsInv
  <1>10. PostInv
    BY <1>3 DEF PostInv, Has, Contains
  <1>11. CountInv
    <2>1. Once(nat["POSTROUTING"], LocalReturn)
      BY <1>3 DEF Once
    <2>2. ASSUME NEW x \in Shared \ {"TOP"}, nat[x] # Absent
          PROVE  Len(nat[x]) + Cardinality(Pending(x))
                   <= Cardinality(Containers) + faults + Returns(nat[x])
      <3>1. nat[x] = <<>> /\ Len(<<>>) = 0
        BY <1>1, <2>2 DEF Chains
      <3>2. Returns(nat[x]) \in Nat
        BY DEF Returns
      <3>3. QED
        BY <1>1, <3>1, <3>2, PendingSize
    <2>3. QED
      BY <2>1, <2>2 DEF CountInv
  <1>12. QED
    BY <1>4, <1>5, <1>6, <1>7, <1>8, <1>9, <1>10, <1>11 DEF IInv

LEMMA StepKeeps == IInv /\ [Next]_vars => IInv'
  BY NatStep, PluginStep, MadeStep, DoneStep, CleanStep, JumpStep, MarkStep, OwnStep,
     PostStep, FitsStep, CountStep DEF IInv

\* What every step keeps, of the table, of the plugins and of both together.
THEOREM Invariance == Spec => []IInv
  <1>1. Init => IInv
    BY InitHolds
  <1>2. IInv /\ [Next]_vars => IInv'
    BY StepKeeps
  <1>3. QED
    BY <1>1, <1>2, PTL DEF Spec

-----------------------------------------------------------------------------
(* What the plugin promises *)

\* The chains hold rules that are theirs, and a process runs from its first
\* command to its last (ensure_chain, ensure_rule, insert_rule, remove).
THEOREM Typing == Spec => []TypeOK
  <1>1. IInv => TypeOK
    <2> SUFFICES ASSUME IInv PROVE TypeOK
      OBVIOUS
    <2>1. ASSUME NEW c \in Containers
          PROVE  /\ at[c] \in 0 .. (IF state[c] = "add" THEN Len(Program(c)) ELSE 3)
                 /\ state[c] \in {"add", "del"} <=> at[c] # 0
      <3>1. /\ state[c] \in {"none", "add", "ready", "failed", "del"}
            /\ state[c] = "add" => at[c] \in 1 .. Len(Program(c))
            /\ state[c] = "del" => at[c] \in 1 .. 3
            /\ state[c] \notin {"add", "del"} => at[c] = 0
        BY DEF IInv, PluginInv
      <3>2. Len(Program(c)) \in Nat
        BY ProgramFacts DEF ProgramShape, Program
      <3>3. CASE state[c] = "add"
        BY <3>1, <3>2, <3>3
      <3>4. CASE state[c] = "del"
        BY <3>1, <3>4
      <3>5. CASE state[c] \notin {"add", "del"}
        BY <3>1, <3>5
      <3>6. QED
        BY <3>3, <3>4, <3>5
    <2>2. QED
      BY <2>1 DEF IInv, NatInv, PluginInv, TypeOK
  <1>2. QED
    BY Invariance, <1>1, PTL

\* A DEL none of whose commands failed leaves no rule and no chain (remove).
THEOREM NothingLeft == Spec => []DelLeavesNothing
  <1>1. IInv => DelLeavesNothing
    BY DEF IInv, CleanInv, JumpInv, DelLeavesNothing, Has, Present
  <1>2. QED
    BY Invariance, <1>1, PTL

\* The copies of a shared rule: at most one for each plugin and each fault, and
\* flanneld's RETURN beside them (insert_rule, ensure_rule).
THEOREM Bounded == Spec => []SharedRulesBounded
  <1>1. IInv => SharedRulesBounded
    <2> SUFFICES ASSUME IInv, NEW x \in Hooks \cup {"SETMARK", "MASQ"}, nat[x] # Absent
                 PROVE  Len(nat[x]) <= Cardinality(Containers) + 1 + faults
      BY DEF SharedRulesBounded
    <2>1. x \in Shared \ {"TOP"} /\ x \in Chains
      BY DEF Shared, Hooks, Chains
    <2>2. Len(nat[x]) + Cardinality(Pending(x))
            <= Cardinality(Containers) + faults + Returns(nat[x])
      BY <2>1 DEF IInv, CountInv
    <2>3. nat[x] \in Seq(Rules(x)) /\ Len(nat[x]) \in Nat
      BY <2>1 DEF IInv, NatInv
    <2>4. faults \in Nat /\ Returns(nat[x]) \in 0 .. 1
      BY DEF IInv, PluginInv, Returns
    <2>5. Cardinality(Containers) \in Nat /\ Cardinality(Pending(x)) \in Nat
      BY PendingSize
    <2>6. QED
      BY ONLY <2>2, <2>3, <2>4, <2>5
  <1>2. QED
    BY Invariance, <1>1, PTL

-----------------------------------------------------------------------------
(* Where a packet goes *)

\* First, for the three tests the properties use.
RuleAt(x, r) ==
  LET I == {i \in 1 .. Len(nat[x]) : nat[x][i] = r}
  IN  IF nat[x] = Absent THEN 0 ELSE IF I # {} THEN Min(I) ELSE 0

DnatAt(x, port) ==
  LET I == {i \in 1 .. Len(nat[x]) : nat[x][i][1] = "dnat" /\ nat[x][i][2] = port}
  IN  IF nat[x] = Absent THEN 0 ELSE IF I # {} THEN Min(I) ELSE 0

JumpAt(port) ==
  LET I == {i \in 1 .. Len(nat["TOP"]) : /\ nat["TOP"][i][2] # None
                                         /\ DnatAt(nat["TOP"][i][2], port) # 0}
  IN  IF nat["TOP"] = Absent THEN 0 ELSE IF I # {} THEN Min(I) ELSE 0

LEMMA RuleAtFacts ==
  ASSUME NatInv, NEW x \in Chains, NEW r
  PROVE  /\ RuleAt(x, r) \in Nat
         /\ RuleAt(x, r) # 0 =>
              /\ nat[x] # Absent /\ RuleAt(x, r) \in 1 .. Len(nat[x])
              /\ nat[x][RuleAt(x, r)] = r
         /\ \A k \in 1 .. Len(nat[x]) : nat[x] # Absent /\ nat[x][k] = r =>
              RuleAt(x, r) # 0 /\ RuleAt(x, r) <= k
  <1> DEFINE I == {i \in 1 .. Len(nat[x]) : nat[x][i] = r}
  <1>1. CASE nat[x] = Absent
    BY <1>1 DEF RuleAt
  <1>2. CASE nat[x] # Absent
    <2>1. nat[x] \in Seq(Rules(x)) /\ Len(nat[x]) \in Nat
      BY <1>2 DEF NatInv
    <2>2. I \in SUBSET Nat /\ \A k : k \in I <=> k \in 1 .. Len(nat[x]) /\ nat[x][k] = r
      BY <2>1
    <2>3. RuleAt(x, r) = IF I # {} THEN Min(I) ELSE 0
      BY <1>2 DEF RuleAt
    <2> HIDE DEF I
    <2>4. CASE I # {}
      <3>1. Min(I) \in I /\ \A k \in I : Min(I) <= k
        BY <2>2, <2>4, MinFacts
      <3>2. QED
        BY <1>2, <2>1, <2>2, <2>3, <2>4, <3>1
    <2>5. CASE I = {}
      BY <1>2, <2>2, <2>3, <2>5
    <2>6. QED
      BY <2>4, <2>5
  <1>3. QED
    BY <1>1, <1>2

LEMMA DnatAtFacts ==
  ASSUME NatInv, NEW c \in Containers, NEW port
  PROVE  /\ DnatAt(c, port) \in Nat
         /\ DnatAt(c, port) # 0 =>
              /\ nat[c] # Absent /\ DnatAt(c, port) \in 1 .. Len(nat[c])
              /\ \E i \in Ips : nat[c][DnatAt(c, port)] = Dnat(port, i)
              /\ port \in Range(Mappings[c])
         /\ \A i : Has(nat[c], Dnat(port, i)) => DnatAt(c, port) # 0
  <1> DEFINE I == {i \in 1 .. Len(nat[c]) : nat[c][i][1] = "dnat" /\ nat[c][i][2] = port}
  <1>1. CASE nat[c] = Absent
    BY <1>1 DEF DnatAt, Has
  <1>2. CASE nat[c] # Absent
    <2>1. /\ nat[c] \in Seq(OwnRules(Range(Mappings[c]))) /\ Len(nat[c]) \in Nat
      <3>1. c \in Chains /\ Rules(c) = OwnRules(Range(Mappings[c]))
        BY NamesAssumption DEF Chains, Rules
      <3>2. nat[c] \in Seq(Rules(c))
        BY <1>2, <3>1 DEF NatInv
      <3>3. QED
        BY <3>1, <3>2
    <2>2. I \in SUBSET Nat /\ \A k : k \in I <=>
            k \in 1 .. Len(nat[c]) /\ nat[c][k][1] = "dnat" /\ nat[c][k][2] = port
      BY <2>1
    <2>3. DnatAt(c, port) = IF I # {} THEN Min(I) ELSE 0
      BY <1>2 DEF DnatAt
    <2>4. ASSUME NEW r \in OwnRules(Range(Mappings[c])), r[1] = "dnat", r[2] = port
          PROVE  port \in Range(Mappings[c]) /\ \E i \in Ips : r = Dnat(port, i)
      BY <2>4 DEF OwnRules, Hairpin, Localhost, Dnat
    <2> HIDE DEF I
    <2>5. CASE I # {}
      <3>1. Min(I) \in I
        BY <2>2, <2>5, MinFacts
      <3>2. Min(I) \in 1 .. Len(nat[c]) /\ nat[c][Min(I)] \in OwnRules(Range(Mappings[c]))
        BY <2>1, <2>2, <3>1
      <3>3. port \in Range(Mappings[c]) /\ \E i \in Ips : nat[c][Min(I)] = Dnat(port, i)
        BY <2>2, <2>4, <3>1, <3>2
      <3>4. Min(I) \in Nat /\ Min(I) # 0
        BY <2>1, <3>2
      <3>5. DnatAt(c, port) = Min(I)
        BY <2>3, <2>5
      <3>6. QED
        BY <1>2, <3>2, <3>3, <3>4, <3>5
    <2>6. CASE I = {}
      <3>1. ASSUME NEW i, Has(nat[c], Dnat(port, i)) PROVE FALSE
        <4>1. PICK k \in 1 .. Len(nat[c]) : nat[c][k] = Dnat(port, i)
          BY <3>1 DEF Has, Contains
        <4>2. nat[c][k][1] = "dnat" /\ nat[c][k][2] = port
          BY <4>1 DEF Dnat
        <4>3. QED
          BY <2>2, <2>6, <4>2
      <3>2. QED
        BY <2>3, <2>6, <3>1
    <2>7. QED
      BY <2>5, <2>6
  <1>3. QED
    BY <1>1, <1>2

\* The first jump that leads to a DNAT for the port is to a container's chain.
LEMMA JumpAtFacts ==
  ASSUME NatInv, NEW port
  PROVE  /\ JumpAt(port) \in Nat
         /\ JumpAt(port) # 0 =>
              /\ nat["TOP"] # Absent /\ JumpAt(port) \in 1 .. Len(nat["TOP"])
              /\ nat["TOP"][JumpAt(port)][2] \in Containers
              /\ nat["TOP"][JumpAt(port)] = Jump(nat["TOP"][JumpAt(port)][2])
              /\ DnatAt(nat["TOP"][JumpAt(port)][2], port) # 0
         /\ \A c \in Containers :
              Has(nat["TOP"], Jump(c)) /\ DnatAt(c, port) # 0 => JumpAt(port) # 0
  <1> DEFINE s == nat["TOP"]
             I == {i \in 1 .. Len(s) : s[i][2] # None /\ DnatAt(s[i][2], port) # 0}
  <1>1. CASE s = Absent
    BY <1>1 DEF JumpAt, Has
  <1>2. CASE s # Absent
    <2>1. s \in Seq({Jump(c) : c \in Containers}) /\ Len(s) \in Nat
      <3>1. "TOP" \in Chains /\ Rules("TOP") = {Jump(c) : c \in Containers}
        BY DEF Chains, Shared, Rules, SharedRules
      <3>2. s \in Seq(Rules("TOP"))
        BY <1>2, <3>1 DEF NatInv
      <3>3. QED
        BY <3>1, <3>2
    <2>2. \A k \in 1 .. Len(s) : \E c \in Containers : s[k] = Jump(c)
      BY <2>1
    <2>3. \A k \in 1 .. Len(s) : s[k][2] \in Containers /\ s[k] = Jump(s[k][2])
      BY <2>2 DEF Jump
    <2>4. I \in SUBSET Nat /\ \A k : k \in I <=>
            k \in 1 .. Len(s) /\ s[k][2] # None /\ DnatAt(s[k][2], port) # 0
      BY <2>1
    <2>5. JumpAt(port) = IF I # {} THEN Min(I) ELSE 0
      BY <1>2 DEF JumpAt
    <2>6. s = nat["TOP"]
      OBVIOUS
    <2> HIDE DEF I, s
    <2>7. CASE I # {}
      <3>1. Min(I) \in I
        BY <2>4, <2>7, MinFacts
      <3>2. Min(I) \in 1 .. Len(s) /\ Min(I) \in Nat /\ Min(I) # 0
        BY <2>1, <2>4, <3>1
      <3>3. JumpAt(port) = Min(I)
        BY <2>5, <2>7
      <3>4. DnatAt(s[Min(I)][2], port) # 0
        BY <2>4, <3>1
      <3>5. QED
        BY <1>2, <2>3, <2>6, <3>2, <3>3, <3>4
    <2>8. CASE I = {}
      <3>1. ASSUME NEW c \in Containers, Has(s, Jump(c)), DnatAt(c, port) # 0 PROVE FALSE
        <4>1. PICK k \in 1 .. Len(s) : s[k] = Jump(c)
          BY <3>1 DEF Has, Contains
        <4>2. s[k][2] = c /\ c # None
          BY <4>1, NamesAssumption DEF Jump
        <4>3. k \in I
          BY <2>4, <3>1, <4>2
        <4>4. QED
          BY <2>8, <4>3
      <3>2. QED
        BY <2>5, <2>6, <2>8, <3>1
    <2>9. QED
      BY <2>7, <2>8
  <1>3. QED
    BY <1>1, <1>2

LEMMA FirstFacts ==
  ASSUME NEW x, NEW port, NEW rule
  PROVE  /\ First(x, LAMBDA q : q = rule) = RuleAt(x, rule)
         /\ First(x, LAMBDA q : q[1] = "dnat" /\ q[2] = port) = DnatAt(x, port)
         /\ Position(port) = IF JumpAt(port) = 0 THEN <<0, 0>>
                             ELSE <<JumpAt(port), DnatAt(nat["TOP"][JumpAt(port)][2], port)>>
  <1>1. First(x, LAMBDA q : q = rule) = RuleAt(x, rule)
    BY DEF First, RuleAt, SelectInSeq
  <1>2. First(x, LAMBDA q : q[1] = "dnat" /\ q[2] = port) = DnatAt(x, port)
    BY DEF First, DnatAt, SelectInSeq
  <1>3. QED
    BY <1>1, <1>2 DEF Position, First, DnatAt, JumpAt, SelectInSeq

\* From a successful ADD to the DEL a packet to a published port goes to that pod:
\* the rules of its program are there, those of another container have none for
\* the port, and its own name no other address (apply, remove).
THEOREM Serving == Spec => []ServesPod
  <1>1. IInv => ServesPod
    <2> SUFFICES ASSUME IInv, NEW c \in Containers, c \notin flushed, state[c] = "ready",
                        \A d \in spared : ~ Shares(c, d), NEW k \in DOMAIN Mappings[c]
                 PROVE  LET port == Mappings[c][k]
                        IN  /\ Present("PREROUTING", Jump("TOP"))
                            /\ Present("OUTPUT", Jump("TOP"))
                            /\ Published(port) /\ Target(port) = podIp[c]
      BY DEF ServesPod
    <2> DEFINE port == Mappings[c][k]  P == Program(c)  n == Len(Mappings[c])
    <2>1. /\ k \in 1 .. n /\ n \in Nat /\ port \in Range(Mappings[c]) /\ Mappings[c] # <<>>
          /\ port \in Ports
      BY MappingsAssumption DEF Range
    <2>2. c \notin spared
      BY <2>1 DEF Shares
    <2>3. ASSUME NEW j \in 1 .. Len(P), P[j].op # "new"
          PROVE  Has(nat[P[j].chain], P[j].rule)
      BY <2>1, <2>3 DEF IInv, DoneInv, Passed
    <2>4. /\ Len(P) = 10 + 3 * n
          /\ P[2] = Insert("PREROUTING", Jump("TOP")) /\ P[3] = Insert("OUTPUT", Jump("TOP"))
          /\ P[10] = Append_("TOP", Jump(c)) /\ P[10 + 3 * k] = Append_(c, Dnat(port, podIp[c]))
      BY <2>1, ProgramFacts DEF ProgramShape, Program
    <2> HIDE DEF P, n, port
    <2>5. Has(nat["PREROUTING"], Jump("TOP")) /\ Has(nat["OUTPUT"], Jump("TOP"))
      <3>1. 2 \in 1 .. Len(P) /\ 3 \in 1 .. Len(P)
        BY <2>1, <2>4
      <3>2. Has(nat["PREROUTING"], Jump("TOP"))
        BY <2>3, <2>4, <3>1 DEF Insert
      <3>3. Has(nat["OUTPUT"], Jump("TOP"))
        BY <2>3, <2>4, <3>1 DEF Insert
      <3>4. QED
        BY <3>2, <3>3
    <2>6. Has(nat["TOP"], Jump(c))
      <3>1. 10 \in 1 .. Len(P)
        BY <2>1, <2>4
      <3>2. QED
        BY <2>3, <2>4, <3>1 DEF Append_
    <2>7. Has(nat[c], Dnat(port, podIp[c]))
      <3>1. 10 + 3 * k \in 1 .. Len(P)
        BY <2>1, <2>4
      <3>2. QED
        BY <2>3, <2>4, <3>1 DEF Append_
    <2> DEFINE i == JumpAt(port)  d == nat["TOP"][i][2]  q == DnatAt(d, port)
    <2>8. /\ i # 0 /\ i \in 1 .. Len(nat["TOP"]) /\ d \in Containers /\ q # 0
          /\ Has(nat["TOP"], Jump(d))
      <3>1. DnatAt(c, port) # 0
        BY <2>7, DnatAtFacts DEF IInv
      <3>2. i # 0
        BY <2>6, <3>1, JumpAtFacts DEF IInv
      <3>3. /\ nat["TOP"] # Absent /\ i \in 1 .. Len(nat["TOP"])
            /\ d \in Containers /\ nat["TOP"][i] = Jump(d) /\ q # 0
        BY <3>2, JumpAtFacts DEF IInv
      <3>4. QED
        BY <3>2, <3>3 DEF Has, Contains
    <2>9. Position(port) = <<i, q>>
      BY <2>8, FirstFacts
    <2> HIDE DEF i
    <2>10. d = c
      <3> SUFFICES ASSUME d # c PROVE FALSE
        OBVIOUS
      <3>1. port \in Range(Mappings[d])
        BY <2>8, DnatAtFacts DEF IInv
      <3>2. Shares(c, d)
        <4>1. PICK m \in DOMAIN Mappings[d] : Mappings[d][m] = port
          BY <3>1 DEF Range
        <4>2. Mappings[c][k] = Mappings[d][m]
          BY <4>1 DEF port
        <4>3. QED
          BY <4>1, <4>2 DEF Shares
      <3>3. d \notin spared
        BY <3>2
      <3>4. state[d] # "none"
        BY <2>8, <3>3 DEF IInv, JumpInv
      <3>5. QED
        BY <2>8, <3>2, <3>4 DEF IInv, FitsInv
    <2>11. /\ nat[c] # Absent /\ q \in 1 .. Len(nat[c])
           /\ \E a \in Ips : nat[c][q] = Dnat(port, a)
      BY <2>8, <2>10, DnatAtFacts DEF IInv
    <2>12. nat[c][q] = Dnat(port, podIp[c])
      <3>1. PICK a \in Ips : nat[c][q] = Dnat(port, a)
        BY <2>11
      <3>2. Has(nat[c], Dnat(port, a))
        BY <2>11, <3>1 DEF Has, Contains
      <3>3. a = podIp[c]
        BY <2>1, <2>2, <3>2 DEF IInv, OwnInv, port
      <3>4. QED
        BY <3>1, <3>3
    <2>13. Published(port)
      BY <2>8, <2>9 DEF Published
    <2>14. Target(port) = podIp[c]
      <3>1. Position(port)[1] = i /\ Position(port)[2] = q
        BY <2>9
      <3>2. Publisher(port) = d
        BY <3>1 DEF Publisher
      <3>3. Target(port) = nat[d][q][3]
        BY <3>1, <3>2 DEF Target
      <3>4. QED
        BY <2>10, <2>12, <3>3 DEF Dnat
    <2>15. QED
      BY <2>5, <2>13, <2>14 DEF Has, Present, port
  <1>2. QED
    BY Invariance, <1>1, PTL

\* A packet that is sent on from 127.0.0.1 is masqueraded, at any moment of any ADD
\* and DEL (ensure_top_chains, apply).
THEOREM Masqueraded == Spec => []LoopbackMasqueraded
  <1>1. IInv => LoopbackMasqueraded
    <2> SUFFICES ASSUME IInv, NEW port \in Ports, Published(port), Publisher(port) \notin flushed
                 PROVE  /\ Met(port, Localhost(port))
                        /\ Present("SETMARK", Mark) /\ Present("MASQ", Masquerade)
                        /\ LET jump == RuleAt("POSTROUTING", Jump("MASQ"))
                               return == RuleAt("POSTROUTING", LocalReturn)
                           IN  jump # 0 /\ (return # 0 => jump < return)
      BY FirstFacts DEF LoopbackMasqueraded
    <2> DEFINE i == JumpAt(port)  c == nat["TOP"][i][2]  q == DnatAt(c, port)
    <2>1. i # 0 /\ Position(port) = <<i, q>>
      <3>1. Position(port) = IF i = 0 THEN <<0, 0>> ELSE <<i, q>>
        BY FirstFacts
      <3>2. QED
        BY <3>1 DEF Published
    <2>2. i \in Nat /\ i \in 1 .. Len(nat["TOP"]) /\ c \in Containers /\ q # 0
      BY <2>1, JumpAtFacts DEF IInv
    <2>3. c \notin flushed
      <3>1. Position(port)[1] = i
        BY <2>1
      <3>2. QED
        BY <3>1 DEF Publisher
    <2> HIDE DEF i
    <2>4. /\ nat[c] # Absent /\ q \in 1 .. Len(nat[c])
          /\ \E a \in Ips : nat[c][q] = Dnat(port, a)
      BY <2>2, DnatAtFacts DEF IInv
    <2>5. Len(nat[c]) \in Nat /\ nat[c] # <<>> /\ c \in Chains
      <3>1. c \in Chains /\ nat[c] \in Seq(Rules(c))
        BY <2>2, <2>4 DEF IInv, NatInv, Chains
      <3>2. QED
        BY <2>4, <3>1
    <2>6. /\ Has(nat["SETMARK"], Mark) /\ Has(nat["MASQ"], Masquerade)
          /\ Has(nat["POSTROUTING"], Jump("MASQ"))
      BY <2>2, <2>3, <2>4, <2>5 DEF IInv, MarkInv
    <2>7. PICK j \in 1 .. Len(nat[c]) : j < q /\ nat[c][j] = Localhost(port)
      <3>1. PICK a \in Ips : nat[c][q] = Dnat(port, a)
        BY <2>4
      <3>2. Precedes(nat[c], Localhost(port), Dnat(port, a))
        BY <2>2, <2>3, <2>4 DEF IInv, MarkInv
      <3>3. QED
        BY <2>4, <3>1, <3>2 DEF Precedes
    <2>8. Met(port, Localhost(port))
      <3> DEFINE m == RuleAt(c, Localhost(port))
      <3>1. m # 0 /\ m <= j /\ m \in Nat
        BY <2>4, <2>5, <2>7, RuleAtFacts DEF IInv
      <3>2. m < q
        BY <2>4, <2>5, <2>7, <3>1
      <3>3. First(c, LAMBDA r : r = Localhost(port)) = m
        BY FirstFacts
      <3> HIDE DEF m
      <3>4. Position(port)[1] = i /\ Position(port)[2] = q /\ i \in 1 .. i
        BY <2>1, <2>2
      <3>5. QED
        BY <3>1, <3>2, <3>3, <3>4 DEF Met
    <2>9. LET jump == RuleAt("POSTROUTING", Jump("MASQ"))
              return == RuleAt("POSTROUTING", LocalReturn)
          IN  jump # 0 /\ (return # 0 => jump < return)
      <3> DEFINE s == nat["POSTROUTING"]
                 jump == RuleAt("POSTROUTING", Jump("MASQ"))
                 return == RuleAt("POSTROUTING", LocalReturn)
      <3>1. "POSTROUTING" \in Chains /\ s # Absent /\ s \in Seq(Rules("POSTROUTING"))
        BY <2>6 DEF Chains, Shared, Hooks, IInv, NatInv, Has
      <3>2. /\ jump \in Nat /\ return \in Nat
            /\ \A k \in 1 .. Len(s) : s[k] = Jump("MASQ") => jump # 0 /\ jump <= k
            /\ return # 0 => return \in 1 .. Len(s) /\ s[return] = LocalReturn
        BY <3>1, RuleAtFacts DEF IInv
      <3>3. jump # 0
        BY <2>6, <3>2 DEF Has, Contains
      <3>4. ASSUME return # 0 PROVE jump < return
        <4>1. PICK k \in 1 .. Len(s) : k < return /\ s[k] = Jump("MASQ")
          BY <2>6, <3>2, <3>4 DEF IInv, PostInv, Precedes
        <4>2. k \in Nat /\ jump <= k
          BY <3>1, <3>2, <4>1
        <4>3. QED
          BY <3>2, <4>1, <4>2
      <3>5. QED
        BY <3>3, <3>4
    <2>10. QED
      BY <2>6, <2>8, <2>9 DEF Has, Present
  <1>2. QED
    BY Invariance, <1>1, PTL

=============================================================================
