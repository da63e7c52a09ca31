---------------------------- MODULE IpMasqProofs ----------------------------
(***************************************************************************)
(* Proofs about IpMasq: as long as nobody flushes the chain in the middle  *)
(* of an ensure, no fault makes flanneld masquerade pod-to-pod traffic.    *)
(***************************************************************************)
EXTENDS IpMasq, FiniteSetTheorems, WellFoundedInduction, TLAPS

\* Before every entry of rule s there is one of rule r.
Precedes(c, r, s) ==
  \A i \in DOMAIN c :
    c[i].rule = s => \E j \in DOMAIN c : j < i /\ c[j].rule = r

\* A chain in which the RETURN rule of each pair precedes its MASQUERADE rule.
Ordered(c) ==
  /\ c \in Seq(Entry)
  /\ Precedes(c, 1, 2) /\ Precedes(c, 3, 4)

Has(r) == \E i \in DOMAIN chain : chain[i].rule = r

\* The inductive invariant: the RETURN rule of each pair precedes its
\* MASQUERADE rule, and ensure has passed a rule only if it is in the chain.
IInv ==
  /\ TypeOK
  /\ Precedes(chain, 1, 2) /\ Precedes(chain, 3, 4)
  /\ rule > 1 => Has(1)
  /\ rule > 3 => Has(3)
  /\ pc = "idle" => rule = 1
  /\ pc \in {"check_plain", "append_plain"} => Masquerades(rule)

-----------------------------------------------------------------------------
\* A set of numbers that is not empty has a least element.
LEMMA LeastElement ==
  ASSUME NEW S \in SUBSET Nat, S # {}
  PROVE  \E m \in S : \A k \in S : m <= k
  <1> DEFINE R == OpToRel(<, Nat)
  <1>1. \A x, y \in Nat : <<y, x>> \in R <=> y < x
    BY DEF OpToRel
  <1>2. IsWellFoundedOn(R, Nat)
    BY NatLessThanWellFounded
  <1> HIDE DEF R
  <1>3. PICK x \in S : \A y \in S : ~ (<<y, x>> \in R)
    BY <1>2, WFMin
  <1>4. ASSUME NEW k \in S PROVE x <= k
    <2>1. x \in Nat /\ k \in Nat
      OBVIOUS
    <2>2. ~ (k < x)
      BY <1>1, <1>3, <2>1
    <2>3. QED
      BY <2>1, <2>2
  <1>5. QED
    BY <1>4

\* An entry at the end of the chain keeps the order of a pair if it is not of
\* the pair's second rule, or if the first one is there.
LEMMA AppendKeepsOrder ==
  ASSUME NEW e \in Entry, TypeOK, chain' = Append(chain, e),
         NEW r \in Rules, NEW s \in Rules, Precedes(chain, r, s),
         e.rule = s => Has(r)
  PROVE  Precedes(chain, r, s)'
  <1>1. /\ Len(chain) \in Nat /\ DOMAIN chain = 1 .. Len(chain)
        /\ DOMAIN chain' = 1 .. Len(chain) + 1
        /\ \A i \in DOMAIN chain : chain'[i] = chain[i]
        /\ chain'[Len(chain) + 1] = e
    BY DEF TypeOK
  <1>2. SUFFICES ASSUME NEW i \in DOMAIN chain', chain'[i].rule = s
                 PROVE  \E j \in DOMAIN chain' : j < i /\ chain'[j].rule = r
    BY DEF Precedes
  <1>3. CASE i \in DOMAIN chain
    <2>1. PICK j \in DOMAIN chain : j < i /\ chain[j].rule = r
      BY <1>1, <1>2, <1>3 DEF Precedes
    <2>2. j \in DOMAIN chain' /\ chain'[j].rule = r
      BY <1>1, <2>1
    <2>3. QED
      BY <2>1, <2>2
  <1>4. CASE i = Len(chain) + 1
    <2>1. PICK j \in DOMAIN chain : chain[j].rule = r
      BY <1>1, <1>2, <1>4 DEF Has
    <2>2. j \in DOMAIN chain' /\ j < i /\ chain'[j].rule = r
      BY <1>1, <1>4, <2>1
    <2>3. QED
      BY <2>2
  <1>5. QED
    BY <1>1, <1>3, <1>4

\* An appended entry is in the chain, and so is every entry that was.
LEMMA AppendKeepsEntries ==
  ASSUME NEW e \in Entry, TypeOK, chain' = Append(chain, e), NEW r \in Rules
  PROVE  /\ Has(r) => Has(r)'
         /\ e.rule = r => Has(r)'
  BY DEF TypeOK, Has

\* A step that leaves the chain alone keeps its order and its entries.
LEMMA ChainUnchanged ==
  ASSUME UNCHANGED chain, NEW r \in Rules, NEW s \in Rules
  PROVE  /\ Precedes(chain, r, s) => Precedes(chain, r, s)'
         /\ Has(r) => Has(r)'
  BY DEF Precedes, Has

\* Appending the rule ensure is at, and going on.
LEMMA AppendKeeps ==
  ASSUME IInv, pc # "idle", UNCHANGED lacks, faults' \in 0 .. MaxFaults,
         NEW fully \in BOOLEAN, chain' = Append(chain, [rule |-> rule, fully |-> fully]),
         NextRule
  PROVE  IInv'
  <1> DEFINE e == [rule |-> rule, fully |-> fully]
  <1>1. e \in Entry /\ e.rule = rule /\ rule \in 1 .. 4 /\ TypeOK
    BY DEF IInv, TypeOK, Entry, Rules
  <1>2. Precedes(chain, 1, 2)' /\ Precedes(chain, 3, 4)'
    <2>1. e.rule = 2 => Has(1)
      BY <1>1 DEF IInv
    <2>2. e.rule = 4 => Has(3)
      BY <1>1 DEF IInv
    <2>3. QED
      BY <1>1, <2>1, <2>2, AppendKeepsOrder DEF IInv, Rules
  <1>3. \A r \in Rules : (Has(r) => Has(r)') /\ (rule = r => Has(r)')
    BY <1>1, AppendKeepsEntries
  <1>4. (rule' > 1 => Has(1)') /\ (rule' > 3 => Has(3)')
    BY <1>1, <1>3 DEF IInv, NextRule, Rules
  <1>5. TypeOK'
    BY <1>1 DEF TypeOK, NextRule, Rules
  <1>6. QED
    BY <1>2, <1>4, <1>5 DEF IInv, NextRule

\* A step that leaves the chain alone and goes on from a rule only if that rule
\* is there.
LEMMA MoveKeeps ==
  ASSUME IInv, UNCHANGED <<lacks, chain>>, faults' \in 0 .. MaxFaults,
         \/ NextRule /\ Has(rule)
         \/ GiveUp
         \/ UNCHANGED rule /\ pc' = "append"
         \/ UNCHANGED rule /\ pc' \in {"check_plain", "append_plain"} /\ Masquerades(rule)
  PROVE  IInv'
  <1>1. rule \in 1 .. 4 /\ TypeOK
    BY DEF IInv, TypeOK, Rules
  <1>2. Precedes(chain, 1, 2)' /\ Precedes(chain, 3, 4)'
    BY ChainUnchanged DEF IInv, Rules
  <1>3. \A r \in Rules : Has(r) => Has(r)'
    BY ChainUnchanged
  <1>4. (rule' > 1 => Has(1)') /\ (rule' > 3 => Has(3)')
    BY <1>1, <1>3 DEF IInv, NextRule, GiveUp, Rules
  <1>5. TypeOK'
    BY <1>1 DEF TypeOK, NextRule, GiveUp, Rules
  <1>6. pc' = "idle" => rule' = 1
    BY DEF IInv, NextRule, GiveUp
  <1>7. pc' \in {"check_plain", "append_plain"} => Masquerades(rule)'
    BY DEF IInv, NextRule, GiveUp, Masquerades
  <1>8. QED
    BY <1>2, <1>4, <1>5, <1>6, <1>7 DEF IInv

LEMMA InitHolds == Init => IInv
  BY ParametersAssumption DEF Init, IInv, TypeOK, Rules, Entry, Precedes, Masquerades

LEMMA NextKeeps ==
  ASSUME "flush_within" \notin Disturb, IInv, [Next]_vars
  PROVE  IInv'
  <1>1. TypeOK
    BY DEF IInv
  <1> USE ParametersAssumption
  <1>2. ASSUME NEW kind, Disturbed(kind) PROVE faults' \in 0 .. MaxFaults
    BY <1>1, <1>2 DEF Disturbed, TypeOK
  <1>3. CASE Tick
    <2>1. TypeOK' /\ rule' = 1 /\ pc' = "check"
      BY <1>1, <1>3 DEF Tick, TypeOK, Rules
    <2>2. Precedes(chain, 1, 2)' /\ Precedes(chain, 3, 4)'
      BY <1>3, ChainUnchanged DEF Tick, IInv, Rules
    <2>3. QED
      BY <2>1, <2>2 DEF IInv
  <1>4. CASE Check
    <2>1. faults' \in 0 .. MaxFaults
      BY <1>1, <1>2, <1>4 DEF Check, TypeOK
    <2>2. Known(rule) => Has(rule)
      BY DEF Known, Present, Has
    <2>3. QED
      BY <1>4, <2>1, <2>2, MoveKeeps DEF Check
  <1>5. ASSUME NEW r \in Rules, AppendRule(r) PROVE IInv'
    <2>1. faults' \in 0 .. MaxFaults
      BY <1>1, <1>2, <1>5 DEF AppendRule, TypeOK
    <2>2. CASE chain' = Append(chain, [rule |-> r, fully |-> Masquerades(r)]) /\ NextRule
      <3>1. Masquerades(r) \in BOOLEAN
        BY DEF Masquerades
      <3>2. QED
        BY <1>5, <2>1, <2>2, <3>1, AppendKeeps DEF AppendRule
    <2>3. CASE UNCHANGED chain /\ (GiveUp \/ (pc' = "check_plain" /\ UNCHANGED rule
                                                /\ Masquerades(r)))
      BY <1>5, <2>1, <2>3, MoveKeeps DEF AppendRule
    <2>4. QED
      BY <1>5, <2>2, <2>3 DEF AppendRule
  <1>6. CASE CheckPlain
    <2>1. faults' \in 0 .. MaxFaults
      BY <1>1, <1>2, <1>6 DEF CheckPlain, TypeOK
    <2>2. Present(rule, FALSE) => Has(rule)
      BY DEF Present, Has
    <2>3. Masquerades(rule)
      BY <1>6 DEF CheckPlain, IInv
    <2>4. QED
      BY <1>6, <2>1, <2>2, <2>3, MoveKeeps DEF CheckPlain
  <1>7. CASE AppendPlain
    <2>1. faults' \in 0 .. MaxFaults
      BY <1>1, <1>2, <1>7 DEF AppendPlain, TypeOK
    <2>2. QED
      BY <1>7, <2>1, AppendKeeps, MoveKeeps DEF AppendPlain
  <1>8. CASE Abort
    BY <1>2, <1>8, MoveKeeps DEF Abort
  <1>9. CASE Flush
    <2>1. pc = "idle" /\ faults' \in 0 .. MaxFaults /\ chain' = <<>>
      BY <1>2, <1>9 DEF Flush, Disturbed
    <2>2. TypeOK'
      BY <1>1, <1>9, <2>1 DEF Flush, TypeOK
    <2>3. Precedes(chain, 1, 2)' /\ Precedes(chain, 3, 4)'
      BY <2>1 DEF Precedes
    <2>4. QED
      BY <1>9, <2>1, <2>2, <2>3 DEF Flush, IInv
  <1>10. CASE UNCHANGED vars
    <2>1. TypeOK'
      BY <1>1, <1>10 DEF vars, TypeOK
    <2>2. QED
      BY <1>10, <2>1, ChainUnchanged DEF vars, IInv, Rules, Masquerades
  <1>11. QED
    BY <1>3, <1>4, <1>5, <1>6, <1>7, <1>8, <1>9, <1>10 DEF Next, Step

\* In a chain so ordered the first match of an exempt packet is its RETURN.
LEMMA OrderExempts ==
  ASSUME NEW c, Ordered(c)
  PROVE  Exempts(c)
  <1>1. DOMAIN c \in SUBSET Nat /\ \A i \in DOMAIN c : c[i].rule \in 1 .. 4
    <2>1. c \in Seq(Entry)
      BY DEF Ordered
    <2>2. DOMAIN c = 1 .. Len(c) /\ Len(c) \in Nat
      BY <2>1
    <2>3. \A i \in DOMAIN c : c[i] \in Entry
      BY <2>1
    <2>4. QED
      BY <2>2, <2>3 DEF Entry, Rules
  <1>2. ASSUME NEW packet, Hits(c, packet) # {}, NEW r \in Rules, NEW s \in Rules,
               Precedes(c, r, s), ~ Masquerades(r), packet \in Matches(r),
               \A t \in Rules : packet \in Matches(t) => t \in {r, s}
        PROVE  Verdict(c, packet) # "MASQUERADE"
    <2> DEFINE first == CHOOSE i \in Hits(c, packet) : \A j \in Hits(c, packet) : i <= j
    <2>1. Hits(c, packet) \in SUBSET Nat
      BY <1>1 DEF Hits
    <2>2. first \in Hits(c, packet) /\ \A j \in Hits(c, packet) : first <= j
      BY <1>2, <2>1, LeastElement
    <2> HIDE DEF first
    <2>3. first \in DOMAIN c /\ first \in Nat /\ c[first].rule \in {r, s}
      BY <1>1, <1>2, <2>2 DEF Hits, Rules
    <2>4. c[first].rule # s \/ s = r
      <3>1. SUFFICES ASSUME c[first].rule = s PROVE FALSE
        OBVIOUS
      <3>2. PICK j \in DOMAIN c : j < first /\ c[j].rule = r
        BY <1>2, <2>3, <3>1 DEF Precedes
      <3>3. j \in Hits(c, packet) /\ j \in Nat
        BY <1>1, <1>2, <3>2 DEF Hits
      <3>4. QED
        BY <2>2, <2>3, <3>2, <3>3
    <2>5. ~ Masquerades(c[first].rule)
      BY <1>2, <2>3, <2>4
    <2>6. QED
      BY <1>2, <2>5 DEF Verdict, first
  <1>3. Verdict(c, "pod_pod") # "MASQUERADE"
    <2>1. CASE Hits(c, "pod_pod") = {}
      BY <2>1 DEF Verdict
    <2>2. CASE Hits(c, "pod_pod") # {}
      <3>1. /\ "pod_pod" \in Matches(1) /\ ~ Masquerades(1)
            /\ \A t \in Rules : "pod_pod" \in Matches(t) => t \in {1, 2}
        BY DEF Matches, Masquerades, Rules
      <3>2. QED
        BY <1>2, <2>2, <3>1 DEF Ordered, Rules
    <2>3. QED
      BY <2>1, <2>2
  <1>4. Verdict(c, "in_local") # "MASQUERADE"
    <2>1. CASE Hits(c, "in_local") = {}
      BY <2>1 DEF Verdict
    <2>2. CASE Hits(c, "in_local") # {}
      <3>1. /\ "in_local" \in Matches(3) /\ ~ Masquerades(3)
            /\ \A t \in Rules : "in_local" \in Matches(t) => t \in {3, 4}
        BY DEF Matches, Masquerades, Rules
      <3>2. QED
        BY <1>2, <2>2, <3>1 DEF Ordered, Rules
    <2>3. QED
      BY <2>1, <2>2
  <1>5. QED
    BY <1>3, <1>4 DEF Exempts

LEMMA InvariantExempts == IInv => Exempt
  BY OrderExempts DEF IInv, TypeOK, Ordered, Exempt

-----------------------------------------------------------------------------
(* How long the chain gets *)

\* The entries of a chain, and those that ensure ever makes.
Kinds(c) == {c[i] : i \in DOMAIN c}
RuleKinds ==
  {[rule |-> r, fully |-> FALSE] : r \in Rules} \cup {[rule |-> r, fully |-> TRUE] : r \in {2, 4}}

\* An entry that is twice in a chain, or is about to be, was paid for by a fault.
Grown(c, owed, paid) ==
  Kinds(c) \subseteq RuleKinds /\ Len(c) + owed <= Cardinality(Kinds(c)) + paid

\* Whether the command ensure is at repeats an entry.
Owed ==
  IF \/ pc = "append" /\ Known(rule)
     \/ pc = "append_plain" /\ Present(rule, FALSE)
  THEN 1 ELSE 0

GrowthInv == TypeOK /\ Grown(chain, Owed, faults)

\* One element more makes a set no more than one larger.
LEMMA OneMore ==
  ASSUME NEW S, NEW x, NEW n \in Nat, IsFiniteSet(S), Cardinality(S) <= n
  PROVE  IsFiniteSet(S \cup {x}) /\ Cardinality(S \cup {x}) <= n + 1
  <1>1. IsFiniteSet(S \cup {x}) /\ Cardinality(S) \in Nat
    BY FS_AddElement, FS_CardinalityType
  <1>2. Cardinality(S \cup {x}) \in {Cardinality(S), Cardinality(S) + 1}
    BY FS_AddElement
  <1>3. QED
    BY <1>1, <1>2

\* There are six entries that ensure makes.
LEMMA SixKinds == IsFiniteSet(RuleKinds) /\ Cardinality(RuleKinds) <= 6
  <1> DEFINE plain(r) == [rule |-> r, fully |-> FALSE]
             fully(r) == [rule |-> r, fully |-> TRUE]
             first == {plain(1)}
             second == first \cup {plain(2)}
             third == second \cup {plain(3)}
             fourth == third \cup {plain(4)}
             fifth == fourth \cup {fully(2)}
             sixth == fifth \cup {fully(4)}
  <1>1. RuleKinds = sixth
    <2>1. RuleKinds \subseteq sixth
      BY DEF RuleKinds, Rules
    <2>2. sixth \subseteq RuleKinds
      BY DEF RuleKinds, Rules
    <2>3. QED
      BY <2>1, <2>2
  <1> HIDE DEF plain, fully
  <1>2. IsFiniteSet(first) /\ Cardinality(first) = 1
    BY ONLY FS_Singleton
  <1>3. IsFiniteSet(first) /\ Cardinality(first) <= 1
    BY <1>2
  <1> HIDE DEF first
  <1>4. IsFiniteSet(second) /\ Cardinality(second) <= 2
    BY <1>3, OneMore, 1 + 1 = 2
  <1> HIDE DEF second
  <1>5. IsFiniteSet(third) /\ Cardinality(third) <= 3
    BY <1>4, OneMore, 2 + 1 = 3
  <1> HIDE DEF third
  <1>6. IsFiniteSet(fourth) /\ Cardinality(fourth) <= 4
    BY <1>5, OneMore, 3 + 1 = 4
  <1> HIDE DEF fourth
  <1>7. IsFiniteSet(fifth) /\ Cardinality(fifth) <= 5
    BY <1>6, OneMore, 4 + 1 = 5
  <1> HIDE DEF fifth
  <1>8. IsFiniteSet(sixth) /\ Cardinality(sixth) <= 6
    BY <1>7, OneMore, 5 + 1 = 6
  <1>9. QED
    BY <1>1, <1>8

\* Kinds are counted by numbers.
LEMMA KindsCount ==
  ASSUME NEW c, Kinds(c) \subseteq RuleKinds
  PROVE  IsFiniteSet(Kinds(c)) /\ Cardinality(Kinds(c)) \in 0 .. 6
  <1>1. IsFiniteSet(Kinds(c)) /\ Cardinality(Kinds(c)) <= Cardinality(RuleKinds)
    BY SixKinds, FS_Subset
  <1>2. Cardinality(Kinds(c)) \in Nat /\ Cardinality(RuleKinds) \in Nat
    BY <1>1, SixKinds, FS_CardinalityType
  <1>3. QED
    BY <1>1, <1>2, SixKinds

\* A chain that has grown so is not longer than NoGrowth allows.
LEMMA GrownBounds ==
  ASSUME NEW c \in Seq(Entry), NEW owed \in {0, 1}, NEW paid \in Nat, Grown(c, owed, paid)
  PROVE  Len(c) <= 6 + paid
  <1>1. Cardinality(Kinds(c)) \in 0 .. 6
    BY KindsCount DEF Grown
  <1>2. QED
    BY <1>1 DEF Grown

\* A step that leaves the chain alone, and repeats an entry only for a fault.
LEMMA StayGrown ==
  ASSUME NEW c \in Seq(Entry), NEW owed \in {0, 1}, NEW more \in {0, 1},
         NEW paid \in Nat, NEW now \in Nat,
         Grown(c, owed, paid), (more <= owed /\ paid <= now) \/ now = paid + 1
  PROVE  Grown(c, more, now)
  <1>1. Len(c) \in Nat /\ Cardinality(Kinds(c)) \in Nat
    BY KindsCount DEF Grown
  <1>2. QED
    BY <1>1 DEF Grown

\* What ensure appends is one of the six.
LEMMA AppendedKinds ==
  ASSUME NEW r \in Rules
  PROVE  /\ [rule |-> r, fully |-> Masquerades(r)] \in RuleKinds
         /\ [rule |-> r, fully |-> FALSE] \in RuleKinds
  <1>1. CASE Masquerades(r)
    <2>1. r \in {2, 4} /\ Masquerades(r) = TRUE
      BY <1>1 DEF Masquerades
    <2>2. QED
      BY <2>1 DEF RuleKinds
  <1>2. CASE ~ Masquerades(r)
    <2>1. Masquerades(r) = FALSE
      BY <1>2 DEF Masquerades
    <2>2. QED
      BY <2>1 DEF RuleKinds
  <1>3. QED
    BY <1>1, <1>2 DEF RuleKinds

\* Appending an entry that was paid for, or that is not there.
LEMMA AppendGrown ==
  ASSUME NEW c \in Seq(Entry), NEW e \in RuleKinds, NEW owed \in {0, 1}, NEW paid \in Nat,
         Grown(c, owed, paid), e \in Kinds(c) => owed = 1
  PROVE  Grown(Append(c, e), 0, paid)
  <1>1. /\ Len(c) \in Nat /\ Len(Append(c, e)) = Len(c) + 1
        /\ DOMAIN Append(c, e) = 1 .. Len(c) + 1 /\ DOMAIN c = 1 .. Len(c)
        /\ \A i \in DOMAIN c : Append(c, e)[i] = c[i]
        /\ Append(c, e)[Len(c) + 1] = e
    OBVIOUS
  <1>2. Kinds(Append(c, e)) = Kinds(c) \cup {e}
    BY <1>1 DEF Kinds
  <1>3. IsFiniteSet(Kinds(c)) /\ Cardinality(Kinds(c)) \in Nat
    BY KindsCount DEF Grown
  <1>4. Cardinality(Kinds(Append(c, e))) =
          IF e \in Kinds(c) THEN Cardinality(Kinds(c)) ELSE Cardinality(Kinds(c)) + 1
    BY <1>2, <1>3, FS_AddElement
  <1>5. Len(Append(c, e)) <= Cardinality(Kinds(Append(c, e))) + paid
    BY <1>1, <1>3, <1>4 DEF Grown
  <1>6. Kinds(Append(c, e)) \subseteq RuleKinds
    BY <1>2 DEF Grown
  <1>7. QED
    BY <1>1, <1>5, <1>6 DEF Grown

\* The bound on faults is kept by its guard.
LEMMA DisturbedCounts ==
  ASSUME NEW kind, Disturbed(kind), TypeOK
  PROVE  faults' = faults + 1 /\ faults' \in 0 .. MaxFaults
  BY ParametersAssumption DEF Disturbed, TypeOK

\* Every step keeps the types, a flush in the middle of an ensure too.
LEMMA TypeKeeps ==
  ASSUME TypeOK, [Next]_vars
  PROVE  TypeOK'
  <1>1. /\ lacks \in BOOLEAN /\ chain \in Seq(Entry) /\ rule \in Rules
        /\ pc \in {"idle", "check", "append", "check_plain", "append_plain"}
        /\ faults \in 0 .. MaxFaults
    BY DEF TypeOK
  <1>2. SUFFICES /\ UNCHANGED lacks
                 /\ \/ UNCHANGED chain
                    \/ chain' = <<>>
                    \/ \E r \in Rules, f \in BOOLEAN :
                         chain' = Append(chain, [rule |-> r, fully |-> f])
                 /\ pc' \in {"idle", "check", "append", "check_plain", "append_plain"}
                 /\ rule' \in Rules /\ faults' \in 0 .. MaxFaults
    <2>1. ASSUME NEW r \in Rules, NEW f \in BOOLEAN
          PROVE  Append(chain, [rule |-> r, fully |-> f]) \in Seq(Entry)
      BY <1>1 DEF Entry
    <2>2. <<>> \in Seq(Entry)
      OBVIOUS
    <2>3. ASSUME NEW r \in Rules, NEW f \in BOOLEAN,
                 chain' = Append(chain, [rule |-> r, fully |-> f])
          PROVE  chain' \in Seq(Entry)
      BY <2>1, <2>3, Zenon
    <2>4. lacks' = lacks => lacks' \in BOOLEAN
      BY <1>1, Zenon
    <2>5. QED
      BY <1>1, <2>2, <2>3, <2>4, Zenon DEF TypeOK
  <1>3. NextRule => rule' \in Rules /\ pc' \in {"idle", "check"}
    BY <1>1 DEF NextRule, Rules
  <1>4. GiveUp => rule' \in Rules /\ pc' = "idle"
    BY DEF GiveUp, Rules
  <1>5. \A r \in Rules : Masquerades(r) \in BOOLEAN
    BY DEF Masquerades
  <1>6. CASE Tick
    BY <1>1, <1>6 DEF Tick, Rules
  <1>7. CASE Check
    BY <1>1, <1>3, <1>7, DisturbedCounts DEF Check
  <1>8. ASSUME NEW r \in Rules, AppendRule(r)
        PROVE  /\ UNCHANGED lacks
               /\ \/ UNCHANGED chain
                  \/ \E f \in BOOLEAN : chain' = Append(chain, [rule |-> r, fully |-> f])
               /\ pc' \in {"idle", "check", "check_plain"}
               /\ rule' \in Rules /\ faults' \in 0 .. MaxFaults
    <2>1. UNCHANGED faults \/ Disturbed("append_fails")
      BY <1>8, Zenon DEF AppendRule
    <2>2. NextRule \/ GiveUp \/ (pc' = "check_plain" /\ UNCHANGED rule)
      BY <1>8, Zenon DEF AppendRule
    <2>3. UNCHANGED chain \/ chain' = Append(chain, [rule |-> r, fully |-> Masquerades(r)])
      BY <1>8, Zenon DEF AppendRule
    <2>4. UNCHANGED lacks
      BY <1>8 DEF AppendRule
    <2>5. faults' \in 0 .. MaxFaults
      BY <1>1, <2>1, DisturbedCounts
    <2>6. pc' \in {"idle", "check", "check_plain"} /\ rule' \in Rules
      BY <1>1, <1>3, <1>4, <2>2
    <2>7. UNCHANGED chain \/ \E f \in BOOLEAN : chain' = Append(chain, [rule |-> r, fully |-> f])
      BY <1>5, <2>3, Zenon
    <2>8. QED
      BY <2>4, <2>5, <2>6, <2>7
  <1>9. CASE CheckPlain
    BY <1>1, <1>3, <1>9, DisturbedCounts DEF CheckPlain
  <1>10. CASE AppendPlain
    <2>1. \/ UNCHANGED chain
          \/ \E f \in BOOLEAN : chain' = Append(chain, [rule |-> rule, fully |-> f])
      BY <1>10, Zenon DEF AppendPlain
    <2>2. /\ UNCHANGED lacks /\ faults' \in 0 .. MaxFaults
          /\ pc' \in {"idle", "check"} /\ rule' \in Rules
      BY <1>1, <1>3, <1>4, <1>10, DisturbedCounts DEF AppendPlain
    <2>3. QED
      BY <1>1, <2>1, <2>2
  <1>11. CASE Abort
    BY <1>1, <1>4, <1>11, DisturbedCounts DEF Abort
  <1>12. CASE Flush
    BY <1>1, <1>12, DisturbedCounts DEF Flush
  <1>13. CASE UNCHANGED vars
    BY <1>1, <1>13 DEF vars
  <1>14. QED
    BY <1>6, <1>7, <1>8, <1>9, <1>10, <1>11, <1>12, <1>13 DEF Next, Step

\* A step counts at most one fault.
LEMMA FaultsCount ==
  ASSUME TypeOK, [Next]_vars
  PROVE  faults' = faults \/ faults' = faults + 1
  <1>1. \A kind : Disturbed(kind) => faults' = faults + 1
    BY DEF Disturbed
  <1>2. ASSUME NEW r \in Rules, AppendRule(r) PROVE faults' = faults \/ faults' = faults + 1
    BY <1>1, <1>2, Zenon DEF AppendRule
  <1>3. QED
    BY <1>1, <1>2, Zenon DEF Next, Step, Tick, Check, CheckPlain, AppendPlain, Abort, Flush, vars

LEMMA GrowthNext ==
  ASSUME GrowthInv, [Next]_vars
  PROVE  GrowthInv'
  <1>1. TypeOK /\ TypeOK' /\ Grown(chain, Owed, faults) /\ Owed \in {0, 1} /\ Owed' \in {0, 1}
    BY TypeKeeps DEF GrowthInv, Owed
  <1>2. faults \in Nat /\ faults' \in Nat /\ chain \in Seq(Entry) /\ rule \in Rules
    BY <1>1, ParametersAssumption DEF TypeOK
  <1>3. ASSUME UNCHANGED chain, (Owed' = 0 /\ UNCHANGED faults) \/ faults' = faults + 1
        PROVE  GrowthInv'
    <2>1. (Owed' <= Owed /\ faults <= faults') \/ faults' = faults + 1
      BY <1>1, <1>2, <1>3
    <2>2. Grown(chain, Owed', faults')
      BY <1>1, <1>2, <2>1, StayGrown
    <2>3. QED
      BY <1>1, <1>3, <2>2 DEF GrowthInv
  <1>4. NextRule \/ GiveUp => Owed' = 0
    BY DEF NextRule, GiveUp, Owed
  <1>5. ASSUME NEW kind, Disturbed(kind), UNCHANGED chain PROVE GrowthInv'
    BY <1>1, <1>3, <1>5, DisturbedCounts
  <1>6. CASE Tick
    BY <1>1, <1>2, <1>3, <1>6, DisturbedCounts DEF Tick, Owed
  <1>7. CASE Check
    <2>1. UNCHANGED <<lacks, chain>>
      BY <1>7 DEF Check
    <2>2. CASE NextRule /\ UNCHANGED faults
      BY <1>3, <1>4, <2>1, <2>2
    <2>3. CASE ~ Known(rule) /\ pc' = "append" /\ UNCHANGED <<rule, faults>>
      <3>1. Owed' = 0
        BY <2>1, <2>3 DEF Owed, Known, Present
      <3>2. QED
        BY <1>3, <2>1, <2>3, <3>1
    <2>4. CASE Disturbed("check_fails")
      BY <1>5, <2>1, <2>4
    <2>5. QED
      BY <1>7, <2>2, <2>3, <2>4 DEF Check
  <1>8. ASSUME NEW r \in Rules, AppendRule(r) PROVE GrowthInv'
    <2> DEFINE e == [rule |-> r, fully |-> Masquerades(r)]
    <2>1. pc = "append" /\ rule = r
      BY <1>8 DEF AppendRule
    <2>2. CASE /\ ~ (lacks /\ Masquerades(r)) /\ chain' = Append(chain, e)
               /\ NextRule /\ UNCHANGED faults
      <3>1. e \in RuleKinds
        BY AppendedKinds
      <3>2. e \in Kinds(chain) => Owed = 1
        BY <2>1, <2>2 DEF Kinds, Owed, Known, Present
      <3>3. Grown(chain', 0, faults') /\ Owed' = 0
        BY <1>1, <1>2, <1>4, <2>2, <3>1, <3>2, AppendGrown
      <3>4. QED
        BY <1>1, <3>3 DEF GrowthInv
    <2>3. CASE UNCHANGED chain /\ (pc' = "check_plain" \/ GiveUp)
      <3>1. Owed' = 0
        BY <1>4, <2>3 DEF Owed
      <3>2. UNCHANGED faults \/ Disturbed("append_fails")
        BY <1>8, Zenon DEF AppendRule
      <3>3. QED
        BY <1>3, <1>5, <2>3, <3>1, <3>2
    <2>4. QED
      BY <1>8, <2>2, <2>3 DEF AppendRule
  <1>9. CASE CheckPlain
    <2>1. UNCHANGED <<lacks, chain>>
      BY <1>9 DEF CheckPlain
    <2>2. CASE NextRule /\ UNCHANGED faults
      BY <1>3, <1>4, <2>1, <2>2
    <2>3. CASE ~ Present(rule, FALSE) /\ pc' = "append_plain" /\ UNCHANGED <<rule, faults>>
      <3>1. Owed' = 0
        BY <2>1, <2>3 DEF Owed, Present
      <3>2. QED
        BY <1>3, <2>1, <2>3, <3>1
    <2>4. CASE Disturbed("check_fails")
      BY <1>5, <2>1, <2>4
    <2>5. QED
      BY <1>9, <2>2, <2>3, <2>4 DEF CheckPlain
  <1>10. CASE AppendPlain
    <2> DEFINE e == [rule |-> rule, fully |-> FALSE]
    <2>1. CASE chain' = Append(chain, e) /\ NextRule /\ UNCHANGED faults
      <3>1. e \in RuleKinds
        BY <1>2 DEF RuleKinds
      <3>2. e \in Kinds(chain) => Owed = 1
        BY <1>10 DEF AppendPlain, Kinds, Owed, Present
      <3>3. Grown(chain', 0, faults') /\ Owed' = 0
        BY <1>1, <1>2, <1>4, <2>1, <3>1, <3>2, AppendGrown
      <3>4. QED
        BY <1>1, <3>3 DEF GrowthInv
    <2>2. CASE Disturbed("append_fails") /\ GiveUp /\ UNCHANGED chain
      BY <1>5, <2>2
    <2>3. QED
      BY <1>10, <2>1, <2>2 DEF AppendPlain
  <1>11. CASE Abort
    BY <1>5, <1>11 DEF Abort
  <1>12. CASE Flush
    <2>1. chain' = <<>>
      BY <1>12 DEF Flush
    <2>2. Owed' = 0 /\ Kinds(chain') = {} /\ Len(chain') = 0
      BY <2>1 DEF Owed, Known, Present, Kinds
    <2>3. QED
      BY <1>1, <1>2, <2>2, FS_EmptySet DEF GrowthInv, Grown
  <1>13. CASE UNCHANGED vars
    <2>1. UNCHANGED chain /\ UNCHANGED faults /\ Owed' = Owed
      BY <1>13 DEF vars, Owed, Known, Present
    <2>2. QED
      BY <1>1, <1>2, <2>1 DEF GrowthInv
  <1>14. QED
    BY <1>6, <1>7, <1>8, <1>9, <1>10, <1>11, <1>12, <1>13 DEF Next, Step

LEMMA GrowthInit == Init => GrowthInv
  <1> SUFFICES ASSUME Init PROVE GrowthInv
    OBVIOUS
  <1>1. TypeOK
    BY ParametersAssumption DEF Init, TypeOK, Rules, Entry
  <1>2. Kinds(chain) = {} /\ Len(chain) = 0 /\ Owed = 0 /\ faults = 0
    BY DEF Init, Kinds, Owed
  <1>3. QED
    BY <1>1, <1>2, FS_EmptySet DEF GrowthInv, Grown

LEMMA GrowthBounds == GrowthInv => NoGrowth
  <1> SUFFICES ASSUME GrowthInv PROVE NoGrowth
    OBVIOUS
  <1>1. chain \in Seq(Entry) /\ faults \in Nat /\ Owed \in {0, 1} /\ Grown(chain, Owed, faults)
    <2>1. TypeOK /\ Grown(chain, Owed, faults)
      BY DEF GrowthInv
    <2>2. chain \in Seq(Entry) /\ faults \in Nat
      BY <2>1, ParametersAssumption DEF TypeOK
    <2>3. QED
      BY <2>1, <2>2 DEF Owed
  <1>2. PICK paid \in Nat, owed \in {0, 1} : paid = faults /\ owed = Owed
    BY <1>1
  <1>3. Len(chain) <= 6 + paid
    BY <1>1, <1>2, GrownBounds
  <1>4. QED
    BY <1>2, <1>3 DEF NoGrowth

-----------------------------------------------------------------------------
\* Every variable keeps its type (ensure, ensure_rule).
THEOREM Typing == Spec => []TypeOK
  <1>1. GrowthInv /\ [Next]_vars => GrowthInv'
    BY GrowthNext
  <1>2. GrowthInv => TypeOK
    BY DEF GrowthInv
  <1>3. QED
    BY GrowthInit, <1>1, <1>2, PTL DEF Spec

\* Re-asserting the rules for ever makes no more of them than the four, the two
\* fallbacks and one for each fault, whenever the chain is flushed (ensure_rule).
THEOREM NoGrowthAlways == Spec => []NoGrowth
  <1>1. GrowthInv /\ [Next]_vars => GrowthInv'
    BY GrowthNext
  <1>2. QED
    BY GrowthInit, <1>1, GrowthBounds, PTL DEF Spec

\* Whatever appends, checks and ensures fail and however often the chain is
\* flushed between ensures, exempt traffic is at no moment masqueraded (masq_rules,
\* ensure: it stops at the first rule it cannot append).
THEOREM ExemptAlways == ASSUME "flush_within" \notin Disturb PROVE Spec => []Exempt
  <1>1. IInv /\ [Next]_vars => IInv'
    BY NextKeeps
  <1>2. QED
    BY InitHolds, <1>1, InvariantExempts, PTL DEF Spec

=============================================================================
