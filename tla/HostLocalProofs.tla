-------------------------- MODULE HostLocalProofs --------------------------
(***************************************************************************)
(* Proofs about HostLocal, for any number of processes, containers and     *)
(* addresses.                                                              *)
(***************************************************************************)
EXTENDS HostLocal, WellFoundedInduction, TLAPS

(* The inductive invariant *)

\* The flock is held by the process inside cmd_add or cmd_del, and only by it.
LockInv == \A p \in Procs : pc[p] \in Critical <=> holder = p

\* Two commands in progress are for different containers.
SerialInv ==
  /\ \A p \in Procs : pc[p] # "idle" => arg[p] \in Containers
  /\ \A p, q \in Procs : p # q /\ pc[p] # "idle" /\ pc[q] # "idle" => arg[p] # arg[q]

\* How far ADD has come with the lease file of the address it chose.
AddInv ==
  \A p \in Procs :
    /\ pc[p] \in {"create_ip", "fill_ip", "trunc_last", "fill_last", "add_ret"}
         => ip[p] \in Addrs
    /\ pc[p] = "create_ip" => lease[ip[p]] = Absent
    /\ pc[p] = "fill_ip" => lease[ip[p]] = Blank
    /\ pc[p] \in {"trunc_last", "fill_last", "add_ret"} => lease[ip[p]] = arg[p]

\* A container being deleted owns no address any more.
DelInv == \A p \in Procs : pc[p] \in DelPcs => held[arg[p]] = {}

\* A scan still has before it every lease of its container it has not met.
ScanInv ==
  \A p \in Procs :
    pc[p] \in {"del_scan", "chk_scan"} => Owned(arg[p]) \subseteq todo[p] \cup struck

\* What a container was given is leased to it.
HeldInv == \A c \in Containers : \A a \in held[c] : lease[a] = c

IInv ==
  /\ TypeOK
  /\ LockInv
  /\ SerialInv
  /\ AddInv
  /\ DelInv
  /\ ScanInv
  /\ HeldInv
  /\ LeakOnlyByFault

-----------------------------------------------------------------------------
(* The address chooser *)

\* Remainders that a search round an array meets (next_ip): an index below the
\* length, and one that has gone round once.
LEMMA RemainderFacts ==
  ASSUME NEW n \in Nat, n > 0
  PROVE  /\ \A k \in Nat : k % n \in 0 .. n - 1
         /\ \A j \in 0 .. n - 1 : j % n = j /\ (j + n) % n = j
  <1>1. \A k \in Nat : k % n \in 0 .. n - 1
    BY SMT
  <1>2. ASSUME NEW j \in 0 .. n - 1 PROVE j % n = j /\ (j + n) % n = j
    BY SMT
  <1>3. QED
    BY <1>1, <1>2

\* A set of numbers that is not empty has a least element.
LEMMA LeastElement ==
  ASSUME NEW S \in SUBSET Nat, S # {}
  PROVE  \E m \in S : \A k \in S : m <= k
  <1> DEFINE R == OpToRel(<, Nat)
  <1>1. \A x, y \in Nat : <<y, x>> \in R <=> y < x
    BY DEF OpToRel
  <1>2. IsWellFoundedOn(R, Nat)
    BY NatLessThanWellFounded
  <1> HIDE DEF R
  <1>3. PICK x \in S : \A y \in S : ~ (<<y, x>> \in R)
    BY <1>2, WFMin
  <1>4. ASSUME NEW k \in S PROVE x <= k
    <2>1. x \in Nat /\ k \in Nat
      OBVIOUS
    <2>2. ~ (k < x)
      BY <1>1, <1>3, <2>1
    <2>3. QED
      BY <2>1, <2>2
  <1>5. QED
    BY <1>4

\* next_ip hands out an address of the subnet that nobody has leased, or none
\* (alloc.rs, next_ip).
THEOREM NextIpFree ==
  ASSUME NEW hosts \in Seq(Addrs), NEW leased, NEW last,
         NextIp(hosts, leased, last) # NoAddr
  PROVE  NextIp(hosts, leased, last) \in Addrs \ leased
  <1> DEFINE start == StartIndex(hosts, last)
             free == FreeProbes(hosts, leased, start)
             first == CHOOSE k \in free : \A j \in free : k <= j
  <1>1. start \in Nat
    BY DEF StartIndex
  <1>2. /\ free # {}
        /\ NextIp(hosts, leased, last) = Probe(hosts, start, first)
    BY DEF NextIp
  <1>3. free \in SUBSET Nat
    BY DEF FreeProbes
  <1>4. PICK least \in free : \A j \in free : least <= j
    BY <1>2, <1>3, LeastElement
  <1>5. first \in free
    BY <1>4
  <1>6. Probe(hosts, start, first) \notin leased
    BY <1>5 DEF FreeProbes
  <1>7. Probe(hosts, start, first) \in Addrs
    <2>1. Len(hosts) \in Nat /\ Len(hosts) > 0
      BY <1>5 DEF FreeProbes
    <2>2. (start + first) % Len(hosts) \in 0 .. Len(hosts) - 1
      BY <2>1, <1>1, <1>3, <1>5, RemainderFacts
    <2>3. ((start + first) % Len(hosts)) + 1 \in DOMAIN hosts
      BY <2>1, <2>2
    <2>4. QED
      BY <2>3 DEF Probe
  <1>8. QED
    BY <1>2, <1>6, <1>7

\* next_ip gives up only when every address of the subnet is leased: going
\* round from the cursor it meets all of them (alloc.rs, next_ip).
THEOREM NextIpExhausted ==
  ASSUME NEW hosts \in Seq(Addrs), NEW leased, NEW last,
         NextIp(hosts, leased, last) = NoAddr
  PROVE  HostsOf(hosts) \subseteq leased
  <1> DEFINE start == StartIndex(hosts, last)
             free == FreeProbes(hosts, leased, start)
             n == Len(hosts)
  <1>1. free = {}
    <2>1. CASE free # {}
      <3> DEFINE first == CHOOSE k \in free : \A j \in free : k <= j
      <3>1. free \in SUBSET Nat
        BY DEF FreeProbes
      <3>2. PICK least \in free : \A j \in free : least <= j
        BY <2>1, <3>1, LeastElement
      <3>3. first \in free
        BY <3>2
      <3>4. start \in Nat
        BY DEF StartIndex
      <3>5. n \in Nat /\ n > 0
        BY <3>3 DEF FreeProbes
      <3>6. (start + first) % n \in 0 .. n - 1
        BY <3>1, <3>3, <3>4, <3>5, RemainderFacts
      <3>7. Probe(hosts, start, first) \in Addrs
        <4>1. ((start + first) % n) + 1 \in DOMAIN hosts
          BY <3>5, <3>6
        <4>2. QED
          BY <4>1 DEF Probe
      <3>8. QED
        BY <2>1, <3>7, NullsAssumption DEF NextIp
    <2>2. QED
      BY <2>1
  <1>2. SUFFICES ASSUME NEW i \in DOMAIN hosts PROVE hosts[i] \in leased
    BY DEF HostsOf
  <1>3. n \in Nat /\ i \in 1 .. n /\ n > 0 /\ DOMAIN hosts = 1 .. n
    OBVIOUS
  <1>4. start \in 0 .. n
    BY <1>3 DEF StartIndex
  <1>5. PICK k \in 0 .. n - 1 : (start + k) % n = i - 1
    <2>1. CASE start <= i - 1
      <3>1. i - 1 - start \in 0 .. n - 1 /\ start + (i - 1 - start) = i - 1
        BY <1>3, <1>4, <2>1
      <3>2. (i - 1) % n = i - 1
        BY <1>3, RemainderFacts
      <3>3. QED
        BY <3>1, <3>2
    <2>2. CASE start > i - 1
      <3>1. /\ i - 1 - start + n \in 0 .. n - 1
            /\ start + (i - 1 - start + n) = (i - 1) + n
        BY <1>3, <1>4, <2>2
      <3>2. ((i - 1) + n) % n = i - 1
        BY <1>3, RemainderFacts
      <3>3. QED
        BY <3>1, <3>2
    <2>3. QED
      BY <1>3, <1>4, <2>1, <2>2
  <1>6. Probe(hosts, start, k) = hosts[i]
    BY <1>3, <1>5 DEF Probe
  <1>7. QED
    BY <1>1, <1>5, <1>6 DEF FreeProbes

\* Where the search meets a host: from the one after the cursor to the last,
\* then from the first to the cursor itself.
Turn(start, i, n) == IF i > start THEN i - start - 1 ELSE i - start - 1 + n

\* A number that is an index, or an index gone round once.
LEMMA GoneRound ==
  ASSUME NEW n \in Nat, NEW j \in 0 .. n - 1, NEW x \in Nat, x = j \/ x = j + n
  PROVE  x % n = j
  <1>1. n > 0
    OBVIOUS
  <1>2. j % n = j /\ (j + n) % n = j
    BY <1>1, RemainderFacts
  <1>3. CASE x = j
    BY ONLY <1>2, <1>3
  <1>4. CASE x = j + n
    BY ONLY <1>2, <1>4
  <1>5. QED
    BY <1>3, <1>4

\* Each host is met, and at its turn.
LEMMA ProbeTurn ==
  ASSUME NEW hosts, NEW n \in Nat, n = Len(hosts), NEW start \in 0 .. n, NEW i \in 1 .. n
  PROVE  Turn(start, i, n) \in 0 .. n - 1 /\ Probe(hosts, start, Turn(start, i, n)) = hosts[i]
  <1> DEFINE t == Turn(start, i, n)
  <1>1. t \in 0 .. n - 1 /\ (start + t = i - 1 \/ start + t = (i - 1) + n)
    BY DEF Turn
  <1> HIDE DEF t
  <1>2. (start + t) % n = i - 1
    <2>1. i - 1 \in 0 .. n - 1 /\ start + t \in Nat
      BY <1>1
    <2>2. QED
      BY ONLY <1>1, <2>1, GoneRound, n \in Nat
  <1>3. ((start + t) % n) + 1 = i
    BY <1>2
  <1>4. Probe(hosts, start, t) = hosts[((start + t) % n) + 1]
    BY DEF Probe
  <1>5. QED
    BY <1>1, <1>3, <1>4 DEF t

\* At each turn a host is met.
LEMMA TurnProbe ==
  ASSUME NEW n \in Nat, NEW start \in 0 .. n, NEW k \in 0 .. n - 1
  PROVE  \E i \in 1 .. n : Turn(start, i, n) = k
  <1>1. CASE start + k < n
    <2>1. start + k + 1 \in 1 .. n /\ Turn(start, start + k + 1, n) = k
      BY <1>1 DEF Turn
    <2>2. QED
      BY <2>1
  <1>2. CASE ~ (start + k < n)
    <2>1. start + k + 1 - n \in 1 .. n /\ Turn(start, start + k + 1 - n, n) = k
      BY <1>2 DEF Turn
    <2>2. QED
      BY <2>1
  <1>3. QED
    BY <1>1, <1>2

\* Of two hosts, which has its turn first.
LEMMA TurnOrder ==
  ASSUME NEW n \in Nat, NEW start \in 0 .. n, NEW m \in 1 .. n, NEW i \in 1 .. n,
         Turn(start, m, n) <= Turn(start, i, n)
  PROVE  /\ i > start => m > start /\ m <= i
         /\ m <= start => i <= start /\ m <= i
  BY DEF Turn

\* next_ip goes round: of the hosts of an ordered subnet that nobody has
\* leased it takes the first one above the cursor, and the first of all when
\* there is none or the cursor is not a host of this subnet (alloc.rs, next_ip).
THEOREM NextIpGoesRound ==
  ASSUME NEW hosts \in Seq(Int), NEW leased, NEW last,
         \A i, j \in DOMAIN hosts : i < j => hosts[i] < hosts[j],
         NEW free, free = HostsOf(hosts) \ leased, free # {},
         NEW ahead, ahead = {a \in free : last \in HostsOf(hosts) /\ a > last}
  PROVE  LET next == NextIp(hosts, leased, last)
             due  == IF ahead # {} THEN ahead ELSE free
         IN  next \in due /\ \A a \in due : next <= a
  <1> DEFINE n == Len(hosts)
             start == StartIndex(hosts, last)
             probes == FreeProbes(hosts, leased, start)
             next == NextIp(hosts, leased, last)
  <1>1. n \in Nat /\ DOMAIN hosts = 1 .. n /\ \A i \in 1 .. n : hosts[i] \in Int
    OBVIOUS
  <1>2. start \in 0 .. n
    BY <1>1 DEF StartIndex
  <1>3. \A i \in 1 .. n : hosts[i] \notin leased => Turn(start, i, n) \in probes
    <2>1. ASSUME NEW i \in 1 .. n, hosts[i] \notin leased
          PROVE  Turn(start, i, n) \in probes
      <3>1. /\ Turn(start, i, n) \in 0 .. n - 1
            /\ Probe(hosts, start, Turn(start, i, n)) = hosts[i]
        BY ONLY <1>1, <1>2, i \in 1 .. n, ProbeTurn
      <3>2. QED
        BY <2>1, <3>1 DEF FreeProbes
    <2>2. QED
      BY <2>1
  <1>4. probes # {} /\ probes \in SUBSET Nat
    <2>1. PICK i \in 1 .. n : hosts[i] \notin leased
      BY <1>1 DEF HostsOf
    <2>2. QED
      BY <1>3, <2>1 DEF FreeProbes
  <1>5. PICK least \in probes : \A k \in probes : least <= k
    BY <1>4, LeastElement
  <1>6. /\ next = Probe(hosts, start, CHOOSE k \in probes : \A j \in probes : k <= j)
        /\ \A k \in probes : (\A j \in probes : k <= j) => k = least
    BY <1>4, <1>5 DEF NextIp
  <1>7. next = Probe(hosts, start, least)
    <2>1. (CHOOSE k \in probes : \A j \in probes : k <= j) = least
      BY <1>5, <1>6
    <2>2. QED
      BY <1>6, <2>1
  <1>8. PICK m \in 1 .. n : Turn(start, m, n) = least
    BY <1>1, <1>2, <1>5, TurnProbe DEF FreeProbes
  <1>9. next = hosts[m] /\ hosts[m] \in free
    <2>1. next = hosts[m]
      BY <1>1, <1>2, <1>7, <1>8, ProbeTurn
    <2>2. hosts[m] \notin leased
      BY <1>5, <1>7, <2>1 DEF FreeProbes
    <2>3. QED
      BY <1>1, <2>1, <2>2 DEF HostsOf
  <1>10. ASSUME NEW i \in 1 .. n, hosts[i] \in free
         PROVE  /\ i > start => m > start /\ m <= i
                /\ m <= start => i <= start /\ m <= i
    <2>1. Turn(start, m, n) <= Turn(start, i, n)
      BY <1>3, <1>5, <1>8, <1>10
    <2>2. QED
      BY ONLY <1>1, <1>2, <2>1, i \in 1 .. n, m \in 1 .. n, TurnOrder
  <1>11. \A i \in 1 .. n : \A j \in 1 .. n : i <= j => hosts[i] <= hosts[j]
    BY <1>1
  <1>12. \A a \in free : \E i \in 1 .. n : a = hosts[i]
    BY <1>1 DEF HostsOf
  <1>13. CASE last \in HostsOf(hosts)
    <2>1. start \in 1 .. n /\ hosts[start] = last
      BY <1>1, <1>13 DEF StartIndex, HostsOf
    <2>2. \A i \in 1 .. n : hosts[i] > last <=> i > start
      BY <1>1, <1>11, <2>1
    <2>3. CASE ahead # {}
      <3>1. PICK b \in 1 .. n : hosts[b] \in free /\ b > start
        BY <1>12, <2>2, <2>3
      <3>2. m > start
        BY <1>10, <3>1
      <3>3. next \in ahead
        BY <1>9, <1>13, <2>2, <3>2
      <3>4. ASSUME NEW i \in 1 .. n, hosts[i] \in free, i > start PROVE hosts[m] <= hosts[i]
        <4>1. m <= i
          BY <1>10, <3>4
        <4>2. QED
          BY <1>11, <4>1
      <3>5. \A a \in ahead : next <= a
        BY <1>9, <1>12, <2>2, <3>4
      <3>6. QED
        BY <2>3, <3>3, <3>5
    <2>4. CASE ahead = {}
      <3>1. \A i \in 1 .. n : hosts[i] \in free => i <= start
        BY <1>2, <1>13, <2>2, <2>4
      <3>2. ASSUME NEW i \in 1 .. n, hosts[i] \in free PROVE hosts[m] <= hosts[i]
        <4>1. m <= i
          BY <1>9, <1>10, <3>1, <3>2
        <4>2. QED
          BY <1>11, <4>1
      <3>3. QED
        BY <1>9, <1>12, <2>4, <3>2
    <2>5. QED
      BY <2>3, <2>4
  <1>14. CASE last \notin HostsOf(hosts)
    <2>1. start = 0 /\ ahead = {}
      BY <1>1, <1>14 DEF StartIndex, HostsOf
    <2>2. ASSUME NEW i \in 1 .. n, hosts[i] \in free PROVE hosts[m] <= hosts[i]
      <3>1. m <= i
        BY <1>10, <2>1, <2>2
      <3>2. QED
        BY <1>11, <3>1
    <2>3. \A a \in free : next <= a
      BY <1>9, <1>12, <2>2
    <2>4. QED
      BY <1>9, <2>1, <2>3
  <1>15. QED
    BY <1>13, <1>14

-----------------------------------------------------------------------------
(* Every step keeps the invariant *)

LEMMA InvokeKeeps ==
  ASSUME IInv, NEW p \in Procs, NEW c \in Containers,
         NEW label \in {"add_lock", "del_lock", "chk_list"}, Invoke(p, c, label)
  PROVE  IInv'
  <1> USE NullsAssumption DEF IInv, TypeOK
  <1>1. TypeOK'
    BY DEF Invoke, GoTo, Quiet, Pcs, AddPcs, DelPcs, CheckPcs
  <1>2. LockInv'
    BY DEF Invoke, GoTo, Quiet, LockInv, Critical
  <1>3. SerialInv'
    BY DEF Invoke, GoTo, Quiet, SerialInv
  <1>4. AddInv'
    BY DEF Invoke, GoTo, Quiet, AddInv, LockInv, SerialInv, Critical
  <1>5. DelInv'
    BY DEF Invoke, GoTo, Quiet, DelInv, DelPcs, SerialInv
  <1>6. ScanInv'
    BY DEF Invoke, GoTo, Quiet, ScanInv, SerialInv, AddInv, Owned
  <1>7. HeldInv'
    BY DEF Invoke, GoTo, Quiet, HeldInv, AddInv, DelInv, DelPcs
  <1>8. LeakOnlyByFault'
    BY DEF Invoke, GoTo, Quiet, LeakOnlyByFault, LockInv, Critical, AddInv
  <1>9. QED
    BY <1>1, <1>2, <1>3, <1>4, <1>5, <1>6, <1>7, <1>8

LEMMA LockKeeps ==
  ASSUME IInv, NEW p \in Procs, Lock(p)
  PROVE  IInv'
  <1> USE NullsAssumption DEF IInv, TypeOK
  <1>1. TypeOK'
    BY DEF Lock, Exit, GoTo, Pcs, AddPcs, DelPcs, CheckPcs
  <1>2. LockInv'
    BY DEF Lock, Exit, GoTo, LockInv, Critical
  <1>3. SerialInv'
    BY DEF Lock, Exit, GoTo, SerialInv
  <1>4. AddInv'
    BY DEF Lock, Exit, GoTo, AddInv, LockInv, SerialInv, Critical
  <1>5. DelInv'
    BY DEF Lock, Exit, GoTo, DelInv, DelPcs, SerialInv
  <1>6. ScanInv'
    BY DEF Lock, Exit, GoTo, ScanInv, SerialInv, AddInv, Owned
  <1>7. HeldInv'
    BY DEF Lock, Exit, GoTo, HeldInv, AddInv, DelInv, DelPcs
  <1>8. LeakOnlyByFault'
    BY DEF Lock, Exit, GoTo, LeakOnlyByFault, LockInv, Critical, AddInv
  <1>9. QED
    BY <1>1, <1>2, <1>3, <1>4, <1>5, <1>6, <1>7, <1>8

LEMMA PickFromKeeps ==
  ASSUME IInv, NEW p \in Procs, NEW hosts \in Seq(Addrs), NEW seen,
         PickFrom(p, hosts, seen)
  PROVE  IInv'
  <1> USE NullsAssumption DEF IInv, TypeOK
  <1>0. NextIp(hosts, Leased, seen) # NoAddr
          => /\ NextIp(hosts, Leased, seen) \in Addrs
             /\ lease[NextIp(hosts, Leased, seen)] = Absent
    BY NextIpFree DEF Leased
  <1>1. TypeOK'
    BY <1>0 DEF PickFrom, Exit, GoTo, Pcs, AddPcs, DelPcs, CheckPcs
  <1>2. LockInv'
    BY DEF PickFrom, Exit, GoTo, LockInv, Critical
  <1>3. SerialInv'
    BY DEF PickFrom, Exit, GoTo, SerialInv
  <1>4. AddInv'
    BY <1>0 DEF PickFrom, Exit, GoTo, AddInv
  <1>5. DelInv'
    BY DEF PickFrom, Exit, GoTo, DelInv, DelPcs, SerialInv
  <1>6. ScanInv'
    BY DEF PickFrom, Exit, GoTo, ScanInv, SerialInv, AddInv, Owned
  <1>7. HeldInv'
    BY DEF PickFrom, Exit, GoTo, HeldInv, AddInv, DelInv, DelPcs
  <1>8. LeakOnlyByFault'
    BY DEF PickFrom, Exit, GoTo, LeakOnlyByFault, LockInv, Critical, AddInv
  <1>9. QED
    BY <1>1, <1>2, <1>3, <1>4, <1>5, <1>6, <1>7, <1>8

LEMMA PickKeeps ==
  ASSUME IInv, NEW p \in Procs, Pick(p) \/ PickAmiss(p)
  PROVE  IInv'
  <1>1. PICK hosts \in {Hosts, Former}, seen \in {cursor, NoAddr} :
          PickFrom(p, hosts, seen)
    BY DEF Pick, PickAmiss
  <1>2. hosts \in Seq(Addrs)
    BY HostsAssumption
  <1>3. QED
    BY <1>1, <1>2, PickFromKeeps

LEMMA CreateIpKeeps ==
  ASSUME IInv, NEW p \in Procs, CreateIp(p)
  PROVE  IInv'
  <1> USE NullsAssumption DEF IInv, TypeOK
  <1>1. TypeOK'
    BY DEF CreateIp, Exit, GoTo, Pcs, AddPcs, DelPcs, CheckPcs
  <1>2. LockInv'
    BY DEF CreateIp, Exit, GoTo, LockInv, Critical
  <1>3. SerialInv'
    BY DEF CreateIp, Exit, GoTo, SerialInv
  <1>4. AddInv'
    BY DEF CreateIp, Exit, GoTo, AddInv, LockInv, SerialInv, Critical
  <1>5. DelInv'
    BY DEF CreateIp, Exit, GoTo, DelInv, DelPcs, SerialInv
  <1>6. ScanInv'
    BY DEF CreateIp, Exit, GoTo, ScanInv, SerialInv, AddInv, Owned
  <1>7. HeldInv'
    BY DEF CreateIp, Exit, GoTo, HeldInv, AddInv, DelInv, DelPcs
  <1>8. LeakOnlyByFault'
    BY DEF CreateIp, Exit, GoTo, LeakOnlyByFault, LockInv, Critical, AddInv
  <1>9. QED
    BY <1>1, <1>2, <1>3, <1>4, <1>5, <1>6, <1>7, <1>8

LEMMA FillIpKeeps ==
  ASSUME IInv, NEW p \in Procs, FillIp(p)
  PROVE  IInv'
  <1> USE NullsAssumption DEF IInv, TypeOK
  <1>1. TypeOK'
    BY DEF FillIp, GoTo, SerialInv, Pcs, AddPcs, DelPcs, CheckPcs
  <1>2. LockInv'
    BY DEF FillIp, Exit, GoTo, LockInv, Critical
  <1>3. SerialInv'
    BY DEF FillIp, Exit, GoTo, SerialInv
  <1>4. AddInv'
    BY DEF FillIp, Exit, GoTo, AddInv, LockInv, SerialInv, Critical
  <1>5. DelInv'
    BY DEF FillIp, Exit, GoTo, DelInv, DelPcs, SerialInv
  <1>6. ScanInv'
    BY DEF FillIp, Exit, GoTo, ScanInv, SerialInv, AddInv, Owned
  <1>7. HeldInv'
    BY DEF FillIp, Exit, GoTo, HeldInv, AddInv, DelInv, DelPcs
  <1>8. LeakOnlyByFault'
    BY DEF FillIp, GoTo, LeakOnlyByFault, SerialInv, AddInv
  <1>9. QED
    BY <1>1, <1>2, <1>3, <1>4, <1>5, <1>6, <1>7, <1>8

LEMMA TruncLastKeeps ==
  ASSUME IInv, NEW p \in Procs, TruncLast(p)
  PROVE  IInv'
  <1> USE NullsAssumption DEF IInv, TypeOK
  <1>1. TypeOK'
    BY DEF TruncLast, Exit, GoTo, Pcs, AddPcs, DelPcs, CheckPcs
  <1>2. LockInv'
    BY DEF TruncLast, Exit, GoTo, LockInv, Critical
  <1>3. SerialInv'
    BY DEF TruncLast, Exit, GoTo, SerialInv
  <1>4. AddInv'
    BY DEF TruncLast, Exit, GoTo, AddInv, LockInv, SerialInv, Critical
  <1>5. DelInv'
    BY DEF TruncLast, Exit, GoTo, DelInv, DelPcs, SerialInv
  <1>6. ScanInv'
    BY DEF TruncLast, Exit, GoTo, ScanInv, SerialInv, AddInv, Owned
  <1>7. HeldInv'
    BY DEF TruncLast, Exit, GoTo, HeldInv, AddInv, DelInv, DelPcs
  <1>8. LeakOnlyByFault'
    BY DEF TruncLast, Exit, GoTo, LeakOnlyByFault, LockInv, Critical, AddInv
  <1>9. QED
    BY <1>1, <1>2, <1>3, <1>4, <1>5, <1>6, <1>7, <1>8

LEMMA FillLastKeeps ==
  ASSUME IInv, NEW p \in Procs, FillLast(p)
  PROVE  IInv'
  <1> USE NullsAssumption DEF IInv, TypeOK
  <1>1. TypeOK'
    BY DEF FillLast, Exit, GoTo, Pcs, AddPcs, DelPcs, CheckPcs
  <1>2. LockInv'
    BY DEF FillLast, Exit, GoTo, LockInv, Critical
  <1>3. SerialInv'
    BY DEF FillLast, Exit, GoTo, SerialInv
  <1>4. AddInv'
    BY DEF FillLast, Exit, GoTo, AddInv, LockInv, SerialInv, Critical
  <1>5. DelInv'
    BY DEF FillLast, Exit, GoTo, DelInv, DelPcs, SerialInv
  <1>6. ScanInv'
    BY DEF FillLast, Exit, GoTo, ScanInv, SerialInv, AddInv, Owned
  <1>7. HeldInv'
    BY DEF FillLast, Exit, GoTo, HeldInv, AddInv, DelInv, DelPcs
  <1>8. LeakOnlyByFault'
    BY DEF FillLast, Exit, GoTo, LeakOnlyByFault, LockInv, Critical, AddInv
  <1>9. QED
    BY <1>1, <1>2, <1>3, <1>4, <1>5, <1>6, <1>7, <1>8

LEMMA AddReturnKeeps ==
  ASSUME IInv, NEW p \in Procs, AddReturn(p)
  PROVE  IInv'
  <1> USE NullsAssumption DEF IInv, TypeOK
  <1>1. TypeOK'
    BY DEF AddReturn, Exit, GoTo, AddInv, SerialInv, Pcs, AddPcs, DelPcs, CheckPcs
  <1>2. LockInv'
    BY DEF AddReturn, Exit, GoTo, LockInv, Critical
  <1>3. SerialInv'
    BY DEF AddReturn, Exit, GoTo, SerialInv
  <1>4. AddInv'
    BY DEF AddReturn, Exit, GoTo, AddInv, LockInv, SerialInv, Critical
  <1>5. DelInv'
    BY DEF AddReturn, Exit, GoTo, DelInv, DelPcs, SerialInv
  <1>6. ScanInv'
    BY DEF AddReturn, Exit, GoTo, ScanInv, SerialInv, AddInv, Owned
  <1>7. HeldInv'
    BY DEF AddReturn, Exit, GoTo, HeldInv, AddInv, DelInv, DelPcs
  <1>8. LeakOnlyByFault'
    BY DEF AddReturn, Exit, GoTo, LeakOnlyByFault, LockInv, Critical, AddInv
  <1>9. QED
    BY <1>1, <1>2, <1>3, <1>4, <1>5, <1>6, <1>7, <1>8

LEMMA ListKeeps ==
  ASSUME IInv, NEW p \in Procs, List(p)
  PROVE  IInv'
  <1> USE NullsAssumption DEF IInv, TypeOK
  <1>1. TypeOK'
    BY DEF List, GoTo, Leased, Pcs, AddPcs, DelPcs, CheckPcs
  <1>2. LockInv'
    BY DEF List, Exit, GoTo, LockInv, Critical
  <1>3. SerialInv'
    BY DEF List, Exit, GoTo, SerialInv
  <1>4. AddInv'
    BY DEF List, Exit, GoTo, AddInv, LockInv, SerialInv, Critical
  <1>5. DelInv'
    BY DEF List, Exit, GoTo, DelInv, DelPcs, SerialInv
  <1>6. ScanInv'
    BY DEF List, GoTo, Leased, ScanInv, SerialInv, Owned
  <1>7. HeldInv'
    BY DEF List, Exit, GoTo, HeldInv, AddInv, DelInv, DelPcs
  <1>8. LeakOnlyByFault'
    BY DEF List, Exit, GoTo, LeakOnlyByFault, LockInv, Critical, AddInv
  <1>9. QED
    BY <1>1, <1>2, <1>3, <1>4, <1>5, <1>6, <1>7, <1>8

LEMMA ReleaseKeeps ==
  ASSUME IInv, NEW p \in Procs, Release(p)
  PROVE  IInv'
  <1> USE NullsAssumption DEF IInv, TypeOK
  <1>1. TypeOK'
    BY DEF Release, Exit, GoTo, Pcs, AddPcs, DelPcs, CheckPcs
  <1>2. LockInv'
    BY DEF Release, Exit, GoTo, LockInv, Critical
  <1>3. SerialInv'
    BY DEF Release, Exit, GoTo, SerialInv
  <1>4. AddInv'
    BY DEF Release, Exit, GoTo, AddInv, LockInv, SerialInv, Critical
  <1>5. DelInv'
    BY DEF Release, Exit, GoTo, DelInv, DelPcs, SerialInv
  <1>6. ScanInv'
    BY DEF Release, Exit, GoTo, ScanInv, SerialInv, AddInv, Owned
  <1>7. HeldInv'
    BY DEF Release, Exit, GoTo, HeldInv, AddInv, DelInv, DelPcs
  <1>8. LeakOnlyByFault'
    BY DEF Release, Exit, GoTo, LeakOnlyByFault, LockInv, Critical, AddInv
  <1>9. QED
    BY <1>1, <1>2, <1>3, <1>4, <1>5, <1>6, <1>7, <1>8

LEMMA DelReturnKeeps ==
  ASSUME IInv, NEW p \in Procs, DelReturn(p)
  PROVE  IInv'
  <1> USE NullsAssumption DEF IInv, TypeOK
  <1>1. TypeOK'
    BY DEF DelReturn, Exit, GoTo, Pcs, AddPcs, DelPcs, CheckPcs
  <1>2. LockInv'
    BY DEF DelReturn, Exit, GoTo, LockInv, Critical
  <1>3. SerialInv'
    BY DEF DelReturn, Exit, GoTo, SerialInv
  <1>4. AddInv'
    BY DEF DelReturn, Exit, GoTo, AddInv, LockInv, SerialInv, Critical
  <1>5. DelInv'
    BY DEF DelReturn, Exit, GoTo, DelInv, DelPcs, SerialInv
  <1>6. ScanInv'
    BY DEF DelReturn, Exit, GoTo, ScanInv, SerialInv, AddInv, Owned
  <1>7. HeldInv'
    BY DEF DelReturn, Exit, GoTo, HeldInv, AddInv, DelInv, DelPcs
  <1>8. LeakOnlyByFault'
    BY DEF DelReturn, Exit, GoTo, LeakOnlyByFault, LockInv, Critical, AddInv
  <1>9. QED
    BY <1>1, <1>2, <1>3, <1>4, <1>5, <1>6, <1>7, <1>8

LEMMA ProbedKeeps ==
  ASSUME IInv, NEW p \in Procs, Probed(p)
  PROVE  IInv'
  <1> USE NullsAssumption DEF IInv, TypeOK
  <1>1. TypeOK'
    BY DEF Probed, Exit, GoTo, Pcs, AddPcs, DelPcs, CheckPcs
  <1>2. LockInv'
    BY DEF Probed, Exit, GoTo, LockInv, Critical
  <1>3. SerialInv'
    BY DEF Probed, Exit, GoTo, SerialInv
  <1>4. AddInv'
    BY DEF Probed, Exit, GoTo, AddInv, LockInv, SerialInv, Critical
  <1>5. DelInv'
    BY DEF Probed, Exit, GoTo, DelInv, DelPcs, SerialInv
  <1>6. ScanInv'
    BY DEF Probed, Exit, GoTo, ScanInv, SerialInv, AddInv, Owned
  <1>7. HeldInv'
    BY DEF Probed, Exit, GoTo, HeldInv, AddInv, DelInv, DelPcs
  <1>8. LeakOnlyByFault'
    BY DEF Probed, Exit, GoTo, LeakOnlyByFault, LockInv, Critical, AddInv
  <1>9. QED
    BY <1>1, <1>2, <1>3, <1>4, <1>5, <1>6, <1>7, <1>8

LEMMA CheckReturnKeeps ==
  ASSUME IInv, NEW p \in Procs, CheckReturn(p)
  PROVE  IInv'
  <1> USE NullsAssumption DEF IInv, TypeOK
  <1>1. TypeOK'
    BY DEF CheckReturn, Exit, GoTo, Pcs, AddPcs, DelPcs, CheckPcs
  <1>2. LockInv'
    BY DEF CheckReturn, Exit, GoTo, LockInv, Critical
  <1>3. SerialInv'
    BY DEF CheckReturn, Exit, GoTo, SerialInv
  <1>4. AddInv'
    BY DEF CheckReturn, Exit, GoTo, AddInv, LockInv, SerialInv, Critical
  <1>5. DelInv'
    BY DEF CheckReturn, Exit, GoTo, DelInv, DelPcs, SerialInv
  <1>6. ScanInv'
    BY DEF CheckReturn, Exit, GoTo, ScanInv, SerialInv, AddInv, Owned
  <1>7. HeldInv'
    BY DEF CheckReturn, Exit, GoTo, HeldInv, AddInv, DelInv, DelPcs
  <1>8. LeakOnlyByFault'
    BY DEF CheckReturn, Exit, GoTo, LeakOnlyByFault, LockInv, Critical, AddInv
  <1>9. QED
    BY <1>1, <1>2, <1>3, <1>4, <1>5, <1>6, <1>7, <1>8

LEMMA AbortKeeps ==
  ASSUME IInv, NEW p \in Procs, Abort(p)
  PROVE  IInv'
  <1> USE NullsAssumption DEF IInv, TypeOK
  <1>1. TypeOK'
    BY DEF Abort, Exit, GoTo, AddInv, Pcs, AddPcs, DelPcs, CheckPcs
  <1>2. LockInv'
    BY DEF Abort, Exit, GoTo, LockInv, Critical
  <1>3. SerialInv'
    BY DEF Abort, Exit, GoTo, SerialInv
  <1>4. AddInv'
    BY DEF Abort, Exit, GoTo, AddInv, LockInv, SerialInv, Critical
  <1>5. DelInv'
    BY DEF Abort, Exit, GoTo, DelInv, DelPcs, SerialInv
  <1>6. ScanInv'
    BY DEF Abort, Exit, GoTo, ScanInv, SerialInv, AddInv, Owned
  <1>7. HeldInv'
    BY DEF Abort, Exit, GoTo, HeldInv, AddInv, DelInv, DelPcs
  <1>8. LeakOnlyByFault'
    BY DEF Abort, Exit, GoTo, LeakOnlyByFault, LockInv, Critical, AddInv
  <1>9. QED
    BY <1>1, <1>2, <1>3, <1>4, <1>5, <1>6, <1>7, <1>8

LEMMA InitHolds == Init => IInv
  <1> SUFFICES ASSUME Init PROVE IInv
    OBVIOUS
  <1> USE NullsAssumption DEF Init
  <1>1. TypeOK
    BY DEF TypeOK, Pcs
  <1>2. LockInv /\ SerialInv /\ AddInv /\ DelInv /\ ScanInv
    BY DEF LockInv, Critical, SerialInv, AddInv, DelInv, DelPcs, ScanInv
  <1>3. HeldInv /\ LeakOnlyByFault
    BY DEF HeldInv, LeakOnlyByFault
  <1>4. QED
    BY <1>1, <1>2, <1>3 DEF IInv

LEMMA NextKeeps == IInv /\ [Next]_vars => IInv'
  <1> SUFFICES ASSUME IInv, [Next]_vars PROVE IInv'
    OBVIOUS
  <1>1. ASSUME NEW p \in Procs, NEW c \in Containers,
               NEW label \in {"add_lock", "del_lock", "chk_list"}, Invoke(p, c, label)
        PROVE  IInv'
    BY <1>1, InvokeKeeps
  <1>2. ASSUME NEW p \in Procs, Step(p) PROVE IInv'
    BY <1>2, LockKeeps, PickKeeps, CreateIpKeeps, FillIpKeeps,
       TruncLastKeeps, FillLastKeeps, AddReturnKeeps, ListKeeps,
       ReleaseKeeps, DelReturnKeeps, ProbedKeeps, CheckReturnKeeps DEF Step
  <1>3. ASSUME NEW p \in Procs, Abort(p) \/ PickAmiss(p) PROVE IInv'
    BY <1>3, AbortKeeps, PickKeeps
  <1>4. CASE UNCHANGED vars
    <2> USE <1>4 DEF vars, IInv
    <2>1. TypeOK' /\ LockInv' /\ SerialInv' /\ AddInv'
      BY DEF TypeOK, LockInv, SerialInv, AddInv
    <2>2. DelInv' /\ ScanInv' /\ HeldInv' /\ LeakOnlyByFault'
      BY DEF DelInv, ScanInv, Owned, HeldInv, LeakOnlyByFault
    <2>3. QED
      BY <2>1, <2>2
  <1>5. QED
    BY <1>1, <1>2, <1>3, <1>4 DEF Next, Undisturbed

\* The inductive invariant holds of every behaviour of the plugin.
THEOREM Invariance == Spec => []IInv
  BY InitHolds, NextKeeps, PTL DEF Spec

-----------------------------------------------------------------------------
(* The properties *)

\* Every variable keeps its type (store.rs, command.rs).
THEOREM Typing == Spec => []TypeOK
  <1>1. IInv => TypeOK
    BY DEF IInv
  <1>2. QED
    BY <1>1, Invariance, PTL

\* No two containers are given the same address, and what a container was given
\* stays leased to it until its DEL, whatever is killed or fails in between
\* (cmd_add and cmd_del under the flock).
THEOREM AddressesUnshared == Spec => []NoSharedAddress
  <1>1. IInv => NoSharedAddress
    BY DEF IInv, HeldInv, NoSharedAddress
  <1>2. QED
    BY <1>1, Invariance, PTL

\* Only the file that a fault hit can be lost to the pool (Store::reserve).
THEOREM LeaksAreFaults == Spec => []LeakOnlyByFault
  <1>1. IInv => LeakOnlyByFault
    BY DEF IInv
  <1>2. QED
    BY <1>1, Invariance, PTL

\* A DEL that reports success left no readable lease (Store::release).
THEOREM DelIsComplete == Spec => []DelComplete
  <1>1. IInv => DelComplete
    BY DEF IInv, ScanInv, DelComplete
  <1>2. QED
    BY <1>1, Invariance, PTL

\* A CHECK that denies an allocation is right, though it ran without the lock
\* (cmd_check, Store::has).
THEOREM CheckIsExact == Spec => []CheckExact
  <1>1. IInv => CheckExact
    BY DEF IInv, ScanInv, CheckExact
  <1>2. QED
    BY <1>1, Invariance, PTL

\* No command truncates or rewrites the lease file of a container: what ADD saw
\* free under the lock is free when it writes (reserve, release).
THEOREM LeasesNotOverwritten == Spec => NoOverwrite
  <1>1. IInv /\ [Next]_vars
          => [\A a \in Addrs :
                lease[a] \in Containers => lease'[a] \in {lease[a], Absent}]_vars
    <2> SUFFICES ASSUME IInv, Next, NEW a \in Addrs, lease[a] \in Containers
                 PROVE  lease'[a] \in {lease[a], Absent}
      OBVIOUS
    <2> USE NullsAssumption DEF IInv, TypeOK
    <2>1. ASSUME NEW p \in Procs, CreateIp(p) \/ FillIp(p)
          PROVE  lease'[a] \in {lease[a], Absent}
      BY <2>1 DEF CreateIp, FillIp, AddInv
    <2>2. ASSUME NEW p \in Procs, Release(p)
          PROVE  lease'[a] \in {lease[a], Absent}
      BY <2>2 DEF Release
    <2>3. ASSUME NEW p \in Procs,
                 \/ Lock(p) \/ Pick(p) \/ PickAmiss(p)
                 \/ TruncLast(p) \/ FillLast(p) \/ AddReturn(p)
                 \/ List(p) \/ DelReturn(p) \/ Probed(p) \/ CheckReturn(p) \/ Abort(p)
          PROVE  UNCHANGED lease
      BY <2>3 DEF Lock, Pick, PickAmiss, PickFrom,
                  TruncLast, FillLast, AddReturn, List, DelReturn,
                  Probed, CheckReturn, Abort
    <2>4. ASSUME NEW p \in Procs, NEW c \in Containers, NEW label, Invoke(p, c, label)
          PROVE  UNCHANGED lease
      BY <2>4 DEF Invoke
    <2>5. QED
      BY <2>1, <2>2, <2>3, <2>4 DEF Next, Undisturbed, Step
  <1>2. QED
    BY <1>1, Invariance, PTL DEF Spec, NoOverwrite

-----------------------------------------------------------------------------
(* The commands implement the pool *)

Writes(p, a) == pc[p] = "fill_ip" /\ ip[p] = a

\* What PoolOwner says of one address.
OwnerFacts(a) ==
  /\ lease[a] # Blank => PoolOwner[a] = lease[a]
  /\ \A p \in Procs : Writes(p, a) => PoolOwner[a] = arg[p]
  /\ lease[a] = Blank /\ (\A p \in Procs : ~ Writes(p, a)) => PoolOwner[a] = Blank

\* At most one process writes a lease file, so its owner to be is determined.
LEMMA OwnerOf == IInv => \A a \in Addrs : OwnerFacts(a)
  <1> SUFFICES ASSUME IInv, NEW a \in Addrs PROVE OwnerFacts(a)
    OBVIOUS
  <1>1. \A p, q \in Procs : Writes(p, a) /\ Writes(q, a) => p = q
    BY DEF IInv, LockInv, Critical, Writes
  <1>2. \A p \in Procs : Writes(p, a) => lease[a] = Blank
    BY DEF IInv, AddInv, Writes
  <1>3. lease[a] # Blank => PoolOwner[a] = lease[a]
    BY DEF PoolOwner
  <1>4. ASSUME NEW p \in Procs, Writes(p, a) PROVE PoolOwner[a] = arg[p]
    <2>1. p = CHOOSE q \in Procs : pc[q] = "fill_ip" /\ ip[q] = a
      BY <1>1, <1>4 DEF Writes
    <2>2. QED
      BY <2>1, <1>2, <1>4 DEF PoolOwner, Writes
  <1>5. lease[a] = Blank /\ (\A p \in Procs : ~ Writes(p, a)) => PoolOwner[a] = Blank
    BY DEF PoolOwner, Writes
  <1>6. QED
    BY <1>3, <1>4, <1>5 DEF OwnerFacts

\* A step after which every address has the owner it had is a stutter.
LEMMA OwnersUnchanged ==
  ASSUME \A a \in Addrs : PoolOwner'[a] = PoolOwner[a]
  PROVE  UNCHANGED PoolOwner
  BY DEF PoolOwner

\* A step that gives one address a new owner is an update there.
LEMMA OwnerUpdated ==
  ASSUME NEW a \in Addrs, \A b \in Addrs : b # a => PoolOwner'[b] = PoolOwner[b]
  PROVE  PoolOwner' = [PoolOwner EXCEPT ![a] = PoolOwner'[a]]
  <1>1. PoolOwner = [b \in Addrs |-> PoolOwner[b]]
    BY DEF PoolOwner
  <1>2. PoolOwner' = [b \in Addrs |-> PoolOwner'[b]]
    BY DEF PoolOwner
  <1>3. QED
    BY <1>1, <1>2

\* Every step of the commands is a step of the pool or a stutter.
LEMMA StepImplements ==
  ASSUME IInv, IInv', \A a \in Addrs : OwnerFacts(a), \A a \in Addrs : OwnerFacts(a)',
         [Next]_vars
  PROVE  [Pool!Next]_PoolOwner
  <1> USE NullsAssumption DEF IInv, TypeOK
  <1>1. ASSUME NEW p \in Procs, CreateIp(p) PROVE Pool!Next
    <2>1. ip[p] \in Addrs /\ arg[p] \in Containers /\ lease[ip[p]] = Absent
      BY <1>1 DEF CreateIp, AddInv, SerialInv
    <2>2. PoolOwner[ip[p]] = Absent /\ PoolOwner'[ip[p]] = arg[p]
      BY <1>1, <2>1 DEF CreateIp, GoTo, OwnerFacts, Writes
    <2>3. ASSUME NEW a \in Addrs, a # ip[p] PROVE PoolOwner'[a] = PoolOwner[a]
      BY <1>1, <2>1, <2>3 DEF CreateIp, GoTo, OwnerFacts, Writes
    <2>4. PoolOwner' = [PoolOwner EXCEPT ![ip[p]] = arg[p]]
      BY <2>1, <2>2, <2>3, OwnerUpdated
    <2>5. QED
      BY <2>1, <2>2, <2>4 DEF Pool!Next, Pool!Allocate
  <1>2. ASSUME NEW p \in Procs, FillIp(p) PROVE UNCHANGED PoolOwner
    <2>1. ip[p] \in Addrs /\ arg[p] \in Containers
      BY <1>2 DEF FillIp, AddInv, SerialInv
    <2>2. \A a \in Addrs : PoolOwner'[a] = PoolOwner[a]
      BY <1>2, <2>1 DEF FillIp, GoTo, OwnerFacts, Writes
    <2>3. QED
      BY <2>2, OwnersUnchanged
  <1>3. ASSUME NEW p \in Procs, Release(p) PROVE [Pool!Next]_PoolOwner
    <2>1. arg[p] \in Containers
      BY <1>3 DEF Release, SerialInv
    <2>2. CASE UNCHANGED lease
      <3>1. \A a \in Addrs : PoolOwner'[a] = PoolOwner[a]
        BY <1>3, <2>2 DEF Release, OwnerFacts, Writes
      <3>2. QED
        BY <3>1, OwnersUnchanged
    <2>3. ASSUME NEW a \in Addrs, lease[a] = arg[p], lease' = [lease EXCEPT ![a] = Absent]
          PROVE  Pool!Next
      <3>1. PoolOwner[a] = arg[p] /\ PoolOwner'[a] = Absent
        BY <2>1, <2>3 DEF OwnerFacts
      <3>2. ASSUME NEW b \in Addrs, b # a PROVE PoolOwner'[b] = PoolOwner[b]
        BY <1>3, <2>3, <3>2 DEF Release, OwnerFacts, Writes
      <3>3. PoolOwner' = [PoolOwner EXCEPT ![a] = Absent]
        BY <3>1, <3>2, OwnerUpdated
      <3>4. QED
        BY <2>1, <3>1, <3>3 DEF Pool!Next, Pool!Free
    <2>4. QED
      BY <1>3, <2>2, <2>3 DEF Release
  <1>4. ASSUME NEW p \in Procs, Abort(p) PROVE [Pool!Next]_PoolOwner
    <2>1. CASE pc[p] = "fill_ip"
      <3>1. ip[p] \in Addrs /\ arg[p] \in Containers /\ lease[ip[p]] = Blank
        BY <2>1 DEF AddInv, SerialInv
      <3>2. \A q \in Procs : pc[q] = "fill_ip" => q = p
        BY <2>1 DEF LockInv, Critical
      <3>3. PoolOwner[ip[p]] = arg[p] /\ PoolOwner'[ip[p]] = Blank
        BY <1>4, <2>1, <3>1, <3>2 DEF Abort, Exit, GoTo, OwnerFacts, Writes
      <3>4. ASSUME NEW a \in Addrs, a # ip[p] PROVE PoolOwner'[a] = PoolOwner[a]
        BY <1>4, <3>2, <3>4 DEF Abort, Exit, GoTo, OwnerFacts, Writes
      <3>5. PoolOwner' = [PoolOwner EXCEPT ![ip[p]] = Blank]
        BY <3>1, <3>3, <3>4, OwnerUpdated
      <3>6. QED
        BY <3>1, <3>3, <3>5 DEF Pool!Next, Pool!Lose
    <2>2. CASE pc[p] # "fill_ip"
      <3>1. \A a \in Addrs : PoolOwner'[a] = PoolOwner[a]
        BY <1>4, <2>2 DEF Abort, Exit, GoTo, OwnerFacts, Writes
      <3>2. QED
        BY <3>1, OwnersUnchanged
    <2>3. QED
      BY <2>1, <2>2
  <1>5. ASSUME NEW p \in Procs,
               \/ Lock(p) \/ Pick(p) \/ PickAmiss(p)
               \/ TruncLast(p) \/ FillLast(p) \/ AddReturn(p)
               \/ List(p) \/ DelReturn(p) \/ Probed(p) \/ CheckReturn(p)
        PROVE  UNCHANGED PoolOwner
    <2>1. \A a \in Addrs, q \in Procs : Writes(q, a)' <=> Writes(q, a)
      BY <1>5 DEF Lock, Pick, PickAmiss, PickFrom,
                  TruncLast, FillLast, AddReturn, List, DelReturn, Probed,
                  CheckReturn, Exit, GoTo, Writes
    <2>2. UNCHANGED lease /\ \A q \in Procs : q # p => arg'[q] = arg[q]
      BY <1>5 DEF Lock, Pick, PickAmiss, PickFrom,
                  TruncLast, FillLast, AddReturn, List, DelReturn, Probed,
                  CheckReturn, Exit
    <2>3. \A a \in Addrs : ~ Writes(p, a)
      BY <1>5 DEF Lock, Pick, PickAmiss, PickFrom,
                  TruncLast, FillLast, AddReturn, List, DelReturn, Probed,
                  CheckReturn, Writes
    <2>4. \A a \in Addrs : PoolOwner'[a] = PoolOwner[a]
      BY <2>1, <2>2, <2>3 DEF OwnerFacts
    <2>5. QED
      BY <2>4, OwnersUnchanged
  <1>6. ASSUME NEW p \in Procs, NEW c \in Containers,
               NEW label \in {"add_lock", "del_lock", "chk_list"}, Invoke(p, c, label)
        PROVE  UNCHANGED PoolOwner
    <2>1. \A a \in Addrs : PoolOwner'[a] = PoolOwner[a]
      BY <1>6 DEF Invoke, GoTo, OwnerFacts, Writes
    <2>2. QED
      BY <2>1, OwnersUnchanged
  <1>7. CASE UNCHANGED vars
    BY <1>7 DEF vars, PoolOwner
  <1>8. QED
    BY <1>1, <1>2, <1>3, <1>4, <1>5, <1>6, <1>7 DEF Next, Undisturbed, Step

\* Refinement: seen through PoolOwner, the processes with their lock, their
\* two-step writes and their faults are an address pool (cmd_add, cmd_del).
THEOREM CommandsImplementPool == Spec => ImplementsPool
  <1>1. Init => Pool!Init
    <2> SUFFICES ASSUME Init PROVE PoolOwner = [a \in Addrs |-> Absent]
      BY DEF Pool!Init
    <2>1. QED
      BY NullsAssumption DEF Init, PoolOwner
  <1>2. IInv /\ IInv' /\ (\A a \in Addrs : OwnerFacts(a))
             /\ (\A a \in Addrs : OwnerFacts(a))' /\ [Next]_vars
          => [Pool!Next]_PoolOwner
    BY StepImplements
  <1>3. QED
    BY <1>1, <1>2, Invariance, OwnerOf, PTL DEF Spec, ImplementsPool, Pool!Spec

=============================================================================
