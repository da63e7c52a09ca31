---------------------------- MODULE BridgeProofs ----------------------------
(***************************************************************************)
(* Theorems about Bridge, for any pods, names, addresses and faults.       *)
(***************************************************************************)
EXTENDS Bridge, TLAPS

-----------------------------------------------------------------------------
(* The inductive invariant: one pod at a time, for what the pods share they *)
(* share in the pool and the bridge only                                    *)

\* The calls up to the IPAM plugin, ...
Before == {"bridge", "make_bridge", "raise_bridge", "ipam"}

\* ... those at which the pod's process has an address, and those from which a
\* pair that it has made is deleted on an error.
HasIp == Wiring \cup {"unwire"}
HasPair == Wiring \ {"veth"}

\* The bridge is up once a process has passed it, and no one takes it down.
BridgeInv(c) == pc[c] \in {"ipam"} \cup HasIp \/ c \in ready => bridge = "up"

\* The address a process was given is the pod's.
IpInv(c) == pc[c] \in HasIp => ip[c] \in Addrs /\ owner[ip[c]] = c

\* How far the pair has come by each call of wire_pod.
StageInv(c) ==
  /\ addr[c] # NoAddr \/ c \in port => veth[c] = "named"
  /\ pc[c] \in {"open_ns", "move"} => veth[c] = "host"
  /\ pc[c] = "rename" => veth[c] = "moved"
  /\ pc[c] \in {"assign", "attach", "gateway"} => veth[c] = "named"
  /\ pc[c] = "unwire" \/ pc[c] \in HasPair => addr[c] \in {NoAddr, ip[c]}
  /\ pc[c] \in {"attach", "gateway"} => addr[c] = ip[c]
  /\ pc[c] = "gateway" => c \in port

\* A pod that is ready has no process, and all it needs.
ReadyInv(c) ==
  c \in ready =>
    /\ pc[c] = "idle"
    /\ IF netns[c] = "open"
       THEN /\ veth[c] = "named" /\ c \in port
            /\ addr[c] \in Addrs /\ owner[addr[c]] = c
       ELSE veth[c] = "none"
    /\ gateway \/ "gateway" \in excused[c]

\* Where a lease, and where a pair, is nobody's unless a fault left it.
LeaseInv(c) ==
  pc[c] \in {"idle", "del_iface"} \cup Before /\ c \notin ready /\ "lease" \notin excused[c]
    => OwnedBy(c) = {}

PairInv(c) ==
  "veth" \notin excused[c] =>
    /\ pc[c] \in {"idle", "veth", "release"} \cup Before /\ c \notin ready => veth[c] = "none"
    /\ pc[c] \in DelPcs => veth[c] = "none" \/ (veth[c] = "named" /\ netns[c] = "open")

PodInv(c) ==
  /\ BridgeInv(c) /\ IpInv(c) /\ StageInv(c)
  /\ ReadyInv(c) /\ LeaseInv(c) /\ PairInv(c)

IInv == TypeOK /\ \A c \in Pods : PodInv(c)

USE DEF At

\* What one pod's processes and its sandbox may do.
PodStep(c) ==
  \/ \E label \in {"bridge", "del_ipam"} : Invoke(c, label)
  \/ NetnsGoes(c) \/ NewSandbox(c) \/ Kill(c)
  \/ LookBridge(c) \/ MakeBridge(c) \/ RaiseBridge(c) \/ IpamAdd(c)
  \/ CreateVeth(c) \/ OpenNetns(c) \/ Move(c) \/ Rename(c) \/ Assign(c) \/ Attach(c)
  \/ AddReturn(c) \/ Unwire(c) \/ Release(c)
  \/ DelIpam(c) \/ DelIface(c)

\* What such a step leaves alone: all of another pod, whose addresses in the pool
\* it neither takes nor adds to, a bridge that is up, and the bridge's address.
SparesPod(d) ==
  /\ netns'[d] = netns[d] /\ veth'[d] = veth[d] /\ addr'[d] = addr[d]
  /\ d \in port' <=> d \in port
  /\ pc'[d] = pc[d] /\ ip'[d] = ip[d]
  /\ d \in ready' <=> d \in ready
  /\ excused'[d] = excused[d]
  /\ \A a \in Addrs : owner'[a] = d <=> owner[a] = d

SparesBridge == (bridge = "up" => bridge' = "up") /\ (gateway => gateway')

-----------------------------------------------------------------------------
(* What the calls do to the types *)

\* The bound on faults is kept by its guard.
LEMMA DisturbedCounts ==
  ASSUME NEW kind, Disturbed(kind), faults \in 0 .. MaxFaults
  PROVE  faults' \in 0 .. MaxFaults
  BY BoundsAssumption DEF Disturbed

\* The end of a process (cmd_add, cmd_del).
LEMMA ExitTypes ==
  ASSUME TypeOK, NEW c \in Pods, Exit(c)
  PROVE  /\ pc' = [pc EXCEPT ![c] = "idle"] /\ pc' \in [Pods -> Pcs]
         /\ ip' = [ip EXCEPT ![c] = NoAddr] /\ ip' \in [Pods -> Addrs \cup {NoAddr}]
         /\ veth' \in [Pods -> Stages] /\ addr' \in [Pods -> Addrs \cup {NoAddr}]
         /\ port' \subseteq Pods
  BY DEF TypeOK, Exit, GoTo, Unplug, wires, Pcs, Stages

\* An allocation is given to the pod that asks.
LEMMA AllocateTypes ==
  ASSUME TypeOK, NEW c \in Pods, NEW a \in Addrs, Pool!Allocate(c, a) \/ Pool!Free(c, a)
  PROVE  owner' \in [Addrs -> Pods \cup {Unowned}]
  BY DEF TypeOK, Pool!Allocate, Pool!Free

\* Every step keeps the types.
LEMMA TypeStep ==
  ASSUME TypeOK, NEW c \in Pods, PodStep(c)
  PROVE  TypeOK'
  <1> USE NullsAssumption DEF TypeOK, Stages, Wiring, Undoing, DelPcs, Pcs
  <1>g. ASSUME gateway' = gateway \/ gateway' = TRUE
        PROVE  gateway' \in BOOLEAN
    BY <1>g, Zenon
  <1>1. CASE \E label \in {"bridge", "del_ipam"} : Invoke(c, label)
    BY <1>1, <1>g DEF Invoke, GoTo, wires
  <1>2. CASE NetnsGoes(c)
    BY <1>2, <1>g, DisturbedCounts DEF NetnsGoes, Unplug, wires
  <1>3. CASE NewSandbox(c)
    BY <1>3, <1>g DEF NewSandbox, wires
  <1>4. CASE Kill(c)
    BY <1>4, <1>g, DisturbedCounts, ExitTypes DEF Kill, Excuse
  <1>5. CASE LookBridge(c)
    BY <1>5, <1>g DEF LookBridge, GoTo, wires
  <1>6. CASE MakeBridge(c)
    BY <1>6, <1>g, DisturbedCounts, ExitTypes DEF MakeBridge, GoTo, wires
  <1>7. CASE RaiseBridge(c)
    BY <1>7, <1>g, DisturbedCounts, ExitTypes DEF RaiseBridge, GoTo, wires
  <1>8. CASE IpamAdd(c)
    BY <1>8, <1>g, DisturbedCounts, ExitTypes, AllocateTypes DEF IpamAdd, GoTo, Excuse, wires
  <1>9. CASE CreateVeth(c)
    BY <1>9, <1>g, DisturbedCounts DEF CreateVeth, GoTo, Excuse
  <1>10. CASE OpenNetns(c)
    BY <1>10, <1>g, DisturbedCounts DEF OpenNetns, GoTo, Excuse, wires
  <1>11. CASE Move(c) \/ Rename(c) \/ Assign(c) \/ Attach(c)
    BY <1>11, <1>g, DisturbedCounts DEF Move, Rename, Assign, Attach, Wire, GoTo, wires
  <1>12. CASE AddReturn(c)
    <2>1. gateway' \in BOOLEAN
      BY <1>12, <1>g DEF AddReturn
    <2>2. QED
      BY <1>12, <2>1, DisturbedCounts, ExitTypes DEF AddReturn, Excuse
  <1>13. CASE Unwire(c)
    BY <1>13, <1>g, DisturbedCounts DEF Unwire, Unplug, GoTo, Excuse, wires
  <1>14. CASE Release(c)
    BY <1>14, <1>g, DisturbedCounts, ExitTypes, AllocateTypes DEF Release, Excuse, OwnedBy, wires
  <1>15. CASE DelIpam(c)
    BY <1>15, <1>g, DisturbedCounts, AllocateTypes DEF DelIpam, GoTo, Excuse, OwnedBy, wires
  <1>16. CASE DelIface(c)
    BY <1>16, <1>g, DisturbedCounts DEF DelIface, Unplug, GoTo, Excuse, wires
  <1>17. QED
    BY <1>1, <1>2, <1>3, <1>4, <1>5, <1>6, <1>7, <1>8, <1>9, <1>10, <1>11, <1>12, <1>13,
       <1>14, <1>15, <1>16 DEF PodStep

-----------------------------------------------------------------------------
(* What a step leaves alone *)

\* The same two, of the other pods.
LEMMA ExitSpares ==
  ASSUME TypeOK, NEW c \in Pods, NEW d \in Pods, c # d, Exit(c)
  PROVE  /\ pc'[d] = pc[d] /\ ip'[d] = ip[d]
         /\ veth'[d] = veth[d] /\ addr'[d] = addr[d] /\ (d \in port' <=> d \in port)
  BY DEF TypeOK, Exit, GoTo, Unplug, wires
LEMMA PoolSpares ==
  ASSUME TypeOK, NEW c \in Pods, NEW d \in Pods, c # d,
         NEW a \in Addrs, Pool!Allocate(c, a) \/ Pool!Free(c, a)
  PROVE  \A b \in Addrs : owner'[b] = d <=> owner[b] = d
  BY NullsAssumption DEF TypeOK, Pool!Allocate, Pool!Free

\* A step of one pod spares every other and the bridge.
LEMMA StepSpares ==
  ASSUME TypeOK, NEW c \in Pods, NEW d \in Pods, c # d, PodStep(c)
  PROVE  SparesPod(d) /\ SparesBridge
  <1> USE DEF TypeOK, SparesPod, SparesBridge
  <1>1. CASE \E label \in {"bridge", "del_ipam"} : Invoke(c, label)
    BY <1>1 DEF Invoke, GoTo, wires
  <1>2. CASE NetnsGoes(c)
    BY <1>2 DEF NetnsGoes, Unplug, wires
  <1>3. CASE NewSandbox(c)
    BY <1>3 DEF NewSandbox, wires
  <1>4. CASE Kill(c)
    BY <1>4, ExitSpares DEF Kill, Excuse
  <1>5. CASE LookBridge(c)
    BY <1>5 DEF LookBridge, GoTo, wires
  <1>6. CASE MakeBridge(c)
    BY <1>6, ExitSpares DEF MakeBridge, GoTo, wires
  <1>7. CASE RaiseBridge(c)
    BY <1>7, ExitSpares DEF RaiseBridge, GoTo, wires
  <1>8. CASE IpamAdd(c)
    BY <1>8, ExitSpares, PoolSpares DEF IpamAdd, GoTo, Excuse, wires
  <1>9. CASE CreateVeth(c)
    BY <1>9 DEF CreateVeth, GoTo, Excuse
  <1>10. CASE OpenNetns(c)
    BY <1>10 DEF OpenNetns, GoTo, Excuse, wires
  <1>11. CASE Move(c) \/ Rename(c) \/ Assign(c) \/ Attach(c)
    BY <1>11 DEF Move, Rename, Assign, Attach, Wire, GoTo, wires
  <1>12. CASE AddReturn(c)
    BY <1>12, ExitSpares DEF AddReturn, Excuse
  <1>13. CASE Unwire(c)
    BY <1>13 DEF Unwire, Unplug, GoTo, Excuse, wires
  <1>14. CASE Release(c)
    BY <1>14, ExitSpares, PoolSpares DEF Release, Excuse, OwnedBy, wires
  <1>15. CASE DelIpam(c)
    BY <1>15, PoolSpares DEF DelIpam, GoTo, Excuse, OwnedBy, wires
  <1>16. CASE DelIface(c)
    BY <1>16 DEF DelIface, Unplug, GoTo, Excuse, wires
  <1>17. QED
    BY <1>1, <1>2, <1>3, <1>4, <1>5, <1>6, <1>7, <1>8, <1>9, <1>10, <1>11, <1>12, <1>13,
       <1>14, <1>15, <1>16 DEF PodStep

\* A pod that is spared keeps its invariant.
LEMMA SparedKeeps ==
  ASSUME TypeOK, TypeOK', NEW d \in Pods, PodInv(d), SparesPod(d), SparesBridge
  PROVE  PodInv(d)'
  <1> USE DEF SparesPod, SparesBridge, PodInv
  <1>1. BridgeInv(d)' /\ StageInv(d)' /\ PairInv(d)'
    BY DEF BridgeInv, StageInv, PairInv
  <1>2. IpInv(d)'
    BY DEF IpInv
  <1>3. ReadyInv(d)'
    BY DEF ReadyInv
  <1>4. LeaseInv(d)'
    BY DEF LeaseInv, OwnedBy
  <1>5. QED
    BY <1>1, <1>2, <1>3, <1>4

-----------------------------------------------------------------------------
(* What a step does to its own pod *)

\* The end of a process whose pod is not ready: what it leaves of a pair.
LEMMA ExitOwn ==
  ASSUME TypeOK, NEW c \in Pods, PodInv(c), Exit(c), pc[c] \in Pcs \ {"idle"}
  PROVE  /\ pc'[c] = "idle"
         /\ \/ veth'[c] = veth[c] /\ addr'[c] = addr[c] /\ (c \in port' <=> c \in port)
            \/ veth'[c] = "none" /\ addr'[c] = NoAddr /\ c \notin port'
         /\ netns[c] = "gone" => veth'[c] \in {"none", "host"}
         /\ netns[c] = "open" => UNCHANGED wires
  BY DEF TypeOK, Exit, GoTo, Unplug, wires, Stages

\* A pod's names are free only when it has no pair.
LEMMA FreeNamesNoPair ==
  ASSUME TypeOK, NEW c \in Pods, NamesFree(c)
  PROVE  veth[c] = "none"
  BY DEF TypeOK, NamesFree, NamesInUse, Stages

\* Whatever its step, a pod keeps its invariant.
LEMMA OwnKeeps ==
  ASSUME IInv, TypeOK', NEW c \in Pods, PodStep(c)
  PROVE  PodInv(c)'
  <1> USE NullsAssumption
      DEF IInv, TypeOK, PodInv, BridgeInv, IpInv, StageInv, ReadyInv, LeaseInv, PairInv,
          OwnedBy, Stages, Before, HasIp, HasPair, Wiring, Undoing, DelPcs, Pcs
  <1>0. PodInv(c)
    OBVIOUS
  <1>1. CASE \E label \in {"bridge", "del_ipam"} : Invoke(c, label)
    BY <1>1 DEF Invoke, GoTo, wires
  <1>2. CASE NetnsGoes(c)
    BY <1>2 DEF NetnsGoes, Unplug, HoldsNetns, wires
  <1>3. CASE NewSandbox(c)
    BY <1>3 DEF NewSandbox, wires
  <1>4. CASE Kill(c)
    BY <1>4, ExitOwn DEF Kill, Excuse
  <1>5. CASE LookBridge(c)
    BY <1>5 DEF LookBridge, GoTo, wires
  <1>6. CASE MakeBridge(c)
    BY <1>6, ExitOwn DEF MakeBridge, GoTo, wires
  <1>7. CASE RaiseBridge(c)
    BY <1>7, ExitOwn DEF RaiseBridge, GoTo, wires
  <1>8. CASE IpamAdd(c)
    BY <1>8, ExitOwn DEF IpamAdd, GoTo, Excuse, wires, Pool!Allocate
  <1>9. CASE CreateVeth(c)
    BY <1>9, FreeNamesNoPair DEF CreateVeth, GoTo, Excuse
  <1>10. CASE OpenNetns(c)
    BY <1>10 DEF OpenNetns, GoTo, Excuse, wires
  <1>11. CASE Move(c) \/ Rename(c) \/ Assign(c) \/ Attach(c)
    BY <1>11 DEF Move, Rename, Assign, Attach, Wire, GoTo, wires
  <1>12. CASE AddReturn(c)
    <2>1. pc[c] = "gateway" /\ Exit(c) /\ ready' = ready \cup {c}
      BY <1>12 DEF AddReturn
    <2>2. UNCHANGED <<bridge, owner, netns>>
      BY <1>12 DEF AddReturn
    <2>3. gateway' = TRUE \/ "gateway" \in excused'[c]
      BY <1>12 DEF AddReturn, Excuse
    <2>4. excused'[c] = excused[c] \/ excused'[c] = excused[c] \cup {"gateway"}
      BY <1>12 DEF AddReturn, Excuse
    <2>5. pc'[c] = "idle" /\ bridge' = "up" /\ c \in ready'
      BY <2>1, <2>2, ExitOwn
    <2>6. IF netns[c] = "open"
          THEN veth'[c] = "named" /\ c \in port' /\ addr'[c] = ip[c] /\ owner'[ip[c]] = c
          ELSE veth'[c] = "none" /\ c \notin port' /\ addr'[c] = NoAddr
      BY <2>1, <2>2, ExitOwn DEF wires
    <2>7. (gateway \/ "gateway" \in excused[c])'
      BY <2>3, Zenon
    <2>8. (BridgeInv(c) /\ IpInv(c) /\ StageInv(c) /\ LeaseInv(c) /\ PairInv(c))'
      BY <2>2, <2>4, <2>5, <2>6
    <2>9. ip[c] \in Addrs
      BY <2>1
    <2>10. pc'[c] = "idle" /\ IF netns'[c] = "open"
                             THEN /\ veth'[c] = "named" /\ c \in port'
                                  /\ addr'[c] \in Addrs /\ owner'[addr'[c]] = c
                             ELSE veth'[c] = "none"
      BY <2>2, <2>5, <2>6, <2>9
    <2>11. ReadyInv(c)'
      BY <2>7, <2>10, Zenon DEF ReadyInv
    <2>12. QED
      BY <2>8, <2>11
  <1>13. CASE Unwire(c)
    BY <1>13 DEF Unwire, Unplug, GoTo, Excuse, wires
  <1>14. CASE Release(c)
    BY <1>14, ExitOwn DEF Release, Excuse, wires, Pool!Free
  <1>15. CASE DelIpam(c)
    BY <1>15 DEF DelIpam, GoTo, Excuse, wires, Pool!Free
  <1>16. CASE DelIface(c)
    BY <1>16 DEF DelIface, Unplug, GoTo, Excuse, wires
  <1>17. QED
    BY <1>1, <1>2, <1>3, <1>4, <1>5, <1>6, <1>7, <1>8, <1>9, <1>10, <1>11, <1>12, <1>13,
       <1>14, <1>15, <1>16 DEF PodStep

-----------------------------------------------------------------------------
(* The invariant, and what follows *)

\* A node on which nothing has been wired.
LEMMA InitHolds == Init => IInv
  <1> SUFFICES ASSUME Init PROVE IInv
    OBVIOUS
  <1>1. TypeOK
    <2>1. gateway \in BOOLEAN
      BY Zenon DEF Init
    <2>2. faults \in 0 .. MaxFaults
      BY BoundsAssumption DEF Init
    <2>3. QED
      BY <2>1, <2>2 DEF Init, TypeOK, Stages, Pcs, Wiring
  <1>2. ASSUME NEW c \in Pods
        PROVE  PodInv(c)
    BY NullsAssumption
       DEF Init, PodInv, BridgeInv, IpInv, StageInv, ReadyInv, LeaseInv, PairInv,
           OwnedBy, Before, HasIp, HasPair, Wiring, DelPcs
  <1>3. QED
    BY <1>1, <1>2 DEF IInv

\* Every step keeps it: of the pod that takes it, and of those it spares.
LEMMA StepKeeps == IInv /\ [Next]_vars => IInv'
  <1> SUFFICES ASSUME IInv, [Next]_vars PROVE IInv'
    OBVIOUS
  <1>1. CASE UNCHANGED vars
    BY <1>1 DEF vars, IInv, TypeOK, PodInv, BridgeInv, IpInv, StageInv, ReadyInv, LeaseInv,
                PairInv, OwnedBy
  <1>2. ASSUME NEW c \in Pods, PodStep(c)
        PROVE  IInv'
    <2>1. TypeOK'
      BY <1>2, TypeStep DEF IInv
    <2>2. ASSUME NEW d \in Pods, d # c
          PROVE  PodInv(d)'
      BY <1>2, <2>1, <2>2, StepSpares, SparedKeeps DEF IInv
    <2>3. PodInv(c)'
      BY <1>2, <2>1, OwnKeeps
    <2>4. QED
      BY <2>1, <2>2, <2>3 DEF IInv
  <1>3. QED
    BY <1>1, <1>2 DEF Next, PodStep

\* The inductive invariant holds of the specification.
THEOREM Invariance == Spec => []IInv
  BY InitHolds, StepKeeps, PTL DEF Spec

\* Typing: a pod is at one call at a time, and one that wires it has an address
\* (cmd_add, wire_pod).
THEOREM Typing == Spec => []TypeOK
  <1>1. IInv => TypeOK
    BY DEF IInv
  <1>2. QED
    BY <1>1, Invariance, PTL

\* Whatever other pods do and undo meanwhile, names that clash included, between
\* a successful ADD and its DEL the pod has its interface, its port on a bridge
\* that is up, and an address that the pool has for it (cmd_add, wire_pod).
THEOREM ReadyPodsWired == Spec => []ReadyIsWired
  <1>1. IInv => ReadyIsWired
    BY NullsAssumption DEF IInv, TypeOK, PodInv, BridgeInv, ReadyInv, ReadyIsWired
  <1>2. QED
    BY <1>1, Invariance, PTL

\* No failure of the kernel leaks an address: only a process that died, or the
\* IPAM plugin failing, leaves one without a pod (cmd_add, cmd_del).
THEOREM LeasesInUse == Spec => []LeaseOnlyWhileInUse
  <1>1. IInv => LeaseOnlyWhileInUse
    BY DEF IInv, PodInv, LeaseInv, LeaseOnlyWhileInUse
  <1>2. QED
    BY <1>1, Invariance, PTL

\* A pair outlives its pod only where undoing it was not attempted or failed
\* (create_veth, wire_pod, cmd_del).
THEOREM VethsInUse == Spec => []VethOnlyWhileInUse
  <1>1. IInv => VethOnlyWhileInUse
    BY DEF IInv, PodInv, PairInv, VethOnlyWhileInUse
  <1>2. QED
    BY <1>1, Invariance, PTL

\* An address that another pod may be given is on no interface, except during
\* the pod's own DEL (wire_pod, cmd_add, cmd_del).
THEOREM FreedAddressesDown == Spec => []FreedAddressIsDown
  <1>1. IInv => FreedAddressIsDown
    BY NullsAssumption
       DEF IInv, TypeOK, PodInv, IpInv, StageInv, ReadyInv, PairInv, FreedAddressIsDown,
           Before, HasIp, HasPair, Wiring, Undoing, DelPcs, Pcs, Stages
  <1>2. QED
    BY <1>1, Invariance, PTL

=============================================================================
