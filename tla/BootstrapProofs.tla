-------------------------- MODULE BootstrapProofs --------------------------
(***************************************************************************)
(* Theorems about Bootstrap, for any podCIDRs, MACs, MTUs, pods and        *)
(* faults.                                                                 *)
(***************************************************************************)
EXTENDS Bootstrap, TLAPS

-----------------------------------------------------------------------------
(* The inductive invariant *)

\* The calls from the first that knows the backend to the end of the attempt, ...
KnowsBackend == {"own", "mtu", "look", "create", "address", "set_mtu", "up", "oif",
                 "publish", "truncate", "write", "running"}
KnowsCidr == KnowsBackend \ {"own"}
KnowsMtu == KnowsCidr \ {"mtu"}

\* ... those of ensure_vxlan, and those after its ends
OnDevice == {"look", "create", "address", "set_mtu", "up"}
KnowsMac == {"publish", "truncate", "write", "running"}
HasPublished == {"truncate", "write", "running"}

\* What an attempt has found out by each call.
LocalsInv ==
  /\ podCidr # None => podCidr \in given
  /\ pc \in KnowsBackend => backend \in Backends
  /\ pc \in KnowsCidr => cidr \in given
  /\ pc \in KnowsMtu => mtu \in PodMtus
  /\ pc \in OnDevice => backend = "vxlan"
  /\ pc = "oif" => backend = "host-gw"
  /\ pc \in KnowsMac /\ backend = "vxlan" => mac \in Macs

\* The device, as far as it is still there, is the one this attempt has set up.
DeviceInv ==
  /\ pc = "create" => link = None
  /\ pc \in KnowsMac \cup {"up"} /\ backend = "vxlan" /\ link # None => link.mtu = mtu
  /\ pc \in KnowsMac /\ backend = "vxlan" /\ link # None => link.mac = mac

\* The lease and the file of this attempt, and what pods have read of any.
FileInv ==
  /\ pc \in HasPublished => published \in {Annotations, Anew}
  /\ pc = "running" => env = [subnet |-> cidr, mtu |-> mtu]
  /\ env \notin {None, Blank} => env.subnet \in given
  /\ \A p \in Pods : /\ wired[p] # None => wired[p].subnet \in given
                     /\ reading[p] # None => reading[p].subnet \in given

IInv == TypeOK /\ LocalsInv /\ DeviceInv /\ FileInv

USE DEF At

\* What the pods may be told to send (subnet.rs).
LEMMA MtuInRange ==
  ASSUME NEW kind \in Backends, NEW m \in UnderlayMtus \cup {DefaultMtu}
  PROVE  MtuFor(kind, m) \in PodMtus
  BY DEF PodMtus

\* A node before flanneld has done anything.
LEMMA InitHolds == Init => IInv
  <1> SUFFICES ASSUME Init PROVE IInv
    OBVIOUS
  <1>1. TypeOK
    BY BoundsAssumption DEF Init, TypeOK, Backends, Pcs
  <1>2. LocalsInv /\ DeviceInv /\ FileInv
    BY DEF Init, LocalsInv, DeviceInv, FileInv, KnowsBackend, KnowsCidr, KnowsMtu,
           OnDevice, KnowsMac, HasPublished
  <1>3. QED
    BY <1>1, <1>2 DEF IInv

\* The bound on faults is kept by its guard.
LEMMA DisturbedCounts ==
  ASSUME NEW kind, Disturbed(kind), faults \in 0 .. MaxFaults
  PROVE  faults' \in 0 .. MaxFaults
  BY BoundsAssumption DEF Disturbed

\* ... whether a call could do or not.
LEMMA FailureCounts ==
  ASSUME NEW kind, NEW can, Failure(kind, can), faults \in 0 .. MaxFaults
  PROVE  faults' \in 0 .. MaxFaults /\ pc' = "sleep"
  BY DisturbedCounts DEF Failure, Retry

\* Every step keeps the types.
LEMMA TypeStep ==
  ASSUME IInv, [Next]_vars
  PROVE  TypeOK'
  <1> USE NullsAssumption DEF IInv, TypeOK
  <1>1. CASE ReadConf
    BY <1>1, FailureCounts DEF ReadConf, Pcs, node, plugins
  <1>2. CASE OwnNode
    BY <1>2, FailureCounts DEF OwnNode, Pcs, node, plugins
  <1>3. CASE LinkMtu
    <2>1. backend \in Backends
      BY <1>3 DEF LinkMtu, LocalsInv, KnowsBackend
    <2>2. MtuFor(backend, underlay) \in PodMtus /\ MtuFor(backend, DefaultMtu) \in PodMtus
      BY <2>1, MtuInRange
    <2>3. QED
      BY <1>3, <2>2, DisturbedCounts DEF LinkMtu, Pcs, node, plugins
  <1>4. CASE LookLink
    BY <1>4, DisturbedCounts DEF LookLink, Call, Retry, Pcs, node, plugins, locals
  <1>5. CASE CreateLink
    <2>1. link' \in Device \cup {None}
      BY <1>5 DEF CreateLink, Device
    <2>2. QED
      BY <1>5, <2>1, DisturbedCounts DEF CreateLink, Retry, Pcs, node, plugins, locals
  <1>6. CASE AddAddress
    <2>1. cidr \in Cidrs
      BY <1>6 DEF AddAddress, LocalsInv, KnowsCidr, KnowsBackend
    <2>2. CASE link # None /\ link' = [link EXCEPT !.addr = cidr] /\ UNCHANGED faults
      <3>1. link' \in Device
        BY <2>1, <2>2 DEF Device
      <3>2. QED
        BY <1>6, <2>2, <3>1 DEF AddAddress, Pcs, node, plugins, locals
    <2>3. CASE UNCHANGED link /\ IF link = None THEN UNCHANGED faults ELSE Disturbed("net_fails")
      <3>1. faults' \in 0 .. MaxFaults
        BY <2>3, DisturbedCounts
      <3>2. QED
        BY <1>6, <2>3, <3>1 DEF AddAddress, Pcs, node, plugins, locals
    <2>4. QED
      BY <1>6, <2>2, <2>3 DEF AddAddress
  <1>7. CASE SetMtu
    <2>1. mtu \in PodMtus
      BY <1>7 DEF SetMtu, LocalsInv, KnowsMtu, KnowsCidr, KnowsBackend
    <2>2. link' \in Device \cup {None}
      BY <1>7, <2>1 DEF SetMtu, CanSetMtu, Device
    <2>3. QED
      BY <1>7, <2>2, FailureCounts DEF SetMtu, Pcs, node, plugins, locals
  <1>8. CASE BringUp
    <2>1. mac' \in Macs \cup {None}
      BY <1>8 DEF BringUp, Device
    <2>2. QED
      BY <1>8, <2>1, FailureCounts DEF BringUp, Pcs, node, plugins
  <1>9. CASE LookOif
    BY <1>9, DisturbedCounts DEF LookOif, Call, Retry, Pcs, node, plugins, locals
  <1>10. CASE Publish
    <2>1. Annotations \in Lease
      BY <1>10 DEF Publish, Annotations, Lease, LocalsInv, KnowsBackend
    <2>2. QED
      BY <1>10, <2>1, DisturbedCounts DEF Publish, Retry, Pcs, node, plugins, locals
  <1>11. CASE Truncate
    BY <1>11, DisturbedCounts DEF Truncate, Retry, Pcs, node, plugins, locals
  <1>12. CASE Write
    BY <1>12, DisturbedCounts DEF Write, Retry, Pcs, node, plugins, locals, Env,
                                  LocalsInv, KnowsMtu, KnowsCidr, KnowsBackend
  <1>13. CASE BackOff
    BY <1>13 DEF BackOff, Pcs, node, plugins, locals
  <1>14. CASE \E p \in Pods : Load(p) \/ Delegate(p) \/ Unwire(p)
    BY <1>14 DEF Load, Delegate, Unwire, node, locals
  <1>15. CASE AssignCidr \/ Reregister \/ Reconfigure \/ DeleteLink
    BY <1>15, DisturbedCounts
       DEF AssignCidr, Reregister, Reconfigure, DeleteLink, node, plugins, locals, Backends
  <1>16. CASE Restart \/ Reboot
    BY <1>16, DisturbedCounts DEF Restart, Reboot, Start, Pcs, node, plugins
  <1>17. CASE UNCHANGED vars
    BY <1>17 DEF vars, node, locals, plugins
  <1>18. QED
    BY <1>1, <1>2, <1>3, <1>4, <1>5, <1>6, <1>7, <1>8, <1>9, <1>10, <1>11, <1>12, <1>13,
       <1>14, <1>15, <1>16, <1>17 DEF Next, Try

\* A step of an attempt leaves what the earlier ones found out.
LEMMA LocalsStep ==
  ASSUME IInv, [Next]_vars
  PROVE  LocalsInv'
  <1> USE DEF IInv, LocalsInv, KnowsBackend, KnowsCidr, KnowsMtu, KnowsMac, OnDevice, node, locals
  <1>1. CASE ReadConf
    BY <1>1 DEF ReadConf, Failure, Retry
  <1>2. CASE OwnNode
    BY <1>2 DEF OwnNode, Failure, Retry, TypeOK
  <1>3. CASE LinkMtu
    <2>1. MtuFor(backend, underlay) \in PodMtus /\ MtuFor(backend, DefaultMtu) \in PodMtus
      BY <1>3, MtuInRange DEF LinkMtu, TypeOK
    <2>2. mtu' \in PodMtus
      BY <1>3, <2>1 DEF LinkMtu
    <2>3. /\ pc = "mtu" /\ UNCHANGED <<backend, cidr, podCidr, given>>
          /\ pc' = IF backend = "vxlan" THEN "look" ELSE "oif"
      BY <1>3 DEF LinkMtu
    <2>4. QED
      BY <2>2, <2>3 DEF Backends
  <1>4. CASE LookLink \/ LookOif
    BY <1>4 DEF LookLink, LookOif, Call, Retry
  <1>5. CASE CreateLink \/ AddAddress \/ SetMtu
    BY <1>5 DEF CreateLink, AddAddress, SetMtu, Failure, Retry
  <1>6. CASE BringUp
    BY <1>6 DEF BringUp, Failure, Retry, TypeOK, Device
  <1>7. CASE Publish \/ Truncate \/ Write \/ BackOff
    BY <1>7 DEF Publish, Truncate, Write, BackOff, Retry
  <1>8. CASE \E p \in Pods : Load(p) \/ Delegate(p) \/ Unwire(p)
    BY <1>8 DEF Load, Delegate, Unwire
  <1>9. CASE AssignCidr \/ Reregister \/ Reconfigure \/ DeleteLink
    BY <1>9 DEF AssignCidr, Reregister, Reconfigure, DeleteLink
  <1>10. CASE Restart \/ Reboot
    BY <1>10 DEF Restart, Reboot, Start
  <1>11. CASE UNCHANGED vars
    BY <1>11 DEF vars
  <1>12. QED
    BY <1>1, <1>2, <1>3, <1>4, <1>5, <1>6, <1>7, <1>8, <1>9, <1>10, <1>11 DEF Next, Try

\* A call on the device leaves it as the next one expects it; from then on nobody
\* makes one, so it is this one or none.
LEMMA DeviceStep ==
  ASSUME IInv, [Next]_vars
  PROVE  DeviceInv'
  <1> USE DEF IInv, DeviceInv, KnowsMac
  <1>1. CASE ReadConf \/ OwnNode \/ LinkMtu
    BY <1>1 DEF ReadConf, OwnNode, LinkMtu, Failure, Retry
  <1>2. CASE LookLink
    BY <1>2 DEF LookLink, Call, Retry
  <1>3. CASE CreateLink \/ AddAddress
    BY <1>3 DEF CreateLink, AddAddress, Failure, Retry
  <1>4. CASE SetMtu
    <2>1. CASE CanSetMtu /\ link' = [link EXCEPT !.mtu = mtu] /\ pc' = "up"
      <3>1. link \in Device
        BY <2>1 DEF CanSetMtu, TypeOK
      <3>2. link'.mtu = mtu
        BY <2>1, <3>1 DEF Device
      <3>3. QED
        BY <1>4, <2>1, <3>2 DEF SetMtu, locals
    <2>2. CASE Failure("net_fails", CanSetMtu)
      BY <2>2 DEF Failure, Retry
    <2>3. QED
      BY <1>4, <2>1, <2>2 DEF SetMtu
  <1>5. CASE BringUp
    BY <1>5 DEF BringUp, Failure, Retry, LocalsInv, OnDevice
  <1>6. CASE LookOif
    BY <1>6 DEF LookOif, Call, Retry, locals, LocalsInv
  <1>7. CASE Publish \/ Truncate \/ Write \/ BackOff
    BY <1>7 DEF Publish, Truncate, Write, BackOff, Retry, locals
  <1>8. CASE \E p \in Pods : Load(p) \/ Delegate(p) \/ Unwire(p)
    BY <1>8 DEF Load, Delegate, Unwire, locals
  <1>9. CASE AssignCidr \/ Reregister \/ Reconfigure \/ DeleteLink
    BY <1>9 DEF AssignCidr, Reregister, Reconfigure, DeleteLink, locals
  <1>10. CASE Restart \/ Reboot
    BY <1>10 DEF Restart, Reboot, Start
  <1>11. CASE UNCHANGED vars
    BY <1>11 DEF vars, locals
  <1>12. QED
    BY <1>1, <1>2, <1>3, <1>4, <1>5, <1>6, <1>7, <1>8, <1>9, <1>10, <1>11 DEF Next, Try

\* The file is written behind the lease of the same attempt, from a podCIDR that
\* the node has had.
LEMMA FileStep ==
  ASSUME IInv, [Next]_vars
  PROVE  FileInv'
  <1> USE DEF IInv, FileInv, HasPublished
  <1>w. ASSUME UNCHANGED <<env, plugins>>, given \subseteq given'
        PROVE  /\ env' \notin {None, Blank} => env'.subnet \in given'
               /\ \A p \in Pods : /\ wired'[p] # None => wired'[p].subnet \in given'
                                  /\ reading'[p] # None => reading'[p].subnet \in given'
    BY <1>w DEF plugins
  <1>1. CASE ReadConf \/ OwnNode \/ LinkMtu \/ LookLink \/ LookOif \/ CreateLink
             \/ AddAddress \/ SetMtu \/ BringUp \/ BackOff
    <2>1. UNCHANGED <<env, plugins, given>> /\ pc' \notin HasPublished
      BY <1>1 DEF ReadConf, OwnNode, LinkMtu, LookLink, LookOif, CreateLink, AddAddress,
                  SetMtu, BringUp, BackOff, Call, Failure, Retry, node
    <2>2. QED
      BY <1>w, <2>1
  <1>2. CASE Publish
    <2>1. pc' \in {"truncate", "sleep"} /\ (pc' = "truncate" => published' = Annotations)
      BY <1>2 DEF Publish, Retry
    <2>2. Annotations' = Annotations /\ UNCHANGED <<env, plugins, given>>
      BY <1>2 DEF Publish, Annotations, locals, node
    <2>3. QED
      BY <1>w, <2>1, <2>2
  <1>3. CASE Truncate \/ Write
    <2>1. /\ Annotations' = Annotations /\ pc \in HasPublished
          /\ UNCHANGED <<given, plugins, published, cidr, mtu>>
      BY <1>3 DEF Truncate, Write, Annotations, locals, node
    <2>2. \/ env' = Blank /\ pc' = "write"
          \/ env' = [subnet |-> cidr, mtu |-> mtu] /\ pc' = "running"
          \/ env' = env /\ pc' = "sleep"
      BY <1>3 DEF Truncate, Write, Retry
    <2>3. cidr \in given
      BY <2>1 DEF LocalsInv, KnowsCidr, KnowsBackend
    <2>4. env' \notin {None, Blank} => env'.subnet \in given
      BY <2>2, <2>3
    <2>5. QED
      BY <2>1, <2>2, <2>4 DEF plugins
  <1>4. CASE \E p \in Pods : Load(p) \/ Delegate(p) \/ Unwire(p)
    <2>1. UNCHANGED <<node, published, env, pc, locals>>
      BY <1>4 DEF Load, Delegate, Unwire
    <2>2. \A p \in Pods : /\ wired'[p] # None => wired'[p].subnet \in given
                          /\ reading'[p] # None => reading'[p].subnet \in given
      BY <1>4 DEF Load, Delegate, Unwire, TypeOK
    <2>3. QED
      BY <2>1, <2>2 DEF node, locals, Annotations
  <1>5. CASE AssignCidr \/ Reregister \/ Reconfigure \/ DeleteLink
    <2>1. /\ UNCHANGED <<env, plugins, pc, locals>> /\ given \subseteq given'
          /\ published' \in {published, Anew}
      BY <1>5 DEF AssignCidr, Reregister, Reconfigure, DeleteLink, node
    <2>2. Annotations' = Annotations
      BY <2>1 DEF Annotations, locals
    <2>3. QED
      BY <1>w, <2>1, <2>2 DEF locals
  <1>6. CASE Restart
    BY <1>6, <1>w DEF Restart, Start, node
  <1>7. CASE Reboot
    BY <1>7 DEF Reboot, Start, node
  <1>8. CASE UNCHANGED vars
    BY <1>8, <1>w DEF vars, node, locals, Annotations
  <1>9. QED
    BY <1>1, <1>2, <1>3, <1>4, <1>5, <1>6, <1>7, <1>8 DEF Next, Try

-----------------------------------------------------------------------------
(* The theorems *)

\* Whatever fails, is lost, killed, deleted or changed, the inductive invariant holds.
THEOREM Invariance == Spec => []IInv
  <1>1. IInv /\ [Next]_vars => IInv'
    BY TypeStep, LocalsStep, DeviceStep, FileStep DEF IInv
  <1>2. QED
    BY InitHolds, <1>1, PTL DEF Spec

\* The variables of a bootstrap keep their types (main.rs, netlink.rs).
THEOREM Typing == Spec => []TypeOK
  <1>1. IInv => TypeOK
    BY DEF IInv
  <1>2. QED
    BY Invariance, <1>1, PTL

\* A bootstrap that gets past publish has told the peers of the device that is there,
\* for any number of faults, restarts, deleted devices and changes of configuration
\* (try_bootstrap, ensure_vxlan, publish).
THEOREM DeviceIsPublished == Spec => []PublishedIsDevice
  <1>1. IInv => PublishedIsDevice
    <2> SUFFICES ASSUME IInv, pc \in HasPublished, published # Anew PROVE PublishedIsDevice
      BY DEF PublishedIsDevice, HasPublished
    <2>1. published = Annotations /\ backend \in Backends
      BY DEF IInv, FileInv, LocalsInv, HasPublished, KnowsBackend
    <2>2. Annotations \in Lease
      BY <2>1 DEF IInv, TypeOK, Annotations, Lease
    <2>3. backend = "vxlan" /\ link # None => link.mac = mac
      BY DEF IInv, DeviceInv, HasPublished, KnowsMac
    <2>4. QED
      BY <2>1, <2>2, <2>3, NullsAssumption DEF Annotations, PublishedIsDevice
  <1>2. QED
    BY Invariance, <1>1, PTL

\* When the bootstrap is done the device that is there has the MTU of the file
\* (ensure_vxlan, set_mtu).
THEOREM DeviceIsAgreed == Spec => []DeviceAgrees
  <1>1. IInv => DeviceAgrees
    BY DEF IInv, FileInv, DeviceInv, KnowsMac, DeviceAgrees
  <1>2. QED
    BY Invariance, <1>1, PTL

\* No pod is wired from a half-written file or with a subnet that was never the
\* node's, whatever happens between its reading and its wiring (SubnetEnv::load,
\* run_delegate).
THEOREM PodsStayInSubnet == Spec => []PodsInSubnet
  <1>1. IInv => PodsInSubnet
    BY DEF IInv, FileInv, TypeOK, Env, PodsInSubnet
  <1>2. QED
    BY Invariance, <1>1, PTL

=============================================================================
