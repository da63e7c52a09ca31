----------------------------- MODULE Bootstrap -----------------------------
(***************************************************************************)
(* How a node comes into the network: flanneld's bootstrap                 *)
(* (crates/flanneld: main.rs, netlink.rs, kube_mgr.rs) makes the overlay   *)
(* device, publishes the node's lease at the API server and writes         *)
(* subnet.env, trying again with a growing delay until all of it is done;  *)
(* meanwhile the flannel plugin (crates/cni-flannel) reads that file for   *)
(* every pod and hands its contents to the bridge plugin.                  *)
(*                                                                         *)
(* One step is one call on the kernel, the API server or the file system.  *)
(***************************************************************************)
EXTENDS Integers

CONSTANTS
  Cidrs,                  \* podCIDRs the node may be given
  Macs,                   \* what the kernel may give a new device
  UnderlayMtus,           \* MTUs of the NIC that has the node's address
  Pods,
  None,
  Blank,                  \* subnet.env truncated, not yet written
  Anew,                   \* no annotations: the Node object was made again
  Disturb,                \* what may go wrong, a subset of Disturbances
  MaxFaults               \* bound on how often it does

Disturbances ==
  {"net_fails",           \* a netlink call fails
   "api_fails",           \* a call on the API server fails, or its answer is lost
   "fs_fails",            \* a file operation fails
   "conf",                \* net-conf.json is rewritten
   "underlay",            \* the MTU of the NIC changes
   "link_gone",           \* somebody deletes the device
   "reregister",          \* the Node object is deleted and made again
   "killed",              \* flanneld restarts
   "reboot"}              \* the node restarts: no device, no file, no pods

ASSUME BoundsAssumption ==
  UnderlayMtus \subseteq Nat /\ Disturb \subseteq Disturbances /\ MaxFaults \in Nat

VARIABLES
  conf,                   \* net-conf.json: "missing", "bad" or a backend
  podCidr, given,         \* spec.podCIDR of the own Node; history: all it has had
  underlay,               \* MTU of the NIC
  link,                   \* flannel.1: its mac, address and mtu; None
  published,              \* the annotations of the own Node: type and mac; Anew or None
  env,                    \* subnet.env: subnet and mtu; Blank or None
  pc, delay,              \* what bootstrap does next; how long it sleeps next
  backend, cidr, mtu, mac, \* locals of try_bootstrap
  wired, reading,         \* pods: what they were wired with, what is being read
  faults                  \* how many disturbances so far

node == <<conf, podCidr, given, underlay>>
locals == <<backend, cidr, mtu, mac>>
plugins == <<wired, reading>>
vars == <<node, link, published, env, pc, delay, locals, plugins, faults>>

Backends == {"vxlan", "host-gw"}

\* vxlan_mtu, with saturating_sub, and host_gw_mtu
MtuFor(kind, linkMtu) ==
  CASE kind = "vxlan" /\ linkMtu >= 50 -> linkMtu - 50
    [] kind = "vxlan" /\ linkMtu < 50  -> 0
    [] kind = "host-gw"                -> linkMtu

DefaultMtu == 1500
MinMtu == 68              \* the kernel refuses less on a vxlan device
PodMtus == {MtuFor(kind, m) : kind \in Backends, m \in UnderlayMtus \cup {DefaultMtu}}
Env == [subnet : Cidrs, mtu : PodMtus]
Device == [mac : Macs, addr : Cidrs \cup {None}, mtu : PodMtus \cup {DefaultMtu}]
Lease == [type : Backends, mac : Macs \cup {None}]

ASSUME NullsAssumption ==
  /\ None \notin Cidrs \cup {Blank, Anew} \cup Macs \cup Env \cup Device \cup Lease
  /\ Anew \notin Lease

Pcs == {"read", "own", "mtu", "look", "create", "address", "set_mtu", "up", "oif",
        "publish", "truncate", "write", "sleep", "running", "exited"}

TypeOK ==
  /\ conf \in {"missing", "bad"} \cup Backends
  /\ podCidr \in Cidrs \cup {None} /\ given \subseteq Cidrs /\ underlay \in UnderlayMtus
  /\ link \in Device \cup {None}
  /\ published \in Lease \cup {Anew, None}
  /\ env \in Env \cup {Blank, None}
  /\ pc \in Pcs
  /\ delay \in {1, 2, 4, 8, 16, 30}
  /\ backend \in Backends \cup {None} /\ cidr \in Cidrs \cup {None}
  /\ mtu \in PodMtus \cup {None} /\ mac \in Macs \cup {None}
  /\ wired \in [Pods -> Env \cup {None}] /\ reading \in [Pods -> Env \cup {None}]
  /\ faults \in 0 .. MaxFaults

Init ==
  /\ conf \in {"missing", "bad"} \cup Backends
  /\ podCidr = None /\ given = {} /\ underlay \in UnderlayMtus
  /\ link = None /\ published = None /\ env = None
  /\ pc = "read" /\ delay = 1
  /\ backend = None /\ cidr = None /\ mtu = None /\ mac = None
  /\ wired = [p \in Pods |-> None] /\ reading = [p \in Pods |-> None]
  /\ faults = 0

Disturbed(kind) ==
  /\ kind \in Disturb
  /\ faults < MaxFaults
  /\ faults' = faults + 1

-----------------------------------------------------------------------------
(* try_bootstrap *)

At(label) == pc = label

\* an error that is not Fatal
Retry == pc' = "sleep"

\* ... of a call that would do, by a fault, or of one that cannot
Failure(kind, can) ==
  /\ Retry
  /\ IF can THEN Disturbed(kind) ELSE UNCHANGED faults

\* a call succeeds and bootstrap goes on, or it fails and nothing has changed
Call(label, kind, next) ==
  /\ At(label)
  /\ \/ pc' = next /\ UNCHANGED faults
     \/ Disturbed(kind) /\ Retry
  /\ UNCHANGED delay

\* read_to_string and classify_net_conf: what cannot be understood is Fatal
ReadConf ==
  /\ At("read")
  /\ \/ /\ conf \in Backends
        /\ backend' = conf
        /\ pc' = "own"
        /\ UNCHANGED faults
     \/ Failure("fs_fails", conf # "missing") /\ UNCHANGED backend
     \/ /\ conf = "bad"
        /\ pc' = "exited"
        /\ UNCHANGED <<backend, faults>>
  /\ UNCHANGED <<node, link, published, env, delay, cidr, mtu, mac, plugins>>

\* own_node: "node has no PodCIDR" is tried again
OwnNode ==
  /\ At("own")
  /\ \/ /\ podCidr # None
        /\ cidr' = podCidr
        /\ pc' = "mtu"
        /\ UNCHANGED faults
     \/ Failure("api_fails", podCidr # None) /\ UNCHANGED cidr
  /\ UNCHANGED <<node, link, published, env, delay, backend, mtu, mac, plugins>>

\* link_mtu_by_ip, 1500 when it fails, less the backend's overhead
LinkMtu ==
  /\ At("mtu")
  /\ \/ mtu' = MtuFor(backend, underlay) /\ UNCHANGED faults
     \/ mtu' = MtuFor(backend, DefaultMtu) /\ Disturbed("net_fails")
  /\ pc' = IF backend = "vxlan" THEN "look" ELSE "oif"
  /\ UNCHANGED <<node, link, published, env, delay, backend, cidr, mac, plugins>>

-----------------------------------------------------------------------------
(* ensure_vxlan, and link_index_by_ip for host-gw *)

\* (faulty variant: a device that is already there is an error)
LookLinkStrict ==
  /\ Call("look", "net_fails", IF link = None THEN "create" ELSE "sleep")
  /\ UNCHANGED <<node, link, published, env, locals, plugins>>

\* link_index: a device that is already there is used
LookLink ==
  /\ Call("look", "net_fails", IF link = None THEN "create" ELSE "set_mtu")
  /\ UNCHANGED <<node, link, published, env, locals, plugins>>

\* create_vxlan: the device is there and up, or the lookup after it fails
CreateLink ==
  /\ At("create")
  /\ \/ /\ \E m \in Macs : link' = [mac |-> m, addr |-> None, mtu |-> DefaultMtu]
        /\ pc' = "address" /\ UNCHANGED faults
     \/ /\ Disturbed("net_fails") /\ Retry
        /\ \/ UNCHANGED link
           \/ \E m \in Macs : link' = [mac |-> m, addr |-> None, mtu |-> DefaultMtu]
  /\ UNCHANGED <<node, published, env, delay, locals, plugins>>

\* add_address, whose error is dropped
AddAddress ==
  /\ At("address")
  /\ \/ link # None /\ link' = [link EXCEPT !.addr = cidr] /\ UNCHANGED faults
     \/ UNCHANGED link /\ IF link = None THEN UNCHANGED faults ELSE Disturbed("net_fails")
  /\ pc' = "set_mtu"
  /\ UNCHANGED <<node, published, env, delay, locals, plugins>>

\* what the kernel lets set_mtu do
CanSetMtu == link # None /\ mtu >= MinMtu

\* (faulty variant: an existing device keeps its MTU)
SetMtuOnce ==
  /\ At("set_mtu")
  /\ \/ /\ CanSetMtu
        /\ link' = IF link.mtu = DefaultMtu THEN [link EXCEPT !.mtu = mtu] ELSE link
        /\ pc' = "up" /\ UNCHANGED faults
     \/ Failure("net_fails", CanSetMtu) /\ UNCHANGED link
  /\ UNCHANGED <<node, published, env, delay, locals, plugins>>

\* set_mtu, of a device just made or found
SetMtu ==
  /\ At("set_mtu")
  /\ \/ CanSetMtu /\ link' = [link EXCEPT !.mtu = mtu] /\ pc' = "up" /\ UNCHANGED faults
     \/ Failure("net_fails", CanSetMtu) /\ UNCHANGED link
  /\ UNCHANGED <<node, published, env, delay, locals, plugins>>

\* bring_up and link_mac
BringUp ==
  /\ At("up")
  /\ \/ link # None /\ mac' = link.mac /\ pc' = "publish" /\ UNCHANGED faults
     \/ Failure("net_fails", link # None) /\ UNCHANGED mac
  /\ UNCHANGED <<node, link, published, env, delay, backend, cidr, mtu, plugins>>

LookOif ==
  /\ Call("oif", "net_fails", "publish")
  /\ UNCHANGED <<node, link, published, env, locals, plugins>>

-----------------------------------------------------------------------------
(* publish, and subnet.env *)

\* build_publish_patch: applied with force, so what is left out is taken back
Annotations ==
  [type |-> backend, mac |-> IF backend = "vxlan" THEN mac ELSE None]

\* (faulty variant: an error of publish does not end the attempt)
PublishIgnored ==
  /\ At("publish")
  /\ \/ published' = Annotations /\ UNCHANGED faults
     \/ UNCHANGED published /\ Disturbed("api_fails")
  /\ pc' = "truncate"
  /\ UNCHANGED <<node, link, env, delay, locals, plugins>>

\* publish: the answer may be lost after the patch was applied
Publish ==
  /\ At("publish")
  /\ \/ published' = Annotations /\ pc' = "truncate" /\ UNCHANGED faults
     \/ published' \in {published, Annotations} /\ Disturbed("api_fails") /\ Retry
  /\ UNCHANGED <<node, link, env, delay, locals, plugins>>

\* fs::write, first half: create or truncate ...
Truncate ==
  /\ At("truncate")
  /\ \/ env' = Blank /\ pc' = "write" /\ UNCHANGED faults
     \/ Disturbed("fs_fails") /\ Retry /\ UNCHANGED env
  /\ UNCHANGED <<node, link, published, delay, locals, plugins>>

\* ... then the contents
Write ==
  /\ At("write")
  /\ \/ env' = [subnet |-> cidr, mtu |-> mtu] /\ pc' = "running" /\ UNCHANGED faults
     \/ Disturbed("fs_fails") /\ Retry /\ UNCHANGED env
  /\ UNCHANGED <<node, link, published, delay, locals, plugins>>

\* (faulty variant: the doubled delay has no bound)
BackOffUnbounded ==
  /\ At("sleep")
  /\ pc' = "read"
  /\ delay' = delay * 2
  /\ UNCHANGED <<node, link, published, env, locals, plugins, faults>>

\* bootstrap: sleep for the delay, double it up to 30 s, try again
BackOff ==
  /\ At("sleep")
  /\ pc' = "read"
  /\ delay' = IF delay * 2 > 30 THEN 30 ELSE delay * 2
  /\ UNCHANGED <<node, link, published, env, locals, plugins, faults>>

-----------------------------------------------------------------------------
(* The flannel plugin *)

\* (faulty variant: what a file lacks is taken for empty)
LoadDefaults(p) ==
  /\ wired[p] = None /\ reading[p] = None /\ env # None
  /\ reading' = [reading EXCEPT ![p] = IF env = Blank THEN [subnet |-> None, mtu |-> 0] ELSE env]
  /\ UNCHANGED <<node, link, published, env, pc, delay, locals, wired, faults>>

\* SubnetEnv::load of an ADD: a file that is missing or lacks a key is error 11,
\* and the runtime tries again
Load(p) ==
  /\ wired[p] = None /\ reading[p] = None
  /\ env \notin {None, Blank}
  /\ reading' = [reading EXCEPT ![p] = env]
  /\ UNCHANGED <<node, link, published, env, pc, delay, locals, wired, faults>>

\* build_delegate and run_delegate, which may fail
Delegate(p) ==
  /\ reading[p] # None
  /\ reading' = [reading EXCEPT ![p] = None]
  /\ wired' \in {wired, [wired EXCEPT ![p] = reading[p]]}
  /\ UNCHANGED <<node, link, published, env, pc, delay, locals, faults>>

\* DEL, which does without the file
Unwire(p) ==
  /\ wired[p] # None
  /\ wired' = [wired EXCEPT ![p] = None]
  /\ UNCHANGED <<node, link, published, env, pc, delay, locals, reading, faults>>

-----------------------------------------------------------------------------
(* The node *)

\* the controller manager gives the Node object its podCIDR, once
AssignCidr ==
  /\ podCidr = None
  /\ podCidr' \in Cidrs
  /\ given' = given \cup {podCidr'}
  /\ UNCHANGED <<conf, underlay, link, published, env, pc, delay, locals, plugins, faults>>

\* a Node object made again has neither podCIDR nor annotations at first, and
\* flanneld, running or not, is not told
Reregister ==
  /\ Disturbed("reregister")
  /\ podCidr' = None /\ published' = Anew
  /\ UNCHANGED <<conf, given, underlay, link, env, pc, delay, locals, plugins>>

Reconfigure ==
  /\ \/ Disturbed("conf") /\ conf' \in {"bad", "vxlan", "host-gw"} /\ UNCHANGED underlay
     \/ Disturbed("underlay") /\ underlay' \in UnderlayMtus /\ UNCHANGED conf
  /\ UNCHANGED <<podCidr, given, link, published, env, pc, delay, locals, plugins>>

\* "ip link delete flannel.1", with flanneld running and subnet.env in place
DeleteLink ==
  /\ Disturbed("link_gone")
  /\ link # None /\ link' = None
  /\ UNCHANGED <<node, published, env, pc, delay, locals, plugins>>

\* a process begins: the DaemonSet starts one that has exited again
Start ==
  /\ pc' = "read" /\ delay' = 1
  /\ backend' = None /\ cidr' = None /\ mtu' = None /\ mac' = None

Restart ==
  /\ \/ At("exited") /\ UNCHANGED faults
     \/ ~ At("exited") /\ Disturbed("killed")
  /\ Start
  /\ UNCHANGED <<node, link, published, env, plugins>>

Reboot ==
  /\ Disturbed("reboot")
  /\ Start
  /\ link' = None /\ env' = None
  /\ wired' = [p \in Pods |-> None] /\ reading' = [p \in Pods |-> None]
  /\ UNCHANGED <<node, published>>

Try ==
  \/ ReadConf \/ OwnNode \/ LinkMtu
  \/ LookLink \/ CreateLink \/ AddAddress \/ SetMtu \/ BringUp \/ LookOif
  \/ Publish \/ Truncate \/ Write \/ BackOff

Next ==
  \/ Try
  \/ \E p \in Pods : Load(p) \/ Delegate(p) \/ Unwire(p)
  \/ AssignCidr \/ Reregister \/ Reconfigure \/ DeleteLink \/ Restart \/ Reboot

Spec == Init /\ [][Next]_vars

\* flanneld runs, the DaemonSet starts it again after an exit, the node is given
\* a podCIDR, and the runtime retries an ADD
Fairness ==
  /\ WF_vars(Try) /\ WF_vars(At("exited") /\ Restart)
  /\ WF_vars(AssignCidr)
  /\ \A p \in Pods : WF_vars(Load(p))

FairSpec == Spec /\ Fairness

-----------------------------------------------------------------------------
(* What the bootstrap promises *)

\* From the time that subnet.env is about to be written, and for as long as flanneld
\* runs, the peers are told of the device that is there: no attempt gets past a
\* publish that failed, and none publishes a device of an earlier attempt, process or
\* boot in its stead (try_bootstrap, ensure_vxlan). Only a Node object made again, or
\* a device deleted since, makes a difference, which nothing watches for
PublishedIsDevice ==
  pc \in {"truncate", "write", "running"} =>
    \/ published = Anew
    \/ /\ published # None /\ published.type = backend
       /\ backend = "vxlan" => link = None \/ link.mac = published.mac

\* When the bootstrap is done the file is its own, and the overlay device lets
\* through what pods are told to send: its MTU is that of subnet.env, whichever
\* attempt or process set either (ensure_vxlan)
DeviceAgrees ==
  At("running") =>
    /\ env = [subnet |-> cidr, mtu |-> mtu]
    /\ backend = "vxlan" /\ link # None => link.mtu = env.mtu

\* ... and it has the address of the node's subnet: "Assign <podCIDR network
\* addr>/32 to flannel.1", "netlink/kube errors retry with backoff" (design document
\* of flannel-rs, data flow and error handling)
DeviceHasAddress ==
  At("running") /\ backend = "vxlan" /\ link # None => link.addr = cidr

\* No pod is wired from a file that flanneld was in the middle of writing, or with a
\* subnet that was never the node's (SubnetEnv::parse, resolve_delegate)
PodsInSubnet ==
  \A p \in Pods : wired[p] # None => wired[p].subnet \in given /\ wired[p].mtu \in PodMtus

\* vxlan over an underlay with too small an MTU cannot come up: set_mtu is refused
Usable ==
  conf \in Backends /\ (conf = "vxlan" => MtuFor("vxlan", underlay) >= MinMtu)

\* Once the faults end, a node with a usable configuration comes up, and stays up;
\* one with a bad one never gets past the reading of it (bootstrap, Fatal), and where
\* the underlay is too small it tries for ever and publishes and writes nothing
ComesUp ==
  /\ <>[]Usable => <>[]At("running")
  /\ <>[](conf = "bad") => <>[](pc \in {"read", "sleep", "exited", "running"})
  /\ <>[](~ Usable) => <>[](pc \notin {"publish", "truncate", "write"})

=============================================================================
