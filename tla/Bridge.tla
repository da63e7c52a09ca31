------------------------------- MODULE Bridge -------------------------------
(***************************************************************************)
(* The bridge plugin (crates/cni-bridge) wiring pods to the node's bridge: *)
(* ADD makes the bridge, takes an address from the IPAM plugin, makes a    *)
(* veth pair, moves one end into the pod's network namespace and attaches  *)
(* the other; on an error it undoes what it did.  DEL frees the address    *)
(* and deletes the pod's interface.                                        *)
(*                                                                         *)
(* The IPAM plugin is the pool of IpPool, which HostLocal implements.  One *)
(* step is one call on the kernel or one change of the pool.  A pod has at *)
(* most one process, so what a process is at is kept per pod.              *)
(***************************************************************************)
EXTENDS Integers

CONSTANTS
  Pods,                   \* container ids
  HostName, TempName,     \* per pod, host_veth_name and temp_cont_name: the names of
                          \* the two ends of its pair, the first letters of its id
  Addrs,                  \* the addresses of the IPAM plugin
  Unowned, NoAddr,
  Disturb,                \* what may go wrong, a subset of Disturbances
  MaxFaults               \* bound on how often it does

Disturbances ==
  {"op_fails",            \* a call on the kernel fails
   "ipam_fails",          \* the IPAM ADD fails, its lease written or not
   "undo_fails",          \* a best-effort call fails unnoticed
   "netns_goes",          \* the runtime removes a namespace at any moment
   "killed"}              \* a process dies between two calls

ASSUME NamesAssumption == DOMAIN HostName = Pods /\ DOMAIN TempName = Pods
ASSUME NullsAssumption == Unowned \notin Pods /\ NoAddr \notin Addrs /\ Unowned # NoAddr
ASSUME BoundsAssumption == Disturb \subseteq Disturbances /\ MaxFaults \in Nat

VARIABLES
  bridge,                 \* the bridge link: "absent", "down" or "up"
  gateway,                \* the bridge has the address pods take for their gateway
  owner,                  \* IPAM: who has an address
  netns,                  \* per pod, is CNI_NETNS there: "open" or "gone"
  veth,                   \* per pod, how far its veth pair has come: see Stages
  addr,                   \* the address on the pod's interface
  port,                   \* the pods whose host end is a port of the bridge
  pc, ip,                 \* per pod, its process and the address it was given
  \* history, not in the program
  ready,                  \* ADD succeeded and no DEL has begun since
  excused,                \* per pod, what a fault has spared from being undone
  faults                  \* how many disturbances so far

vars == <<bridge, gateway, owner, netns, veth, addr, port, pc, ip, ready, excused, faults>>
wires == <<veth, addr, port>>

\* no pair; both ends on the host; one moved; renamed to CNI_IFNAME
Stages == {"none", "host", "moved", "named"}

Wiring == {"veth", "open_ns", "move", "rename", "assign", "attach", "gateway"}
Undoing == {"unwire", "release"}
DelPcs == {"del_ipam", "del_iface"}
Pcs == {"idle", "bridge", "make_bridge", "raise_bridge", "ipam"}
         \cup Wiring \cup Undoing \cup DelPcs

TypeOK ==
  /\ bridge \in {"absent", "down", "up"} /\ gateway \in BOOLEAN
  /\ owner \in [Addrs -> Pods \cup {Unowned}]
  /\ netns \in [Pods -> {"open", "gone"}]
  /\ veth \in [Pods -> Stages]
  /\ addr \in [Pods -> Addrs \cup {NoAddr}]
  /\ port \subseteq Pods
  /\ pc \in [Pods -> Pcs] /\ ip \in [Pods -> Addrs \cup {NoAddr}]
  /\ \A c \in Pods : pc[c] \in Wiring => ip[c] # NoAddr
  /\ ready \subseteq Pods
  /\ excused \in [Pods -> SUBSET {"lease", "veth", "gateway"}]
  /\ faults \in 0 .. MaxFaults

Init ==
  /\ bridge = "absent" /\ gateway = FALSE
  /\ owner = [a \in Addrs |-> Unowned]
  /\ netns = [c \in Pods |-> "open"]
  /\ veth = [c \in Pods |-> "none"] /\ addr = [c \in Pods |-> NoAddr] /\ port = {}
  /\ pc = [c \in Pods |-> "idle"] /\ ip = [c \in Pods |-> NoAddr]
  /\ ready = {} /\ excused = [c \in Pods |-> {}]
  /\ faults = 0

Pool == INSTANCE IpPool WITH Containers <- Pods, Lost <- NoAddr

-----------------------------------------------------------------------------
Disturbed(kind) ==
  /\ kind \in Disturb
  /\ faults < MaxFaults
  /\ faults' = faults + 1

Excuse(c, what) == excused' = [excused EXCEPT ![c] = @ \cup what]

At(c, label) == pc[c] = label
GoTo(c, label) == pc' = [pc EXCEPT ![c] = label]

OwnedBy(c) == {a \in Addrs : owner[a] = c}

\* the pair goes, and with it the address and the port
Unplug(c) ==
  /\ veth' = [veth EXCEPT ![c] = "none"]
  /\ addr' = [addr EXCEPT ![c] = NoAddr]
  /\ port' = port \ {c}

\* an ADD that has opened the namespace keeps it when it is removed: a pair with
\* an end in it goes when the process ends
HoldsNetns(c) == pc[c] \in (Wiring \ {"veth", "open_ns"}) \cup Undoing

Exit(c) ==
  /\ GoTo(c, "idle")
  /\ ip' = [ip EXCEPT ![c] = NoAddr]
  /\ IF netns[c] = "gone" /\ veth[c] \in {"moved", "named"}
     THEN Unplug(c) ELSE UNCHANGED wires

-----------------------------------------------------------------------------
(* The container runtime *)

\* no ADD after a successful one without a DEL
Invoke(c, label) ==
  /\ At(c, "idle")
  /\ label = "bridge" => c \notin ready /\ netns[c] = "open"
  /\ GoTo(c, label)
  /\ ready' = ready \ {c}
  /\ UNCHANGED <<bridge, gateway, owner, netns, wires, ip, excused, faults>>

\* after a DEL the sandbox goes; short of that, at any moment
NetnsGoes(c) ==
  /\ netns[c] = "open"
  /\ \/ /\ At(c, "idle") /\ c \notin ready /\ OwnedBy(c) = {}
        /\ UNCHANGED faults
     \/ Disturbed("netns_goes")
  /\ netns' = [netns EXCEPT ![c] = "gone"]
  /\ IF ~ HoldsNetns(c) /\ veth[c] \in {"moved", "named"} THEN Unplug(c) ELSE UNCHANGED wires
  /\ UNCHANGED <<bridge, gateway, owner, pc, ip, ready, excused>>

\* a new sandbox has a new id: one that has left nothing behind stands for it
NewSandbox(c) ==
  /\ At(c, "idle") /\ netns[c] = "gone"
  /\ c \notin ready /\ veth[c] = "none" /\ OwnedBy(c) = {}
  /\ netns' = [netns EXCEPT ![c] = "open"]
  /\ excused' = [excused EXCEPT ![c] = {}]
  /\ UNCHANGED <<bridge, gateway, owner, wires, pc, ip, ready, faults>>

-----------------------------------------------------------------------------
(* ADD: the bridge and the address *)

\* ensure_bridge: link_index ...
LookBridge(c) ==
  /\ At(c, "bridge")
  /\ GoTo(c, IF bridge = "absent" THEN "make_bridge" ELSE "raise_bridge")
  /\ UNCHANGED <<bridge, gateway, owner, netns, wires, ip, ready, excused, faults>>

\* ... then add: another ADD may have made it since, and EEXIST is an error, as is
\* a failed lookup of the bridge just made
MakeBridge(c) ==
  /\ At(c, "make_bridge")
  /\ \/ /\ bridge = "absent"
        /\ bridge' = "down"
        /\ GoTo(c, "raise_bridge")
        /\ UNCHANGED <<ip, wires, faults>>
     \/ /\ bridge # "absent"
        /\ Exit(c)
        /\ UNCHANGED <<bridge, gateway, faults>>
     \/ /\ bridge = "absent" /\ Disturbed("op_fails")
        /\ bridge' \in {"absent", "down"}
        /\ Exit(c)
  /\ UNCHANGED <<gateway, owner, netns, ready, excused>>

\* ... and brings it up, whoever made it
RaiseBridge(c) ==
  /\ At(c, "raise_bridge")
  /\ \/ /\ bridge' = "up"
        /\ GoTo(c, "ipam")
        /\ UNCHANGED <<ip, wires, faults>>
     \/ /\ Disturbed("op_fails")
        /\ Exit(c)
        /\ UNCHANGED bridge
  /\ UNCHANGED <<gateway, owner, netns, ready, excused>>

\* (faulty variant: the exit status of the IPAM plugin is not looked at)
IpamAddUnchecked(c) ==
  /\ At(c, "ipam")
  /\ \/ \E a \in Addrs : Pool!Allocate(c, a) /\ ip' = [ip EXCEPT ![c] = a]
     \/ (\A a \in Addrs : owner[a] # Unowned) /\ UNCHANGED <<owner, ip>>
  /\ GoTo(c, "veth")
  /\ UNCHANGED <<bridge, gateway, netns, wires, ready, excused, faults>>

\* IPAM ADD: when it fails its error is relayed, and what it leased is left
IpamAdd(c) ==
  /\ At(c, "ipam")
  /\ \/ /\ \E a \in Addrs : Pool!Allocate(c, a) /\ ip' = [ip EXCEPT ![c] = a]
        /\ GoTo(c, "veth")
        /\ UNCHANGED <<wires, excused, faults>>
     \/ /\ \A a \in Addrs : owner[a] # Unowned
        /\ Exit(c)
        /\ UNCHANGED <<owner, excused, faults>>
     \/ /\ Disturbed("ipam_fails")
        /\ UNCHANGED owner \/ \E a \in Addrs : Pool!Allocate(c, a)
        /\ Exit(c)
        /\ Excuse(c, {"lease"})
  /\ UNCHANGED <<bridge, gateway, netns, ready>>

-----------------------------------------------------------------------------
(* ADD: wire_pod *)

\* names taken on the host: a host end keeps its name for life, the other end has
\* its own until it is moved
NamesInUse ==
  {HostName[d] : d \in {d \in Pods : veth[d] # "none"}}
    \cup {TempName[d] : d \in {d \in Pods : veth[d] = "host"}}

NamesFree(c) ==
  /\ HostName[c] # TempName[c]
  /\ {HostName[c], TempName[c]} \cap NamesInUse = {}

\* (faulty variant: a pair that has the name is replaced)
CreateVethOver(c) ==
  /\ At(c, "veth")
  /\ veth' = [d \in Pods |-> IF d = c THEN "host"
                             ELSE IF HostName[d] = HostName[c] THEN "none" ELSE veth[d]]
  /\ GoTo(c, "open_ns")
  /\ UNCHANGED <<bridge, gateway, owner, netns, addr, port, ip, ready, excused, faults>>

\* create_veth: an error, EEXIST or a failed lookup of an end, returns at once
CreateVeth(c) ==
  /\ At(c, "veth")
  /\ \/ /\ NamesFree(c)
        /\ veth' = [veth EXCEPT ![c] = "host"]
        /\ GoTo(c, "open_ns")
        /\ UNCHANGED <<excused, faults>>
     \/ /\ ~ NamesFree(c)
        /\ GoTo(c, "release")
        /\ UNCHANGED <<veth, excused, faults>>
     \/ /\ NamesFree(c) /\ Disturbed("op_fails")
        /\ \/ UNCHANGED <<veth, excused>>
           \/ veth' = [veth EXCEPT ![c] = "host"] /\ Excuse(c, {"veth"})
        /\ GoTo(c, "release")
  /\ UNCHANGED <<bridge, gateway, owner, netns, addr, port, ip, ready>>

\* open_netns: an error returns at once, the pair stays
OpenNetns(c) ==
  /\ At(c, "open_ns")
  /\ \/ /\ netns[c] = "open"
        /\ GoTo(c, "move")
        /\ UNCHANGED <<excused, faults>>
     \/ /\ IF netns[c] = "open" THEN Disturbed("op_fails") ELSE UNCHANGED faults
        /\ GoTo(c, "release")
        /\ Excuse(c, {"veth"})
  /\ UNCHANGED <<bridge, gateway, owner, netns, wires, ip, ready>>

\* a call of wire_pod that changes the pair: an error has the pair deleted
Wire(c, label, possible, effect, next) ==
  /\ At(c, label)
  /\ \/ /\ possible
        /\ effect
        /\ GoTo(c, next)
        /\ UNCHANGED faults
     \/ /\ IF possible THEN Disturbed("op_fails") ELSE UNCHANGED faults
        /\ GoTo(c, "unwire")
        /\ UNCHANGED wires
  /\ UNCHANGED <<bridge, gateway, owner, netns, ip, ready, excused>>

\* move_to_netns, by the descriptor
Move(c) ==
  Wire(c, "move", TRUE,
       veth' = [veth EXCEPT ![c] = "moved"] /\ UNCHANGED <<addr, port>>, "rename")

\* configure_container_iface opens the namespace by its path again and renames
Rename(c) ==
  Wire(c, "rename", netns[c] = "open",
       veth' = [veth EXCEPT ![c] = "named"] /\ UNCHANGED <<addr, port>>, "assign")

\* ... and brings the interface up with its address; errors of routes pass
Assign(c) ==
  Wire(c, "assign", TRUE,
       addr' = [addr EXCEPT ![c] = ip[c]] /\ UNCHANGED <<veth, port>>, "attach")

\* attach_host_veth
Attach(c) ==
  Wire(c, "attach", TRUE, port' = port \cup {c} /\ UNCHANGED <<veth, addr>>, "gateway")

\* set_bridge_gateway, whose errors are ignored, EEXIST among them, and the return
AddReturn(c) ==
  /\ At(c, "gateway")
  /\ \/ gateway' = TRUE /\ UNCHANGED <<excused, faults>>
     \/ Disturbed("undo_fails") /\ Excuse(c, {"gateway"}) /\ UNCHANGED gateway
  /\ ready' = ready \cup {c}
  /\ Exit(c)
  /\ UNCHANGED <<bridge, owner, netns>>

-----------------------------------------------------------------------------
(* ADD: undoing *)

\* (faulty variants: the pair is left; the address is freed while the pair is up)
UnwireNothing(c) ==
  /\ At(c, "unwire")
  /\ GoTo(c, "release")
  /\ UNCHANGED <<bridge, gateway, owner, netns, wires, ip, ready, excused, faults>>
UnwireLate(c) ==
  /\ At(c, "unwire")
  /\ \/ \E a \in OwnedBy(c) : Pool!Free(c, a) /\ UNCHANGED <<pc, wires>>
     \/ OwnedBy(c) = {} /\ Unplug(c) /\ GoTo(c, "release") /\ UNCHANGED owner
  /\ UNCHANGED <<bridge, gateway, netns, ip, ready, excused, faults>>

\* del_link, best effort
Unwire(c) ==
  /\ At(c, "unwire")
  /\ \/ Unplug(c) /\ UNCHANGED <<excused, faults>>
     \/ Disturbed("undo_fails") /\ Excuse(c, {"veth"}) /\ UNCHANGED wires
  /\ GoTo(c, "release")
  /\ UNCHANGED <<bridge, gateway, owner, netns, ip, ready>>

\* (faulty variant: an error of wire_pod does not free the address)
ReleaseNothing(c) ==
  /\ At(c, "release")
  /\ Exit(c)
  /\ UNCHANGED <<bridge, gateway, owner, netns, ready, excused, faults>>

\* ipam_del, best effort: every address of the container, one after the other
Release(c) ==
  /\ At(c, "release")
  /\ \/ /\ \E a \in OwnedBy(c) : Pool!Free(c, a)
        /\ UNCHANGED <<pc, ip, wires, excused, faults>>
     \/ /\ OwnedBy(c) = {}
        /\ Exit(c)
        /\ UNCHANGED <<owner, excused, faults>>
     \/ /\ Disturbed("undo_fails")
        /\ Exit(c)
        /\ Excuse(c, {"lease"})
        /\ UNCHANGED owner
  /\ UNCHANGED <<bridge, gateway, netns, ready>>

-----------------------------------------------------------------------------
(* DEL *)

\* IPAM DEL, best effort ...
DelIpam(c) ==
  /\ At(c, "del_ipam")
  /\ \/ /\ \E a \in OwnedBy(c) : Pool!Free(c, a)
        /\ UNCHANGED <<pc, excused, faults>>
     \/ /\ OwnedBy(c) = {}
        /\ GoTo(c, "del_iface")
        /\ UNCHANGED <<owner, excused, faults>>
     \/ /\ Disturbed("undo_fails")
        /\ GoTo(c, "del_iface")
        /\ Excuse(c, {"lease"})
        /\ UNCHANGED owner
  /\ UNCHANGED <<bridge, gateway, netns, wires, ip, ready>>

\* ... then delete_container_iface: whatever has the name CNI_IFNAME in the
\* namespace, if there is one
DelIface(c) ==
  /\ At(c, "del_iface")
  /\ \/ /\ IF netns[c] = "open" /\ veth[c] = "named" THEN Unplug(c) ELSE UNCHANGED wires
        /\ UNCHANGED <<excused, faults>>
     \/ /\ Disturbed("undo_fails")
        /\ Excuse(c, {"veth"})
        /\ UNCHANGED wires
  /\ GoTo(c, "idle")
  /\ UNCHANGED <<bridge, gateway, owner, netns, ip, ready>>

-----------------------------------------------------------------------------
Kill(c) ==
  /\ ~ At(c, "idle")
  /\ Disturbed("killed")
  /\ Exit(c)
  /\ Excuse(c, {"lease", "veth"})
  /\ UNCHANGED <<bridge, gateway, owner, netns, ready>>

Next ==
  \E c \in Pods :
    \/ \E label \in {"bridge", "del_ipam"} : Invoke(c, label)
    \/ NetnsGoes(c) \/ NewSandbox(c) \/ Kill(c)
    \/ LookBridge(c) \/ MakeBridge(c) \/ RaiseBridge(c) \/ IpamAdd(c)
    \/ CreateVeth(c) \/ OpenNetns(c) \/ Move(c) \/ Rename(c) \/ Assign(c) \/ Attach(c)
    \/ AddReturn(c) \/ Unwire(c) \/ Release(c)
    \/ DelIpam(c) \/ DelIface(c)

Spec == Init /\ [][Next]_vars

-----------------------------------------------------------------------------
(* What the plugin promises *)

\* Between a successful ADD and its DEL the pod's interface is up on the bridge
\* with an address that the pool has for this pod, whatever the ADDs and DELs
\* of other pods do and undo meanwhile, one whose pair would have the same name
\* included; and the bridge has its address, short of a failure of this very
\* ADD (cmd_add, wire_pod, host_veth_name, set_bridge_gateway)
ReadyIsWired ==
  \A c \in ready : netns[c] = "open" =>
    /\ bridge = "up" /\ veth[c] = "named" /\ c \in port
    /\ addr[c] # NoAddr /\ owner[addr[c]] = c
    /\ gateway \/ "gateway" \in excused[c]

\* "Everything after a successful IPAM ADD must release the allocation on
\* failure, or retries leak IPs": an address without a pod is left only where
\* a process died or the IPAM plugin failed (cmd_add, cmd_del)
LeaseOnlyWhileInUse ==
  \A c \in Pods :
    OwnedBy(c) # {} => c \in ready \/ ~ At(c, "idle") \/ "lease" \in excused[c]

\* A pair is left on the host only where a process died, a best-effort call
\* failed, or wire_pod returned between create_veth and open_netns
VethOnlyWhileInUse ==
  \A c \in Pods :
    veth[c] # "none" => c \in ready \/ ~ At(c, "idle") \/ "veth" \in excused[c]

\* An interface never has an address that the pool may give to another pod,
\* except during its own DEL: a failed ADD deletes the pair before it frees the
\* address, a DEL does it the other way round (wire_pod, cmd_add, cmd_del)
FreedAddressIsDown ==
  \A c \in Pods :
    addr[c] # NoAddr /\ owner[addr[c]] # c => pc[c] \in DelPcs \/ "veth" \in excused[c]

\* "On ADD failure after veth creation, tear down the created veth so a retry is
\* not blocked by a leftover interface" (bridge-plugin-design.md, create_veth)
RetryNotBlocked == \A c \in Pods : At(c, "veth") => veth[c] = "none"

=============================================================================
