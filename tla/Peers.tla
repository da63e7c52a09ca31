------------------------------- MODULE Peers -------------------------------
(***************************************************************************)
(* The peer reconciler of one flanneld (crates/flanneld: main.rs, peer.rs, *)
(* kube_mgr.rs, netlink.rs): Node objects change at the API server, a      *)
(* watch copies them into a local store, and each watch event or resync    *)
(* tick reconciles the routes, neighbours and fdb entries of this host     *)
(* with the store by way of the map `installed' of peers believed to be    *)
(* programmed.                                                             *)
(*                                                                         *)
(* One step is one watch event, one tick or one Add or Remove of a peer.   *)
(* The select loop runs one reconcile to its end before it polls the watch *)
(* again, so the store does not move under a reconcile; the API server     *)
(* does.                                                                   *)
(***************************************************************************)
EXTENDS Integers, Sequences

CONSTANTS
  Nodes,                  \* the other nodes of the cluster
  LeasesOf,               \* per node, the leases it may come to publish
  Gone,                   \* no Node object, or one that is not registered yet
  None,                   \* no VtepMAC; no entry in a kernel table
  Bad,                    \* an annotation that is no MAC, or no address
  NoNode,
  MaxChanges,             \* bound on the changes of Node objects
  Disturb,                \* what may go wrong, a subset of Disturbances
  MaxFaults               \* bound on how often it does

Disturbances ==
  {"add_fails",           \* the kernel refuses every operation of an Add
   "op_fails",            \* it refuses some of them
   "del_fails",           \* a Remove fails at its route dump
   "reboot",              \* flanneld restarts and the kernel tables are empty
   "crash",               \* flanneld restarts, the kernel tables survive
   "relist",              \* the watch is lost and lists again, quietly
   "desync"}              \* ... while leases change hands

Leases == UNION {LeasesOf[n] : n \in Nodes}
Cidrs == {l.cidr : l \in Leases}
Ips == {l.ip : l \in Leases} \ {Bad}
Macs == {l.mac : l \in Leases} \ {None, Bad}

Peer == [cidr : Cidrs, ip : Ips \cup {Bad}, mac : Macs \cup {None, Bad}]

\* the gateway of a vxlan route is the VTEP address of the CIDR itself
Gateways == Ips \cup {"vtep"}

ASSUME LeasesAssumption ==
  /\ \A n \in Nodes : LeasesOf[n] \subseteq Peer
  /\ Gone \notin Peer /\ None \notin Gateways \cup {Bad} /\ NoNode \notin Nodes
ASSUME BoundsAssumption ==
  MaxChanges \in Nat /\ MaxFaults \in Nat /\ Disturb \subseteq Disturbances

VARIABLES
  backend,                \* BackendType, read at each start
  \* API server
  api, changes,           \* the Node objects; how many changes so far
  \* watch and reflector store
  listed, pending, store, \* a list succeeded; events not delivered; the copy
  \* reconciler: see Begin
  installed, stale, again, fresh,
  \* kernel
  route, neigh, fdb,      \* pod CIDR -> gateway, VTEP -> MAC, MAC -> node IP
  \* history
  half,                   \* routes left in place by an Add that failed after them
  faults                  \* how many disturbances so far

apiVars == <<api, changes>>
watchVars == <<listed, pending, store>>
workVars == <<installed, stale, again, fresh>>
kernel == <<route, neigh, fdb>>
vars == <<backend, apiVars, watchVars, workVars, kernel, half, faults>>

Backends == {"vxlan", "host-gw"}

TypeOK ==
  /\ backend \in Backends
  /\ api \in [Nodes -> Leases \cup {Gone}] /\ changes \in 0 .. MaxChanges
  /\ listed \in BOOLEAN /\ store \in [Nodes -> Leases \cup {Gone}]
  /\ pending \in Seq(Nodes \X (Leases \cup {Gone}))
  /\ installed \in [Nodes -> Peer \cup {Gone}]
  /\ stale \subseteq Nodes /\ fresh \subseteq Nodes /\ again \in Nodes \cup {NoNode}
  /\ route \in [Cidrs -> Gateways \cup {None}]
  /\ neigh \in [Cidrs -> Macs \cup {None}]
  /\ fdb \in [Macs -> Ips \cup {None}]
  /\ half \subseteq Cidrs /\ faults \in 0 .. MaxFaults

Idle == stale = {} /\ fresh = {} /\ again = NoNode

Init ==
  /\ backend \in Backends
  /\ api = [n \in Nodes |-> Gone] /\ changes = 0
  /\ listed = FALSE /\ pending = <<>> /\ store = [n \in Nodes |-> Gone]
  /\ installed = [n \in Nodes |-> Gone]
  /\ stale = {} /\ again = NoNode /\ fresh = {}
  /\ route = [c \in Cidrs |-> None] /\ neigh = [c \in Cidrs |-> None]
  /\ fdb = [m \in Macs |-> None]
  /\ half = {} /\ faults = 0

Disturbed(kind) ==
  /\ kind \in Disturb
  /\ faults < MaxFaults
  /\ faults' = faults + 1

-----------------------------------------------------------------------------
(* API server *)

\* leases in use at once differ in CIDR, and in address and MAC if they have them
Unused(n, l) ==
  \A m \in Nodes \ {n} :
    api[m] # Gone => /\ api[m].cidr # l.cidr
                     /\ l.ip \in Ips => api[m].ip # l.ip
                     /\ l.mac \in Macs => api[m].mac # l.mac

\* while the watch is down no lease passes to another node, short of "desync"
Quiet(n, l) ==
  ~ listed /\ "desync" \notin Disturb =>
    \A m \in Nodes \ {n} :
      store[m] # Gone => /\ store[m].cidr # l.cidr
                         /\ l.mac \in Macs => store[m].mac # l.mac

Change(n, l) ==
  /\ changes < MaxChanges
  /\ l # api[n]
  /\ api' = [api EXCEPT ![n] = l]
  /\ changes' = changes + 1
  /\ pending' = IF listed THEN Append(pending, <<n, l>>) ELSE pending
  /\ UNCHANGED <<backend, listed, store, workVars, kernel, half, faults>>

\* a flanneld publishes its lease; spec.podCIDR does not change once it is set
Publish(n) ==
  \E l \in LeasesOf[n] :
    /\ api[n] # Gone => api[n].cidr = l.cidr
    /\ Unused(n, l) /\ Quiet(n, l)
    /\ Change(n, l)

DeleteNode(n) == Change(n, Gone)

-----------------------------------------------------------------------------
(* Reconcile: peer.rs and reconcile_from_store *)

\* node_to_peer: what this backend makes of a Node object
AsPeer(l) ==
  IF l = Gone \/ (backend = "vxlan" /\ l.mac = None) THEN Gone
  ELSE IF backend = "vxlan" THEN l ELSE [l EXCEPT !.mac = None]

\* desired_from_nodes: the reconciler's node is not one of Nodes
Desired(objects) == [n \in Nodes |-> AsPeer(objects[n])]

\* reconcile: installed peers that are missing or changed (Remove, then Add if
\* it is desired), in the order of a HashMap, then peers that are not installed
Begin(objects) ==
  LET desired == Desired(objects)
  IN  /\ stale' = {n \in Nodes : installed[n] \notin {Gone, desired[n]}}
      /\ fresh' = {n \in Nodes : installed[n] = Gone /\ desired[n] # Gone}
      /\ UNCHANGED <<installed, again>>

\* the annotations are taken as they are: it is the Add that parses them
Parses(p) == p.ip # Bad /\ p.mac # Bad

\* an entry is added unless there is one with that key: EEXIST is no error
AddEntry(table, key, value) ==
  IF table[key] = None THEN [table EXCEPT ![key] = value] ELSE table

\* add_route: by way of the peer's VTEP address, onlink
AddRoute(p, refused) ==
  route' = IF "route" \in refused THEN route ELSE AddEntry(route, p.cidr, "vtep")

\* add_peer_l2: an annotation that does not parse is an error; of what the kernel
\* says to either operation nothing is reported
AddPeerL2(p, refused) ==
  /\ neigh' = IF Parses(p) /\ "neigh" \notin refused
              THEN AddEntry(neigh, p.cidr, p.mac) ELSE neigh
  /\ fdb' = IF Parses(p) /\ "fdb" \notin refused
            THEN AddEntry(fdb, p.mac, p.ip) ELSE fdb

\* (faulty variant: by way of the pod network, like a vxlan route)
AddHostGwRouteViaNetwork(p, refused) ==
  /\ route' = IF "route" \in refused THEN route ELSE AddEntry(route, p.cidr, p.cidr)
  /\ UNCHANGED <<neigh, fdb>>

\* add_host_gw_route: by way of the peer node's own address
AddHostGwRoute(p, refused) ==
  /\ route' = IF Parses(p) /\ "route" \notin refused
              THEN AddEntry(route, p.cidr, p.ip) ELSE route
  /\ UNCHANGED <<neigh, fdb>>

\* (faulty variant: a route is matched by its prefix length)
DelPeerByLength(old) ==
  /\ route' = [c \in Cidrs |-> None]
  /\ neigh' = [neigh EXCEPT ![old.cidr] = None]
  /\ fdb' = [fdb EXCEPT ![old.mac] = None]

\* del_peer: the entries under the old peer's keys, whatever they hold
DelPeer(old) ==
  /\ route' = [route EXCEPT ![old.cidr] = None]
  /\ neigh' = [neigh EXCEPT ![old.cidr] = None]
  /\ fdb' = [fdb EXCEPT ![old.mac] = None]

\* del_host_gw_route: the route to the prefix, whatever its gateway
DelHostGwRoute(old) ==
  /\ route' = [route EXCEPT ![old.cidr] = None]
  /\ UNCHANGED <<neigh, fdb>>

\* the Remove arm: what the netlink call returns is only logged
Remove(n) ==
  LET old == installed[n]
  IN  /\ n \in stale /\ again = NoNode
      /\ \/ /\ IF backend = "vxlan" THEN DelPeer(old) ELSE DelHostGwRoute(old)
            /\ half' = half \ {old.cidr}
            /\ UNCHANGED faults
         \/ /\ Disturbed("del_fails")
            /\ UNCHANGED <<kernel, half>>
      /\ installed' = [installed EXCEPT ![n] = Gone]
      /\ stale' = stale \ {n}
      /\ again' = IF Desired(store)[n] = Gone THEN NoNode ELSE n
      /\ UNCHANGED <<backend, apiVars, watchVars, fresh>>

Operations == IF backend = "vxlan" THEN {"route", "neigh", "fdb"} ELSE {"route"}

\* which operations of an Add the kernel refuses
Refused ==
  {{}} \cup (IF "add_fails" \in Disturb THEN {Operations} ELSE {})
       \cup (IF "op_fails" \in Disturb THEN SUBSET Operations ELSE {})

Program(p, refused) ==
  IF backend = "vxlan"
  THEN AddRoute(p, refused) /\ AddPeerL2(p, refused)
  ELSE AddHostGwRoute(p, refused)

\* (faulty variants: the peer is recorded whatever the kernel said; whatever
\* add_peer_l2 returned)
AlwaysSucceeds(p, refused) == TRUE
RouteSucceeds(p, refused) == "route" \notin refused

\* r1.is_ok() && r2.is_ok(), or what add_host_gw_route returned
Succeeds(p, refused) == "route" \notin refused /\ Parses(p)

\* the Add arm: the peer is recorded if no error was reported; a vxlan route that
\* was made before add_peer_l2 failed stays behind
Add(n) ==
  LET new == Desired(store)[n]
  IN  /\ n = again \/ (again = NoNode /\ stale = {} /\ n \in fresh)
      /\ \E refused \in Refused :
           /\ refused # {} => faults < MaxFaults
           /\ faults' = IF refused = {} THEN faults ELSE faults + 1
           /\ Program(new, refused)
           /\ installed' = [installed EXCEPT ![n] = IF Succeeds(new, refused) THEN new ELSE Gone]
           /\ half' = IF Succeeds(new, refused) THEN half \ {new.cidr}
                      ELSE IF backend = "vxlan" /\ "route" \notin refused
                           THEN half \cup {new.cidr} ELSE half
      /\ again' = NoNode
      /\ fresh' = fresh \ {n}
      /\ UNCHANGED <<backend, apiVars, watchVars, stale>>

-----------------------------------------------------------------------------
(* The select loop of main.rs, its watch and its restarts *)

\* the next event of the watch: the store follows, then a reconcile
Watch ==
  /\ Idle /\ listed /\ pending # <<>>
  /\ store' = [store EXCEPT ![Head(pending)[1]] = Head(pending)[2]]
  /\ pending' = Tail(pending)
  /\ Begin(store')
  /\ UNCHANGED <<backend, apiVars, listed, kernel, half, faults>>

\* the watcher lists: the reflector replaces its store in one go
List ==
  /\ Idle /\ ~ listed
  /\ listed' = TRUE
  /\ store' = api
  /\ Begin(store')
  /\ UNCHANGED <<backend, apiVars, pending, kernel, half, faults>>

\* peer_resync: reconcile from the store as it is
Resync ==
  /\ Idle
  /\ Begin(store)
  /\ UNCHANGED <<backend, apiVars, watchVars, kernel, half, faults>>

\* a watch error: events not delivered are lost, the store stays until a list
WatchLost ==
  /\ listed
  /\ Disturbed("desync") \/ (pending = <<>> /\ Disturbed("relist"))
  /\ listed' = FALSE
  /\ pending' = <<>>
  /\ UNCHANGED <<backend, apiVars, store, workVars, kernel, half>>

\* flanneld begins again with nothing installed, whatever the kernel holds, and
\* reads the backend anew: net-conf.json may name another one by now
Restart ==
  /\ \/ /\ Disturbed("reboot")
        /\ route' = [c \in Cidrs |-> None] /\ neigh' = [c \in Cidrs |-> None]
        /\ fdb' = [m \in Macs |-> None] /\ half' = {}
     \/ /\ Disturbed("crash")
        /\ UNCHANGED <<kernel, half>>
  /\ installed' = [n \in Nodes |-> Gone]
  /\ stale' = {} /\ again' = NoNode /\ fresh' = {}
  /\ listed' = FALSE /\ pending' = <<>> /\ store' = [n \in Nodes |-> Gone]
  /\ backend' \in Backends
  /\ UNCHANGED apiVars

Next ==
  \/ \E n \in Nodes : Publish(n) \/ DeleteNode(n) \/ Remove(n) \/ Add(n)
  \/ Watch \/ List \/ Resync \/ WatchLost \/ Restart

Spec == Init /\ [][Next]_vars

\* the loop runs on: a reconcile finishes and the resync timer goes on ticking; a
\* lost watch lists again and its events arrive, and select! takes a ready branch at
\* random, so ticks, with an Add to retry at each, do not pass them over for ever
Fairness ==
  /\ \A n \in Nodes : WF_vars(Remove(n)) /\ WF_vars(Add(n))
  /\ SF_vars(List) /\ SF_vars(Watch) /\ WF_vars(Resync)

FairSpec == Spec /\ Fairness

-----------------------------------------------------------------------------
(* What the reconciler promises *)

\* The entries that this backend needs for a peer.
Programmed(p) ==
  IF backend = "vxlan"
  THEN route[p.cidr] = "vtep" /\ neigh[p.cidr] = p.mac /\ fdb[p.mac] = p.ip
  ELSE route[p.cidr] = p.ip

\* The kernel has the entries that a set of peers calls for, and no others but the
\* routes that an Add left half-made.
Mirrors(peers) ==
  LET here == {n \in Nodes : peers[n] # Gone}
      l2   == {n \in here : backend = "vxlan"}
  IN  /\ \A n \in here : Programmed(peers[n])
      /\ \A c \in Cidrs :
           /\ route[c] = None <=> c \notin half /\ \A n \in here : peers[n].cidr # c
           /\ neigh[c] = None <=> \A n \in l2 : peers[n].cidr # c
      /\ \A m \in Macs : fdb[m] = None <=> \A n \in l2 : peers[n].mac # m
      /\ \A c \in half : route[c] = "vtep"

\* `installed' is the truth about the kernel, in the middle of a reconcile too:
\* no peer in it lacks an entry, none has an entry of an older lease, and what is
\* in the kernel without a peer is a route, of an Add whose add_peer_l2 failed on
\* an annotation that does not parse, after add_route (reconcile_from_store)
KernelMirrorsInstalled == Mirrors(installed)

\* A reconcile does not touch the entries of a peer that did not change,
\* whoever else comes, goes or moves (reconcile, del_peer, del_host_gw_route)
NoCollateral ==
  [][\A n \in Nodes :
       /\ installed[n] # Gone /\ installed'[n] = installed[n]
       /\ Programmed(installed[n])
       => Programmed(installed[n])']_vars

\* A peer is recorded as installed only if its Add succeeded: "A failed add is
\* left out of `installed` so it is retried" (main.rs, reconcile_from_store)
FailedAddNotInstalled ==
  \A n \in Nodes : installed[n] # Gone => Programmed(installed[n])

\* What a set of Node objects calls for, short of those that cannot be programmed.
Programmable(objects) ==
  [n \in Nodes |-> LET p == AsPeer(objects[n])
                   IN  IF p # Gone /\ Parses(p) THEN p ELSE Gone]

\* Once the cluster and the faults settle, this host's tables come to be, and stay,
\* those of the Node objects that can be programmed (the loop of main.rs). They may
\* keep, for ever, the route of a node with a malformed annotation, its node gone
\* or not: it was never in `installed', so no Remove is issued for it
Converges == <>[]Mirrors(Programmable(api))

=============================================================================
