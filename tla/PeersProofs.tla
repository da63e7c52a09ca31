---------------------------- MODULE PeersProofs ----------------------------
(***************************************************************************)
(* Theorems about Peers, for any nodes, leases, changes and faults.        *)
(***************************************************************************)
EXTENDS Peers, SequenceTheorems, TLAPS

-----------------------------------------------------------------------------
(* The inductive invariants *)

\* What the store may hold of the Node objects.
Objects == [Nodes -> Leases \cup {Gone}]

\* Two leases, or peers, with no entry of the kernel in common, ...
Apart(k, l) ==
  k # Gone /\ l # Gone => k.cidr # l.cidr /\ (k.mac \in Macs => k.mac # l.mac)

\* ... and what one node has in f against what every other has in g.
AllApart(f, g) == \A n, m \in Nodes : n # m => Apart(f[n], g[m])

\* What a reconcile has still to do is what is missing, and only a peer that it
\* it has still to remove is another than the store asks for. What is installed has
\* been parsed.
WorkInv ==
  /\ \A n \in Nodes : n \notin stale => installed[n] \in {Gone, AsPeer(store[n])}
  /\ \A n \in stale : installed[n] # Gone
  /\ \A n \in Nodes : n \in fresh \/ n = again => installed[n] = Gone /\ AsPeer(store[n]) # Gone
  /\ \A n \in Nodes :
       installed[n] # Gone => /\ installed[n].mac = None <=> backend = "host-gw"
                              /\ Parses(installed[n])

\* The events not delivered lead from the store to the Node objects, by states
\* that the API server has been in.
Replays(h) ==
  /\ h[0] = store /\ h[Len(pending)] = api
  /\ \A k \in 0 .. Len(pending) : AllApart(h[k], h[k])
  /\ \A k \in 1 .. Len(pending) :
       h[k] = [h[k-1] EXCEPT ![pending[k][1]] = pending[k][2]]

\* With no watch, what the store holds of a node is no other node's by now.
WatchInv ==
  IF listed THEN \E h \in [0 .. Len(pending) -> Objects] : Replays(h)
            ELSE pending = <<>> /\ AllApart(api, store)

\* No two nodes have a lease in common: at the API server, in the store, in
\* `installed', nor a node in the store with another in `installed', so that an
\* Add never meets an entry of a peer that a reconcile has still to remove.
ApartInv ==
  /\ AllApart(api, api) /\ AllApart(store, store)
  /\ AllApart(Desired(store), installed) /\ AllApart(installed, installed)

TypeInv == TypeOK /\ WorkInv
LeaseInv == TypeInv /\ WatchInv /\ ApartInv

-----------------------------------------------------------------------------
(* The operators *)

\* A lease is a record, and not Gone.
LEMMA LeaseType == Leases \subseteq Peer /\ Gone \notin Leases
  BY LeasesAssumption DEF Leases

\* What a backend makes of a Node object (node_to_peer).
LEMMA AsPeerType ==
  ASSUME NEW l \in Leases \cup {Gone}, backend \in Backends
  PROVE  /\ AsPeer(l) \in Peer \cup {Gone}
         /\ AsPeer(l) # Gone => /\ l # Gone /\ AsPeer(l).cidr = l.cidr
                                /\ AsPeer(l).mac \in {l.mac, None}
                                /\ AsPeer(l).mac = None <=> backend = "host-gw"
  <1>1. CASE l = Gone
    BY <1>1 DEF AsPeer
  <1>2. CASE l # Gone
    <2>1. l \in Peer
      BY <1>2, LeaseType
    <2>2. [l EXCEPT !.mac = None] \in Peer
      BY <2>1 DEF Peer
    <2>3. [l EXCEPT !.mac = None] # Gone
      BY <2>2, LeasesAssumption
    <2>4. QED
      BY <1>2, <2>1, <2>2, <2>3 DEF AsPeer, Backends, Peer
  <1>3. QED
    BY <1>1, <1>2

\* ... has no more in common than the objects.
LEMMA AsPeerApart ==
  ASSUME NEW k \in Leases \cup {Gone}, NEW l \in Leases \cup {Gone},
         backend \in Backends, Apart(k, l)
  PROVE  Apart(AsPeer(k), AsPeer(l))
  BY AsPeerType DEF Apart, Macs

\* Apart either way round.
LEMMA ApartSym ==
  ASSUME NEW k, NEW l, Apart(k, l)
  PROVE  Apart(l, k)
  BY DEF Apart

-----------------------------------------------------------------------------
(* Types, and what a reconcile has still to do *)

\* The bound on faults is kept by its guard.
LEMMA DisturbedCounts ==
  ASSUME NEW kind, Disturbed(kind), faults \in 0 .. MaxFaults
  PROVE  faults' \in 0 .. MaxFaults
  BY BoundsAssumption DEF Disturbed

\* A reconcile starts from peers of the old store, whatever the new one holds.
LEMMA BeginWork ==
  ASSUME TypeInv, backend' = backend, store' \in Objects, Idle, Begin(store')
  PROVE  WorkInv'
  <1>1. \A n \in Nodes : Desired(store')[n] = AsPeer(store[n])'
    BY DEF Desired, AsPeer
  <1>2. NoNode \notin Nodes /\ again' = NoNode
    BY LeasesAssumption DEF Begin, Idle
  <1>3. QED
    BY <1>1, <1>2 DEF Begin, WorkInv, TypeInv, Idle

\* What Program does to the types of the tables.
LEMMA ProgramTypes ==
  ASSUME TypeOK, NEW p \in Peer, NEW refused, Program(p, refused),
         p.mac = None <=> backend = "host-gw"
  PROVE  /\ route' \in [Cidrs -> Gateways \cup {None}]
         /\ neigh' \in [Cidrs -> Macs \cup {None}]
         /\ fdb' \in [Macs -> Ips \cup {None}]
  BY DEF Program, AddRoute, AddPeerL2, AddHostGwRoute, AddEntry, TypeOK, Peer, Gateways,
         Backends, Parses

\* Every step keeps the types, and what a reconcile may rely on.
LEMMA TypeStep ==
  ASSUME TypeInv, [Next]_vars
  PROVE  TypeInv'
  <1> USE DEF TypeInv, TypeOK
  <1>w. ASSUME UNCHANGED <<backend, store, workVars>>
        PROVE  WorkInv'
    BY <1>w DEF WorkInv, workVars, AsPeer, Parses
  <1>1. ASSUME NEW n \in Nodes, NEW l \in Leases \cup {Gone}, Change(n, l)
        PROVE  TypeInv'
    <2>1. api' \in Objects /\ changes' \in 0 .. MaxChanges
      BY <1>1, BoundsAssumption DEF Change, Objects
    <2>2. pending' \in Seq(Nodes \X (Leases \cup {Gone}))
      BY <1>1 DEF Change
    <2>3. QED
      BY <1>1, <1>w, <2>1, <2>2 DEF Change, workVars, kernel, Objects
  <1>2. CASE \E n \in Nodes : Publish(n) \/ DeleteNode(n)
    BY <1>1, <1>2 DEF Publish, DeleteNode, Leases
  <1>3. ASSUME NEW n \in Nodes, Remove(n)
        PROVE  TypeInv'
    <2>1. AsPeer(store[n])' = AsPeer(store[n]) /\ Desired(store)[n] = AsPeer(store[n])
      BY <1>3 DEF Remove, AsPeer, watchVars, Desired
    <2>2. WorkInv'
      BY <1>3, <2>1, LeasesAssumption DEF Remove, WorkInv, AsPeer, watchVars, Desired
    <2>3. TypeOK'
      BY <1>3, DisturbedCounts
         DEF Remove, DelPeer, DelHostGwRoute, apiVars, watchVars, kernel, Peer, Gateways
    <2>4. QED
      BY <2>2, <2>3
  <1>4. ASSUME NEW n \in Nodes, Add(n)
        PROVE  TypeInv'
    <2>0. DEFINE p == AsPeer(store[n])
    <2>1. p \in Peer /\ Desired(store)[n] = p /\ installed[n] = Gone
      BY <1>4, AsPeerType DEF Add, Desired, WorkInv
    <2>2. p.mac = None <=> backend = "host-gw"
      BY <1>4, AsPeerType, <2>1, LeasesAssumption
    <2>3. PICK q, refused : /\ Program(p, refused) /\ q \in {Gone, p}
                            /\ q # Gone => Parses(q)
                            /\ installed' = [installed EXCEPT ![n] = q]
      <3>1. PICK refused \in Refused :
              /\ Program(p, refused)
              /\ installed' = [installed EXCEPT ![n] = IF Succeeds(p, refused) THEN p ELSE Gone]
        BY <1>4, <2>1, Zenon DEF Add
      <3>2. PICK q : q = IF Succeeds(p, refused) THEN p ELSE Gone
        OBVIOUS
      <3>3. QED
        BY <3>1, <3>2 DEF Succeeds
    <2>4. half' \subseteq Cidrs /\ faults' \in 0 .. MaxFaults
      BY <1>4, <2>1, BoundsAssumption DEF Add, Peer
    <2>5. TypeOK'
      BY <1>4, <2>1, <2>2, <2>3, <2>4, ProgramTypes DEF Add, apiVars, watchVars
    <2>6. /\ \A m \in Nodes : installed'[m] = IF m = n THEN q ELSE installed[m]
          /\ \A m \in Nodes : AsPeer(store[m])' = AsPeer(store[m])
          /\ backend' = backend /\ stale' = stale /\ fresh' = fresh \ {n} /\ again' = NoNode
      BY <1>4, <2>3 DEF Add, AsPeer, watchVars
    <2>7. n \notin stale /\ NoNode \notin Nodes
      BY <2>1, LeasesAssumption DEF WorkInv
    <2>8. WorkInv'
      BY <2>1, <2>2, <2>3, <2>6, <2>7 DEF WorkInv, Parses
    <2>9. QED
      BY <2>5, <2>8
  <1>5. CASE Watch
    <2>1. Head(pending) \in Nodes \X (Leases \cup {Gone})
      BY <1>5 DEF Watch
    <2>2. store' \in Objects /\ pending' \in Seq(Nodes \X (Leases \cup {Gone}))
      BY <1>5, <2>1 DEF Watch, Objects
    <2>3. WorkInv'
      BY <1>5, <2>2, BeginWork DEF Watch
    <2>4. QED
      BY <1>5, <2>2, <2>3 DEF Watch, Begin, apiVars, kernel, Objects
  <1>6. CASE List
    <2>1. WorkInv'
      BY <1>6, BeginWork DEF List, Objects, Idle
    <2>2. store' \in Objects /\ listed' \in BOOLEAN
      BY <1>6, Zenon DEF List, Objects
    <2>3. QED
      BY <1>6, <2>1, <2>2 DEF List, Begin, apiVars, kernel, Objects
  <1>7. CASE Resync
    <2>1. store' = store /\ Begin(store')
      BY <1>7 DEF Resync, watchVars
    <2>2. WorkInv'
      BY <1>7, <2>1, BeginWork DEF Resync, Objects
    <2>3. QED
      BY <1>7, <2>2 DEF Resync, Begin, apiVars, watchVars, kernel
  <1>8. CASE WatchLost
    <2>1. listed' = FALSE /\ listed' \in BOOLEAN
      BY <1>8, Zenon DEF WatchLost
    <2>2. QED
      BY <1>8, <1>w, <2>1, DisturbedCounts DEF WatchLost, apiVars, workVars, kernel
  <1>9. CASE Restart
    <2>1. WorkInv'
      BY <1>9, LeasesAssumption DEF Restart, WorkInv
    <2>2. listed' \in BOOLEAN
      BY <1>9, Zenon DEF Restart
    <2>3. QED
      BY <1>9, <2>1, <2>2, DisturbedCounts DEF Restart, apiVars, kernel
  <1>10. CASE UNCHANGED vars
    BY <1>10, <1>w DEF vars, apiVars, watchVars, workVars, kernel
  <1>11. QED
    BY <1>2, <1>3, <1>4, <1>5, <1>6, <1>7, <1>8, <1>9, <1>10 DEF Next

-----------------------------------------------------------------------------
(* No lease in two hands, while no lease changes hands unseen *)

Orderly == "desync" \notin Disturb

\* A lease that no other node uses is apart from all, and so is no lease.
LEMMA ChangeApart ==
  ASSUME NEW f \in Objects, NEW n \in Nodes, NEW l \in Leases \cup {Gone}, AllApart(f, f),
         \A m \in Nodes : m # n => Apart(l, f[m])
  PROVE  AllApart([f EXCEPT ![n] = l], [f EXCEPT ![n] = l])
  BY ApartSym DEF AllApart, Objects

\* One more change is one more step of the replay.
LEMMA ReplayMore ==
  ASSUME TypeOK, listed, WatchInv, NEW n \in Nodes, NEW l \in Leases \cup {Gone},
         Change(n, l), AllApart(api', api')
  PROVE  \E h \in [0 .. Len(pending') -> Objects] : Replays(h)'
  <1>0. pending \in Seq(Nodes \X (Leases \cup {Gone})) /\ Len(pending) \in Nat
    BY DEF TypeOK
  <1>1. PICK h \in [0 .. Len(pending) -> Objects] : Replays(h)
    BY DEF WatchInv
  <1>2. PICK last \in Nat : last = Len(pending) + 1
    BY DEF TypeOK
  <1>3. /\ Len(pending') = last /\ pending'[last][1] = n /\ pending'[last][2] = l
        /\ \A k \in 1 .. Len(pending) : pending'[k] = pending[k]
    BY <1>2 DEF Change, TypeOK
  <1>4. api' = [api EXCEPT ![n] = l] /\ store' = store /\ api' \in Objects
    BY DEF Change, TypeOK, Objects
  <1>5. PICK g \in [0 .. last -> Objects] :
          \A k \in 0 .. last : g[k] = IF k = last THEN api' ELSE h[k]
    <2>1. DEFINE f == [k \in 0 .. last |-> IF k = last THEN api' ELSE h[k]]
    <2>2. f \in [0 .. last -> Objects]
      BY <1>1, <1>2, <1>4
    <2>3. QED
      BY <2>2
  <1>6. g[0] = store' /\ g[last] = api'
    <2>1. g[0] = h[0] /\ g[last] = api'
      BY <1>0, <1>2, <1>5
    <2>2. QED
      BY <1>1, <1>4, <2>1 DEF Replays
  <1>7. ASSUME NEW k \in 0 .. last
        PROVE  AllApart(g[k], g[k])
    <2>1. CASE k = last
      BY <2>1, <1>5
    <2>2. CASE k # last
      <3>1. k \in 0 .. Len(pending) /\ g[k] = h[k]
        BY <2>2, <1>0, <1>2, <1>5
      <3>2. QED
        BY <3>1, <1>1 DEF Replays
    <2>3. QED
      BY <2>1, <2>2
  <1>8. ASSUME NEW k \in 1 .. last
        PROVE  g[k] = [g[k-1] EXCEPT ![pending'[k][1]] = pending'[k][2]]
    <2>1. CASE k = last
      <3>1. g[k] = api' /\ g[k-1] = h[Len(pending)]
        BY <2>1, <1>0, <1>2, <1>5
      <3>2. h[Len(pending)] = api
        BY <1>1 DEF Replays
      <3>3. QED
        BY <2>1, <3>1, <3>2, <1>3, <1>4
    <2>2. CASE k # last
      <3>1. k \in 1 .. Len(pending) /\ g[k] = h[k] /\ g[k-1] = h[k-1]
        BY <2>2, <1>0, <1>2, <1>5
      <3>2. QED
        BY <3>1, <1>1, <1>3 DEF Replays
    <2>3. QED
      BY <2>1, <2>2
  <1>9. Replays(g)'
    BY <1>3, <1>6, <1>7, <1>8 DEF Replays
  <1>10. QED
    BY <1>3, <1>5, <1>9

\* The event that is delivered is the first step of the replay.
LEMMA ReplayOne ==
  ASSUME TypeOK, listed, WatchInv, Watch
  PROVE  /\ \E h \in [0 .. Len(pending') -> Objects] : Replays(h)'
         /\ AllApart(store, store) /\ AllApart(store', store') /\ AllApart(store', store)
  <1>0. pending \in Seq(Nodes \X (Leases \cup {Gone})) /\ Len(pending) \in Nat
    BY DEF TypeOK
  <1>1. PICK h \in [0 .. Len(pending) -> Objects] : Replays(h)
    BY DEF WatchInv
  <1>2. PICK last \in Nat : last = Len(pending) - 1
    <2>1. Len(pending) # 0
      BY <1>0 DEF Watch
    <2>2. Len(pending) - 1 \in Nat
      BY ONLY <1>0, <2>1
    <2>3. QED
      BY ONLY <2>2
  <1>3. /\ Len(pending') = last
        /\ \A k \in 1 .. last : pending'[k] = pending[k+1]
    <2>1. pending' = Tail(pending) /\ pending # <<>>
      BY DEF Watch
    <2>2. QED
      BY <1>2, <2>1, HeadTailProperties DEF TypeOK
  <1>4. /\ pending[1] \in Nodes \X (Leases \cup {Gone}) /\ api' = api
        /\ store' = [store EXCEPT ![pending[1][1]] = pending[1][2]]
    <2>1. Head(pending) = pending[1] /\ 1 \in 1 .. Len(pending)
      BY <1>0, <1>2
    <2>2. pending[1] \in Nodes \X (Leases \cup {Gone})
      BY <1>0, <2>1
    <2>3. QED
      BY <2>1, <2>2 DEF Watch, apiVars
  <1>5. store = h[0] /\ store' = h[1] /\ 1 \in 1 .. Len(pending) /\ h[1] \in Objects
    <2>1. 1 \in 1 .. Len(pending)
      BY <1>0, <1>2
    <2>2. store = h[0] /\ h[1] = [h[1-1] EXCEPT ![pending[1][1]] = pending[1][2]]
      BY <1>1, <2>1, Zenon DEF Replays
    <2>3. 1 - 1 = 0
      OBVIOUS
    <2>4. QED
      BY <1>1, <1>4, <2>1, <2>2, <2>3
  <1>6. AllApart(store', store') /\ AllApart(store, store)
    BY <1>1, <1>5 DEF Replays, TypeOK
  <1>7. AllApart(store', store)
    <2>1. \A m \in Nodes : m = pending[1][1] \/ store'[m] = store[m]
      BY <1>4 DEF TypeOK
    <2>2. SUFFICES ASSUME NEW n \in Nodes, NEW m \in Nodes, n # m
                   PROVE  Apart(store'[n], store[m])
      BY DEF AllApart
    <2>3. QED
      BY <1>6, <2>1 DEF AllApart
  <1>8. PICK g \in [0 .. last -> Objects] : \A k \in 0 .. last : g[k] = h[k+1]
    <2>1. DEFINE f == [k \in 0 .. last |-> h[k+1]]
    <2>2. f \in [0 .. last -> Objects]
      BY <1>0, <1>1, <1>2
    <2>3. QED
      BY <2>2
  <1>9. g[0] = store' /\ g[last] = api'
    BY <1>0, <1>1, <1>2, <1>4, <1>5, <1>8 DEF Replays
  <1>10. ASSUME NEW k \in 0 .. last
         PROVE  AllApart(g[k], g[k])
    <2>1. k + 1 \in 0 .. Len(pending) /\ g[k] = h[k+1]
      BY <1>0, <1>2, <1>8
    <2>2. QED
      BY <2>1, <1>1 DEF Replays
  <1>11. ASSUME NEW k \in 1 .. last
         PROVE  g[k] = [g[k-1] EXCEPT ![pending'[k][1]] = pending'[k][2]]
    <2>1. k + 1 \in 1 .. Len(pending) /\ g[k] = h[k+1] /\ g[k-1] = h[k] /\ (k + 1) - 1 = k
      BY <1>0, <1>2, <1>8
    <2>2. h[k+1] = [h[(k+1)-1] EXCEPT ![pending[k+1][1]] = pending[k+1][2]]
      BY <2>1, <1>1 DEF Replays
    <2>3. QED
      BY <2>1, <2>2, <1>3
  <1>12. Replays(g)'
    BY <1>3, <1>9, <1>10, <1>11 DEF Replays
  <1>13. QED
    BY <1>3, <1>6, <1>7, <1>8, <1>12

\* What a backend makes of two states of the store (desired_from_nodes).
LEMMA DesiredApart ==
  ASSUME NEW f \in Objects, NEW g \in Objects, backend \in Backends, AllApart(f, g)
  PROVE  AllApart(Desired(f), Desired(g))
  BY AsPeerApart DEF AllApart, Desired, Objects

\* A reconcile with a store that clashes with neither itself nor the one before.
LEMMA BeginApart ==
  ASSUME TypeInv, ApartInv, UNCHANGED <<backend, api>>, Idle, store' \in Objects, Begin(store'),
         AllApart(store', store'), AllApart(store', store)
  PROVE  ApartInv'
  <1>1. AllApart(Desired(store'), Desired(store))
    BY DesiredApart DEF TypeInv, TypeOK, Objects
  <1>2. \A m \in Nodes : installed[m] \in {Gone, Desired(store)[m]}
    BY DEF TypeInv, WorkInv, Idle, Desired
  <1>3. AllApart(Desired(store'), installed)
    BY <1>1, <1>2 DEF AllApart, Apart
  <1>4. Desired(store)' = Desired(store') /\ installed' = installed
    BY DEF Begin, Desired, AsPeer
  <1>5. QED
    BY <1>3, <1>4 DEF ApartInv, AllApart, Apart

\* An Add, or a Remove, of one node's peer.
LEMMA InstallApart ==
  ASSUME TypeInv, ApartInv, UNCHANGED <<backend, api, store>>, NEW n \in Nodes,
         NEW p \in {Gone, AsPeer(store[n])}, installed' = [installed EXCEPT ![n] = p]
  PROVE  ApartInv'
  <1>1. Desired(store)' = Desired(store) /\ p \in {Gone, Desired(store)[n]}
    BY DEF Desired, AsPeer
  <1>2. AllApart(Desired(store), Desired(store))
    BY DesiredApart DEF TypeInv, TypeOK, ApartInv, Objects
  <1>3. \A m \in Nodes : installed'[m] = IF m = n THEN p ELSE installed[m]
    BY DEF TypeInv, TypeOK
  <1>4. AllApart(Desired(store), installed')
    BY <1>1, <1>2, <1>3 DEF AllApart, Apart, ApartInv
  <1>5. AllApart(installed', installed')
    BY <1>1, <1>3, ApartSym DEF AllApart, Apart, ApartInv
  <1>6. QED
    BY <1>1, <1>4, <1>5 DEF ApartInv, AllApart, Apart

\* A change at the API server: what a node publishes, no other has.
LEMMA PublishApart ==
  ASSUME Orderly, LeaseInv, NEW n \in Nodes, NEW l \in Leases \cup {Gone}, Change(n, l),
         l # Gone => Unused(n, l) /\ Quiet(n, l)
  PROVE  WatchInv' /\ ApartInv'
  <1> USE DEF LeaseInv, TypeInv
  <1>1. \A m \in Nodes : m # n => Apart(l, api[m])
    BY DEF Unused, Apart
  <1>2. api' = [api EXCEPT ![n] = l] /\ AllApart(api', api')
    BY <1>1, ChangeApart DEF Change, ApartInv, TypeOK, Objects
  <1>3. ApartInv'
    <2>1. UNCHANGED <<store, installed>> /\ Desired(store)' = Desired(store)
      BY DEF Change, workVars, Desired, AsPeer
    <2>2. QED
      BY <1>2, <2>1 DEF ApartInv, AllApart, Apart
  <1>4. CASE listed
    <2>1. \E h \in [0 .. Len(pending') -> Objects] : Replays(h)'
      BY <1>2, <1>4, ReplayMore
    <2>2. listed'
      BY <1>4 DEF Change
    <2>3. QED
      BY <1>3, <2>1, <2>2 DEF WatchInv
  <1>5. CASE ~ listed
    <2>1. \A m \in Nodes : m # n => Apart(l, store[m])
      BY <1>5 DEF Quiet, Apart, Orderly
    <2>2. AllApart(api', store)
      BY <1>2, <1>5, <2>1 DEF AllApart, WatchInv, TypeOK
    <2>3. QED
      BY <1>3, <1>5, <2>2 DEF Change, WatchInv, AllApart, Apart
  <1>6. QED
    BY <1>3, <1>4, <1>5

\* Every step keeps leases apart.
LEMMA LeaseStep ==
  ASSUME Orderly, LeaseInv, [Next]_vars
  PROVE  LeaseInv'
  <1> USE DEF LeaseInv, TypeInv
  <1>0. TypeInv'
    BY TypeStep
  <1>w. ASSUME UNCHANGED <<listed, pending, store, api>>
        PROVE  WatchInv'
    <2>1. AllApart(api, store)' <=> AllApart(api, store)
      BY <1>w DEF AllApart, Apart
    <2>2. ASSUME NEW h
          PROVE  Replays(h)' <=> Replays(h)
      BY <1>w DEF Replays, AllApart, Apart
    <2>3. QED
      BY <1>w, <2>1, <2>2 DEF WatchInv
  <1>1. CASE \E n \in Nodes : Publish(n)
    BY <1>0, <1>1, PublishApart DEF Publish, Leases
  <1>2. CASE \E n \in Nodes : DeleteNode(n)
    BY <1>0, <1>2, PublishApart DEF DeleteNode
  <1>3. ASSUME NEW n \in Nodes, Remove(n)
        PROVE  WatchInv' /\ ApartInv'
    BY <1>3, <1>w, InstallApart DEF Remove, apiVars, watchVars
  <1>4. ASSUME NEW n \in Nodes, Add(n)
        PROVE  WatchInv' /\ ApartInv'
    <2>1. \E p \in {Gone, AsPeer(store[n])} : installed' = [installed EXCEPT ![n] = p]
      BY <1>4 DEF Add, Desired
    <2>2. QED
      BY <1>4, <1>w, <2>1, InstallApart DEF Add, apiVars, watchVars
  <1>5. CASE Watch
    <2>1. /\ listed' = listed /\ listed
          /\ \E h \in [0 .. Len(pending') -> Objects] : Replays(h)'
          /\ AllApart(store', store') /\ AllApart(store', store)
      BY <1>5, ReplayOne DEF Watch
    <2>2. ApartInv'
      BY <1>0, <1>5, <2>1, BeginApart DEF Watch, apiVars, TypeOK, Objects
    <2>3. QED
      BY <1>0, <2>1, <2>2 DEF WatchInv
  <1>6. CASE List
    <2>1. AllApart(store', store') /\ AllApart(store', store) /\ pending = <<>>
      BY <1>6 DEF List, WatchInv, ApartInv
    <2>2. ApartInv'
      BY <1>0, <1>6, <2>1, BeginApart DEF List, apiVars, TypeOK, Objects
    <2>3. Len(pending') = 0 /\ store' = api' /\ listed' = TRUE
      BY <1>6, <2>1 DEF List, apiVars
    <2>4. \E h \in [0 .. 0 -> Objects] : h[0] = store'
      <3>1. store' \in Objects
        BY <1>0 DEF TypeOK, Objects
      <3>2. DEFINE f == [k \in 0 .. 0 |-> store']
      <3>3. f \in [0 .. 0 -> Objects] /\ f[0] = store'
        BY <3>1
      <3>4. QED
        BY <3>3
    <2>5. PICK h \in [0 .. 0 -> Objects] : h[0] = store'
      BY <2>4
    <2>6. Replays(h)'
      BY <2>1, <2>3, <2>5 DEF Replays
    <2>7. QED
      BY <1>0, <2>2, <2>3, <2>5, <2>6 DEF WatchInv
  <1>7. CASE Resync
    <2>1. store' = store /\ Begin(store')
      BY <1>7 DEF Resync, watchVars
    <2>2. ApartInv'
      BY <1>0, <1>7, <2>1, BeginApart DEF Resync, apiVars, TypeOK, Objects, ApartInv
    <2>3. QED
      BY <1>0, <1>7, <1>w, <2>2 DEF Resync, apiVars, watchVars
  <1>8. CASE WatchLost
    <2>1. listed' = FALSE /\ pending' = <<>> /\ pending = <<>> /\ listed
      BY <1>8 DEF WatchLost, Orderly, Disturbed
    <2>2. PICK h \in [0 .. Len(pending) -> Objects] : Replays(h)
      BY <2>1 DEF WatchInv
    <2>3. store = api
      BY <2>1, <2>2 DEF Replays
    <2>4. UNCHANGED <<backend, api, store, installed>>
      BY <1>8 DEF WatchLost, apiVars, workVars
    <2>5. ApartInv'
      BY <2>4 DEF ApartInv, AllApart, Apart, Desired, AsPeer
    <2>6. WatchInv'
      BY <2>1, <2>3, <2>4, <2>5 DEF WatchInv, ApartInv
    <2>7. QED
      BY <1>0, <2>5, <2>6
  <1>9. CASE Restart
    <2>1. /\ api' = api /\ listed' = FALSE /\ pending' = <<>>
          /\ \A n \in Nodes : store'[n] = Gone /\ installed'[n] = Gone
      BY <1>9 DEF Restart, apiVars
    <2>2. QED
      BY <1>0, <2>1 DEF WatchInv, ApartInv, AllApart, Apart
  <1>10. CASE UNCHANGED vars
    <2>1. UNCHANGED <<backend, api, listed, pending, store, installed>>
      BY <1>10 DEF vars, apiVars, watchVars, workVars
    <2>2. ApartInv'
      BY <2>1 DEF ApartInv, AllApart, Apart, Desired, AsPeer
    <2>3. QED
      BY <1>0, <1>w, <2>1, <2>2
  <1>11. QED
    BY <1>0, <1>1, <1>2, <1>3, <1>4, <1>5, <1>6, <1>7, <1>8, <1>9, <1>10 DEF Next

-----------------------------------------------------------------------------
(* The kernel *)

\* A peer in `installed' has what its backend needs.
LEMMA InstalledType ==
  ASSUME TypeInv, NEW n \in Nodes, installed[n] # Gone
  PROVE  /\ installed[n].cidr \in Cidrs /\ installed[n].ip \in Ips
         /\ backend = "vxlan" => installed[n].mac \in Macs
  BY DEF TypeInv, TypeOK, WorkInv, Peer, Backends, Parses

\* What a step may do to the entries of a peer that it leaves in `installed'.
LEMMA BystanderStep ==
  ASSUME LeaseInv, [Next]_vars, NEW n \in Nodes, installed[n] # Gone,
         installed'[n] = installed[n], Programmed(installed[n])
  PROVE  Programmed(installed[n])'
  <1> USE DEF LeaseInv, TypeInv, TypeOK
  <1>0. ASSUME UNCHANGED <<backend, kernel>>
        PROVE  Programmed(installed[n])'
    BY <1>0 DEF Programmed, kernel
  <1>1. ASSUME NEW m \in Nodes, Remove(m)
        PROVE  Programmed(installed[n])'
    <2>1. m # n /\ installed[m] # Gone /\ Apart(installed[m], installed[n])
      BY <1>1 DEF Remove, WorkInv, ApartInv, AllApart
    <2>2. /\ installed[m].cidr # installed[n].cidr
          /\ backend = "vxlan" => installed[m].mac # installed[n].mac
      BY <2>1, InstalledType DEF Apart, Macs
    <2>3. backend' = backend
      BY <1>1 DEF Remove
    <2>4. CASE backend = "vxlan"
      BY <1>0, <1>1, <2>2, <2>3, <2>4, InstalledType DEF Remove, DelPeer, Programmed
    <2>5. CASE backend = "host-gw"
      BY <1>0, <1>1, <2>2, <2>3, <2>5, InstalledType DEF Remove, DelHostGwRoute, Programmed
    <2>6. QED
      BY <2>4, <2>5 DEF Backends
  <1>2. ASSUME NEW m \in Nodes, Add(m)
        PROVE  Programmed(installed[n])'
    <2>1. PICK p, refused : Program(p, refused)
      BY <1>2 DEF Add
    <2>2. backend' = backend
      BY <1>2 DEF Add
    <2>3. CASE backend = "vxlan"
      BY <2>1, <2>2, <2>3, InstalledType, LeasesAssumption
         DEF Program, AddRoute, AddPeerL2, AddEntry, Programmed, Gateways, Macs
    <2>4. CASE backend = "host-gw"
      BY <2>1, <2>2, <2>4, InstalledType, LeasesAssumption
         DEF Program, AddHostGwRoute, AddEntry, Programmed, Gateways
    <2>5. QED
      BY <2>3, <2>4 DEF Backends
  <1>3. CASE \E m \in Nodes : Publish(m) \/ DeleteNode(m)
    BY <1>0, <1>3 DEF Publish, DeleteNode, Change
  <1>4. CASE Watch \/ List \/ Resync \/ WatchLost \/ UNCHANGED vars
    BY <1>0, <1>4 DEF Watch, List, Resync, WatchLost, vars
  <1>5. CASE Restart
    BY <1>5 DEF Restart
  <1>6. QED
    BY <1>1, <1>2, <1>3, <1>4, <1>5 DEF Next

\* The kernel reports what it refuses, and a restart of flanneld is one of the node.
Reported == Disturb \cap {"op_fails", "del_fails", "crash"} = {}

\* What mirrors what, part by part; FailedAddNotInstalled is the part that says that
\* no installed peer lacks an entry.
RouteMirror ==
  \A c \in Cidrs : route[c] = None <=>
    c \notin half /\ \A m \in Nodes : installed[m] # Gone => installed[m].cidr # c
NeighMirror ==
  \A c \in Cidrs : neigh[c] = None <=>
    \A m \in Nodes : installed[m] # Gone /\ backend = "vxlan" => installed[m].cidr # c
FdbMirror ==
  \A a \in Macs : fdb[a] = None <=>
    \A m \in Nodes : installed[m] # Gone /\ backend = "vxlan" => installed[m].mac # a
HalfMirror == \A c \in half : route[c] = "vtep"

LEMMA MirrorParts ==
  KernelMirrorsInstalled <=>
    FailedAddNotInstalled /\ RouteMirror /\ NeighMirror /\ FdbMirror /\ HalfMirror
  BY DEF KernelMirrorsInstalled, Mirrors, FailedAddNotInstalled, RouteMirror, NeighMirror,
         FdbMirror, HalfMirror

\* Only a vxlan Add has two parts: in a host-gw run no route is half-made.
MirrorInv ==
  /\ FailedAddNotInstalled /\ RouteMirror /\ NeighMirror /\ FdbMirror /\ HalfMirror
  /\ half # {} => backend = "vxlan"

\* A Remove takes the entries of its own peer.
LEMMA RemoveMirrors ==
  ASSUME Reported, LeaseInv, MirrorInv, NEW n \in Nodes, Remove(n)
  PROVE  MirrorInv'
  <1> USE DEF LeaseInv, TypeInv, TypeOK, MirrorInv
  <1>0. PICK old : old = installed[n]
    OBVIOUS
  <1>1. /\ backend' = backend /\ half' = half \ {old.cidr}
        /\ IF backend = "vxlan" THEN DelPeer(old) ELSE DelHostGwRoute(old)
        /\ \A m \in Nodes : installed'[m] = IF m = n THEN Gone ELSE installed[m]
    BY <1>0 DEF Remove, Disturbed, Reported
  <1>2. old # Gone /\ old.cidr \in Cidrs /\ (backend = "vxlan" => old.mac \in Macs)
    BY <1>0, InstalledType DEF Remove, WorkInv
  <1>3. \A m \in Nodes : m # n /\ installed[m] # Gone =>
          installed[m].cidr # old.cidr /\ (backend = "vxlan" => installed[m].mac # old.mac)
    BY <1>0, <1>2, InstalledType DEF ApartInv, AllApart, Apart
  <1>4. FailedAddNotInstalled'
    BY <1>1, BystanderStep DEF Next, FailedAddNotInstalled
  <1>5. RouteMirror' /\ HalfMirror'
    <2>1. \A c \in Cidrs : route'[c] = IF c = old.cidr THEN None ELSE route[c]
      BY <1>1, <1>2 DEF DelPeer, DelHostGwRoute
    <2>2. HalfMirror'
      BY <1>1, <2>1 DEF HalfMirror
    <2>3. QED
      BY <1>0, <1>1, <1>2, <1>3, <2>1, <2>2 DEF RouteMirror
  <1>6. NeighMirror' /\ FdbMirror'
    <2>1. CASE backend = "vxlan"
      <3>1. /\ \A c \in Cidrs : neigh'[c] = IF c = old.cidr THEN None ELSE neigh[c]
            /\ \A a \in Macs : fdb'[a] = IF a = old.mac THEN None ELSE fdb[a]
        BY <1>1, <1>2, <2>1 DEF DelPeer
      <3>2. NeighMirror'
        BY <1>0, <1>1, <1>2, <1>3, <2>1, <3>1 DEF NeighMirror
      <3>3. FdbMirror'
        BY <1>0, <1>1, <1>2, <1>3, <2>1, <3>1 DEF FdbMirror
      <3>4. QED
        BY <3>2, <3>3
    <2>2. CASE backend = "host-gw"
      BY <1>1, <2>2 DEF DelHostGwRoute, NeighMirror, FdbMirror
    <2>3. QED
      BY <2>1, <2>2 DEF Backends
  <1>7. QED
    BY <1>1, <1>4, <1>5, <1>6

\* What an Add tries to program: a peer that the store asks for, with no entry in
\* common with those that are installed.
LEMMA AddFindsRoom ==
  ASSUME LeaseInv, NEW n \in Nodes, Add(n), NEW p, p = Desired(store)[n]
  PROVE  /\ p \in Peer /\ p # Gone /\ installed[n] = Gone
         /\ p.mac = None <=> backend = "host-gw"
         /\ Parses(p) => p.ip \in Ips /\ (backend = "vxlan" => p.mac \in Macs)
         /\ \A m \in Nodes : m # n /\ installed[m] # Gone =>
              /\ installed[m].cidr # p.cidr
              /\ backend = "vxlan" => installed[m].mac # p.mac
  <1> USE DEF LeaseInv, TypeInv, TypeOK
  <1>1. /\ p \in Peer /\ p # Gone /\ installed[n] = Gone
        /\ p.mac = None <=> backend = "host-gw"
    BY AsPeerType DEF Add, WorkInv, Desired
  <1>2. \A m \in Nodes : m # n /\ installed[m] # Gone =>
          installed[m].cidr # p.cidr /\ (backend = "vxlan" => installed[m].mac # p.mac)
    BY <1>1, InstalledType DEF ApartInv, AllApart, Apart
  <1>3. Parses(p) => p.ip \in Ips /\ (backend = "vxlan" => p.mac \in Macs)
    BY <1>1 DEF Peer, Backends, Parses
  <1>4. QED
    BY <1>1, <1>2, <1>3

\* An Add finds none of its entries there, short of a half-made route, and makes
\* all of them, none, or a half-made route.
LEMMA AddMirrors ==
  ASSUME Reported, LeaseInv, MirrorInv, NEW n \in Nodes, Add(n)
  PROVE  MirrorInv'
  <1> USE DEF LeaseInv, TypeInv, TypeOK, MirrorInv
  <1>0. PICK p : p = Desired(store)[n]
    OBVIOUS
  <1>1. PICK refused \in {{}, Operations} :
          /\ Program(p, refused)
          /\ installed' = [installed EXCEPT ![n] = IF Succeeds(p, refused) THEN p ELSE Gone]
          /\ half' = IF Succeeds(p, refused) THEN half \ {p.cidr}
                     ELSE IF backend = "vxlan" /\ "route" \notin refused
                          THEN half \cup {p.cidr} ELSE half
    BY <1>0 DEF Add, Refused, Reported
  <1>2. /\ p \in Peer /\ p.cidr \in Cidrs /\ p # Gone /\ installed[n] = Gone
        /\ Parses(p) => p.ip \in Ips /\ (backend = "vxlan" => p.mac \in Macs)
        /\ \A m \in Nodes : m # n /\ installed[m] # Gone =>
             installed[m].cidr # p.cidr /\ (backend = "vxlan" => installed[m].mac # p.mac)
    BY <1>0, AddFindsRoom DEF Peer
  <1>3. backend' = backend
    BY DEF Add
  <1>4. \A m \in Nodes : installed'[m] = IF m # n THEN installed[m]
                                         ELSE IF Succeeds(p, refused) THEN p ELSE Gone
    BY <1>1
  <1>5. \A m \in Nodes : m # n /\ installed[m] # Gone => Programmed(installed[m])'
    BY <1>4, BystanderStep DEF Next, FailedAddNotInstalled
  <1>6. /\ None # "vtep" /\ None \notin Ips /\ None \notin Macs
        /\ route[p.cidr] = None \/ (backend = "vxlan" /\ route[p.cidr] = "vtep")
    BY <1>2, LeasesAssumption DEF RouteMirror, HalfMirror, Gateways, Macs
  <1>7. CASE refused = Operations
    <2>1. "route" \in refused /\ (backend = "vxlan" => "neigh" \in refused /\ "fdb" \in refused)
      BY <1>7 DEF Operations
    <2>2. /\ UNCHANGED <<kernel, half>> /\ ~ Succeeds(p, refused)
          /\ \A m \in Nodes : installed'[m] = installed[m]
      BY <1>1, <1>2, <1>4, <2>1
         DEF Program, AddRoute, AddPeerL2, AddHostGwRoute, kernel, Succeeds
    <2>3. FailedAddNotInstalled'
      BY <1>2, <1>4, <1>5, <2>2 DEF FailedAddNotInstalled
    <2>4. RouteMirror' /\ NeighMirror' /\ FdbMirror' /\ HalfMirror'
      BY <1>3, <2>2 DEF kernel, RouteMirror, NeighMirror, FdbMirror, HalfMirror
    <2>5. QED
      BY <1>3, <2>2, <2>3, <2>4
  <1>8. CASE refused = {} /\ Parses(p) /\ backend = "vxlan"
    <2>1. /\ half' = half \ {p.cidr}
          /\ \A m \in Nodes : installed'[m] = IF m = n THEN p ELSE installed[m]
      BY <1>1, <1>4, <1>8 DEF Succeeds
    <2>2. neigh[p.cidr] = None /\ fdb[p.mac] = None
      BY <1>2, <1>8 DEF NeighMirror, FdbMirror
    <2>3. /\ \A c \in Cidrs : /\ route'[c] = IF c = p.cidr THEN "vtep" ELSE route[c]
                             /\ neigh'[c] = IF c = p.cidr THEN p.mac ELSE neigh[c]
          /\ \A a \in Macs : fdb'[a] = IF a = p.mac THEN p.ip ELSE fdb[a]
      BY <1>1, <1>2, <1>6, <1>8, <2>2 DEF Program, AddRoute, AddPeerL2, AddEntry
    <2>4. FailedAddNotInstalled'
      <3>1. route'[p.cidr] = "vtep" /\ neigh'[p.cidr] = p.mac /\ fdb'[p.mac] = p.ip
        BY <1>2, <1>8, <2>3
      <3>2. Programmed(p)'
        BY <1>3, <1>8, <3>1 DEF Programmed
      <3>3. installed'[n] = p /\ \A m \in Nodes : m # n => installed'[m] = installed[m]
        BY <2>1
      <3>4. QED
        BY <1>5, <3>2, <3>3 DEF FailedAddNotInstalled
    <2>5. RouteMirror' /\ HalfMirror'
      BY <1>2, <1>6, <2>1, <2>3 DEF RouteMirror, HalfMirror
    <2>6. NeighMirror'
      <3>1. p.mac # None
        BY <1>2, <1>6, <1>8
      <3>2. SUFFICES ASSUME NEW c \in Cidrs
                     PROVE  neigh'[c] = None <=>
                              \A m \in Nodes : installed'[m] # Gone => installed'[m].cidr # c
        BY <1>3, <1>8 DEF NeighMirror
      <3>3. neigh[c] = None <=> \A m \in Nodes : installed[m] # Gone => installed[m].cidr # c
        BY <1>8 DEF NeighMirror
      <3>4. CASE c = p.cidr
        BY <1>2, <2>1, <2>3, <3>1, <3>4
      <3>5. CASE c # p.cidr
        BY <1>2, <2>1, <2>3, <3>3, <3>5
      <3>6. QED
        BY <3>4, <3>5
    <2>7. FdbMirror'
      BY <1>2, <1>3, <1>6, <1>8, <2>1, <2>3 DEF FdbMirror
    <2>8. QED
      BY <1>3, <1>8, <2>4, <2>5, <2>6, <2>7
  <1>9. CASE refused = {} /\ ~ Parses(p) /\ backend = "vxlan"
    <2>1. /\ half' = half \cup {p.cidr} /\ neigh' = neigh /\ fdb' = fdb
          /\ \A m \in Nodes : installed'[m] = installed[m]
      BY <1>1, <1>2, <1>4, <1>9 DEF Succeeds, Program, AddPeerL2
    <2>2. \A c \in Cidrs : route'[c] = IF c = p.cidr THEN "vtep" ELSE route[c]
      BY <1>1, <1>2, <1>6, <1>9 DEF Program, AddRoute, AddEntry
    <2>3. FailedAddNotInstalled'
      BY <1>2, <1>5, <2>1 DEF FailedAddNotInstalled
    <2>4. RouteMirror' /\ HalfMirror'
      BY <1>2, <1>6, <2>1, <2>2 DEF RouteMirror, HalfMirror
    <2>5. NeighMirror' /\ FdbMirror'
      BY <1>3, <2>1 DEF NeighMirror, FdbMirror
    <2>6. QED
      BY <1>3, <1>9, <2>3, <2>4, <2>5
  <1>10. CASE refused = {} /\ Parses(p) /\ backend = "host-gw"
    <2>1. /\ half' = half \ {p.cidr} /\ neigh' = neigh /\ fdb' = fdb
          /\ \A m \in Nodes : installed'[m] = IF m = n THEN p ELSE installed[m]
      BY <1>1, <1>4, <1>10 DEF Succeeds, Program, AddHostGwRoute
    <2>2. \A c \in Cidrs : route'[c] = IF c = p.cidr THEN p.ip ELSE route[c]
      BY <1>1, <1>2, <1>6, <1>10 DEF Program, AddHostGwRoute, AddEntry
    <2>3. FailedAddNotInstalled'
      <3>1. route'[p.cidr] = p.ip
        BY <1>2, <2>2
      <3>2. Programmed(p)'
        BY <1>3, <1>10, <3>1 DEF Programmed
      <3>3. installed'[n] = p /\ \A m \in Nodes : m # n => installed'[m] = installed[m]
        BY <2>1
      <3>4. QED
        BY <1>5, <3>2, <3>3 DEF FailedAddNotInstalled
    <2>4. RouteMirror' /\ HalfMirror'
      <3>1. half = {} /\ half' = {} /\ p.ip # None
        BY <1>2, <1>6, <1>10, <2>1
      <3>2. SUFFICES ASSUME NEW c \in Cidrs
                     PROVE  route'[c] = None <=>
                              \A m \in Nodes : installed'[m] # Gone => installed'[m].cidr # c
        BY <3>1 DEF RouteMirror, HalfMirror
      <3>3. route[c] = None <=> \A m \in Nodes : installed[m] # Gone => installed[m].cidr # c
        BY <3>1 DEF RouteMirror
      <3>4. CASE c = p.cidr
        BY <1>2, <2>1, <2>2, <3>1, <3>4
      <3>5. CASE c # p.cidr
        BY <1>2, <2>1, <2>2, <3>3, <3>5
      <3>6. QED
        BY <3>4, <3>5
    <2>5. NeighMirror' /\ FdbMirror'
      BY <1>3, <1>10, <2>1 DEF NeighMirror, FdbMirror
    <2>6. QED
      BY <1>3, <1>10, <2>1, <2>3, <2>4, <2>5
  <1>11. CASE refused = {} /\ ~ Parses(p) /\ backend = "host-gw"
    <2>1. UNCHANGED <<kernel, half>> /\ \A m \in Nodes : installed'[m] = installed[m]
      BY <1>1, <1>2, <1>4, <1>11 DEF Succeeds, Program, AddHostGwRoute, kernel
    <2>2. FailedAddNotInstalled'
      BY <1>2, <1>5, <2>1 DEF FailedAddNotInstalled
    <2>3. RouteMirror' /\ NeighMirror' /\ FdbMirror' /\ HalfMirror'
      BY <1>3, <2>1 DEF kernel, RouteMirror, NeighMirror, FdbMirror, HalfMirror
    <2>4. QED
      BY <1>3, <2>1, <2>2, <2>3
  <1>12. QED
    BY <1>7, <1>8, <1>9, <1>10, <1>11 DEF Backends

\* Every step keeps the kernel the mirror of `installed'.
LEMMA MirrorStep ==
  ASSUME Reported, LeaseInv, MirrorInv, [Next]_vars
  PROVE  MirrorInv'
  <1> USE DEF MirrorInv, RouteMirror, NeighMirror, FdbMirror, HalfMirror,
              FailedAddNotInstalled, Programmed
  <1>0. ASSUME UNCHANGED <<backend, kernel, half, installed>>
        PROVE  MirrorInv'
    BY <1>0 DEF kernel
  <1>1. CASE \E m \in Nodes : Publish(m) \/ DeleteNode(m)
    BY <1>0, <1>1 DEF Publish, DeleteNode, Change, workVars
  <1>2. CASE Watch \/ List \/ Resync \/ WatchLost \/ UNCHANGED vars
    BY <1>0, <1>2 DEF Watch, List, Resync, WatchLost, Begin, vars, workVars
  <1>3. CASE Restart
    BY <1>3 DEF Restart, Disturbed, Reported
  <1>4. QED
    BY <1>1, <1>2, <1>3, RemoveMirrors, AddMirrors DEF Next

-----------------------------------------------------------------------------
(* The theorems *)

\* No node, no peer, no entry.
LEMMA InitHolds == Init => LeaseInv /\ MirrorInv
  <1> SUFFICES ASSUME Init PROVE LeaseInv /\ MirrorInv
    OBVIOUS
  <1>1. listed \in BOOLEAN /\ ~ listed
    BY Zenon DEF Init
  <1>2. changes \in 0 .. MaxChanges /\ faults \in 0 .. MaxFaults
    BY BoundsAssumption DEF Init
  <1>3. TypeInv
    BY <1>1, <1>2, LeasesAssumption DEF Init, TypeInv, TypeOK, WorkInv
  <1>4. WatchInv /\ ApartInv
    BY <1>1 DEF Init, WatchInv, ApartInv, AllApart, Apart
  <1>5. MirrorInv
    BY DEF Init, MirrorInv, RouteMirror, NeighMirror, FdbMirror, HalfMirror,
           FailedAddNotInstalled
  <1>6. QED
    BY <1>3, <1>4, <1>5 DEF LeaseInv

\* Typing, whatever goes wrong: what is added is a peer that the store asks for
\* and that is not installed, though the store was read before the kernel was
\* (reconcile, reconcile_from_store).
THEOREM Typing == Spec => []TypeOK
  <1>1. Init => TypeInv
    BY InitHolds DEF LeaseInv
  <1>2. TypeInv /\ [Next]_vars => TypeInv'
    BY TypeStep
  <1>3. TypeInv => TypeOK
    BY DEF TypeInv
  <1>4. QED
    BY <1>1, <1>2, <1>3, PTL DEF Spec

\* As long as no lease changes hands while the watch is down, no two nodes clash
\* in the store or in `installed', however far the store is behind.
THEOREM LeasesApart ==
  ASSUME Orderly
  PROVE  Spec => []LeaseInv
  <1>1. Init => LeaseInv
    BY InitHolds
  <1>2. LeaseInv /\ [Next]_vars => LeaseInv'
    BY LeaseStep
  <1>3. QED
    BY <1>1, <1>2, PTL DEF Spec

\* ... so no reconcile touches the entries of a peer that did not change, whatever
\* the kernel refuses and whenever flanneld restarts (del_peer, del_host_gw_route).
THEOREM BystandersKept ==
  ASSUME Orderly
  PROVE  Spec => NoCollateral
  <1>1. LeaseInv /\ [Next]_vars =>
          [\A n \in Nodes :
             /\ installed[n] # Gone /\ installed'[n] = installed[n]
             /\ Programmed(installed[n])
             => Programmed(installed[n])']_vars
    BY BystanderStep
  <1>2. QED
    BY <1>1, LeasesApart, PTL DEF Spec, NoCollateral

\* ... and where the kernel's refusals are reported, the kernel has at every step, in
\* the middle of a reconcile too, what `installed' says, and besides it no more than
\* the routes of Adds that failed on a malformed annotation (reconcile_from_store).
THEOREM KernelMirrors ==
  ASSUME Orderly, Reported
  PROVE  Spec => []KernelMirrorsInstalled
  <1>1. Init => LeaseInv /\ MirrorInv
    BY InitHolds
  <1>2. LeaseInv /\ MirrorInv /\ [Next]_vars => (LeaseInv /\ MirrorInv)'
    BY LeaseStep, MirrorStep
  <1>3. MirrorInv => KernelMirrorsInstalled
    BY MirrorParts DEF MirrorInv
  <1>4. QED
    BY <1>1, <1>2, <1>3, PTL DEF Spec

\* "A failed add is left out of `installed`": what the swallowed errors of
\* add_peer_l2 break holds without them (main.rs, reconcile_from_store).
THEOREM InstalledIsProgrammed ==
  ASSUME Orderly, Reported
  PROVE  Spec => []FailedAddNotInstalled
  <1>1. KernelMirrorsInstalled => FailedAddNotInstalled
    BY MirrorParts
  <1>2. QED
    BY <1>1, KernelMirrors, PTL

=============================================================================
