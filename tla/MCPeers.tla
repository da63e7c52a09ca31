------------------------------ MODULE MCPeers ------------------------------
(***************************************************************************)
(* Instances of Peers for TLC.                                             *)
(***************************************************************************)
EXTENDS Peers

Lease(c, i, m) == [cidr |-> c, ip |-> i, mac |-> m]

\* n1 may come back with a new VTEP MAC or a new address; n2 with a MAC that does not
\* parse, or without one and with an address that does not; after n1 is deleted n2 may
\* be given its CIDR, and the other way round
MCLeasesOf ==
  [n1 |-> {Lease("A", "i1", "m1"), Lease("A", "i1", "m2"), Lease("A", "i3", "m1"),
           Lease("B", "i1", "m1")},
   n2 |-> {Lease("B", "i2", "m3"), Lease("B", "i2", Bad), Lease("B", Bad, None),
           Lease("A", "i2", "m3")}]

MCNodes == {"n1", "n2"}

=============================================================================
