----------------------------- MODULE MCPortmap -----------------------------
(***************************************************************************)
(* Instances of Portmap for TLC: two pods that may run side by side and a  *)
(* third that takes over the port of the first.                            *)
(***************************************************************************)
EXTENDS Portmap, TLC

CONSTANTS c1, c2, c3, p1, p2

MCMappings == c1 :> <<p1>> @@ c2 :> <<p2>> @@ c3 :> <<p1>>

\* the addresses, and the two pods with the same port
Symmetry == Permutations(Ips) \cup Permutations({c1, c3})

=============================================================================
