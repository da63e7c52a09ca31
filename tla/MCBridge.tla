------------------------------ MODULE MCBridge ------------------------------
(***************************************************************************)
(* Instances of Bridge for TLC: the ids of c1 and c2 begin with the same   *)
(* letters, that of c3, if it is there, with others.                       *)
(***************************************************************************)
EXTENDS Bridge, TLC

CONSTANTS c1, c2

MCHostName == [c \in Pods |-> IF c \in {c1, c2} THEN "vethA" ELSE "vethB"]
MCTempName == [c \in Pods |-> IF c \in {c1, c2} THEN "vethcA" ELSE "vethcB"]

Symmetry == Permutations({c1, c2}) \cup Permutations(Addrs)

=============================================================================
