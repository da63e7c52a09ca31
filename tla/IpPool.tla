------------------------------- MODULE IpPool -------------------------------
(***************************************************************************)
(* What an address pool promises its users, with no files, locks or        *)
(* processes: an address has at most one owner, passes from free to an     *)
(* owner in one step and back, and may be lost, but is never handed from   *)
(* one owner to another and never taken from an owner by an allocation.    *)
(***************************************************************************)
CONSTANTS Addrs, Containers, Unowned, Lost

VARIABLE owner                      \* per address: a container, Unowned or Lost

Init == owner = [a \in Addrs |-> Unowned]

Allocate(c, a) ==
  /\ owner[a] = Unowned
  /\ owner' = [owner EXCEPT ![a] = c]

Free(c, a) ==
  /\ owner[a] = c
  /\ owner' = [owner EXCEPT ![a] = Unowned]

\* an allocation that did not complete may cost the pool the address
Lose(c, a) ==
  /\ owner[a] = c
  /\ owner' = [owner EXCEPT ![a] = Lost]

Next == \E c \in Containers, a \in Addrs : Allocate(c, a) \/ Free(c, a) \/ Lose(c, a)

Spec == Init /\ [][Next]_owner

=============================================================================
