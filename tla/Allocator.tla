----------------------------- MODULE Allocator -----------------------------
(***************************************************************************)
(* The address chooser of the host-local IPAM plugin                       *)
(* (crates/cni-host-local/src/alloc.rs): which addresses of a pod subnet   *)
(* may be handed out, and which of them an ADD takes next.                 *)
(*                                                                         *)
(* An address is its offset in the subnet, so a subnet of `size' addresses *)
(* is 0 .. size-1, its network address is 0 and its broadcast size-1.      *)
(***************************************************************************)
EXTENDS Integers, Sequences

CONSTANT NoAddr             \* Option::<Ipv4Addr>::None

\* first_usable: the default gateway, the address after the network address
FirstUsable == 1

\* usable_hosts: the subnet in order, without network, broadcast and gateway
UsableHosts(size, gateway) ==
  SelectSeq([i \in 1 .. size |-> i - 1],
            LAMBDA a : a # 0 /\ a # size - 1 /\ a # gateway)

\* where next_ip starts: just past the cursor, or at the first host when
\* there is no cursor or it is not an address of this subnet
StartIndex(hosts, cursor) ==
  IF \E i \in DOMAIN hosts : hosts[i] = cursor
  THEN CHOOSE i \in DOMAIN hosts : hosts[i] = cursor
  ELSE 0

\* the k-th host that next_ip looks at (the source counts hosts from 0)
Probe(hosts, start, k) == hosts[((start + k) % Len(hosts)) + 1]

\* the probes that would meet an address nobody has leased
FreeProbes(hosts, leased, start) ==
  {k \in 0 .. Len(hosts) - 1 : Probe(hosts, start, k) \notin leased}

\* next_ip: the first free address met from the cursor on, going round once
NextIp(hosts, leased, cursor) ==
  LET start == StartIndex(hosts, cursor)
      free == FreeProbes(hosts, leased, start)
  IN  IF free = {}
      THEN NoAddr
      ELSE Probe(hosts, start, CHOOSE k \in free : \A j \in free : k <= j)

=============================================================================
