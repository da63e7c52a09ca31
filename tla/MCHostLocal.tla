---------------------------- MODULE MCHostLocal ----------------------------
(***************************************************************************)
(* Instances of HostLocal for TLC, and the address chooser against its     *)
(* reference definition.                                                   *)
(***************************************************************************)
EXTENDS HostLocal, TLC, FiniteSetsExt

\* a subnet of four addresses and its two usable hosts when the gateway lies
\* outside it: three containers contend for them, so that the pool is often full
MCHosts == UsableHosts(4, 8)

\* the list as it was before, with the gateway inside the subnet: an ADD that
\* chooses from it may meet a cursor and a lease that it does not contain
MCFormer == UsableHosts(4, FirstUsable)

\* The next free address in the cyclic order of the subnet, without indices.
ReferenceNext(usable, leased, last) ==
  LET free  == usable \ leased
      after == {a \in free : last \in usable /\ a > last}
  IN  CASE free = {}   -> NoAddr
        [] after # {}  -> Min(after)
        [] OTHER       -> Min(free)

\* next_ip over usable_hosts agrees with the reference on every subnet of up
\* to eight addresses, gateway, set of leases and cursor, in the subnet or not.
ASSUME ChooserAssumption ==
  \A size \in {1, 2, 4, 8}, gateway \in 0 .. 8 :
    LET hosts  == UsableHosts(size, gateway)
        usable == {hosts[i] : i \in DOMAIN hosts}
    IN  \A leased \in SUBSET usable, last \in (0 .. 8) \cup {NoAddr} :
          NextIp(hosts, leased, last)
            = ReferenceNext(usable, leased, IF last = NoAddr THEN -1 ELSE last)

=============================================================================
