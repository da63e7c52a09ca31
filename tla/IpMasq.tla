------------------------------- MODULE IpMasq -------------------------------
(***************************************************************************)
(* flanneld's source-NAT rules (crates/flanneld/src/ipmasq.rs and the      *)
(* masq_tick of main.rs): every tick runs ensure, which checks each of     *)
(* four rules of the nat POSTROUTING chain and appends the missing ones,   *)
(* one iptables process at a time, while other programs may flush the      *)
(* chain.  The first matching rule decides a packet's fate.                *)
(***************************************************************************)
EXTENDS Integers, Sequences

CONSTANTS
  Disturb,                \* what may go wrong, a subset of Disturbances
  MaxFaults               \* bound on how often it does

Disturbances ==
  {"append_fails",        \* an iptables -A fails
   "check_fails",         \* an iptables -C fails though the rule is there
   "abort",               \* ensure ends early: a spawn error, or flanneld dies
   "flush",               \* the chain is flushed between two ensures
   "flush_within"}        \* ... or between two commands of one ensure

ASSUME ParametersAssumption == Disturb \subseteq Disturbances /\ MaxFaults \in Nat

VARIABLES
  lacks,                  \* this iptables does not know --random-fully
  chain,                  \* flanneld's rules in POSTROUTING of the nat table it
                          \* uses, first to last
  pc, rule,               \* the command ensure runs next, and for which rule
  faults                  \* how many disturbances so far

vars == <<lacks, chain, pc, rule, faults>>

-----------------------------------------------------------------------------
(* The rules *)

\* masq_rules, in append order; "fully" marks those with --random-fully
Rules == 1 .. 4
Masquerades(r) == r \in {2, 4}
Entry == [rule : Rules, fully : BOOLEAN]

\* packets by where they come from and go to: "in_local" comes from outside the
\* cluster network for this node's subnet, "in_remote" for another node's
Packets == {"pod_pod", "pod_external", "pod_multicast", "in_local", "in_remote"}

Matches(r) ==
  CASE r = 1 -> {"pod_pod"}
    [] r = 2 -> {"pod_pod", "pod_external"}
    [] r = 3 -> {"in_local"}
    [] r = 4 -> {"in_local", "in_remote"}

\* what becomes of a packet: the target of the first rule that matches it
Hits(c, packet) == {i \in DOMAIN c : packet \in Matches(c[i].rule)}

Verdict(c, packet) ==
  IF Hits(c, packet) = {} THEN "ACCEPT"
  ELSE LET first == CHOOSE i \in Hits(c, packet) : \A j \in Hits(c, packet) : i <= j
       IN  IF Masquerades(c[first].rule) THEN "MASQUERADE" ELSE "RETURN"

Present(r, fully) == \E i \in DOMAIN chain : chain[i] = [rule |-> r, fully |-> fully]

-----------------------------------------------------------------------------
TypeOK ==
  /\ lacks \in BOOLEAN
  /\ chain \in Seq(Entry)
  /\ pc \in {"idle", "check", "append", "check_plain", "append_plain"}
  /\ rule \in Rules
  /\ faults \in 0 .. MaxFaults

Init ==
  /\ lacks \in BOOLEAN
  /\ chain = <<>> /\ pc = "idle" /\ rule = 1 /\ faults = 0

Disturbed(kind) ==
  /\ kind \in Disturb
  /\ faults < MaxFaults
  /\ faults' = faults + 1

\* masq_tick, and the first ensure before the loop
Tick ==
  /\ pc = "idle"
  /\ pc' = "check" /\ rule' = 1
  /\ UNCHANGED <<lacks, chain, faults>>

\* (faulty variant: ensure runs off the end of the rules)
NextRuleUnbounded == pc' = "check" /\ rule' = rule + 1

\* ensure goes on to the next rule, or is done
NextRule ==
  IF rule = 4 THEN pc' = "idle" /\ rule' = 1
              ELSE pc' = "check" /\ rule' = rule + 1

GiveUp == pc' = "idle" /\ rule' = 1

\* -C with the options as given: an iptables without --random-fully rejects it
Known(r) == Present(r, Masquerades(r)) /\ ~ (lacks /\ Masquerades(r))

\* ensure_rule: -C, and when it fails -A
Check ==
  /\ pc = "check"
  /\ \/ /\ Known(rule)
        /\ NextRule
        /\ UNCHANGED faults
     \/ /\ ~ Known(rule)
        /\ pc' = "append"
        /\ UNCHANGED <<rule, faults>>
     \/ /\ Known(rule) /\ Disturbed("check_fails")
        /\ pc' = "append"
        /\ UNCHANGED rule
  /\ UNCHANGED <<lacks, chain>>

\* (faulty variants: ensure does not stop at the rule that failed; a masquerade
\* rule is not tried without --random-fully)
AppendAnd(r, onError) ==
  /\ pc = "append" /\ rule = r
  /\ \/ /\ ~ (lacks /\ Masquerades(r))
        /\ chain' = Append(chain, [rule |-> r, fully |-> Masquerades(r)])
        /\ NextRule
        /\ UNCHANGED faults
     \/ /\ IF lacks /\ Masquerades(r) THEN UNCHANGED faults ELSE Disturbed("append_fails")
        /\ onError
        /\ UNCHANGED chain
  /\ UNCHANGED lacks

AppendGoesOn(r) == AppendAnd(r, NextRule)
AppendNoFallback(r) == AppendAnd(r, GiveUp)

\* ensure_rule: -A at the end of the chain; when it fails, a masquerade rule is
\* tried without --random-fully, any other error ends ensure
AppendRule(r) ==
  /\ pc = "append" /\ rule = r
  /\ \/ /\ ~ (lacks /\ Masquerades(r))
        /\ chain' = Append(chain, [rule |-> r, fully |-> Masquerades(r)])
        /\ NextRule
        /\ UNCHANGED faults
     \/ /\ IF lacks /\ Masquerades(r) THEN UNCHANGED faults ELSE Disturbed("append_fails")
        /\ IF Masquerades(r) THEN pc' = "check_plain" /\ UNCHANGED rule ELSE GiveUp
        /\ UNCHANGED chain
  /\ UNCHANGED lacks

\* (faulty variant: the fallback appends without looking)
CheckPlainSkipped ==
  /\ pc = "check_plain"
  /\ pc' = "append_plain"
  /\ UNCHANGED <<lacks, chain, rule, faults>>

\* ensure_rule: the fallback's own -C ...
CheckPlain ==
  /\ pc = "check_plain"
  /\ \/ /\ Present(rule, FALSE)
        /\ NextRule
        /\ UNCHANGED faults
     \/ /\ ~ Present(rule, FALSE)
        /\ pc' = "append_plain"
        /\ UNCHANGED <<rule, faults>>
     \/ /\ Present(rule, FALSE) /\ Disturbed("check_fails")
        /\ pc' = "append_plain"
        /\ UNCHANGED rule
  /\ UNCHANGED <<lacks, chain>>

\* ... and its -A
AppendPlain ==
  /\ pc = "append_plain"
  /\ \/ /\ chain' = Append(chain, [rule |-> rule, fully |-> FALSE])
        /\ NextRule
        /\ UNCHANGED faults
     \/ /\ Disturbed("append_fails")
        /\ GiveUp
        /\ UNCHANGED chain
  /\ UNCHANGED lacks

\* ensure returns early (or flanneld is killed, and on starting picks this table
\* again: MasqBackend has the choice)
Abort ==
  /\ pc # "idle" /\ Disturbed("abort")
  /\ GiveUp
  /\ UNCHANGED <<lacks, chain>>

\* another program, kube-proxy say, flushes the chain
Flush ==
  /\ chain # <<>>
  /\ Disturbed("flush_within") \/ (pc = "idle" /\ Disturbed("flush"))
  /\ chain' = <<>>
  /\ UNCHANGED <<lacks, pc, rule>>

Step == Check \/ (\E r \in Rules : AppendRule(r)) \/ CheckPlain \/ AppendPlain

Next == Tick \/ Step \/ Abort \/ Flush

Spec == Init /\ [][Next]_vars

\* the 10 s interval goes on ticking and every iptables process ends
FairSpec == Spec /\ WF_vars(Tick) /\ WF_vars(Step)

-----------------------------------------------------------------------------
(* What the rules promise *)

\* Pod-to-pod traffic and traffic from outside to a pod of this node are never
\* masqueraded, not even while the rules are being put back: "the RETURN rules
\* are appended before the broad MASQUERADE" (masq_rules)
Exempts(c) ==
  Verdict(c, "pod_pod") # "MASQUERADE" /\ Verdict(c, "in_local") # "MASQUERADE"

Exempt == Exempts(chain)

Right ==
  /\ \A p \in {"pod_pod", "in_local"} : Verdict(chain, p) = "RETURN"
  /\ \A p \in {"pod_external", "in_remote"} : Verdict(chain, p) = "MASQUERADE"
  /\ Verdict(chain, "pod_multicast") = "ACCEPT"

\* Re-asserting the rules adds nothing once they are there: beyond the four
\* rules and the two fallbacks the chain grows only by what failed (ensure_rule)
NoGrowth == Len(chain) <= 6 + faults

\* Once the faults end, the rules come to be right and stay so: "re-assert the
\* rules on every reconcile tick so a flush self-heals" (main.rs)
Heals == <>[]Right

=============================================================================
