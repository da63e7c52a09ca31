----------------------------- MODULE MasqBackend -----------------------------
(***************************************************************************)
(* Which of the node's two nat tables flanneld's rules go to               *)
(* (IpMasq::detect in crates/flanneld/src/ipmasq.rs, main.rs), composed    *)
(* with what IpMasq does in it.  A node has an nft and a legacy nat table. *)
(* flanneld looks at each once when it starts, one iptables process after  *)
(* the other, while kube-proxy may be starting too or moving from one      *)
(* table to the other, and then uses the table it chose until it dies.     *)
(* The portmap plugin chooses by a rule of its own (crates/cni/src/        *)
(* iptables.rs).                                                           *)
(***************************************************************************)
EXTENDS IpMasq, FiniteSets

CONSTANTS
  Upsets,                 \* what else may go wrong, a subset of AllUpsets
  MaxOthers               \* bound on the rules other programs have at first

AllUpsets ==
  {"save_fails",          \* an iptables -S fails
   "restart",             \* flanneld dies, anywhere, and starts again
   "others_append",       \* another program adds a rule
   "proxy_moves"}         \* kube-proxy comes back using the other table

ASSUME UpsetsAssumption == Upsets \subseteq AllUpsets /\ MaxOthers \in Nat

Tables == {"nft", "legacy"}
Opposite(t) == CHOOSE u \in Tables : u # t

VARIABLES
  stage,                  \* flanneld: "look_nft", "look_legacy" or "up"
  nft,                    \* what it saw in the nft table
  table,                  \* the table it uses, or used before it started again
  left,                   \* flanneld's rules in the other table
  generic,                \* the table the plain iptables command works on
  proxy,                  \* the table kube-proxy works on
  kube,                   \* the tables that hold kube-proxy's KUBE- chains
  others,                 \* how many rules of other programs each table has
  alone,                  \* history: only flanneld has changed what detect looks at
  settled                 \* history: since this start just proxy has KUBE- chains

backendVars == <<stage, nft, table, left, generic, proxy, kube, others, alone, settled>>
allVars == <<vars, backendVars>>

Signals == [kube : BOOLEAN, rules : Nat]

TypeOKBackend ==
  /\ TypeOK
  /\ stage \in {"look_nft", "look_legacy", "up"} /\ (stage # "up" => pc = "idle")
  /\ nft \in Signals
  /\ table \in Tables /\ generic \in Tables /\ proxy \in Tables
  /\ left \in Seq(Entry)
  /\ kube \subseteq Tables
  /\ others \in [Tables -> Nat]
  /\ alone \in BOOLEAN /\ settled \in BOOLEAN

NoSignal == [kube |-> FALSE, rules |-> 0]

InitBackend ==
  /\ Init
  /\ stage = "look_nft" /\ nft = NoSignal
  /\ table = "nft" /\ left = <<>>
  /\ generic \in Tables /\ proxy \in Tables
  /\ kube \in SUBSET Tables
  /\ others \in [Tables -> 0 .. MaxOthers]
  /\ alone = TRUE /\ settled = FALSE

Upset(kind) ==
  /\ kind \in Upsets
  /\ faults < MaxFaults
  /\ faults' = faults + 1

-----------------------------------------------------------------------------
(* Choosing a table *)

\* the rules kube-proxy has in a table where it has chains: two stand for many
KubeRules == 2

\* backend_signal: whether a line has KUBE-, and how many rules the table has,
\* flanneld's own among them
Signal(t) ==
  [kube |-> t \in kube,
   rules |-> others[t] + (IF t \in kube THEN KubeRules ELSE 0)
                       + Len(IF t = table THEN chain ELSE left)]

\* (faulty variants: the emptier table; the KUBE- chains are not what counts)
ChooseEmptier(n, l) ==
  IF n.kube # l.kube THEN (IF n.kube THEN "nft" ELSE "legacy")
  ELSE IF n.rules <= l.rules /\ n.rules > 0 THEN "nft"
  ELSE IF l.rules > 0 THEN "legacy"
  ELSE generic

ChooseBusier(n, l) ==
  IF n.rules >= l.rules /\ n.rules > 0 THEN "nft"
  ELSE IF l.rules > 0 THEN "legacy"
  ELSE generic

\* IpMasq::detect: the one table that has KUBE- chains, else the one with more
\* rules, else what plain iptables works on
Choose(n, l) ==
  IF n.kube # l.kube THEN (IF n.kube THEN "nft" ELSE "legacy")
  ELSE IF n.rules >= l.rules /\ (n.rules > 0 \/ n.kube) THEN "nft"
  ELSE IF l.rules > 0 \/ l.kube THEN "legacy"
  ELSE generic

\* Iptables::detect, for each run of the portmap plugin
PluginTable ==
  IF "nft" \in kube THEN "nft" ELSE IF "legacy" \in kube THEN "legacy" ELSE generic

LookNft ==
  /\ stage = "look_nft" /\ stage' = "look_legacy"
  /\ \/ /\ nft' = Signal("nft")
        /\ settled' = (kube = {proxy})
        /\ UNCHANGED <<faults, alone>>
     \/ /\ Upset("save_fails")
        /\ nft' = NoSignal /\ settled' = FALSE /\ alone' = FALSE
  /\ UNCHANGED <<lacks, chain, pc, rule, table, left, generic, proxy, kube, others>>

\* from here on chain stands for the table chosen now
Use(t) ==
  /\ table' = t /\ stage' = "up"
  /\ IF t = table THEN UNCHANGED <<chain, left>> ELSE chain' = left /\ left' = chain

LookLegacy ==
  /\ stage = "look_legacy"
  /\ \/ /\ Use(Choose(nft, Signal("legacy")))
        /\ UNCHANGED <<faults, alone, settled>>
     \/ /\ Upset("save_fails")
        /\ Use(Choose(nft, NoSignal))
        /\ alone' = FALSE /\ settled' = FALSE
  /\ UNCHANGED <<lacks, pc, rule, nft, generic, proxy, kube, others>>

Restart ==
  /\ Upset("restart")
  /\ stage' = "look_nft" /\ GiveUp
  /\ settled' = FALSE
  /\ UNCHANGED <<lacks, chain, nft, table, left, generic, proxy, kube, others, alone>>

-----------------------------------------------------------------------------
(* The other programs *)

\* kube-proxy makes its chains
ProxyStarts ==
  /\ proxy \notin kube
  /\ kube' = kube \cup {proxy}
  /\ alone' = FALSE
  /\ UNCHANGED <<vars, stage, nft, table, left, generic, proxy, others, settled>>

\* ... is configured anew, and leaves its old chains or removes them
ProxyMoves ==
  /\ Upset("proxy_moves")
  /\ proxy' = Opposite(proxy)
  /\ kube' \in {kube, kube \ {proxy}}
  /\ alone' = FALSE /\ settled' = FALSE
  /\ UNCHANGED <<lacks, chain, pc, rule, stage, nft, table, left, generic, others>>

OthersAppend ==
  /\ Upset("others_append")
  /\ \E t \in Tables : others' = [others EXCEPT ![t] = @ + 1]
  /\ alone' = FALSE
  /\ UNCHANGED <<lacks, chain, pc, rule, stage, nft, table, left, generic, proxy, kube, settled>>

-----------------------------------------------------------------------------
(* What flanneld does once it has chosen, and flushes of its chain *)

Up == stage = "up" /\ UNCHANGED backendVars

TickUp == Tick /\ Up
StepUp == Step /\ Up
AbortUp == Abort /\ Up
FlushAny == Flush /\ UNCHANGED backendVars

NextBackend ==
  \/ LookNft \/ LookLegacy \/ Restart
  \/ ProxyStarts \/ ProxyMoves \/ OthersAppend
  \/ TickUp \/ StepUp \/ AbortUp \/ FlushAny

\* main goes on to the loop, whose interval goes on ticking, and every iptables
\* process ends
SpecBackend ==
  /\ InitBackend /\ [][NextBackend]_allVars
  /\ WF_allVars(LookNft \/ LookLegacy) /\ WF_allVars(TickUp) /\ WF_allVars(StepUp)

-----------------------------------------------------------------------------
(* What the choice promises *)

\* "Our rules must land in the SAME backend kube-proxy uses" (ipmasq.rs), and the
\* portmap plugin works on that table too: so it is if kube-proxy's chains have been
\* in the table it uses and in no other since flanneld began to look, whatever else
\* the tables hold, flanneld's rules of before a restart among it
SameTable ==
  stage = "up" /\ settled => table = proxy /\ PluginTable = proxy

\* flanneld's own rules are among what it counts when it starts again, and still it
\* does not go from table to table: while nobody else changes them, it has rules in
\* one table only, however often it restarts and its chain is flushed
OneTable == alone => left = <<>>

\* Traffic that must not be masqueraded is not, in the table flanneld uses and in
\* one it used before a restart: packets pass through both
ExemptInBoth == Exempts(chain) /\ Exempts(left)

=============================================================================
