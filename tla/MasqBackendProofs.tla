-------------------------- MODULE MasqBackendProofs --------------------------
(***************************************************************************)
(* Proofs about MasqBackend: the choice of the table, and the two tables   *)
(* when a restart has changed it.                                          *)
(***************************************************************************)
EXTENDS MasqBackend, IpMasqProofs

\* Both tables are in order, and ensure does not run before the choice.
TablesInv ==
  /\ IInv
  /\ Ordered(left)
  /\ stage # "up" => pc = "idle"

\* What a settled start has seen: kube-proxy's table, and no other.
SettledInv ==
  settled => /\ kube = {proxy}
             /\ stage = "look_legacy" => nft.kube = (proxy = "nft")
             /\ stage = "up" => table = proxy

LEMMA StepsOfIpMasq ==
  NextBackend =>
    \/ [Next]_vars /\ UNCHANGED left
    \/ LookLegacy
    \/ Restart
    \/ UNCHANGED <<lacks, chain, pc, rule, left>> /\ Upset("save_fails")
    \/ UNCHANGED <<lacks, chain, pc, rule, left>> /\ Upset("proxy_moves")
    \/ UNCHANGED <<lacks, chain, pc, rule, left>> /\ Upset("others_append")
  BY DEF NextBackend, LookNft, ProxyStarts, ProxyMoves, OthersAppend, TickUp, StepUp,
         AbortUp, FlushAny, Up, Next, vars, backendVars

LEMMA UpsetCounts ==
  ASSUME NEW kind, Upset(kind), TypeOK
  PROVE  faults' \in 0 .. MaxFaults
  BY ParametersAssumption DEF Upset, TypeOK

\* Taking either table leaves both in order.
LEMMA UseKeeps ==
  ASSUME IInv, Ordered(left), pc = "idle", NEW t, Use(t),
         UNCHANGED <<lacks, pc, rule>>, faults' \in 0 .. MaxFaults
  PROVE  IInv' /\ Ordered(left)' /\ pc' = "idle"
  <1>1. TypeOK /\ rule = 1 /\ Ordered(chain)
    BY DEF IInv, TypeOK, Ordered
  <1>2. Ordered(chain)' /\ Ordered(left)'
    <2>1. CASE t = table
      BY <1>1, <2>1 DEF Use
    <2>2. CASE t # table
      BY <1>1, <2>2 DEF Use
    <2>3. QED
      BY <2>1, <2>2
  <1>3. TypeOK'
    BY <1>1, <1>2 DEF TypeOK, Ordered
  <1>4. QED
    BY <1>1, <1>2, <1>3 DEF IInv, Ordered

LEMMA TablesNext ==
  ASSUME "flush_within" \notin Disturb, TablesInv, [NextBackend]_allVars
  PROVE  TablesInv'
  <1>1. IInv /\ Ordered(left) /\ TypeOK
    BY DEF TablesInv, IInv
  <1>2. (stage # "up" => pc = "idle")'
    BY DEF TablesInv, NextBackend, LookNft, LookLegacy, Use, Restart, GiveUp, ProxyStarts,
           ProxyMoves, OthersAppend, TickUp, StepUp, AbortUp, FlushAny, Flush, Up,
           allVars, vars, backendVars
  <1>3. CASE [Next]_vars /\ UNCHANGED left
    BY <1>1, <1>2, <1>3, NextKeeps DEF TablesInv
  <1>4. CASE LookLegacy
    <2>1. faults' \in 0 .. MaxFaults
      BY <1>1, <1>4, UpsetCounts DEF LookLegacy, TypeOK
    <2>2. pc = "idle" /\ \E t \in Tables \cup {generic, table} : Use(t)
      BY <1>4 DEF LookLegacy, TablesInv, Choose, Tables
    <2>3. QED
      BY <1>1, <1>2, <1>4, <2>1, <2>2, UseKeeps DEF TablesInv, LookLegacy
  <1>5. CASE Restart
    <2>1. IInv'
      BY <1>1, <1>5, UpsetCounts, MoveKeeps DEF Restart
    <2>2. QED
      BY <1>1, <1>2, <1>5, <2>1 DEF Restart, TablesInv
  <1>6. ASSUME UNCHANGED <<lacks, chain, pc, rule, left>>, NEW kind, Upset(kind)
        PROVE  TablesInv'
    <2>1. faults' \in 0 .. MaxFaults
      BY <1>1, <1>6, UpsetCounts
    <2>2. TypeOK'
      BY <1>1, <1>6, <2>1 DEF TypeOK
    <2>3. IInv'
      BY <1>1, <1>6, <2>2 DEF IInv, Precedes, Has, Masquerades
    <2>4. QED
      BY <1>1, <1>2, <1>6, <2>3 DEF TablesInv
  <1>7. CASE UNCHANGED allVars
    BY <1>2, <1>3, <1>7 DEF allVars, backendVars
  <1>8. QED
    BY <1>3, <1>4, <1>5, <1>6, <1>7, StepsOfIpMasq

LEMMA SettledNext ==
  TypeOKBackend /\ SettledInv /\ [NextBackend]_allVars => SettledInv'
  <1> SUFFICES ASSUME SettledInv, [NextBackend]_allVars, settled', proxy \in Tables
               PROVE  SettledInv'
    BY DEF SettledInv, TypeOKBackend
  <1>1. CASE LookNft
    <2>1. /\ nft' = Signal("nft") /\ UNCHANGED <<kube, proxy>>
          /\ stage' = "look_legacy"
      BY <1>1 DEF LookNft
    <2>2. kube = {proxy}
      <3>1. settled' = (kube = {proxy})
        BY <1>1 DEF LookNft
      <3>2. QED
        BY <3>1
    <2>3. Signal("nft").kube = (proxy = "nft")
      <3>1. Signal("nft").kube = ("nft" \in kube)
        BY DEF Signal
      <3>2. QED
        BY <2>2, <3>1
    <2>4. QED
      BY <2>1, <2>2, <2>3 DEF SettledInv
  <1>2. CASE LookLegacy
    <2>1. settled /\ UNCHANGED <<kube, proxy>> /\ stage = "look_legacy"
          /\ Use(Choose(nft, Signal("legacy"))) /\ stage' = "up"
      BY <1>2 DEF LookLegacy, Use
    <2>2. Choose(nft, Signal("legacy")) = proxy
      BY <2>1 DEF SettledInv, Choose, Signal, Tables
    <2>3. QED
      BY <2>1, <2>2 DEF SettledInv, Use
  <1>3. CASE Restart
    BY <1>3 DEF Restart
  <1>4. CASE ProxyStarts
    BY <1>4 DEF ProxyStarts, SettledInv
  <1>5. CASE ProxyMoves \/ OthersAppend
    BY <1>5 DEF ProxyMoves, OthersAppend, SettledInv
  <1>6. CASE TickUp \/ StepUp \/ AbortUp \/ FlushAny \/ UNCHANGED allVars
    BY <1>6 DEF TickUp, StepUp, AbortUp, FlushAny, Up, allVars, backendVars, SettledInv
  <1>7. QED
    BY <1>1, <1>2, <1>3, <1>4, <1>5, <1>6 DEF NextBackend

\* The signals detect would read if flanneld had no rules, and what it would choose.
Base(t) ==
  [kube |-> t \in kube,
   rules |-> others[t] + (IF t \in kube THEN KubeRules ELSE 0)]

Favourite == Choose(Base("nft"), Base("legacy"))

\* flanneld's rules are where they would be chosen to be without them, and so only
\* add to what made them be there; what was seen in the nft table may be stale, for
\* its rules have been flushed meanwhile.
AloneInv ==
  alone => /\ left = <<>>
           /\ chain # <<>> \/ stage = "up" => table = Favourite
           /\ stage = "look_legacy" =>
                /\ nft.kube = Base("nft").kube
                /\ nft.rules >= Base("nft").rules
                /\ nft.rules > Base("nft").rules => Favourite = "nft"

BackendInv == TablesInv /\ TypeOKBackend /\ SettledInv /\ AloneInv

LEMMA InitBackendHolds == InitBackend => BackendInv
  <1> SUFFICES ASSUME InitBackend PROVE BackendInv
    OBVIOUS
  <1>1. TablesInv
    BY InitHolds DEF InitBackend, Init, TablesInv, Ordered, Precedes, Entry
  <1>2. TypeOKBackend
    <2>1. others \in [Tables -> Nat]
      BY UpsetsAssumption DEF InitBackend
    <2>2. TypeOK /\ left \in Seq(Entry) /\ pc = "idle"
      BY <1>1 DEF InitBackend, Init, TablesInv, IInv, Ordered
    <2>3. QED
      BY <2>1, <2>2 DEF InitBackend, TypeOKBackend, Signals, NoSignal, Tables
  <1>3. SettledInv /\ AloneInv
    BY DEF InitBackend, Init, SettledInv, AloneInv
  <1>4. QED
    BY <1>1, <1>2, <1>3 DEF BackendInv

\* ensure does not run before the choice.
LEMMA IdleNext ==
  ASSUME stage # "up" => pc = "idle", [NextBackend]_allVars
  PROVE  (stage # "up" => pc = "idle")'
  BY DEF NextBackend, LookNft, LookLegacy, Use, Restart, GiveUp, ProxyStarts, ProxyMoves,
         OthersAppend, TickUp, StepUp, AbortUp, FlushAny, Flush, Up, allVars, vars, backendVars

\* A step of flanneld's that changes no rule keeps the types of what IpMasq has.
LEMMA CountedKeepsType ==
  ASSUME TypeOK, UNCHANGED <<lacks, chain, pc, rule>>, NEW kind, Upset(kind)
  PROVE  TypeOK'
  BY UpsetCounts DEF TypeOK

LEMMA TypeNext ==
  ASSUME TypeOKBackend, [NextBackend]_allVars
  PROVE  TypeOKBackend'
  <1>1. TypeOK' /\ left' \in Seq(Entry) /\ (stage # "up" => pc = "idle")'
    <2>1. TypeOK /\ left \in Seq(Entry) /\ (stage # "up" => pc = "idle")
      BY DEF TypeOKBackend
    <2>2. (stage # "up" => pc = "idle")'
      BY <2>1, IdleNext
    <2>3. CASE [Next]_vars /\ UNCHANGED left
      BY <2>1, <2>2, <2>3, TypeKeeps
    <2>4. CASE LookLegacy
      <3>1. faults' \in 0 .. MaxFaults /\ UNCHANGED <<lacks, pc, rule>>
        BY <2>1, <2>4, UpsetCounts DEF LookLegacy, TypeOK
      <3>2. \/ UNCHANGED <<chain, left>>
            \/ chain' = left /\ left' = chain
        BY <2>4 DEF LookLegacy, Use
      <3>3. chain' \in Seq(Entry) /\ left' \in Seq(Entry)
        BY <2>1, <3>2 DEF TypeOK
      <3>4. QED
        BY <2>1, <2>2, <3>1, <3>3 DEF TypeOK
    <2>5. CASE Restart
      <3>1. faults' \in 0 .. MaxFaults /\ UNCHANGED <<lacks, chain, left>> /\ GiveUp
        BY <2>1, <2>5, UpsetCounts DEF Restart
      <3>2. QED
        BY <2>1, <2>2, <3>1 DEF TypeOK, GiveUp, Rules
    <2>6. CASE UNCHANGED <<lacks, chain, pc, rule, left>> /\ \E kind : Upset(kind)
      BY <2>1, <2>2, <2>6, CountedKeepsType
    <2>7. CASE UNCHANGED allVars
      BY <2>3, <2>7 DEF allVars, backendVars
    <2>8. QED
      BY <2>3, <2>4, <2>5, <2>6, <2>7, StepsOfIpMasq
  <1>2. \A t \in Tables : Signal(t) \in Signals
    <2>1. Len(chain) \in Nat /\ Len(left) \in Nat
      BY DEF TypeOKBackend, TypeOK
    <2>2. QED
      BY <2>1 DEF TypeOKBackend, Signal, Signals, KubeRules
  <1>3. \A n, l : Choose(n, l) \in Tables
    BY DEF Choose, Tables, TypeOKBackend
  <1>4. Opposite(proxy) \in Tables
    BY DEF Opposite, Tables, TypeOKBackend
  <1> USE <1>1 DEF TypeOKBackend
  <1>5. CASE LookNft
    <2>1. nft' \in Signals
      <3>1. "nft" \in Tables /\ NoSignal \in Signals
        BY DEF Tables, NoSignal, Signals
      <3>2. nft' = Signal("nft") \/ nft' = NoSignal
        BY <1>5 DEF LookNft
      <3>3. QED
        BY <1>2, <3>1, <3>2
    <2>2. stage' = "look_legacy" /\ alone' \in BOOLEAN /\ settled' \in BOOLEAN
      BY <1>5 DEF LookNft
    <2>3. QED
      BY <1>5, <2>1, <2>2 DEF LookNft
  <1>6. CASE LookLegacy
    BY <1>3, <1>6 DEF LookLegacy, Use
  <1>7. CASE Restart
    BY <1>7 DEF Restart
  <1>8. CASE ProxyStarts \/ ProxyMoves
    BY <1>4, <1>8 DEF ProxyStarts, ProxyMoves
  <1>9. CASE OthersAppend
    <2>1. others' \in [Tables -> Nat]
      BY <1>9 DEF OthersAppend
    <2>2. QED
      BY <1>9, <2>1 DEF OthersAppend
  <1>10. CASE TickUp \/ StepUp \/ AbortUp \/ FlushAny \/ UNCHANGED allVars
    BY <1>10 DEF TickUp, StepUp, AbortUp, FlushAny, Up, allVars, backendVars
  <1>11. QED
    BY <1>5, <1>6, <1>7, <1>8, <1>9, <1>10 DEF NextBackend

LEMMA AloneNext ==
  ASSUME TypeOKBackend, AloneInv, [NextBackend]_allVars
  PROVE  AloneInv'
  <1> SUFFICES ASSUME alone' PROVE AloneInv'
    BY DEF AloneInv
  <1>1. /\ Len(chain) \in Nat /\ Len(left) \in Nat
        /\ chain = <<>> <=> Len(chain) = 0
        /\ left = <<>> => Len(left) = 0
        /\ table \in Tables /\ generic \in Tables
        /\ \A t \in Tables : Base(t).rules \in Nat
    BY DEF TypeOKBackend, TypeOK, Base, KubeRules
  <1>2. \A t \in Tables :
          /\ Signal(t).kube = Base(t).kube
          /\ Signal(t).rules = Base(t).rules + (IF t = table THEN Len(chain) ELSE Len(left))
    BY DEF Signal, Base, KubeRules, TypeOKBackend
  <1>3. UNCHANGED <<kube, others, generic>> => UNCHANGED <<Base("nft"), Base("legacy"), Favourite>>
    BY DEF Base, Favourite, Choose
  <1>4. CASE LookNft
    <2>1. alone /\ UNCHANGED <<chain, table, left, generic, kube, others, alone>>
          /\ nft' = Signal("nft") /\ stage' = "look_legacy" /\ stage = "look_nft"
      BY <1>4 DEF LookNft
    <2>2. "nft" \in Tables
      BY DEF Tables
    <2>3. QED
      BY <1>1, <1>2, <1>3, <2>1, <2>2 DEF AloneInv
  <1>5. CASE LookLegacy
    <2>1. alone /\ UNCHANGED <<generic, kube, others, alone>> /\ stage' = "up"
          /\ Use(Choose(nft, Signal("legacy"))) /\ stage = "look_legacy"
      BY <1>5 DEF LookLegacy, Use
    <2>2. Choose(nft, Signal("legacy")) = Favourite
      <3>1. "nft" \in Tables /\ "legacy" \in Tables /\ "nft" # "legacy"
        BY DEF Tables
      <3>2. nft.rules \in Nat
        BY DEF TypeOKBackend, Signals
      <3>3. /\ nft.kube = Base("nft").kube /\ nft.rules >= Base("nft").rules
            /\ nft.rules > Base("nft").rules => Favourite = "nft"
            /\ Signal("legacy").kube = Base("legacy").kube
            /\ Signal("legacy").rules >= Base("legacy").rules
            /\ Signal("legacy").rules > Base("legacy").rules => Favourite = "legacy"
        BY <1>1, <1>2, <2>1, <3>1 DEF AloneInv
      <3>4. Signal("legacy").rules \in Nat
        BY <1>1, <1>2, <3>1
      <3>5. QED
        BY <1>1, <3>1, <3>2, <3>3, <3>4 DEF Favourite, Choose
    <2>3. chain # <<>> => table = Favourite
      BY <2>1 DEF AloneInv
    <2>4. left' = <<>> /\ table' = Favourite
      BY <2>1, <2>2, <2>3 DEF Use, AloneInv
    <2>5. QED
      BY <1>3, <2>1, <2>4 DEF AloneInv
  <1>6. CASE Restart
    BY <1>3, <1>6 DEF Restart, AloneInv
  <1>7. CASE ProxyStarts \/ ProxyMoves \/ OthersAppend
    BY <1>7 DEF ProxyStarts, ProxyMoves, OthersAppend
  <1>8. CASE TickUp \/ StepUp \/ AbortUp
    BY <1>3, <1>8 DEF TickUp, StepUp, AbortUp, Up, backendVars, AloneInv
  <1>9. CASE FlushAny
    BY <1>3, <1>9 DEF FlushAny, Flush, backendVars, AloneInv
  <1>10. CASE UNCHANGED allVars
    BY <1>3, <1>10 DEF allVars, vars, backendVars, AloneInv
  <1>11. QED
    BY <1>4, <1>5, <1>6, <1>7, <1>8, <1>9, <1>10 DEF NextBackend

\* The chain is no longer than its faults allow, in the table of before a restart too.
BackendGrowthInv ==
  TypeOKBackend /\ Grown(chain, Owed, faults) /\ Grown(left, 0, faults)

\* A step that changes no rule keeps how long both chains are.
LEMMA CountedKeepsGrowth ==
  ASSUME BackendGrowthInv, TypeOKBackend', faults' = faults \/ faults' = faults + 1, Owed' <= Owed,
         {chain', left'} = {chain, left}, UNCHANGED chain \/ Owed = 0
  PROVE  BackendGrowthInv'
  <1>1. /\ faults \in Nat /\ faults' \in Nat /\ Owed \in {0, 1} /\ Owed' \in {0, 1}
        /\ chain \in Seq(Entry) /\ left \in Seq(Entry)
    BY ParametersAssumption DEF TypeOKBackend, BackendGrowthInv, TypeOK, Owed
  <1>2. Grown(chain, Owed, faults) /\ Grown(left, 0, faults)
    BY DEF BackendGrowthInv
  <1>3. (0 <= 0 /\ faults <= faults') \/ faults' = faults + 1
    BY <1>1
  <1>4. (Owed' <= Owed /\ faults <= faults') \/ faults' = faults + 1
    BY <1>1
  <1>5. Grown(left, 0, faults') /\ Grown(chain, Owed', faults')
    BY <1>1, <1>2, <1>3, <1>4, StayGrown
  <1>6. CASE UNCHANGED <<chain, left>>
    BY <1>5, <1>6 DEF BackendGrowthInv
  <1>7. CASE chain' = left /\ left' = chain /\ Owed = 0
    <2>1. Owed' = 0
      BY <1>1, <1>7
    <2>2. QED
      BY <1>5, <1>7, <2>1 DEF BackendGrowthInv
  <1>8. QED
    BY <1>6, <1>7

LEMMA BackendGrowthNext ==
  ASSUME BackendGrowthInv, [NextBackend]_allVars
  PROVE  BackendGrowthInv'
  <1>1. TypeOK /\ TypeOKBackend' /\ Owed \in {0, 1}
    BY TypeNext DEF BackendGrowthInv, TypeOKBackend, Owed
  <1>2. pc' = "idle" => Owed' = 0
    BY DEF Owed
  <1>3. CASE [Next]_vars /\ UNCHANGED left
    <2>1. Grown(chain, Owed, faults)'
      BY <1>3, GrowthNext DEF BackendGrowthInv, TypeOKBackend, GrowthInv
    <2>2. Grown(left, 0, faults)'
      <3>1. (0 <= 0 /\ faults <= faults') \/ faults' = faults + 1
        BY <1>1, <1>3, FaultsCount DEF TypeOK
      <3>2. faults \in Nat /\ faults' \in Nat /\ left \in Seq(Entry)
        BY <1>1, ParametersAssumption DEF TypeOKBackend, BackendGrowthInv, TypeOK
      <3>3. QED
        BY <1>3, <3>1, <3>2, StayGrown DEF BackendGrowthInv
    <2>3. QED
      BY <1>1, <2>1, <2>2 DEF BackendGrowthInv
  <1>4. CASE LookLegacy
    <2>1. pc = "idle" /\ pc' = "idle"
      BY <1>4 DEF LookLegacy, BackendGrowthInv, TypeOKBackend
    <2>2. Owed = 0 /\ Owed' = 0
      BY <1>2, <2>1 DEF Owed
    <2>3. faults' = faults \/ faults' = faults + 1
      BY <1>4 DEF LookLegacy, Upset
    <2>4. {chain', left'} = {chain, left}
      BY <1>4 DEF LookLegacy, Use
    <2>5. QED
      BY <1>1, <2>2, <2>3, <2>4, CountedKeepsGrowth
  <1>5. CASE Restart
    <2>1. UNCHANGED <<chain, left>> /\ faults' = faults + 1 /\ Owed' = 0
      BY <1>2, <1>5 DEF Restart, Upset, GiveUp
    <2>2. Owed' <= Owed
      BY <1>1, <2>1
    <2>3. QED
      BY <1>1, <2>1, <2>2, CountedKeepsGrowth
  <1>6. CASE UNCHANGED <<lacks, chain, pc, rule, left>> /\ \E kind : Upset(kind)
    <2>1. Owed' = Owed /\ faults' = faults + 1
      BY <1>6 DEF Upset, Owed, Known, Present
    <2>2. Owed' <= Owed
      BY <1>1, <2>1
    <2>3. QED
      BY <1>1, <1>6, <2>1, <2>2, CountedKeepsGrowth
  <1>7. CASE UNCHANGED allVars
    BY <1>3, <1>7 DEF allVars, backendVars
  <1>8. QED
    BY <1>3, <1>4, <1>5, <1>6, <1>7, StepsOfIpMasq

LEMMA BackendGrowthInit == InitBackend => BackendGrowthInv
  <1> SUFFICES ASSUME InitBackend PROVE BackendGrowthInv
    OBVIOUS
  <1>1. TypeOKBackend
    BY InitBackendHolds DEF BackendInv
  <1>2. Grown(chain, Owed, faults)
    BY GrowthInit DEF InitBackend, GrowthInv
  <1>3. chain = left /\ Owed = 0
    BY DEF InitBackend, Init, Owed
  <1>4. QED
    BY <1>1, <1>2, <1>3 DEF BackendGrowthInv

LEMMA BackendGrowthBounds == BackendGrowthInv => NoGrowth
  BY GrowthBounds DEF BackendGrowthInv, TypeOKBackend, GrowthInv

\* Which table is used does not rest on the order of the rules in either.
ChoiceInv == TypeOKBackend /\ SettledInv /\ AloneInv

LEMMA ChoiceInit == InitBackend => ChoiceInv
  BY InitBackendHolds DEF BackendInv, ChoiceInv

LEMMA ChoiceNext == ChoiceInv /\ [NextBackend]_allVars => ChoiceInv'
  BY TypeNext, SettledNext, AloneNext DEF ChoiceInv

LEMMA BackendNext ==
  ASSUME "flush_within" \notin Disturb, BackendInv, [NextBackend]_allVars
  PROVE  BackendInv'
  BY TablesNext, TypeNext, SettledNext, AloneNext DEF BackendInv

-----------------------------------------------------------------------------
\* Every variable keeps its type (detect, ensure, ensure_rule).
THEOREM TypingBackend == SpecBackend => []TypeOKBackend
  <1>1. ChoiceInv => TypeOKBackend
    BY DEF ChoiceInv
  <1>2. QED
    BY ChoiceInit, ChoiceNext, <1>1, PTL DEF SpecBackend

\* However often flanneld restarts, whichever table it chooses and whatever fails,
\* exempt traffic is masqueraded in neither table (detect, ensure).
THEOREM ExemptInBothAlways ==
  ASSUME "flush_within" \notin Disturb PROVE SpecBackend => []ExemptInBoth
  <1>1. BackendInv /\ [NextBackend]_allVars => BackendInv'
    BY BackendNext
  <1>2. BackendInv => ExemptInBoth
    BY OrderExempts, InvariantExempts DEF BackendInv, TablesInv, ExemptInBoth, Exempt
  <1>3. QED
    BY InitBackendHolds, <1>1, <1>2, PTL DEF SpecBackend

\* flanneld and the portmap plugin use kube-proxy's table whenever its chains have
\* been there, and nowhere else, since flanneld began to look (IpMasq::detect,
\* Iptables::detect).
THEOREM SameTableAlways == SpecBackend => []SameTable
  <1>1. ChoiceInv => SameTable
    BY DEF ChoiceInv, TypeOKBackend, SettledInv, SameTable, PluginTable, Tables
  <1>2. QED
    BY ChoiceInit, ChoiceNext, <1>1, PTL DEF SpecBackend

\* flanneld goes back to the table its rules are in, for any number of rules of
\* others in either (IpMasq::detect, backend_signal).
THEOREM OneTableAlways == SpecBackend => []OneTable
  <1>1. ChoiceInv => OneTable
    BY DEF ChoiceInv, AloneInv, OneTable
  <1>2. QED
    BY ChoiceInit, ChoiceNext, <1>1, PTL DEF SpecBackend

\* The chain in use does not grow by restarts either: a table that flanneld comes
\* back to has no more than it left there (detect, ensure_rule).
THEOREM NoGrowthBackend == SpecBackend => []NoGrowth
  <1>1. BackendGrowthInv /\ [NextBackend]_allVars => BackendGrowthInv'
    BY BackendGrowthNext
  <1>2. QED
    BY BackendGrowthInit, <1>1, BackendGrowthBounds, PTL DEF SpecBackend

=============================================================================
