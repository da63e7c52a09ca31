--------------------------- MODULE DelegateProofs ---------------------------
(***************************************************************************)
(* Theorems about Delegate, for any lengths, pipes and faults.             *)
(***************************************************************************)
EXTENDS Delegate, FiniteSetTheorems, TLAPS

-----------------------------------------------------------------------------
(* The inductive invariant *)

Born(p) == pc[p] # "unborn"
Calling == {"call", "drain", "join", "decide"}
AddChain == {"flannel_add", "bridge_add", "ipam_add"}
DelChain == {"flannel_del", "bridge_del", "ipam_del"}

\* the runtime is past its ADD
Told == kid["runtime"] = "flannel_del"

\* Who may be where: a process has a delegate once it has called one, one that it
\* alone calls, and calls it once.
CallInv ==
  /\ pc["runtime"] \in Calling \cup {"exit"} /\ kid["runtime"] # None
  /\ \A p \in Procs :
       /\ kid[p] # None => Caller[kid[p]] = p
       /\ pc[p] \in Calling => kid[p] # None
       /\ pc[p] \in {"unborn", "read", "work"} => kid[p] = None
       /\ pc[p] = "work" => p \in Ipam
       /\ pc[p] = "call" => pc[kid[p]] = "unborn" /\ have[p] = 0 /\ heard[p] = None
       /\ pc[p] = "drain" => Born(kid[p])
       /\ pc[p] = "join" => pc[kid[p]] = "exit"
       /\ pc[p] = "decide" => pc[kid[p]] \in {"unborn", "exit"}
  /\ \A k \in Plugins :
       Born(k) => kid[Caller[k]] = k \/ <<k, kid[Caller[k]]>> \in
                    {<<"flannel_add", "flannel_del">>, <<"ipam_add", "ipam_undo">>}

\* Its caller drains the output of every plugin that lives, unless it was killed.
TreeInv ==
  /\ \A p \in killed : pc[p] = "exit"
  /\ \A k \in Plugins :
       Alive(k) /\ Caller[k] \notin killed => pc[Caller[k]] = "drain" /\ kid[Caller[k]] = k
  /\ killed # {} => faults > 0

\* Where the units of a configuration are.
ConfInv ==
  \A k \in Plugins :
    /\ got[k] + inbox[k] + feed[k] <= ConfLen
    /\ pc[k] = "read" => got[k] + inbox[k] + feed[k] = ConfLen \/ Caller[k] \in killed
    /\ k \in shut => feed[k] = 0
    /\ pc[k] = "unborn" => got[k] + inbox[k] + feed[k] = 0 /\ k \notin shut

\* Where those of an answer are, and that it goes with the status.
AnswerInv ==
  /\ \A k \in Plugins :
       /\ pc[k] \notin {"print", "exit"} => outbox[k] = 0 /\ left[k] = 0 /\ status[k] = None
       /\ pc[k] \in {"print", "exit"} => status[k] # None
       /\ pc[k] = "exit" => left[k] = 0
       /\ pc[Caller[k]] = "drain" /\ kid[Caller[k]] = k =>
            LET units == have[Caller[k]] + outbox[k] + left[k]
            IN  /\ units <= ResultLen \/ units <= ErrorLen
                /\ pc[k] \notin {"print", "exit"} => units = 0
                /\ status[k] = "ok" /\ k \in AddChain => units = ResultLen
  /\ \A p \in Procs :
       pc[p] \in {"join", "decide"} =>
         /\ heard[p] = status[kid[p]]
         /\ heard[p] = "ok" /\ kid[p] \in AddChain => have[p] = ResultLen

\* A success of the ADD is one of all its plugins, and one that was not undone.
SuccessInv ==
  /\ status["flannel_add"] = "ok" => pc["bridge_add"] = "exit" /\ status["bridge_add"] = "ok"
  /\ status["bridge_add"] = "ok" =>
       /\ pc["ipam_add"] = "exit" /\ status["ipam_add"] = "ok"
       /\ kid["bridge_add"] = "ipam_add"
  /\ status["ipam_add"] = "ok" /\ ~ Born("ipam_undo") /\ ~ Born("ipam_del") => lease

\* What the runtime has heard of the ADD.
ToldInv ==
  /\ told.faults <= faults
  /\ ~ Told => told.status = None /\ pc["runtime"] # "exit"
  /\ Told => /\ told.status = status["flannel_add"]
             /\ ~ Born("flannel_add") \/ pc["flannel_add"] = "exit"
             /\ told.status = "ok" => told.units = ResultLen

\* Where a delegate was not started, that was a fault, and one of the DEL's.
SpawnInv ==
  \A p \in Procs :
    pc[p] = "decide" /\ ~ Born(kid[p]) =>
      /\ faults > 0
      /\ Told /\ kid[p] \in DelChain => faults > told.faults

\* Without faults, a failure of the ADD leaves no lease.
FailureInv ==
  faults = 0 =>
    /\ lease => status["ipam_add"] = "ok"
    /\ pc["ipam_undo"] \in {"print", "exit"} => ~ lease
    /\ status["bridge_add"] = "fail" \/ status["flannel_add"] = "fail" => ~ lease

\* Without faults since the ADD, the DEL frees the lease from the inside out.
FreedInv ==
  Told /\ killed = {} /\ faults = told.faults =>
    /\ pc["ipam_del"] \in {"print", "exit"} => ~ lease
    /\ pc["bridge_del"] \in {"decide", "print", "exit"} => ~ lease
    /\ pc["flannel_del"] \in {"decide", "print", "exit"} => ~ lease
    /\ pc["runtime"] \in {"decide", "exit"} => ~ lease

BaseInv == TypeOK /\ CallInv /\ TreeInv /\ ConfInv /\ AnswerInv
IInv == BaseInv /\ SuccessInv /\ ToldInv /\ SpawnInv /\ FailureInv /\ FreedInv

USE DEF At, GoTo, Born, Alive

\* Who calls whom.
LEMMA CallerFacts ==
  /\ Plugins = Procs \ {"runtime"} /\ "runtime" \in Procs
  /\ None \notin Plugins
  /\ \A k \in Plugins : Caller[k] \in Procs /\ Caller[k] # k /\ Caller[k] \notin Ipam
  /\ \A k \in Plugins : Caller[k] = "runtime" <=> k \in {"flannel_add", "flannel_del"}
  /\ \A k \in Plugins : Caller[k] = "flannel_add" <=> k = "bridge_add"
  /\ \A k \in Plugins : Caller[k] = "bridge_add" <=> k \in {"ipam_add", "ipam_undo"}
  /\ \A k \in Plugins : Caller[k] = "flannel_del" <=> k = "bridge_del"
  /\ \A k \in Plugins : Caller[k] = "bridge_del" <=> k = "ipam_del"
  BY DEF Plugins, Caller, Procs, None, Ipam

\* ... and whom next.
LEMMA DelegateFacts ==
  \A p \in Plugins \ Ipam : Delegates[p] \in Plugins /\ Caller[Delegates[p]] = p
                            /\ Delegates[p] # "ipam_undo" /\ Delegates[p] # "flannel_del"
  BY DEF Plugins, Caller, Ipam, Delegates

\* Who is a process, and who a plugin.
LEMMA ProcFacts ==
  /\ Plugins \subseteq Procs /\ Ipam \subseteq Plugins /\ Procs = Plugins \cup {"runtime"}
  /\ {"flannel_add", "bridge_add", "flannel_del", "bridge_del"} \subseteq Plugins
  /\ {"ipam_add", "ipam_undo", "ipam_del"} \subseteq Ipam
  /\ "runtime" \notin Plugins /\ None \notin Procs
  BY DEF Plugins, Caller, Procs, None, Ipam

\* The bound on faults is kept by its guard.
LEMMA DisturbedCounts ==
  ASSUME NEW kind, Disturbed(kind), faults \in 0 .. MaxFaults
  PROVE  faults' \in 0 .. MaxFaults /\ faults' = faults + 1 /\ faults < MaxFaults
  BY BoundsAssumption DEF Disturbed

\* What a process at a delegate may assume of it.
LEMMA KidFacts ==
  ASSUME BaseInv, NEW p \in Procs, pc[p] \in Calling
  PROVE  kid[p] \in Plugins /\ Caller[kid[p]] = p /\ kid[p] # p
  BY CallerFacts DEF BaseInv, TypeOK, CallInv

\* The longest answer: the bound of TypeOK.
LEMMA MostIsNat ==
  LET most == IF ResultLen > ErrorLen THEN ResultLen ELSE ErrorLen
  IN  most \in Nat /\ ErrorLen \in 0 .. most /\ ResultLen \in 0 .. most /\ 0 \in 0 .. most
  BY LengthsAssumption

\* Every step keeps the types.
LEMMA TypeStep ==
  ASSUME BaseInv, [Next]_vars
  PROVE  TypeOK'
  <1> USE DEF BaseInv, TypeOK, Pcs, Statuses, Calling
  <1> DEFINE most == IF ResultLen > ErrorLen THEN ResultLen ELSE ErrorLen
  <1>1. ASSUME NEW p \in Procs, Spawn(p)
        PROVE  TypeOK'
    BY <1>1, ProcFacts, DisturbedCounts, LengthsAssumption DEF Spawn, answers
  <1>2. ASSUME NEW p \in Procs, Drain(p)
        PROVE  TypeOK'
    <2>0. kid[p] \in Plugins /\ Caller[kid[p]] = p
      BY <1>2, KidFacts DEF Drain
    <2>1. have[p] + outbox[kid[p]] + left[kid[p]] <= most
      BY <1>2, <2>0, ProcFacts, LengthsAssumption DEF Drain, AnswerInv
    <2>2. have[p] \in 0 .. most /\ left[kid[p]] \in 0 .. most /\ outbox[kid[p]] \in 0 .. Cap
      BY <2>0, ProcFacts
    <2>3. have[p] + 1 \in 0 .. most /\ outbox[kid[p]] - 1 \in 0 .. Cap
      BY <1>2, <2>1, <2>2, LengthsAssumption DEF Drain
    <2>4. QED
      BY <1>2, <2>3 DEF Drain, history
  <1>3. ASSUME NEW p \in Procs, Wait(p)
        PROVE  TypeOK'
    BY <1>3, ProcFacts, KidFacts DEF Wait, pipes, history
  <1>4. ASSUME NEW p \in Procs, Join(p)
        PROVE  TypeOK'
    BY <1>4 DEF Join, pipes, answers, history
  <1>5. ASSUME NEW p \in Procs, Read(p)
        PROVE  TypeOK'
    <2>1. p \in Plugins
      BY <1>5, ProcFacts DEF Read, CallInv
    <2>2. got[p] + inbox[p] + feed[p] <= ConfLen
      BY <2>1 DEF ConfInv
    <2>3. got[p] + 1 \in 0 .. ConfLen /\ inbox[p] - 1 \in 0 .. Cap
      BY <1>5, <2>1, <2>2, LengthsAssumption DEF Read
    <2>4. QED
      BY <1>5, <2>3 DEF Read, answers, history
  <1>6. ASSUME NEW p \in Procs, Decode(p)
        PROVE  TypeOK'
    BY <1>6, MostIsNat, ProcFacts, DelegateFacts DEF Decode, Answer, Call, pipes, answers, history
  <1>7. ASSUME NEW p \in Procs, SkipStdin(p)
        PROVE  TypeOK'
    BY <1>7 DEF SkipStdin, pipes, answers, history
  <1>8. ASSUME NEW p \in Procs, PrintOut(p)
        PROVE  TypeOK'
    <2>1. outbox' \in [Procs -> 0 .. Cap] /\ left' \in [Procs -> 0 .. most]
      BY <1>8, LengthsAssumption DEF PrintOut
    <2>2. QED
      BY <1>8, <2>1 DEF PrintOut, history
  <1>9. ASSUME NEW p \in Procs, Exit(p)
        PROVE  TypeOK'
    BY <1>9 DEF Exit, pipes, answers, history
  <1>10. ASSUME NEW p \in Procs, IpamDel(p)
        PROVE  TypeOK'
    <2>1. lease' \in BOOLEAN
      BY <1>10, Zenon DEF IpamDel
    <2>2. QED
      BY <1>10, <2>1, MostIsNat, DisturbedCounts DEF IpamDel, Answer, pipes
  <1>11. ASSUME NEW p \in Procs, Relay(p)
        PROVE  TypeOK'
    BY <1>11, MostIsNat DEF Relay, Answer, pipes, history
  <1>12. CASE IpamAdd
    <2>1. lease' \in BOOLEAN
      BY <1>12, Zenon DEF IpamAdd
    <2>2. QED
      BY <1>12, <2>1, MostIsNat, DisturbedCounts DEF IpamAdd, Answer, pipes
  <1>13. CASE Wire
    BY <1>13, MostIsNat, ProcFacts DEF Wire, Answer, Call, pipes, history
  <1>14. CASE Undone
    BY <1>14, MostIsNat, ProcFacts DEF Undone, Answer, pipes, history
  <1>15. CASE Unwire
    BY <1>15, MostIsNat, ProcFacts DEF Unwire, Answer, pipes, history
  <1>16. CASE Added
    BY <1>16, MostIsNat, ProcFacts DEF Added, Call, pipes, history
  <1>17. CASE Deleted
    BY <1>17 DEF Deleted, pipes, answers, history
  <1>18. ASSUME NEW p \in Procs, Kill(p)
        PROVE  TypeOK'
    <2>1. shut' \subseteq Plugins /\ feed' \in [Procs -> 0 .. ConfLen]
      BY <1>18, KidFacts, LengthsAssumption DEF Kill
    <2>2. left' \in [Procs -> 0 .. most] /\ faults' \in 0 .. MaxFaults
      BY <1>18, MostIsNat, DisturbedCounts DEF Kill
    <2>3. QED
      BY <1>18, <2>1, <2>2 DEF Kill
  <1>19. ASSUME NEW k \in Plugins, Feed(k)
        PROVE  TypeOK'
    BY <1>19, LengthsAssumption DEF Feed, answers, history
  <1>20. ASSUME NEW k \in Plugins, CloseStdin(k)
        PROVE  TypeOK'
    BY <1>20 DEF CloseStdin, answers, history
  <1>21. CASE UNCHANGED vars
    BY <1>21 DEF vars, pipes, answers, history
  <1>22. QED
    BY <1>1, <1>2, <1>3, <1>4, <1>5, <1>6, <1>7, <1>8, <1>9, <1>10, <1>11, <1>12, <1>13,
       <1>14, <1>15, <1>16, <1>17, <1>18, <1>19, <1>20, <1>21 DEF Next, Main, Writer

-----------------------------------------------------------------------------
(* The invariants of the chain and of its pipes *)

\* Every step keeps who calls whom.
LEMMA CallStep ==
  ASSUME BaseInv, [Next]_vars
  PROVE  CallInv'
  <1> USE ProcFacts DEF BaseInv, TypeOK, CallInv, Calling
  <1>1. ASSUME NEW p \in Procs, Spawn(p)
        PROVE  CallInv'
    BY <1>1, CallerFacts DEF Spawn, answers
  <1>2. ASSUME NEW p \in Procs, Drain(p)
        PROVE  CallInv'
    BY <1>2, CallerFacts DEF Drain
  <1>3. ASSUME NEW p \in Procs, Wait(p)
        PROVE  CallInv'
    BY <1>3, CallerFacts DEF Wait
  <1>4. ASSUME NEW p \in Procs, Join(p)
        PROVE  CallInv'
    BY <1>4, CallerFacts DEF Join, answers
  <1>5. ASSUME NEW p \in Procs, Read(p)
        PROVE  CallInv'
    BY <1>5, CallerFacts DEF Read, answers
  <1>6. ASSUME NEW p \in Procs, Decode(p)
        PROVE  CallInv'
    <2>1. p \in Plugins /\ kid[p] = None /\ pc[p] = "read"
      BY <1>6 DEF Decode
    <2>2. CASE pc' = [pc EXCEPT ![p] = "print"] /\ UNCHANGED <<kid, have, heard>>
      BY <2>1, <2>2, CallerFacts
    <2>3. CASE p \in Ipam /\ pc' = [pc EXCEPT ![p] = "work"] /\ UNCHANGED <<kid, have, heard>>
      BY <2>1, <2>3, CallerFacts
    <2>4. CASE p \notin Ipam /\ Call(p, Delegates[p])
      <3>1. Delegates[p] \in Plugins /\ Caller[Delegates[p]] = p /\ ~ Born(Delegates[p])
        BY <2>1, <2>4, DelegateFacts
      <3>2. QED
        BY <2>1, <2>4, <3>1, CallerFacts DEF Call
    <2>5. QED
      BY <1>6, <2>2, <2>3, <2>4 DEF Decode, Answer, answers
  <1>7. ASSUME NEW p \in Procs, SkipStdin(p)
        PROVE  CallInv'
    BY <1>7, BoundsAssumption DEF SkipStdin, answers
  <1>8. ASSUME NEW p \in Procs, PrintOut(p)
        PROVE  CallInv'
    BY <1>8, CallerFacts DEF PrintOut
  <1>9. ASSUME NEW p \in Procs, Exit(p)
        PROVE  CallInv'
    BY <1>9, CallerFacts DEF Exit, answers
  <1>10. ASSUME NEW p \in Procs, IpamDel(p)
        PROVE  CallInv'
    <2>1. p \in Plugins /\ pc[p] = "work" /\ pc' = [pc EXCEPT ![p] = "print"]
      BY <1>10 DEF IpamDel, Answer
    <2>2. UNCHANGED <<kid, have, heard>>
      BY <1>10 DEF IpamDel
    <2>3. QED
      BY <2>1, <2>2, CallerFacts
  <1>11. ASSUME NEW p \in Procs, Relay(p)
        PROVE  CallInv'
    <2>1. p \in Plugins /\ pc[p] = "decide" /\ pc' = [pc EXCEPT ![p] = "print"]
      BY <1>11 DEF Relay, Answer
    <2>2. UNCHANGED <<kid, have, heard>>
      BY <1>11 DEF Relay
    <2>3. QED
      BY <2>1, <2>2, CallerFacts
  <1>12. CASE IpamAdd
    BY <1>12, CallerFacts DEF IpamAdd, Answer
  <1>13. CASE Wire
    BY <1>13, CallerFacts DEF Wire, Answer, Call
  <1>14. CASE Undone
    BY <1>14, CallerFacts DEF Undone, Answer
  <1>15. CASE Unwire
    BY <1>15, CallerFacts DEF Unwire, Answer
  <1>16. CASE Added
    BY <1>16, CallerFacts DEF Added, Call
  <1>17. CASE Deleted
    BY <1>17, CallerFacts DEF Deleted, answers
  <1>18. ASSUME NEW p \in Procs, Kill(p)
        PROVE  CallInv'
    BY <1>18, CallerFacts DEF Kill
  <1>19. ASSUME NEW k \in Plugins, Feed(k)
        PROVE  CallInv'
    BY <1>19, CallerFacts DEF Feed, answers
  <1>20. ASSUME NEW k \in Plugins, CloseStdin(k)
        PROVE  CallInv'
    BY <1>20, CallerFacts DEF CloseStdin, answers
  <1>21. CASE UNCHANGED vars
    BY <1>21 DEF vars, pipes, answers, history
  <1>22. QED
    BY <1>1, <1>2, <1>3, <1>4, <1>5, <1>6, <1>7, <1>8, <1>9, <1>10, <1>11, <1>12, <1>13,
       <1>14, <1>15, <1>16, <1>17, <1>18, <1>19, <1>20, <1>21 DEF Next, Main, Writer

\* Every step keeps who lives while whom.
LEMMA TreeStep ==
  ASSUME BaseInv, [Next]_vars
  PROVE  TreeInv'
  <1> USE ProcFacts DEF BaseInv, TypeOK, CallInv, TreeInv, Calling
  <1>1. ASSUME NEW p \in Procs, Spawn(p)
        PROVE  TreeInv'
    BY <1>1, CallerFacts, DisturbedCounts DEF Spawn
  <1>2. ASSUME NEW p \in Procs, Drain(p)
        PROVE  TreeInv'
    BY <1>2, CallerFacts DEF Drain, history
  <1>3. ASSUME NEW p \in Procs, Wait(p)
        PROVE  TreeInv'
    BY <1>3, CallerFacts DEF Wait, history
  <1>4. ASSUME NEW p \in Procs, Join(p)
        PROVE  TreeInv'
    BY <1>4, CallerFacts DEF Join, history
  <1>5. ASSUME NEW p \in Procs, Read(p)
        PROVE  TreeInv'
    BY <1>5, CallerFacts DEF Read, history
  <1>6. ASSUME NEW p \in Procs, Decode(p)
        PROVE  TreeInv'
    BY <1>6, CallerFacts DEF Decode, Answer, Call, history
  <1>7. ASSUME NEW p \in Procs, SkipStdin(p)
        PROVE  TreeInv'
    BY <1>7, CallerFacts DEF SkipStdin, history
  <1>8. ASSUME NEW p \in Procs, PrintOut(p)
        PROVE  TreeInv'
    BY <1>8, CallerFacts DEF PrintOut, history
  <1>9. ASSUME NEW p \in Procs, Exit(p)
        PROVE  TreeInv'
    BY <1>9, CallerFacts DEF Exit, history
  <1>10. ASSUME NEW p \in Procs, IpamDel(p)
        PROVE  TreeInv'
    <2>1. p \in Plugins /\ pc[p] = "work" /\ pc' = [pc EXCEPT ![p] = "print"]
      BY <1>10 DEF IpamDel, Answer
    <2>2. UNCHANGED <<kid, killed>> /\ faults' \in Nat /\ faults' >= faults
      BY <1>10, DisturbedCounts DEF IpamDel
    <2>3. QED
      BY <2>1, <2>2, CallerFacts
  <1>11. ASSUME NEW p \in Procs, Relay(p)
        PROVE  TreeInv'
    <2>1. p \in Plugins /\ pc[p] = "decide" /\ pc' = [pc EXCEPT ![p] = "print"]
      BY <1>11 DEF Relay, Answer
    <2>2. UNCHANGED <<kid, killed, faults>>
      BY <1>11 DEF Relay, history
    <2>3. QED
      BY <2>1, <2>2, CallerFacts
  <1>12. CASE IpamAdd
    BY <1>12, CallerFacts, DisturbedCounts DEF IpamAdd, Answer
  <1>13. CASE Wire
    BY <1>13, CallerFacts DEF Wire, Answer, Call, history
  <1>14. CASE Undone
    BY <1>14, CallerFacts DEF Undone, Answer, history
  <1>15. CASE Unwire
    BY <1>15, CallerFacts DEF Unwire, Answer, history
  <1>16. CASE Added
    BY <1>16, CallerFacts DEF Added, Call, history
  <1>17. CASE Deleted
    BY <1>17, CallerFacts DEF Deleted, history
  <1>18. ASSUME NEW p \in Procs, Kill(p)
        PROVE  TreeInv'
    BY <1>18, CallerFacts, DisturbedCounts DEF Kill
  <1>19. ASSUME NEW k \in Plugins, Feed(k)
        PROVE  TreeInv'
    BY <1>19, CallerFacts DEF Feed, history
  <1>20. ASSUME NEW k \in Plugins, CloseStdin(k)
        PROVE  TreeInv'
    BY <1>20, CallerFacts DEF CloseStdin, history
  <1>21. CASE UNCHANGED vars
    BY <1>21 DEF vars, pipes, answers, history
  <1>22. QED
    BY <1>1, <1>2, <1>3, <1>4, <1>5, <1>6, <1>7, <1>8, <1>9, <1>10, <1>11, <1>12, <1>13,
       <1>14, <1>15, <1>16, <1>17, <1>18, <1>19, <1>20, <1>21 DEF Next, Main, Writer

\* Every step keeps where the units of configurations are.
LEMMA ConfStep ==
  ASSUME BaseInv, [Next]_vars
  PROVE  ConfInv'
  <1> USE ProcFacts, LengthsAssumption DEF BaseInv, TypeOK, CallInv, ConfInv, Calling
  <1>1. ASSUME NEW p \in Procs, Spawn(p)
        PROVE  ConfInv'
    <2>1. kid[p] \in Plugins /\ pc[p] = "call" /\ pc[kid[p]] = "unborn" /\ kid[p] # p
      BY <1>1 DEF Spawn
    <2>2. UNCHANGED <<got, inbox, shut, killed>>
      BY <1>1 DEF Spawn
    <2>3. \/ /\ pc' = [pc EXCEPT ![p] = "drain", ![kid[p]] = "read"]
             /\ feed' = [feed EXCEPT ![kid[p]] = ConfLen]
          \/ pc' = [pc EXCEPT ![p] = "decide"] /\ UNCHANGED feed
      BY <1>1 DEF Spawn
    <2>4. ASSUME NEW k \in Plugins, k # kid[p]
          PROVE  feed'[k] = feed[k] /\ (pc'[k] \in {"read", "unborn"} => pc'[k] = pc[k])
      BY <2>1, <2>3, <2>4
    <2>5. \/ pc'[kid[p]] = "read" /\ feed'[kid[p]] = ConfLen
          \/ pc'[kid[p]] = "unborn" /\ feed'[kid[p]] = feed[kid[p]]
      BY <2>1, <2>3
    <2>6. got[kid[p]] + inbox[kid[p]] + feed[kid[p]] = 0 /\ kid[p] \notin shut
      BY <2>1
    <2>7. got[kid[p]] = 0 /\ inbox[kid[p]] = 0 /\ feed[kid[p]] = 0
      <3>1. got[kid[p]] \in Nat /\ inbox[kid[p]] \in Nat /\ feed[kid[p]] \in Nat
        BY <2>1
      <3>2. QED
        BY ONLY <3>1, <2>6
    <2>8. ASSUME NEW k \in Plugins
          PROVE  /\ got[k] + inbox[k] + feed'[k] <= ConfLen
                 /\ pc'[k] = "read" =>
                      got[k] + inbox[k] + feed'[k] = ConfLen \/ Caller[k] \in killed
                 /\ k \in shut => feed'[k] = 0
                 /\ pc'[k] = "unborn" => got[k] + inbox[k] + feed'[k] = 0 /\ k \notin shut
      <3>1. CASE k = kid[p]
        BY ONLY <2>5, <2>6, <2>7, <3>1, LengthsAssumption
      <3>2. CASE k # kid[p]
        BY <2>4, <3>2
      <3>3. QED
        BY <3>1, <3>2
    <2>9. QED
      BY <2>2, <2>8
  <1>2. ASSUME NEW p \in Procs, Drain(p)
        PROVE  ConfInv'
    BY <1>2, CallerFacts DEF Drain, history
  <1>3. ASSUME NEW p \in Procs, Wait(p)
        PROVE  ConfInv'
    BY <1>3, CallerFacts DEF Wait, pipes, history
  <1>4. ASSUME NEW p \in Procs, Join(p)
        PROVE  ConfInv'
    BY <1>4, CallerFacts DEF Join, pipes, history
  <1>5. ASSUME NEW p \in Procs, Read(p)
        PROVE  ConfInv'
    BY <1>5, CallerFacts DEF Read, history
  <1>6. ASSUME NEW p \in Procs, Decode(p)
        PROVE  ConfInv'
    BY <1>6, CallerFacts DEF Decode, Answer, Call, pipes, history
  <1>7. ASSUME NEW p \in Procs, SkipStdin(p)
        PROVE  ConfInv'
    BY <1>7, CallerFacts DEF SkipStdin, pipes, history
  <1>8. ASSUME NEW p \in Procs, PrintOut(p)
        PROVE  ConfInv'
    BY <1>8, CallerFacts DEF PrintOut, history
  <1>9. ASSUME NEW p \in Procs, Exit(p)
        PROVE  ConfInv'
    BY <1>9, CallerFacts DEF Exit, pipes, history
  <1>10. ASSUME NEW p \in Procs, IpamDel(p)
        PROVE  ConfInv'
    BY <1>10, CallerFacts DEF IpamDel, Answer, pipes
  <1>11. ASSUME NEW p \in Procs, Relay(p)
        PROVE  ConfInv'
    BY <1>11, CallerFacts DEF Relay, Answer, pipes, history
  <1>12. CASE IpamAdd
    BY <1>12, CallerFacts DEF IpamAdd, Answer, pipes
  <1>13. CASE Wire
    BY <1>13, CallerFacts DEF Wire, Answer, Call, pipes, history
  <1>14. CASE Undone
    BY <1>14, CallerFacts DEF Undone, Answer, pipes, history
  <1>15. CASE Unwire
    BY <1>15, CallerFacts DEF Unwire, Answer, pipes, history
  <1>16. CASE Added
    BY <1>16, CallerFacts DEF Added, Call, pipes, history
  <1>17. CASE Deleted
    BY <1>17, CallerFacts DEF Deleted, pipes, history
  <1>18. ASSUME NEW p \in Procs, Kill(p)
        PROVE  ConfInv'
    BY <1>18, CallerFacts DEF Kill
  <1>19. ASSUME NEW k \in Plugins, Feed(k)
        PROVE  ConfInv'
    BY <1>19, CallerFacts DEF Feed, answers, history
  <1>20. ASSUME NEW k \in Plugins, CloseStdin(k)
        PROVE  ConfInv'
    BY <1>20, CallerFacts DEF CloseStdin, answers, history
  <1>21. CASE UNCHANGED vars
    BY <1>21 DEF vars, pipes, answers, history
  <1>22. QED
    BY <1>1, <1>2, <1>3, <1>4, <1>5, <1>6, <1>7, <1>8, <1>9, <1>10, <1>11, <1>12, <1>13,
       <1>14, <1>15, <1>16, <1>17, <1>18, <1>19, <1>20, <1>21 DEF Next, Main, Writer

\* A plugin that answers has printed nothing before.
LEMMA AnswerKeeps ==
  ASSUME BaseInv, NEW p \in Plugins, pc[p] \in {"read", "work", "decide"},
         NEW units \in Nat, units <= ResultLen \/ units <= ErrorLen,
         NEW code \in {"ok", "fail"}, code = "ok" /\ p \in AddChain => units = ResultLen,
         Answer(p, units, code), UNCHANGED <<kid, outbox, have, heard>>
  PROVE  AnswerInv'
  <1> USE ProcFacts DEF BaseInv, TypeOK, AnswerInv, CallInv
  <1>1. /\ pc' = [pc EXCEPT ![p] = "print"] /\ left' = [left EXCEPT ![p] = units]
        /\ status' = [status EXCEPT ![p] = code] /\ code # None
    BY DEF Answer, None
  <1>2. pc[Caller[p]] = "drain" /\ kid[Caller[p]] = p => have[Caller[p]] + outbox[p] = 0
    BY CallerFacts
  <1>3. ASSUME NEW k \in Plugins
        PROVE  /\ pc'[k] \notin {"print", "exit"} =>
                    outbox'[k] = 0 /\ left'[k] = 0 /\ status'[k] = None
               /\ pc'[k] \in {"print", "exit"} => status'[k] # None
               /\ pc'[k] = "exit" => left'[k] = 0
    BY <1>1
  <1>4. ASSUME NEW k \in Plugins, pc'[Caller[k]] = "drain", kid'[Caller[k]] = k
        PROVE  LET all == have'[Caller[k]] + outbox'[k] + left'[k]
               IN  /\ all <= ResultLen \/ all <= ErrorLen
                   /\ pc'[k] \notin {"print", "exit"} => all = 0
                   /\ status'[k] = "ok" /\ k \in AddChain => all = ResultLen
    <2>1. Caller[k] # p /\ pc[Caller[k]] = "drain" /\ kid[Caller[k]] = k
      BY <1>1, <1>4, CallerFacts
    <2>2. CASE k = p
      BY <1>1, <1>2, <2>1, <2>2, CallerFacts, LengthsAssumption
    <2>3. CASE k # p
      BY <1>1, <2>1, <2>3, CallerFacts
    <2>4. QED
      BY <2>2, <2>3
  <1>5. ASSUME NEW q \in Procs, pc'[q] \in {"join", "decide"}
        PROVE  /\ heard'[q] = status'[kid'[q]]
               /\ heard'[q] = "ok" /\ kid'[q] \in AddChain => have'[q] = ResultLen
    <2>1. q # p /\ pc[q] \in {"join", "decide"} /\ kid[q] # p
      BY <1>1, <1>5
    <2>2. QED
      BY <1>1, <2>1
  <1>6. QED
    BY <1>3, <1>4, <1>5

\* A process that calls a delegate has nothing of it.
LEMMA CallKeeps ==
  ASSUME BaseInv, NEW p \in Procs, pc[p] \in {"read", "decide"}, NEW k \in Plugins,
         Call(p, k), UNCHANGED <<outbox, left, status>>
  PROVE  AnswerInv'
  BY ProcFacts, CallerFacts DEF BaseInv, TypeOK, AnswerInv, CallInv, Call

\* Every step keeps where the units of answers are.
LEMMA AnswerStep ==
  ASSUME BaseInv, [Next]_vars
  PROVE  AnswerInv'
  <1> USE ProcFacts, LengthsAssumption DEF BaseInv, TypeOK, CallInv, AnswerInv, Calling
  <1>1. ASSUME NEW p \in Procs, Spawn(p)
        PROVE  AnswerInv'
    <2>1. kid[p] \in Plugins /\ Caller[kid[p]] = p /\ kid[p] # p
      BY <1>1 DEF Spawn
    <2>2. UNCHANGED <<kid, outbox, have, heard, left, status>>
      BY <1>1 DEF Spawn, answers
    <2>3. /\ pc[p] = "call" /\ pc[kid[p]] = "unborn" /\ have[p] = 0 /\ heard[p] = None
          /\ \/ pc' = [pc EXCEPT ![p] = "drain", ![kid[p]] = "read"]
             \/ pc' = [pc EXCEPT ![p] = "decide"]
      BY <1>1 DEF Spawn
    <2>4. ASSUME NEW k \in Plugins
          PROVE  /\ pc'[k] \notin {"print", "exit"} =>
                      outbox'[k] = 0 /\ left'[k] = 0 /\ status'[k] = None
                 /\ pc'[k] \in {"print", "exit"} => status'[k] # None
                 /\ pc'[k] = "exit" => left'[k] = 0
      BY <2>1, <2>2, <2>3
    <2>5. ASSUME NEW k \in Plugins, pc'[Caller[k]] = "drain", kid'[Caller[k]] = k
          PROVE  LET units == have'[Caller[k]] + outbox'[k] + left'[k]
                 IN  /\ units <= ResultLen \/ units <= ErrorLen
                     /\ pc'[k] \notin {"print", "exit"} => units = 0
                     /\ status'[k] = "ok" /\ k \in AddChain => units = ResultLen
      <3>1. k # kid[p] => /\ Caller[k] # p
                          /\ pc'[k] = pc[k] \/ (pc[k] = "call" /\ pc'[k] \in {"drain", "decide"})
        BY <2>1, <2>2, <2>3, <2>5
      <3>2. CASE k = kid[p]
        BY <2>1, <2>2, <2>3, <3>2 DEF None
      <3>3. CASE k # kid[p]
        <4>1. pc[Caller[k]] = "drain"
          BY <2>1, <2>3, <2>5, <3>1, <3>3, CallerFacts
        <4>2. QED
          BY <2>2, <2>5, <3>1, <3>3, <4>1, CallerFacts
      <3>4. QED
        BY <3>2, <3>3
    <2>6. ASSUME NEW q \in Procs, pc'[q] \in {"join", "decide"}
          PROVE  /\ heard'[q] = status'[kid'[q]]
                 /\ heard'[q] = "ok" /\ kid'[q] \in AddChain => have'[q] = ResultLen
      BY <2>1, <2>2, <2>3, <2>6 DEF None
    <2>7. QED
      BY <2>4, <2>5, <2>6
  <1>2. ASSUME NEW p \in Procs, Drain(p)
        PROVE  AnswerInv'
    <2>1. kid[p] \in Plugins /\ Caller[kid[p]] = p
      BY <1>2 DEF Drain
    <2>2. outbox' = [outbox EXCEPT ![kid[p]] = @ - 1] /\ have' = [have EXCEPT ![p] = @ + 1]
      BY <1>2 DEF Drain
    <2>3. UNCHANGED <<pc, kid, heard, left, status>> /\ pc[p] = "drain" /\ outbox[kid[p]] > 0
      BY <1>2 DEF Drain
    <2>4. \A k \in Plugins : k # kid[p] => Caller[k] # p \/ kid[Caller[k]] # k
      BY <2>1
    <2>6. ASSUME NEW k \in Plugins
          PROVE  /\ pc'[k] \notin {"print", "exit"} =>
                      outbox'[k] = 0 /\ left'[k] = 0 /\ status'[k] = None
                 /\ pc'[k] \in {"print", "exit"} => status'[k] # None
                 /\ pc'[k] = "exit" => left'[k] = 0
      BY <2>1, <2>2, <2>3
    <2>7. ASSUME NEW k \in Plugins, pc'[Caller[k]] = "drain", kid'[Caller[k]] = k
          PROVE  LET units == have'[Caller[k]] + outbox'[k] + left'[k]
                 IN  /\ units <= ResultLen \/ units <= ErrorLen
                     /\ pc'[k] \notin {"print", "exit"} => units = 0
                     /\ status'[k] = "ok" /\ k \in AddChain => units = ResultLen
      <3>1. CASE k = kid[p]
        <4>1. have'[Caller[k]] + outbox'[k] + left'[k] = have[Caller[k]] + outbox[k] + left[k]
          BY <2>1, <2>2, <2>3, <3>1
        <4>2. QED
          BY <2>1, <2>3, <3>1, <4>1
      <3>2. CASE k # kid[p]
        BY <2>2, <2>3, <2>4, <2>7, <3>2, CallerFacts
      <3>3. QED
        BY <3>1, <3>2
    <2>8. ASSUME NEW q \in Procs, pc'[q] \in {"join", "decide"}
          PROVE  /\ heard'[q] = status'[kid'[q]]
                 /\ heard'[q] = "ok" /\ kid'[q] \in AddChain => have'[q] = ResultLen
      BY <2>2, <2>3, <2>8
    <2>9. QED
      BY <2>6, <2>7, <2>8
  <1>3. ASSUME NEW p \in Procs, Wait(p)
        PROVE  AnswerInv'
    BY <1>3, CallerFacts DEF Wait, pipes
  <1>4. ASSUME NEW p \in Procs, Join(p)
        PROVE  AnswerInv'
    BY <1>4, CallerFacts DEF Join, pipes, answers
  <1>5. ASSUME NEW p \in Procs, Read(p)
        PROVE  AnswerInv'
    BY <1>5, CallerFacts DEF Read, answers
  <1>6. ASSUME NEW p \in Procs, Decode(p)
        PROVE  AnswerInv'
    <2>1. p \in Plugins /\ kid[p] = None /\ pc[p] = "read" /\ UNCHANGED outbox
      BY <1>6 DEF Decode, pipes
    <2>2. CASE Answer(p, ErrorLen, "fail") /\ UNCHANGED <<kid, have, heard>>
      BY <2>1, <2>2, AnswerKeeps
    <2>3. CASE p \in Ipam /\ pc' = [pc EXCEPT ![p] = "work"] /\ UNCHANGED <<kid, answers>>
      BY <2>1, <2>3, CallerFacts DEF answers
    <2>4. CASE p \notin Ipam /\ Call(p, Delegates[p]) /\ UNCHANGED <<left, status>>
      BY <2>1, <2>4, DelegateFacts, CallKeeps
    <2>5. QED
      BY <1>6, <2>2, <2>3, <2>4 DEF Decode
  <1>7. ASSUME NEW p \in Procs, SkipStdin(p)
        PROVE  AnswerInv'
    BY <1>7, CallerFacts DEF SkipStdin, pipes, answers
  <1>8. ASSUME NEW p \in Procs, PrintOut(p)
        PROVE  AnswerInv'
    <2>1. p \in Plugins /\ pc[p] = "print" /\ left[p] > 0 /\ UNCHANGED <<pc, kid, have, heard>>
      BY <1>8 DEF PrintOut
    <2>2. CASE /\ outbox' = [outbox EXCEPT ![p] = @ + 1] /\ left' = [left EXCEPT ![p] = @ - 1]
               /\ UNCHANGED status
      <3>1. outbox'[p] + left'[p] = outbox[p] + left[p]
        BY <2>1, <2>2
      <3>2. ASSUME NEW k \in Plugins
            PROVE  /\ pc'[k] \notin {"print", "exit"} =>
                        outbox'[k] = 0 /\ left'[k] = 0 /\ status'[k] = None
                   /\ pc'[k] \in {"print", "exit"} => status'[k] # None
                   /\ pc'[k] = "exit" => left'[k] = 0
        BY <2>1, <2>2
      <3>3. ASSUME NEW k \in Plugins, pc'[Caller[k]] = "drain", kid'[Caller[k]] = k
            PROVE  LET units == have'[Caller[k]] + outbox'[k] + left'[k]
                   IN  /\ units <= ResultLen \/ units <= ErrorLen
                       /\ pc'[k] \notin {"print", "exit"} => units = 0
                       /\ status'[k] = "ok" /\ k \in AddChain => units = ResultLen
        <4>1. outbox'[k] + left'[k] = outbox[k] + left[k]
          BY <2>1, <2>2, <3>1
        <4>2. Caller[k] \in Procs /\ pc' = pc /\ status' = status /\ kid' = kid /\ have' = have
          BY <2>1, <2>2, CallerFacts
        <4>3. have'[Caller[k]] + outbox'[k] + left'[k] = have[Caller[k]] + outbox[k] + left[k]
          <5>1. /\ have[Caller[k]] \in Nat /\ outbox[k] \in Nat /\ left[k] \in Nat
                /\ outbox'[k] \in Int /\ left'[k] \in Int
            BY <2>1, <2>2, CallerFacts
          <5>2. QED
            BY ONLY <4>1, <4>2, <5>1
        <4>4. LET units == have[Caller[k]] + outbox[k] + left[k]
              IN  /\ units <= ResultLen \/ units <= ErrorLen
                  /\ pc[k] \notin {"print", "exit"} => units = 0
                  /\ status[k] = "ok" /\ k \in AddChain => units = ResultLen
          BY <3>3, <4>2
        <4>5. QED
          BY ONLY <4>2, <4>3, <4>4
      <3>4. ASSUME NEW q \in Procs, pc'[q] \in {"join", "decide"}
            PROVE  /\ heard'[q] = status'[kid'[q]]
                   /\ heard'[q] = "ok" /\ kid'[q] \in AddChain => have'[q] = ResultLen
        BY <2>1, <2>2, <3>4
      <3>5. QED
        BY <3>2, <3>3, <3>4
    <2>3. CASE /\ left' = [left EXCEPT ![p] = 0] /\ status' = [status EXCEPT ![p] = "fail"]
               /\ UNCHANGED outbox
      BY <2>1, <2>3, CallerFacts DEF None
    <2>4. QED
      BY <1>8, <2>2, <2>3 DEF PrintOut
  <1>9. ASSUME NEW p \in Procs, Exit(p)
        PROVE  AnswerInv'
    BY <1>9, CallerFacts DEF Exit, pipes, answers
  <1>10. ASSUME NEW p \in Procs, IpamDel(p)
        PROVE  AnswerInv'
    BY <1>10, AnswerKeeps DEF IpamDel, pipes, AddChain
  <1>11. ASSUME NEW p \in Procs, Relay(p)
        PROVE  AnswerInv'
    <2>1. p \in Plugins /\ pc[p] = "decide" /\ UNCHANGED <<kid, outbox, have, heard>>
      BY <1>11 DEF Relay, pipes
    <2>2. CASE Answer(p, ErrorLen, "fail")
      BY <2>1, <2>2, AnswerKeeps
    <2>3. CASE heard[p] # None /\ Answer(p, have[p], heard[p])
      <3>1. heard[p] \in {"ok", "fail"} /\ have[p] \in Nat
        BY <2>1, <2>3 DEF Statuses
      <3>2. have[p] <= ResultLen \/ have[p] <= ErrorLen
        BY <2>1
      <3>3. p \in AddChain => kid[p] \in AddChain
        <4>1. kid[p] \in Plugins /\ Caller[kid[p]] = p
          BY <2>1
        <4>2. p \in AddChain => p = "flannel_add"
          BY <1>11 DEF Relay, AddChain
        <4>3. p = "flannel_add" => kid[p] = "bridge_add"
          BY ONLY <4>1, CallerFacts
        <4>4. QED
          BY <4>2, <4>3 DEF AddChain
      <3>4. QED
        BY <2>1, <2>3, <3>1, <3>2, <3>3, AnswerKeeps
    <2>4. QED
      BY <1>11, <2>2, <2>3 DEF Relay
  <1>12. CASE IpamAdd
    BY <1>12, AnswerKeeps DEF IpamAdd, pipes
  <1>13. CASE Wire
    BY <1>13, AnswerKeeps, CallKeeps DEF Wire, pipes
  <1>14. CASE Undone
    BY <1>14, AnswerKeeps DEF Undone, pipes
  <1>15. CASE Unwire
    BY <1>15, AnswerKeeps DEF Unwire, pipes, AddChain
  <1>16. CASE Added
    BY <1>16, CallerFacts DEF Added, Call, pipes, history
  <1>17. CASE Deleted
    BY <1>17, CallerFacts DEF Deleted, pipes, answers, history
  <1>18. ASSUME NEW p \in Procs, Kill(p)
        PROVE  AnswerInv'
    <2>1. /\ p \in Plugins /\ pc[p] \notin {"unborn", "exit"}
          /\ pc' = [pc EXCEPT ![p] = "exit"] /\ status' = [status EXCEPT ![p] = "fail"]
          /\ left' = [left EXCEPT ![p] = 0] /\ UNCHANGED <<kid, outbox, have, heard>>
      BY <1>18 DEF Kill
    <2>2. \A q \in Procs :
            pc'[q] \in {"join", "decide"} => pc[q] \in {"join", "decide"} /\ kid[q] # p
      BY <2>1
    <2>3. QED
      BY <2>1, <2>2, CallerFacts DEF None
  <1>19. ASSUME NEW k \in Plugins, Feed(k)
        PROVE  AnswerInv'
    BY <1>19, CallerFacts DEF Feed, answers
  <1>20. ASSUME NEW k \in Plugins, CloseStdin(k)
        PROVE  AnswerInv'
    BY <1>20, CallerFacts DEF CloseStdin, answers
  <1>21. CASE UNCHANGED vars
    BY <1>21 DEF vars, pipes, answers, history
  <1>22. QED
    BY <1>1, <1>2, <1>3, <1>4, <1>5, <1>6, <1>7, <1>8, <1>9, <1>10, <1>11, <1>12, <1>13,
       <1>14, <1>15, <1>16, <1>17, <1>18, <1>19, <1>20, <1>21 DEF Next, Main, Writer

-----------------------------------------------------------------------------
(* The invariants of the lease *)

\* Who was started says who called, and how far the runtime is.
LEMMA BornFacts ==
  ASSUME BaseInv
  PROVE  /\ \A k \in Plugins : Born(k) => Born(Caller[k])
         /\ kid["runtime"] \in {"flannel_add", "flannel_del"}
         /\ Born("flannel_del") => Told
         /\ Born("bridge_add") => kid["flannel_add"] = "bridge_add"
         /\ Born("bridge_del") => kid["flannel_del"] = "bridge_del"
         /\ Born("ipam_del") => kid["bridge_del"] = "ipam_del"
         /\ Born("ipam_undo") => kid["bridge_add"] = "ipam_undo"
         /\ Born("ipam_add") => kid["bridge_add"] \in {"ipam_add", "ipam_undo"}
  BY ProcFacts, CallerFacts DEF BaseInv, TypeOK, CallInv, Told, Calling

\* What a process at "decide" knows of its delegate, and which one it is.
LEMMA DecideFacts ==
  ASSUME BaseInv, NEW p \in Procs, pc[p] = "decide"
  PROVE  /\ heard[p] = status[kid[p]]
         /\ heard[p] = "ok" \/ heard[p] = "fail" <=> pc[kid[p]] = "exit"
         /\ heard[p] \in {"ok", "fail", None}
         /\ heard[p] = None => ~ Born(kid[p])
         /\ heard[p] = "ok" /\ kid[p] \in AddChain => have[p] = ResultLen
         /\ p = "flannel_add" => kid[p] = "bridge_add"
         /\ p = "bridge_add" => kid[p] \in {"ipam_add", "ipam_undo"}
         /\ p = "flannel_del" => kid[p] = "bridge_del"
         /\ p = "bridge_del" => kid[p] = "ipam_del"
  <1>1. kid[p] \in Plugins /\ Caller[kid[p]] = p
    BY KidFacts DEF Calling
  <1>2. pc[kid[p]] \in {"unborn", "exit"} /\ kid[p] \in Procs
    BY <1>1, ProcFacts DEF BaseInv, CallInv
  <1>3. heard[p] = status[kid[p]] /\ (heard[p] = "ok" /\ kid[p] \in AddChain => have[p] = ResultLen)
    BY DEF BaseInv, AnswerInv
  <1>4. pc[kid[p]] = "exit" <=> status[kid[p]] # None
    BY <1>1, <1>2 DEF BaseInv, AnswerInv
  <1>5. status[kid[p]] \in {"ok", "fail", None}
    BY <1>2 DEF BaseInv, TypeOK, Statuses
  <1>6. /\ p = "flannel_add" => kid[p] = "bridge_add"
        /\ p = "bridge_add" => kid[p] \in {"ipam_add", "ipam_undo"}
        /\ p = "flannel_del" => kid[p] = "bridge_del"
        /\ p = "bridge_del" => kid[p] = "ipam_del"
    BY ONLY <1>1, CallerFacts
  <1>7. QED
    BY ONLY <1>2, <1>3, <1>4, <1>5, <1>6 DEF None, Born

\* As long as nobody is killed, who lives lives within its callers.
LEMMA LiveFacts ==
  ASSUME BaseInv, killed = {}
  PROVE  /\ \A k \in Plugins : Alive(k) => pc[Caller[k]] = "drain" /\ kid[Caller[k]] = k
         /\ Alive("flannel_add") => ~ Told
         /\ Alive("flannel_del") => Told
         /\ \A k \in {"bridge_add", "ipam_add", "ipam_undo"} : Alive(k) => ~ Told
         /\ \A k \in {"bridge_del", "ipam_del"} : Alive(k) => Told
  <1>1. \A k \in Plugins : Alive(k) => pc[Caller[k]] = "drain" /\ kid[Caller[k]] = k
    BY DEF BaseInv, TreeInv
  <1>2. /\ Alive("flannel_add") => kid["runtime"] = "flannel_add"
        /\ Alive("flannel_del") => kid["runtime"] = "flannel_del"
        /\ Alive("bridge_add") => Alive("flannel_add")
        /\ Alive("bridge_del") => Alive("flannel_del")
        /\ \A k \in {"ipam_add", "ipam_undo"} : Alive(k) => Alive("bridge_add")
        /\ Alive("ipam_del") => Alive("bridge_del")
    BY ONLY <1>1, ProcFacts, CallerFacts DEF Alive
  <1>3. QED
    BY ONLY <1>1, <1>2 DEF Told

\* As long as nobody is killed, a plugin at the end of its stdin has all of it.
LEMMA ReadsAll ==
  ASSUME BaseInv, killed = {}, NEW k \in Plugins, pc[k] = "read", inbox[k] = 0, k \in shut
  PROVE  got[k] = ConfLen
  BY ProcFacts DEF BaseInv, TypeOK, ConfInv

\* Every step keeps a success of the ADD is one of its plugins.
LEMMA SuccessStep ==
  ASSUME IInv, [Next]_vars
  PROVE  SuccessInv'
  <1> USE ProcFacts DEF IInv, BaseInv, TypeOK, CallInv, SuccessInv, Calling, Told
  <1>1. ASSUME NEW p \in Procs, Spawn(p)
        PROVE  SuccessInv'
    BY <1>1, CallerFacts, DisturbedCounts DEF Spawn, answers
  <1>2. ASSUME NEW p \in Procs, Drain(p)
        PROVE  SuccessInv'
    BY <1>2, CallerFacts DEF Drain
  <1>3. ASSUME NEW p \in Procs, Wait(p)
        PROVE  SuccessInv'
    BY <1>3, CallerFacts DEF Wait
  <1>4. ASSUME NEW p \in Procs, Join(p)
        PROVE  SuccessInv'
    BY <1>4, CallerFacts DEF Join, answers
  <1>5. ASSUME NEW p \in Procs, Read(p)
        PROVE  SuccessInv'
    BY <1>5, CallerFacts DEF Read, answers
  <1>6. ASSUME NEW p \in Procs, Decode(p)
        PROVE  SuccessInv'
    BY <1>6, CallerFacts DEF Decode, Answer, Call, answers
  <1>7. ASSUME NEW p \in Procs, SkipStdin(p)
        PROVE  SuccessInv'
    BY <1>7, CallerFacts DEF SkipStdin, answers
  <1>8. ASSUME NEW p \in Procs, PrintOut(p)
        PROVE  SuccessInv'
    BY <1>8, CallerFacts DEF PrintOut
  <1>9. ASSUME NEW p \in Procs, Exit(p)
        PROVE  SuccessInv'
    BY <1>9, CallerFacts DEF Exit, answers
  <1>10. ASSUME NEW p \in Procs, IpamDel(p)
        PROVE  SuccessInv'
    BY <1>10, CallerFacts, DisturbedCounts DEF IpamDel, Answer
  <1>11. ASSUME NEW p \in Procs, Relay(p)
        PROVE  SuccessInv'
    <2>1. pc[p] = "decide" /\ p \in {"flannel_add", "flannel_del"}
      BY <1>11 DEF Relay
    <2>2. /\ pc' = [pc EXCEPT ![p] = "print"] /\ UNCHANGED <<kid, lease>>
          /\ \/ status' = [status EXCEPT ![p] = "fail"]
             \/ status' = [status EXCEPT ![p] = heard[p]]
      BY <1>11 DEF Relay, Answer
    <2>3. p = "flannel_add" /\ heard[p] = "ok" =>
            pc["bridge_add"] = "exit" /\ status["bridge_add"] = "ok"
      BY <2>1, DecideFacts
    <2>4. QED
      BY <2>1, <2>2, <2>3
  <1>12. CASE IpamAdd
    BY <1>12, CallerFacts, DisturbedCounts DEF IpamAdd, Answer
  <1>13. CASE Wire
    <2>1. pc["bridge_add"] = "decide" /\ kid["bridge_add"] = "ipam_add"
      BY <1>13 DEF Wire
    <2>2. status["bridge_add"] # "ok" /\ pc["bridge_add"] # "exit"
      BY <2>1, ProcFacts DEF AnswerInv, None
    <2>3. heard["bridge_add"] = "ok" => pc["ipam_add"] = "exit" /\ status["ipam_add"] = "ok"
      BY <2>1, DecideFacts
    <2>4. QED
      BY <1>13, <2>1, <2>2, <2>3 DEF Wire, Answer, Call
  <1>14. CASE Undone
    BY <1>14, CallerFacts DEF Undone, Answer
  <1>15. CASE Unwire
    BY <1>15, CallerFacts DEF Unwire, Answer
  <1>16. CASE Added
    BY <1>16, CallerFacts DEF Added, Call
  <1>17. CASE Deleted
    BY <1>17, CallerFacts DEF Deleted, answers
  <1>18. ASSUME NEW p \in Procs, Kill(p)
        PROVE  SuccessInv'
    BY <1>18, CallerFacts, DisturbedCounts DEF Kill
  <1>19. ASSUME NEW k \in Plugins, Feed(k)
        PROVE  SuccessInv'
    BY <1>19, CallerFacts DEF Feed, answers
  <1>20. ASSUME NEW k \in Plugins, CloseStdin(k)
        PROVE  SuccessInv'
    BY <1>20, CallerFacts DEF CloseStdin, answers
  <1>21. CASE UNCHANGED vars
    BY <1>21 DEF vars, pipes, answers, history
  <1>22. QED
    BY <1>1, <1>2, <1>3, <1>4, <1>5, <1>6, <1>7, <1>8, <1>9, <1>10, <1>11, <1>12, <1>13,
       <1>14, <1>15, <1>16, <1>17, <1>18, <1>19, <1>20, <1>21 DEF Next, Main, Writer

\* Every step keeps what the runtime has heard.
LEMMA ToldStep ==
  ASSUME IInv, [Next]_vars
  PROVE  ToldInv'
  <1> USE ProcFacts DEF IInv, BaseInv, TypeOK, CallInv, ToldInv, Calling, Told
  <1>1. ASSUME NEW p \in Procs, Spawn(p)
        PROVE  ToldInv'
    BY <1>1, CallerFacts, DisturbedCounts DEF Spawn, answers
  <1>2. ASSUME NEW p \in Procs, Drain(p)
        PROVE  ToldInv'
    BY <1>2, CallerFacts DEF Drain, history
  <1>3. ASSUME NEW p \in Procs, Wait(p)
        PROVE  ToldInv'
    BY <1>3, CallerFacts DEF Wait, history
  <1>4. ASSUME NEW p \in Procs, Join(p)
        PROVE  ToldInv'
    BY <1>4, CallerFacts DEF Join, answers, history
  <1>5. ASSUME NEW p \in Procs, Read(p)
        PROVE  ToldInv'
    BY <1>5, CallerFacts DEF Read, answers, history
  <1>6. ASSUME NEW p \in Procs, Decode(p)
        PROVE  ToldInv'
    BY <1>6, CallerFacts DEF Decode, Answer, Call, answers, history
  <1>7. ASSUME NEW p \in Procs, SkipStdin(p)
        PROVE  ToldInv'
    BY <1>7, CallerFacts DEF SkipStdin, answers, history
  <1>8. ASSUME NEW p \in Procs, PrintOut(p)
        PROVE  ToldInv'
    BY <1>8, CallerFacts DEF PrintOut, history
  <1>9. ASSUME NEW p \in Procs, Exit(p)
        PROVE  ToldInv'
    BY <1>9, CallerFacts DEF Exit, answers, history
  <1>10. ASSUME NEW p \in Procs, IpamDel(p)
        PROVE  ToldInv'
    BY <1>10, CallerFacts, DisturbedCounts DEF IpamDel, Answer
  <1>11. ASSUME NEW p \in Procs, Relay(p)
        PROVE  ToldInv'
    BY <1>11, CallerFacts DEF Relay, Answer, history
  <1>12. CASE IpamAdd
    BY <1>12, CallerFacts, DisturbedCounts DEF IpamAdd, Answer
  <1>13. CASE Wire
    BY <1>13, CallerFacts DEF Wire, Answer, Call, history
  <1>14. CASE Undone
    BY <1>14, CallerFacts DEF Undone, Answer, history
  <1>15. CASE Unwire
    BY <1>15, CallerFacts DEF Unwire, Answer, history
  <1>16. CASE Added
    <2>1. pc["runtime"] = "decide" /\ kid["runtime"] = "flannel_add"
      BY <1>16 DEF Added
    <2>2. /\ heard["runtime"] = status["flannel_add"]
          /\ heard["runtime"] = "ok" => have["runtime"] = ResultLen
      BY <2>1, DecideFacts DEF AddChain
    <2>3. ~ Born("flannel_add") \/ pc["flannel_add"] = "exit"
      BY <2>1
    <2>4. QED
      BY <1>16, <2>1, <2>2, <2>3 DEF Added, Call, history
  <1>17. CASE Deleted
    BY <1>17, CallerFacts DEF Deleted, answers, history
  <1>18. ASSUME NEW p \in Procs, Kill(p)
        PROVE  ToldInv'
    BY <1>18, CallerFacts, DisturbedCounts DEF Kill
  <1>19. ASSUME NEW k \in Plugins, Feed(k)
        PROVE  ToldInv'
    BY <1>19, CallerFacts DEF Feed, answers, history
  <1>20. ASSUME NEW k \in Plugins, CloseStdin(k)
        PROVE  ToldInv'
    BY <1>20, CallerFacts DEF CloseStdin, answers, history
  <1>21. CASE UNCHANGED vars
    BY <1>21 DEF vars, pipes, answers, history
  <1>22. QED
    BY <1>1, <1>2, <1>3, <1>4, <1>5, <1>6, <1>7, <1>8, <1>9, <1>10, <1>11, <1>12, <1>13,
       <1>14, <1>15, <1>16, <1>17, <1>18, <1>19, <1>20, <1>21 DEF Next, Main, Writer

\* Every step keeps that what was not started is a fault.
LEMMA SpawnStep ==
  ASSUME IInv, [Next]_vars
  PROVE  SpawnInv'
  <1> USE ProcFacts DEF IInv, BaseInv, TypeOK, CallInv, SpawnInv, Calling, Told
  <1>1. ASSUME NEW p \in Procs, Spawn(p)
        PROVE  SpawnInv'
    <2>1. kid[p] \in Plugins /\ pc[p] = "call" /\ kid[p] # p
      BY <1>1 DEF Spawn
    <2>2. UNCHANGED <<kid, told>> /\ faults' >= faults /\ faults' \in Nat
      BY <1>1, DisturbedCounts DEF Spawn
    <2>3. told.faults <= faults /\ told.faults \in Nat
      BY DEF ToldInv
    <2>4. \/ pc' = [pc EXCEPT ![p] = "drain", ![kid[p]] = "read"]
          \/ pc' = [pc EXCEPT ![p] = "decide"] /\ faults' = faults + 1
      BY <1>1, DisturbedCounts DEF Spawn
    <2>5. QED
      BY <2>1, <2>2, <2>3, <2>4
  <1>2. ASSUME NEW p \in Procs, Drain(p)
        PROVE  SpawnInv'
    BY <1>2, CallerFacts DEF Drain, history
  <1>3. ASSUME NEW p \in Procs, Wait(p)
        PROVE  SpawnInv'
    BY <1>3, CallerFacts DEF Wait, history
  <1>4. ASSUME NEW p \in Procs, Join(p)
        PROVE  SpawnInv'
    BY <1>4, CallerFacts DEF Join, history
  <1>5. ASSUME NEW p \in Procs, Read(p)
        PROVE  SpawnInv'
    BY <1>5, CallerFacts DEF Read, history
  <1>6. ASSUME NEW p \in Procs, Decode(p)
        PROVE  SpawnInv'
    BY <1>6, CallerFacts DEF Decode, Answer, Call, history
  <1>7. ASSUME NEW p \in Procs, SkipStdin(p)
        PROVE  SpawnInv'
    BY <1>7, CallerFacts DEF SkipStdin, history
  <1>8. ASSUME NEW p \in Procs, PrintOut(p)
        PROVE  SpawnInv'
    BY <1>8, CallerFacts DEF PrintOut, history
  <1>9. ASSUME NEW p \in Procs, Exit(p)
        PROVE  SpawnInv'
    BY <1>9, CallerFacts DEF Exit, history
  <1>10. ASSUME NEW p \in Procs, IpamDel(p)
        PROVE  SpawnInv'
    <2>1. p \in Plugins /\ pc[p] = "work" /\ pc' = [pc EXCEPT ![p] = "print"]
      BY <1>10 DEF IpamDel, Answer
    <2>2. UNCHANGED <<kid, told>> /\ faults' \in Nat /\ faults' >= faults
      BY <1>10, DisturbedCounts DEF IpamDel
    <2>3. QED
      BY <2>1, <2>2
  <1>11. ASSUME NEW p \in Procs, Relay(p)
        PROVE  SpawnInv'
    <2>1. p \in Plugins /\ pc[p] = "decide" /\ pc' = [pc EXCEPT ![p] = "print"]
      BY <1>11 DEF Relay, Answer
    <2>2. UNCHANGED <<kid, told, faults>>
      BY <1>11 DEF Relay, history
    <2>3. QED
      BY <2>1, <2>2
  <1>12. CASE IpamAdd
    BY <1>12, CallerFacts, DisturbedCounts DEF IpamAdd, Answer
  <1>13. CASE Wire
    BY <1>13, CallerFacts DEF Wire, Answer, Call, history
  <1>14. CASE Undone
    BY <1>14, CallerFacts DEF Undone, Answer, history
  <1>15. CASE Unwire
    BY <1>15, CallerFacts DEF Unwire, Answer, history
  <1>16. CASE Added
    <2>1. kid["runtime"] = "flannel_add" /\ ~ Told
      BY <1>16 DEF Added
    <2>2. ~ Born("flannel_del") /\ ~ Born("bridge_del")
      BY <2>1, BornFacts, CallerFacts
    <2>3. \A q \in Procs : pc[q] = "decide" /\ kid[q] \in DelChain => q = "runtime"
      <3>1. ASSUME NEW q \in Procs, pc[q] = "decide", kid[q] \in DelChain
            PROVE  q = "runtime"
        <4>1. Caller[kid[q]] = q /\ kid[q] \in Plugins
          BY <3>1
        <4>2. q \in {"runtime", "flannel_del", "bridge_del"}
          BY ONLY <3>1, <4>1, CallerFacts DEF DelChain
        <4>3. QED
          BY <2>2, <3>1, <4>2
      <3>2. QED
        BY <3>1
    <2>4. pc' = [pc EXCEPT !["runtime"] = "call"] /\ UNCHANGED faults
      BY <1>16 DEF Added, Call, history
    <2>5. kid' = [kid EXCEPT !["runtime"] = "flannel_del"]
      BY <1>16 DEF Added, Call
    <2>6. QED
      BY <2>3, <2>4, <2>5
  <1>17. CASE Deleted
    BY <1>17, CallerFacts DEF Deleted, history
  <1>18. ASSUME NEW p \in Procs, Kill(p)
        PROVE  SpawnInv'
    BY <1>18, CallerFacts, DisturbedCounts DEF Kill
  <1>19. ASSUME NEW k \in Plugins, Feed(k)
        PROVE  SpawnInv'
    BY <1>19, CallerFacts DEF Feed, history
  <1>20. ASSUME NEW k \in Plugins, CloseStdin(k)
        PROVE  SpawnInv'
    BY <1>20, CallerFacts DEF CloseStdin, history
  <1>21. CASE UNCHANGED vars
    BY <1>21 DEF vars, pipes, answers, history
  <1>22. QED
    BY <1>1, <1>2, <1>3, <1>4, <1>5, <1>6, <1>7, <1>8, <1>9, <1>10, <1>11, <1>12, <1>13,
       <1>14, <1>15, <1>16, <1>17, <1>18, <1>19, <1>20, <1>21 DEF Next, Main, Writer

\* Every step keeps that a failure leaves no lease.
LEMMA FailureStep ==
  ASSUME IInv, [Next]_vars
  PROVE  FailureInv'
  <1> USE ProcFacts DEF IInv, BaseInv, TypeOK, CallInv, FailureInv, Calling, Told
  <1>1. ASSUME NEW p \in Procs, Spawn(p)
        PROVE  FailureInv'
    BY <1>1, CallerFacts, DisturbedCounts DEF Spawn, answers
  <1>2. ASSUME NEW p \in Procs, Drain(p)
        PROVE  FailureInv'
    BY <1>2, CallerFacts DEF Drain, history
  <1>3. ASSUME NEW p \in Procs, Wait(p)
        PROVE  FailureInv'
    BY <1>3, CallerFacts DEF Wait, history
  <1>4. ASSUME NEW p \in Procs, Join(p)
        PROVE  FailureInv'
    BY <1>4, CallerFacts DEF Join, answers, history
  <1>5. ASSUME NEW p \in Procs, Read(p)
        PROVE  FailureInv'
    BY <1>5, CallerFacts DEF Read, answers, history
  <1>6. ASSUME NEW p \in Procs, Decode(p)
        PROVE  FailureInv'
    <2>1. SUFFICES ASSUME faults' = 0
                   PROVE  FailureInv'
      BY DEF FailureInv
    <2>2. pc[p] = "read" /\ inbox[p] = 0 /\ p \in shut /\ p \in Plugins
          /\ UNCHANGED <<lease, faults>>
      BY <1>6 DEF Decode, history
    <2>3. killed = {} /\ got[p] = ConfLen
      BY <2>1, <2>2, ReadsAll DEF TreeInv
    <2>4. p \in {"flannel_add", "bridge_add"} => ~ lease
      <3>1. status["ipam_add"] # None => Born("ipam_add")
        BY ProcFacts DEF AnswerInv
      <3>2. kid[p] = None /\ status["ipam_add"] # None => p \notin {"flannel_add", "bridge_add"}
        BY <2>2, <3>1, BornFacts, CallerFacts DEF None
      <3>3. QED
        BY <2>1, <2>2, <3>2 DEF None
    <2>5. CASE p \in {"flannel_add", "bridge_add"} /\ Answer(p, ErrorLen, "fail")
      BY <2>1, <2>2, <2>4, <2>5 DEF Answer
    <2>6. CASE /\ UNCHANGED status /\ pc'[p] \in {"work", "call"}
               /\ \A q \in Procs : q # p => pc'[q] = pc[q]
      BY <2>1, <2>2, <2>6
    <2>7. QED
      BY <1>6, <2>3, <2>5, <2>6 DEF Decode, Answer, Call, answers
  <1>7. ASSUME NEW p \in Procs, SkipStdin(p)
        PROVE  FailureInv'
    BY <1>7, CallerFacts DEF SkipStdin, answers, history
  <1>8. ASSUME NEW p \in Procs, PrintOut(p)
        PROVE  FailureInv'
    <2>1. SUFFICES ASSUME faults' = 0
                   PROVE  FailureInv'
      BY DEF FailureInv
    <2>2. p \in Plugins /\ pc[p] = "print" /\ UNCHANGED <<pc, lease, faults>>
      BY <1>8 DEF PrintOut, history
    <2>3. Alive(Caller[p])
      BY <2>1, <2>2, CallerFacts DEF TreeInv
    <2>4. UNCHANGED status
      BY <1>8, <2>3 DEF PrintOut
    <2>5. QED
      BY <2>1, <2>2, <2>4
  <1>9. ASSUME NEW p \in Procs, Exit(p)
        PROVE  FailureInv'
    BY <1>9, CallerFacts DEF Exit, answers, history
  <1>10. ASSUME NEW p \in Procs, IpamDel(p)
        PROVE  FailureInv'
    BY <1>10, CallerFacts, DisturbedCounts DEF IpamDel, Answer
  <1>11. ASSUME NEW p \in Procs, Relay(p)
        PROVE  FailureInv'
    <2>1. SUFFICES ASSUME faults' = 0
                   PROVE  FailureInv'
      BY DEF FailureInv
    <2>2. pc[p] = "decide" /\ p \in {"flannel_add", "flannel_del"} /\ UNCHANGED <<lease, faults>>
      BY <1>11 DEF Relay, history
    <2>3. heard[p] # None
      BY <2>1, <2>2, DecideFacts DEF SpawnInv
    <2>4. pc' = [pc EXCEPT ![p] = "print"] /\ status' = [status EXCEPT ![p] = heard[p]]
      BY <1>11, <2>3 DEF Relay, Answer
    <2>5. p = "flannel_add" => heard[p] = status["bridge_add"]
      BY <2>2, DecideFacts
    <2>6. QED
      BY <2>1, <2>2, <2>4, <2>5
  <1>12. CASE IpamAdd
    <2>1. SUFFICES ASSUME faults' = 0
                   PROVE  FailureInv'
      BY DEF FailureInv
    <2>2. pc["ipam_add"] = "work" /\ faults = 0
      BY <1>12, <2>1, DisturbedCounts DEF IpamAdd
    <2>3. pc["bridge_add"] = "drain" /\ kid["bridge_add"] = "ipam_add"
          /\ pc["flannel_add"] = "drain"
      BY <2>2, CallerFacts DEF TreeInv
    <2>4. ~ Born("ipam_undo") /\ status["bridge_add"] = None /\ status["flannel_add"] = None
      BY <2>3, BornFacts DEF AnswerInv
    <2>5. lease' => lease \/ status'["ipam_add"] = "ok"
      <3>1. ~ Disturbed("ipam_fails")
        BY <2>1, <2>2, DisturbedCounts
      <3>2. Answer("ipam_add", ResultLen, "ok") => status'["ipam_add"] = "ok"
        BY DEF Answer
      <3>3. Answer("ipam_add", ResultLen, "ok") \/ UNCHANGED lease
        BY ONLY <1>12, <3>1 DEF IpamAdd
      <3>4. QED
        BY ONLY <3>2, <3>3
    <2>6. status["ipam_add"] = None
      BY <2>2 DEF AnswerInv
    <2>7. \/ UNCHANGED status
          \/ \A q \in Procs : q # "ipam_add" => status'[q] = status[q] /\ pc'[q] = pc[q]
      BY <1>12 DEF IpamAdd, Answer
    <2>8. QED
      BY <2>1, <2>2, <2>4, <2>5, <2>6, <2>7 DEF None
  <1>13. CASE Wire
    <2>1. SUFFICES ASSUME faults' = 0
                   PROVE  FailureInv'
      BY DEF FailureInv
    <2>2. pc["bridge_add"] = "decide" /\ kid["bridge_add"] = "ipam_add"
          /\ UNCHANGED <<lease, faults>>
      BY <1>13 DEF Wire, history
    <2>3. heard["bridge_add"] # "ok" => ~ lease
      BY <2>1, <2>2, DecideFacts
    <2>4. QED
      BY <1>13, <2>1, <2>2, <2>3 DEF Wire, Answer, Call
  <1>14. CASE Undone
    <2>1. SUFFICES ASSUME faults' = 0
                   PROVE  FailureInv'
      BY DEF FailureInv
    <2>2. pc["bridge_add"] = "decide" /\ kid["bridge_add"] = "ipam_undo"
          /\ UNCHANGED <<lease, faults>>
      BY <1>14 DEF Undone, history
    <2>3. ~ lease
      BY <2>1, <2>2 DEF SpawnInv
    <2>4. QED
      BY <1>14, <2>1, <2>2, <2>3 DEF Undone, Answer
  <1>15. CASE Unwire
    BY <1>15, CallerFacts DEF Unwire, Answer, history
  <1>16. CASE Added
    BY <1>16, CallerFacts DEF Added, Call, history
  <1>17. CASE Deleted
    BY <1>17, CallerFacts DEF Deleted, answers, history
  <1>18. ASSUME NEW p \in Procs, Kill(p)
        PROVE  FailureInv'
    BY <1>18, CallerFacts, DisturbedCounts DEF Kill
  <1>19. ASSUME NEW k \in Plugins, Feed(k)
        PROVE  FailureInv'
    BY <1>19, CallerFacts DEF Feed, answers, history
  <1>20. ASSUME NEW k \in Plugins, CloseStdin(k)
        PROVE  FailureInv'
    BY <1>20, CallerFacts DEF CloseStdin, answers, history
  <1>21. CASE UNCHANGED vars
    BY <1>21 DEF vars, pipes, answers, history
  <1>22. QED
    BY <1>1, <1>2, <1>3, <1>4, <1>5, <1>6, <1>7, <1>8, <1>9, <1>10, <1>11, <1>12, <1>13,
       <1>14, <1>15, <1>16, <1>17, <1>18, <1>19, <1>20, <1>21 DEF Next, Main, Writer

\* Every step keeps that the DEL frees the lease.
LEMMA FreedStep ==
  ASSUME IInv, [Next]_vars
  PROVE  FreedInv'
  <1> USE ProcFacts DEF IInv, BaseInv, TypeOK, CallInv, FreedInv, Calling, Told
  <1>1. ASSUME NEW p \in Procs, Spawn(p)
        PROVE  FreedInv'
    <2>1. kid[p] \in Plugins /\ pc[p] = "call" /\ kid[p] # p
      BY <1>1 DEF Spawn
    <2>2. UNCHANGED <<kid, told, lease, killed>>
      BY <1>1 DEF Spawn
    <2>3. told.faults <= faults /\ told.faults \in Nat
      BY DEF ToldInv
    <2>4. CASE pc' = [pc EXCEPT ![p] = "drain", ![kid[p]] = "read"] /\ UNCHANGED faults
      BY <2>1, <2>2, <2>4
    <2>5. CASE faults' = faults + 1
      BY <2>2, <2>3, <2>5
    <2>6. QED
      BY <1>1, <2>4, <2>5, DisturbedCounts DEF Spawn
  <1>2. ASSUME NEW p \in Procs, Drain(p)
        PROVE  FreedInv'
    BY <1>2, CallerFacts DEF Drain, history
  <1>3. ASSUME NEW p \in Procs, Wait(p)
        PROVE  FreedInv'
    BY <1>3, CallerFacts DEF Wait, history
  <1>4. ASSUME NEW p \in Procs, Join(p)
        PROVE  FreedInv'
    BY <1>4, CallerFacts DEF Join, history
  <1>5. ASSUME NEW p \in Procs, Read(p)
        PROVE  FreedInv'
    BY <1>5, CallerFacts DEF Read, history
  <1>6. ASSUME NEW p \in Procs, Decode(p)
        PROVE  FreedInv'
    <2>1. SUFFICES ASSUME killed = {}
                   PROVE  FreedInv'
      BY <1>6 DEF FreedInv, Decode, history
    <2>2. pc[p] = "read" /\ inbox[p] = 0 /\ p \in shut /\ p \in Plugins
      BY <1>6 DEF Decode
    <2>3. UNCHANGED <<lease, faults, told, killed>> /\ got[p] = ConfLen
      BY <1>6, <2>1, <2>2, ReadsAll DEF Decode, history
    <2>4. CASE p \in {"flannel_add", "bridge_add"} /\ Answer(p, ErrorLen, "fail") /\ UNCHANGED kid
      BY <2>3, <2>4 DEF Answer
    <2>5. CASE p \in Ipam /\ pc' = [pc EXCEPT ![p] = "work"] /\ UNCHANGED kid
      BY <2>2, <2>3, <2>5
    <2>6. CASE Call(p, Delegates[p])
      BY <2>2, <2>3, <2>6 DEF Call
    <2>7. QED
      BY <1>6, <2>3, <2>4, <2>5, <2>6 DEF Decode
  <1>7. ASSUME NEW p \in Procs, SkipStdin(p)
        PROVE  FreedInv'
    BY <1>7, CallerFacts DEF SkipStdin, history
  <1>8. ASSUME NEW p \in Procs, PrintOut(p)
        PROVE  FreedInv'
    BY <1>8, CallerFacts DEF PrintOut, history
  <1>9. ASSUME NEW p \in Procs, Exit(p)
        PROVE  FreedInv'
    BY <1>9, CallerFacts DEF Exit, history
  <1>10. ASSUME NEW p \in Procs, IpamDel(p)
        PROVE  FreedInv'
    <2>1. told.faults <= faults /\ told.faults \in Nat
      BY DEF ToldInv
    <2>2. pc' = [pc EXCEPT ![p] = "print"] /\ p \in {"ipam_undo", "ipam_del"}
      BY <1>10 DEF IpamDel, Answer
    <2>3. UNCHANGED <<kid, told, killed>>
      BY <1>10 DEF IpamDel
    <2>4. lease' = FALSE \/ faults' = faults + 1
      BY <1>10, DisturbedCounts DEF IpamDel
    <2>5. QED
      BY <2>1, <2>2, <2>3, <2>4
  <1>11. ASSUME NEW p \in Procs, Relay(p)
        PROVE  FreedInv'
    BY <1>11, CallerFacts DEF Relay, Answer, history
  <1>12. CASE IpamAdd
    <2>1. Told => killed # {}
      BY <1>12, LiveFacts DEF IpamAdd
    <2>2. UNCHANGED <<kid, killed>>
      BY <1>12 DEF IpamAdd
    <2>3. QED
      BY <2>1, <2>2 DEF FreedInv
  <1>13. CASE Wire
    BY <1>13, CallerFacts DEF Wire, Answer, Call, history
  <1>14. CASE Undone
    BY <1>14, CallerFacts DEF Undone, Answer, history
  <1>15. CASE Unwire
    BY <1>15, CallerFacts DEF Unwire, Answer, history
  <1>16. CASE Added
    BY <1>16, CallerFacts DEF Added, Call, history
  <1>17. CASE Deleted
    BY <1>17, CallerFacts DEF Deleted, history
  <1>18. ASSUME NEW p \in Procs, Kill(p)
        PROVE  FreedInv'
    BY <1>18, CallerFacts, DisturbedCounts DEF Kill
  <1>19. ASSUME NEW k \in Plugins, Feed(k)
        PROVE  FreedInv'
    BY <1>19, CallerFacts DEF Feed, history
  <1>20. ASSUME NEW k \in Plugins, CloseStdin(k)
        PROVE  FreedInv'
    BY <1>20, CallerFacts DEF CloseStdin, history
  <1>21. CASE UNCHANGED vars
    BY <1>21 DEF vars, pipes, answers, history
  <1>22. QED
    BY <1>1, <1>2, <1>3, <1>4, <1>5, <1>6, <1>7, <1>8, <1>9, <1>10, <1>11, <1>12, <1>13,
       <1>14, <1>15, <1>16, <1>17, <1>18, <1>19, <1>20, <1>21 DEF Next, Main, Writer

-----------------------------------------------------------------------------
(* The theorems *)

LEMMA InitHolds == Init => IInv
  <1> SUFFICES ASSUME Init PROVE IInv
    OBVIOUS
  <1>1. TypeOK
    <2>1. 0 \in 0 .. ConfLen /\ 0 \in 0 .. Cap /\ 0 \in 0 .. MaxFaults
          /\ 0 \in 0 .. (IF ResultLen > ErrorLen THEN ResultLen ELSE ErrorLen)
      BY LengthsAssumption, BoundsAssumption
    <2>2. pc \in [Procs -> Pcs]
      BY DEF Init, Pcs
    <2>3. kid \in [Procs -> Plugins \cup {None}]
      BY ProcFacts DEF Init
    <2>4. lease \in BOOLEAN
      BY DEF Init
    <2>5. QED
      BY <2>1, <2>2, <2>3, <2>4 DEF Init, TypeOK, Statuses
  <1>2. kid["runtime"] = "flannel_add" /\ pc["runtime"] = "call"
        /\ \A k \in Plugins : pc[k] = "unborn" /\ kid[k] = None
    BY ProcFacts, CallerFacts DEF Init
  <1>3. CallInv
    BY <1>2, ProcFacts, CallerFacts DEF CallInv, Init, Calling, None
  <1>4. TreeInv
    BY <1>2, ProcFacts DEF TreeInv, Init
  <1>5. ConfInv
    BY <1>2, ProcFacts, LengthsAssumption DEF ConfInv, Init
  <1>6. AnswerInv
    BY <1>2, ProcFacts, CallerFacts DEF AnswerInv, Init
  <1>7. SuccessInv /\ ToldInv /\ SpawnInv /\ FailureInv /\ FreedInv
    BY <1>2, ProcFacts, CallerFacts
       DEF Init, SuccessInv, ToldInv, SpawnInv, FailureInv, FreedInv, Told, None
  <1>8. QED
    BY <1>1, <1>3, <1>4, <1>5, <1>6, <1>7 DEF IInv, BaseInv

LEMMA StepKeeps == IInv /\ [Next]_vars => IInv'
  BY TypeStep, CallStep, TreeStep, ConfStep, AnswerStep,
     SuccessStep, ToldStep, SpawnStep, FailureStep, FreedStep DEF IInv, BaseInv

\* The inductive invariant holds in every state.
THEOREM Invariance == Spec => []IInv
  BY InitHolds, StepKeeps, PTL DEF Spec

\* Every variable keeps its type, and no pipe holds more than Cap (the state of
\* the chain and of run_delegate).
THEOREM Typing == Spec => []TypeOK
  <1>1. IInv => TypeOK
    BY DEF IInv, BaseInv
  <1>2. QED
    BY <1>1, Invariance, PTL

\* A plugin decodes the whole configuration, whatever the lengths and the pipes,
\* unless its caller was killed (run_delegate and read_stdin).
THEOREM ConfigsWhole == Spec => []ConfigWhole
  <1>1. IInv => ConfigWhole
    BY ProcFacts DEF IInv, BaseInv, TypeOK, ConfInv, ConfigWhole
  <1>2. QED
    BY <1>1, Invariance, PTL

\* The runtime's answer agrees with the pool's lease: success with the whole
\* result and a lease, failure with none unless something went wrong on the way
\* (run of flannel, cmd_add of bridge).
THEOREM AnswersMatchLease == Spec => []AnswerMatchesLease
  <1>1. ASSUME IInv
        PROVE  AnswerMatchesLease
    <2>1. SUFFICES ASSUME told.status # None, ~ Born("flannel_del")
                   PROVE  IF told.status = "ok"
                          THEN lease /\ told.units = ResultLen
                          ELSE lease => faults > 0
      BY DEF AnswerMatchesLease
    <2>2. told.status = status["flannel_add"] /\ (told.status = "ok" => told.units = ResultLen)
      BY <1>1, <2>1 DEF IInv, ToldInv
    <2>3. ~ Born("bridge_del") /\ ~ Born("ipam_del")
      BY <1>1, <2>1, BornFacts, CallerFacts, ProcFacts DEF IInv
    <2>4. ASSUME told.status = "ok"
          PROVE  lease
      <3>1. kid["bridge_add"] = "ipam_add" /\ status["ipam_add"] = "ok"
        BY <1>1, <2>2, <2>4 DEF IInv, SuccessInv
      <3>2. ~ Born("ipam_undo")
        BY <1>1, <3>1, BornFacts DEF IInv
      <3>3. QED
        BY <1>1, <2>3, <3>1, <3>2 DEF IInv, SuccessInv
    <2>5. ASSUME told.status # "ok", lease
          PROVE  faults > 0
      <3>1. status["flannel_add"] = "fail" /\ faults \in Nat
        BY <1>1, <2>1, <2>2, <2>5, ProcFacts, BoundsAssumption
           DEF IInv, BaseInv, TypeOK, Statuses
      <3>2. faults # 0
        BY <1>1, <2>5, <3>1 DEF IInv, FailureInv
      <3>3. QED
        BY <3>1, <3>2
    <2>6. QED
      BY <2>2, <2>4, <2>5
  <1>2. QED
    BY <1>1, Invariance, PTL

\* Nothing of an ADD that was answered goes on, and one IPAM plugin runs at a
\* time, unless a plugin was killed (wait_with_output, at every link).
THEOREM CommandsSerial == Spec => []Serial
  <1>1. ASSUME IInv
        PROVE  Serial
    <2>1. SUFFICES ASSUME killed = {}
                   PROVE  /\ told.status # None =>
                               \A p \in {"flannel_add", "bridge_add", "ipam_add", "ipam_undo"} :
                                 ~ Alive(p)
                          /\ Cardinality({p \in Ipam : Alive(p)}) <= 1
      BY DEF Serial
    <2>2. told.status # None => Told
      BY <1>1 DEF IInv, ToldInv
    <2>3. told.status # None =>
            \A p \in {"flannel_add", "bridge_add", "ipam_add", "ipam_undo"} : ~ Alive(p)
      BY <1>1, <2>1, <2>2, LiveFacts DEF IInv
    <2>4. \A p, q \in Ipam : Alive(p) /\ Alive(q) => p = q
      <3>1. /\ Alive("ipam_add") => kid["bridge_add"] = "ipam_add" /\ ~ Told
            /\ Alive("ipam_undo") => kid["bridge_add"] = "ipam_undo" /\ ~ Told
            /\ Alive("ipam_del") => Told
        BY <1>1, <2>1, LiveFacts, CallerFacts, ProcFacts DEF IInv
      <3>2. QED
        BY ONLY <3>1 DEF Ipam
    <2>5. {p \in Ipam : Alive(p)} = {} \/ \E p : {q \in Ipam : Alive(q)} = {p}
      <3>1. CASE \E p \in Ipam : Alive(p)
        <4>1. PICK p \in Ipam : Alive(p)
          BY <3>1
        <4>2. {q \in Ipam : Alive(q)} = {p}
          BY ONLY <2>4, <4>1
        <4>3. QED
          BY <4>2
      <3>2. QED
        BY <3>1
    <2>6. Cardinality({p \in Ipam : Alive(p)}) <= 1
      <3>1. Cardinality({p \in Ipam : Alive(p)}) \in {0, 1}
        BY ONLY <2>5, FS_EmptySet, FS_Singleton
      <3>2. QED
        BY <3>1
    <2>7. QED
      BY <2>3, <2>6
  <1>2. QED
    BY <1>1, Invariance, PTL

\* After the DEL the pod has no address, however its ADD went, unless a plugin
\* was killed or one of the DEL's failed (cmd_add and cmd_del of bridge).
THEOREM DelsFree == Spec => []DelFrees
  <1>1. IInv => DelFrees
    BY DEF IInv, ToldInv, FreedInv, DelFrees
  <1>2. QED
    BY <1>1, Invariance, PTL

=============================================================================
