------------------------------ MODULE Delegate ------------------------------
(***************************************************************************)
(* How one plugin runs another (crates/cni/src/delegate.rs) along the      *)
(* chain flannel, bridge, IPAM plugin: the caller spawns the delegate with *)
(* both ends piped, a thread of its own writes the configuration and lets  *)
(* go of the pipe, and the main thread drains the delegate's output until  *)
(* its end, waits for the exit status and joins the thread.  The runtime,  *)
(* which adds a pod and then deletes it, calls the first plugin likewise.  *)
(*                                                                         *)
(* One step moves one unit through a pipe, or is one call of a process.    *)
(* Texts are counted in units; a prefix of a configuration or of a result  *)
(* cannot be decoded.                                                      *)
(***************************************************************************)
EXTENDS Integers, FiniteSets

CONSTANTS
  ConfLen, ResultLen, ErrorLen,   \* units of a configuration, a result, an error
  Cap,                            \* units a pipe holds
  Hasty,                          \* IPAM plugins that need not read their stdin
  Disturb,                        \* what may go wrong, a subset of Disturbances
  MaxFaults                       \* bound on how often it does

Disturbances ==
  {"spawn_fails",                 \* no such plugin in CNI_PATH, or exec fails
   "ipam_fails",                  \* the IPAM plugin fails, an ADD with its lease written
   "killed"}                      \* a plugin is killed: the runtime's time-out, the OOM killer

\* the processes, and which of them each may call, in order
Procs ==
  {"runtime", "flannel_add", "bridge_add", "ipam_add", "ipam_undo",
   "flannel_del", "bridge_del", "ipam_del"}

Caller ==
  [flannel_add |-> "runtime", bridge_add |-> "flannel_add",
   ipam_add |-> "bridge_add", ipam_undo |-> "bridge_add",
   flannel_del |-> "runtime", bridge_del |-> "flannel_del", ipam_del |-> "bridge_del"]

Plugins == DOMAIN Caller
Ipam == {"ipam_add", "ipam_undo", "ipam_del"}
None == "none"

ASSUME LengthsAssumption ==
  /\ ConfLen \in Nat /\ ErrorLen \in Nat /\ ResultLen \in Nat /\ Cap \in Nat
  /\ ConfLen > 0 /\ ErrorLen > 0 /\ ResultLen > 0 /\ Cap > 0
ASSUME BoundsAssumption ==
  Hasty \subseteq Ipam /\ Disturb \subseteq Disturbances /\ MaxFaults \in Nat

VARIABLES
  pc, kid,                \* what a process does, and the delegate it is at
  feed, shut,             \* stdin: units its caller has yet to write; write end closed
  inbox, outbox,          \* units in the pipes of its stdin and stdout
  got,                    \* units it has read of its stdin
  have, heard,            \* what it has of its delegate: units of stdout, exit status
  left, status,           \* units it has yet to print, and its own exit status
  lease,                  \* the pool has an address for the pod
  told,                   \* what the runtime heard of its ADD, and the faults until then
  killed, faults          \* history: who was killed, how many disturbances

pipes == <<feed, shut, inbox, outbox>>
answers == <<have, heard, left, status>>
history == <<killed, faults>>
vars == <<pc, kid, pipes, got, answers, lease, told, history>>

Pcs == {"unborn", "read", "work", "call", "drain", "join", "decide", "print", "exit"}
Statuses == {None, "ok", "fail"}

TypeOK ==
  LET most == IF ResultLen > ErrorLen THEN ResultLen ELSE ErrorLen
  IN  /\ pc \in [Procs -> Pcs]
      /\ kid \in [Procs -> Plugins \cup {None}]
      /\ feed \in [Procs -> 0 .. ConfLen] /\ shut \subseteq Plugins
      /\ inbox \in [Procs -> 0 .. Cap] /\ outbox \in [Procs -> 0 .. Cap]
      /\ got \in [Procs -> 0 .. ConfLen]
      /\ have \in [Procs -> 0 .. most] /\ heard \in [Procs -> Statuses]
      /\ left \in [Procs -> 0 .. most] /\ status \in [Procs -> Statuses]
      /\ lease \in BOOLEAN
      /\ told \in [status : Statuses, units : 0 .. most, faults : 0 .. MaxFaults]
      /\ killed \subseteq Plugins /\ faults \in 0 .. MaxFaults

Init ==
  /\ pc = [p \in Procs |-> IF p = "runtime" THEN "call" ELSE "unborn"]
  /\ kid = [p \in Procs |-> IF p = "runtime" THEN "flannel_add" ELSE None]
  /\ feed = [p \in Procs |-> 0] /\ shut = {}
  /\ inbox = [p \in Procs |-> 0] /\ outbox = [p \in Procs |-> 0]
  /\ got = [p \in Procs |-> 0]
  /\ have = [p \in Procs |-> 0] /\ heard = [p \in Procs |-> None]
  /\ left = [p \in Procs |-> 0] /\ status = [p \in Procs |-> None]
  /\ lease = FALSE
  /\ told = [status |-> None, units |-> 0, faults |-> 0]
  /\ killed = {} /\ faults = 0

-----------------------------------------------------------------------------
Disturbed(kind) ==
  /\ kind \in Disturb
  /\ faults < MaxFaults
  /\ faults' = faults + 1

At(p, label) == pc[p] = label
GoTo(p, label) == pc' = [pc EXCEPT ![p] = label]
Alive(p) == pc[p] \notin {"unborn", "exit"}

\* a process has nothing more to do than to print so much and exit so
Answer(p, units, code) ==
  /\ GoTo(p, "print")
  /\ left' = [left EXCEPT ![p] = units]
  /\ status' = [status EXCEPT ![p] = code]

\* the process calls a delegate
Call(p, k) ==
  /\ GoTo(p, "call")
  /\ kid' = [kid EXCEPT ![p] = k]
  /\ have' = [have EXCEPT ![p] = 0]
  /\ heard' = [heard EXCEPT ![p] = None]

-----------------------------------------------------------------------------
(* run_delegate *)

\* find_in_path and spawn
Spawn(p) ==
  /\ At(p, "call")
  /\ LET k == kid[p]
     IN  \/ /\ pc' = [pc EXCEPT ![p] = "drain", ![k] = "read"]
            /\ feed' = [feed EXCEPT ![k] = ConfLen]
            /\ UNCHANGED faults
         \/ /\ Disturbed("spawn_fails")
            /\ GoTo(p, "decide")
            /\ UNCHANGED feed
  /\ UNCHANGED <<kid, shut, inbox, outbox, got, answers, lease, told, killed>>

\* (faulty variant: write for write_all, which may write only a part)
FeedOnce(k) ==
  /\ feed[k] > 0
  /\ inbox[k] < Cap
  /\ inbox' = [inbox EXCEPT ![k] = @ + 1]
  /\ feed' = [feed EXCEPT ![k] = 0]
  /\ UNCHANGED <<pc, kid, shut, outbox, got, answers, lease, told, history>>

\* the writing thread: one unit; an error, the delegate being gone, ends it
Feed(k) ==
  /\ feed[k] > 0
  /\ \/ /\ Alive(k) /\ inbox[k] < Cap
        /\ inbox' = [inbox EXCEPT ![k] = @ + 1]
        /\ feed' = [feed EXCEPT ![k] = @ - 1]
     \/ /\ At(k, "exit")
        /\ feed' = [feed EXCEPT ![k] = 0]
        /\ UNCHANGED inbox
  /\ UNCHANGED <<pc, kid, shut, outbox, got, answers, lease, told, history>>

\* ... and drops stdin
CloseStdin(k) ==
  /\ ~ At(k, "unborn") /\ feed[k] = 0 /\ k \notin shut
  /\ shut' = shut \cup {k}
  /\ UNCHANGED <<pc, kid, feed, inbox, outbox, got, answers, lease, told, history>>

\* (faulty variant: the output is drained after the configuration is written)
DrainLate(p) ==
  /\ At(p, "drain")
  /\ kid[p] \in shut
  /\ outbox[kid[p]] > 0
  /\ outbox' = [outbox EXCEPT ![kid[p]] = @ - 1]
  /\ have' = [have EXCEPT ![p] = @ + 1]
  /\ UNCHANGED <<pc, kid, feed, shut, inbox, got, heard, left, status, lease, told, history>>

\* wait_with_output: drains stdout ...
Drain(p) ==
  /\ At(p, "drain")
  /\ outbox[kid[p]] > 0
  /\ outbox' = [outbox EXCEPT ![kid[p]] = @ - 1]
  /\ have' = [have EXCEPT ![p] = @ + 1]
  /\ UNCHANGED <<pc, kid, feed, shut, inbox, got, heard, left, status, lease, told, history>>

\* (faulty variant: the end of the output passes for the end of the process)
WaitForOutput(p) ==
  /\ At(p, "drain")
  /\ outbox[kid[p]] = 0
  /\ pc[kid[p]] \in {"print", "exit"} /\ left[kid[p]] = 0
  /\ heard' = [heard EXCEPT ![p] = status[kid[p]]]
  /\ GoTo(p, "join")
  /\ UNCHANGED <<kid, pipes, got, have, left, status, lease, told, history>>

\* ... to its end, and waits for the process
Wait(p) ==
  /\ At(p, "drain")
  /\ outbox[kid[p]] = 0 /\ At(kid[p], "exit")
  /\ heard' = [heard EXCEPT ![p] = status[kid[p]]]
  /\ GoTo(p, "join")
  /\ UNCHANGED <<kid, pipes, got, have, left, status, lease, told, history>>

\* writer.join()
Join(p) ==
  /\ At(p, "join")
  /\ kid[p] \in shut
  /\ GoTo(p, "decide")
  /\ UNCHANGED <<kid, pipes, got, answers, lease, told, history>>

-----------------------------------------------------------------------------
(* The plugins *)

\* read_stdin ...
Read(p) ==
  /\ At(p, "read")
  /\ inbox[p] > 0
  /\ inbox' = [inbox EXCEPT ![p] = @ - 1]
  /\ got' = [got EXCEPT ![p] = @ + 1]
  /\ UNCHANGED <<pc, kid, feed, shut, outbox, answers, lease, told, history>>

Delegates ==
  [flannel_add |-> "bridge_add", bridge_add |-> "ipam_add",
   flannel_del |-> "bridge_del", bridge_del |-> "ipam_del"]

\* (faulty variant: a DEL without subnet.env is an error, like an ADD)
DecodeStrict(p) ==
  /\ At(p, "read")
  /\ inbox[p] = 0 /\ p \in shut
  /\ \/ /\ got[p] < ConfLen \/ p \in {"flannel_add", "flannel_del", "bridge_add"}
        /\ Answer(p, ErrorLen, "fail")
        /\ UNCHANGED <<kid, have, heard>>
     \/ p \in Ipam /\ GoTo(p, "work") /\ UNCHANGED <<kid, answers>>
     \/ p \notin Ipam /\ Call(p, Delegates[p]) /\ UNCHANGED <<left, status>>
  /\ UNCHANGED <<pipes, got, lease, told, history>>

\* ... to its end, and the decoding: what is cut short is error 6; an ADD may
\* also end before its delegate, for want of subnet.env or of the bridge
Decode(p) ==
  /\ At(p, "read")
  /\ inbox[p] = 0 /\ p \in shut
  /\ \/ /\ got[p] < ConfLen \/ p \in {"flannel_add", "bridge_add"}
        /\ Answer(p, ErrorLen, "fail")
        /\ UNCHANGED <<kid, have, heard>>
     \/ /\ got[p] = ConfLen /\ p \in Ipam
        /\ GoTo(p, "work")
        /\ UNCHANGED <<kid, answers>>
     \/ /\ got[p] = ConfLen /\ p \notin Ipam
        /\ Call(p, Delegates[p])
        /\ UNCHANGED <<left, status>>
  /\ UNCHANGED <<pipes, got, lease, told, history>>

\* "a delegate that fills its stdout pipe buffer before reading all of stdin"
SkipStdin(p) ==
  /\ At(p, "read") /\ p \in Hasty
  /\ GoTo(p, "work")
  /\ UNCHANGED <<kid, pipes, got, answers, lease, told, history>>

\* ADD of the IPAM plugin, which may find no address
IpamAdd ==
  /\ At("ipam_add", "work")
  /\ \/ Answer("ipam_add", ResultLen, "ok") /\ lease' = TRUE /\ UNCHANGED faults
     \/ Answer("ipam_add", ErrorLen, "fail") /\ UNCHANGED <<lease, faults>>
     \/ /\ Disturbed("ipam_fails")
        /\ Answer("ipam_add", ErrorLen, "fail") /\ lease' = TRUE
  /\ UNCHANGED <<kid, pipes, got, have, heard, told, killed>>

\* DEL of the IPAM plugin, which prints nothing
IpamDel(p) ==
  /\ p \in {"ipam_undo", "ipam_del"} /\ At(p, "work")
  /\ \/ Answer(p, 0, "ok") /\ lease' = FALSE /\ UNCHANGED faults
     \/ Answer(p, ErrorLen, "fail") /\ Disturbed("ipam_fails") /\ UNCHANGED lease
  /\ UNCHANGED <<kid, pipes, got, have, heard, told, killed>>

\* (faulty variant: an error of its own is printed behind the delegate's output)
RelayBoth(p) ==
  /\ p \in {"flannel_add", "flannel_del"} /\ At(p, "decide")
  /\ IF heard[p] = "ok" THEN Answer(p, have[p], "ok") ELSE Answer(p, have[p] + ErrorLen, "fail")
  /\ UNCHANGED <<kid, pipes, got, have, heard, lease, told, history>>

\* run and main of flannel: output and status of the delegate, or error 5
Relay(p) ==
  /\ p \in {"flannel_add", "flannel_del"} /\ At(p, "decide")
  /\ IF heard[p] = None
     THEN Answer(p, ErrorLen, "fail")
     ELSE Answer(p, have[p], heard[p])
  /\ UNCHANGED <<kid, pipes, got, have, heard, lease, told, history>>

\* (faulty variant: an error of wire_pod is returned at once)
WireNoUndo ==
  /\ At("bridge_add", "decide") /\ kid["bridge_add"] = "ipam_add"
  /\ \/ heard["bridge_add"] = "ok" /\ Answer("bridge_add", have["bridge_add"], "ok")
     \/ Answer("bridge_add", ErrorLen, "fail")
  /\ UNCHANGED <<kid, pipes, got, have, heard, lease, told, history>>

\* cmd_add of bridge after the IPAM plugin: its failure is relayed as an error,
\* its result once the pod is wired; an error of wire_pod has the lease undone
Wire ==
  /\ At("bridge_add", "decide") /\ kid["bridge_add"] = "ipam_add"
  /\ \/ /\ heard["bridge_add"] # "ok"
        /\ Answer("bridge_add", ErrorLen, "fail")
        /\ UNCHANGED <<kid, have, heard>>
     \/ /\ heard["bridge_add"] = "ok" /\ have["bridge_add"] = ResultLen
        /\ Answer("bridge_add", have["bridge_add"], "ok")
        /\ UNCHANGED <<kid, have, heard>>
     \/ /\ heard["bridge_add"] = "ok"
        /\ Call("bridge_add", "ipam_undo")
        /\ UNCHANGED <<left, status>>
  /\ UNCHANGED <<pipes, got, lease, told, history>>

\* ipam_del: whatever comes of it, the error of wire_pod is the answer
Undone ==
  /\ At("bridge_add", "decide") /\ kid["bridge_add"] = "ipam_undo"
  /\ Answer("bridge_add", ErrorLen, "fail")
  /\ UNCHANGED <<kid, pipes, got, have, heard, lease, told, history>>

\* cmd_del of bridge: the IPAM plugin's answer is not looked at
Unwire ==
  /\ At("bridge_del", "decide")
  /\ Answer("bridge_del", 0, "ok")
  /\ UNCHANGED <<kid, pipes, got, have, heard, lease, told, history>>

\* print!, which panics when nobody is left to read
PrintOut(p) ==
  /\ p \in Plugins /\ At(p, "print") /\ left[p] > 0
  /\ \/ /\ Alive(Caller[p]) /\ outbox[p] < Cap
        /\ outbox' = [outbox EXCEPT ![p] = @ + 1]
        /\ left' = [left EXCEPT ![p] = @ - 1]
        /\ UNCHANGED status
     \/ /\ ~ Alive(Caller[p])
        /\ left' = [left EXCEPT ![p] = 0]
        /\ status' = [status EXCEPT ![p] = "fail"]
        /\ UNCHANGED outbox
  /\ UNCHANGED <<pc, kid, feed, shut, inbox, got, have, heard, lease, told, history>>

Exit(p) ==
  /\ At(p, "print") /\ left[p] = 0
  /\ GoTo(p, "exit")
  /\ UNCHANGED <<kid, pipes, got, answers, lease, told, history>>

-----------------------------------------------------------------------------
(* The runtime *)

\* the answer to ADD; the DEL comes sooner or later, whatever it was
Added ==
  /\ At("runtime", "decide") /\ kid["runtime"] = "flannel_add"
  /\ told' = [status |-> heard["runtime"], units |-> have["runtime"], faults |-> faults]
  /\ Call("runtime", "flannel_del")
  /\ UNCHANGED <<pipes, got, left, status, lease, history>>

Deleted ==
  /\ At("runtime", "decide") /\ kid["runtime"] = "flannel_del"
  /\ GoTo("runtime", "exit")
  /\ UNCHANGED <<kid, pipes, got, answers, lease, told, history>>

\* a plugin is killed: its thread goes with it, its delegate does not
Kill(p) ==
  /\ p \in Plugins /\ Alive(p)
  /\ Disturbed("killed")
  /\ killed' = killed \cup {p}
  /\ GoTo(p, "exit")
  /\ status' = [status EXCEPT ![p] = "fail"]
  /\ left' = [left EXCEPT ![p] = 0]
  /\ IF pc[p] \in {"drain", "join"}
     THEN feed' = [feed EXCEPT ![kid[p]] = 0] /\ shut' = shut \cup {kid[p]}
     ELSE UNCHANGED <<feed, shut>>
  /\ UNCHANGED <<kid, inbox, outbox, got, have, heard, lease, told>>

-----------------------------------------------------------------------------
Main(p) ==
  \/ Spawn(p) \/ Drain(p) \/ Wait(p) \/ Join(p)
  \/ Read(p) \/ Decode(p) \/ SkipStdin(p) \/ PrintOut(p) \/ Exit(p)
  \/ IpamDel(p) \/ Relay(p)
  \/ p = "ipam_add" /\ IpamAdd
  \/ p = "bridge_add" /\ (Wire \/ Undone)
  \/ p = "bridge_del" /\ Unwire
  \/ p = "runtime" /\ (Added \/ Deleted)

Writer(k) == Feed(k) \/ CloseStdin(k)

Over == At("runtime", "exit") /\ \A p \in Plugins : ~ Alive(p)

Next ==
  \/ \E p \in Procs : Main(p) \/ Kill(p)
  \/ \E k \in Plugins : Writer(k)
  \/ Over /\ UNCHANGED vars

Spec == Init /\ [][Next]_vars

\* every thread of a process that was started runs on
Fairness ==
  /\ \A p \in Procs : WF_vars(Main(p))
  /\ \A k \in Plugins : WF_vars(Writer(k))

FairSpec == Spec /\ Fairness

-----------------------------------------------------------------------------
(* What run_delegate promises *)

\* Nobody waits for ever on a pipe: "a delegate that fills its stdout pipe buffer
\* before reading all of stdin can't deadlock against us", and whoever is killed,
\* every plugin comes to its end and the runtime to its answers (run_delegate)
Completes == <>[]Over

\* A plugin decodes the whole configuration, unless its caller was killed: short
\* writes, full pipes and the end of the thread do not cut it (run_delegate)
ConfigWhole ==
  \A p \in Plugins :
    At(p, "read") /\ inbox[p] = 0 /\ p \in shut
      => got[p] = ConfLen \/ Caller[p] \in killed

\* The runtime is told of a success only with the whole result, and while the
\* pool has the address for the pod; of a failure only when no address is left,
\* unless a plugin was killed or the IPAM plugin failed (run, cmd_add)
AnswerMatchesLease ==
  told.status # None /\ At("flannel_del", "unborn") =>
    IF told.status = "ok"
    THEN lease /\ told.units = ResultLen
    ELSE lease => faults > 0

\* Once the runtime has its answer to the ADD, nothing of the ADD goes on, and no
\* two IPAM plugins run at once, unless a plugin between them was killed: what
\* HostLocal takes for granted of one container's commands (wait_with_output)
Serial ==
  killed = {} =>
    /\ told.status # None =>
         \A p \in {"flannel_add", "bridge_add", "ipam_add", "ipam_undo"} : ~ Alive(p)
    /\ Cardinality({p \in Ipam : Alive(p)}) <= 1

\* After the DEL the pool has no address for the pod, however the ADD failed,
\* unless a plugin was killed or one of the DEL's failed (cmd_add, cmd_del)
DelFrees ==
  At("runtime", "exit") /\ killed = {} /\ faults = told.faults => ~ lease

=============================================================================
