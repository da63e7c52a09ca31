------------------------------ MODULE Portmap ------------------------------
(***************************************************************************)
(* The portmap plugin (crates/cni-portmap, crates/cni/src/iptables.rs):    *)
(* chained after the bridge plugin, it publishes a pod's ports on the node *)
(* with rules of the nat table, one iptables process at a time.  Plugins   *)
(* of several containers share the hook and top chains, and POSTROUTING    *)
(* with the rules of flanneld; each has a chain of its own for its DNATs.  *)
(*                                                                         *)
(* One step is one iptables command.  A container has at most one plugin   *)
(* process, so what a process is at is kept per container.                 *)
(***************************************************************************)
EXTENDS Integers, SequencesExt

CONSTANTS
  Containers,             \* container ids, which dn_chain keeps apart
  Ports,                  \* (hostIP, hostPort, protocol): what a mapping publishes
  Mappings,               \* per container, its sequence of ports
  Ips,                    \* pod addresses
  None, Absent,
  Disturb,                \* what may go wrong, a subset of Disturbances
  MaxFaults               \* bound on how often it does

Disturbances ==
  {"add_fails",           \* an -N, -A or -I fails
   "check_fails",         \* a -C fails though the rule is there
   "undo_fails",          \* a best-effort -D, -F or -X fails unnoticed
   "no_args",             \* DEL is called without the port mappings
   "bad_args",            \* ADD without a usable prevResult, DEL with a configuration
                          \* that cannot be decoded
   "flush",               \* another program flushes the nat table
   "killed"}              \* a process dies between two commands

ASSUME MappingsAssumption == Mappings \in [Containers -> Seq(Ports)]
ASSUME BoundsAssumption == Disturb \subseteq Disturbances /\ MaxFaults \in Nat
ASSUME ContainersAssumption == IsFiniteSet(Containers)

VARIABLES
  nat,                    \* per chain, its rules, or Absent
  state,                  \* per container: "none", "add", "ready", "failed", "del"
  at, phase,              \* its next command, and whether that is -C done
  podIp,                  \* per container, pod_ipv4 of its prevResult
  spared,                 \* history: what a fault has kept a DEL from undoing
  flushed,                \* history: who had rules, or made them, when all were flushed,
                          \* until an ADD that finds nothing left of them
  faults                  \* how many disturbances so far

vars == <<nat, state, at, phase, podIp, spared, flushed, faults>>

-----------------------------------------------------------------------------
(* The nat table: a container's own chain is named by the container *)

Hooks == {"PREROUTING", "OUTPUT", "POSTROUTING"}
Shared == Hooks \cup {"TOP", "SETMARK", "MASQ"}
Chains == Shared \cup Containers

Jump(chain) == <<"jump", chain, None>>
Mark == <<"mark", None, None>>
Masquerade == <<"masquerade", None, None>>
LocalReturn == <<"return", None, None>>        \* flanneld's, for the local subnet
Hairpin(port, i) == <<"hairpin", port, i>>     \* from the pod to its own port
Localhost(port) == <<"localhost", port, None>> \* from 127.0.0.1
Dnat(port, i) == <<"dnat", port, i>>

\* what a chain may hold: the shared ones, and a container's with these ports
SharedRules ==
  [PREROUTING |-> {Jump("TOP")}, OUTPUT |-> {Jump("TOP")},
   POSTROUTING |-> {Jump("MASQ"), LocalReturn}, TOP |-> {Jump(c) : c \in Containers},
   SETMARK |-> {Mark}, MASQ |-> {Masquerade}]

OwnRules(ports) ==
  {Hairpin(p, i) : p \in ports, i \in Ips} \cup {Localhost(p) : p \in ports}
    \cup {Dnat(p, i) : p \in ports, i \in Ips}

Rules(chain) ==
  IF chain \in Shared THEN SharedRules[chain] ELSE OwnRules(Range(Mappings[chain]))

ASSUME NamesAssumption ==
  /\ Shared \cap Containers = {} /\ None \notin Containers
  /\ \A chain \in Chains : Absent \notin Seq(Rules(chain))

Present(chain, rule) == nat[chain] # Absent /\ Contains(nat[chain], rule)

\* the first rule of a chain that satisfies a test; 0 if there is none
First(chain, Test(_)) == IF nat[chain] = Absent THEN 0 ELSE SelectInSeq(nat[chain], Test)

-----------------------------------------------------------------------------
(* What ADD runs *)

New(chain) == [op |-> "new", chain |-> chain, rule |-> None]
Append_(chain, rule) == [op |-> "append", chain |-> chain, rule |-> rule]
Insert(chain, rule) == [op |-> "insert", chain |-> chain, rule |-> rule]

\* ensure_top_chains
TopCommands ==
  << New("TOP"), Insert("PREROUTING", Jump("TOP")), Insert("OUTPUT", Jump("TOP")),
     New("SETMARK"), Append_("SETMARK", Mark),
     New("MASQ"), Append_("MASQ", Masquerade), Insert("POSTROUTING", Jump("MASQ")) >>

\* one turn of the loop of apply
MappingCommands(c, port, i) ==
  << Append_(c, Hairpin(port, i)), Append_(c, Localhost(port)), Append_(c, Dnat(port, i)) >>

\* apply: its loop runs three commands for each mapping
Commands(c, i) ==
  TopCommands \o << New(c), Append_("TOP", Jump(c)) >>
    \o [k \in 1 .. 3 * Len(Mappings[c]) |->
          MappingCommands(c, Mappings[c][(k + 2) \div 3], i)[((k + 2) % 3) + 1]]

-----------------------------------------------------------------------------
Program(c) == Commands(c, podIp[c])

TypeOK ==
  /\ \A chain \in Chains : nat[chain] # Absent => nat[chain] \in Seq(Rules(chain))
  /\ state \in [Containers -> {"none", "add", "ready", "failed", "del"}]
  /\ \A c \in Containers :
       /\ at[c] \in 0 .. (IF state[c] = "add" THEN Len(Program(c)) ELSE 3)
       /\ state[c] \in {"add", "del"} <=> at[c] # 0
  /\ phase \in [Containers -> {"check", "add"}]
  /\ podIp \in [Containers -> Ips \cup {None}]
  /\ spared \subseteq Containers /\ flushed \subseteq Containers
  /\ faults \in 0 .. MaxFaults

Init ==
  /\ nat = [chain \in Chains |-> IF chain \in Hooks THEN <<>> ELSE Absent]
  /\ state = [c \in Containers |-> "none"]
  /\ at = [c \in Containers |-> 0] /\ phase = [c \in Containers |-> "check"]
  /\ podIp = [c \in Containers |-> None]
  /\ spared = {} /\ flushed = {} /\ faults = 0

Disturbed(kind) ==
  /\ kind \in Disturb
  /\ faults < MaxFaults
  /\ faults' = faults + 1

\* the process is at its k-th command, or it ends
Turn(c, s, k) ==
  /\ state' = [state EXCEPT ![c] = s]
  /\ at' = [at EXCEPT ![c] = k]
  /\ phase' = [phase EXCEPT ![c] = "check"]

\* (faulty variant: one command too many)
NextCommandLate(c) ==
  IF at[c] > Len(Program(c)) THEN Turn(c, "ready", 0) ELSE Turn(c, "add", at[c] + 1)

NextCommand(c) ==
  IF at[c] = Len(Program(c)) THEN Turn(c, "ready", 0) ELSE Turn(c, "add", at[c] + 1)

-----------------------------------------------------------------------------
(* The runtime and flanneld *)

Shares(c, d) ==
  \E j \in DOMAIN Mappings[c], k \in DOMAIN Mappings[d] : Mappings[c][j] = Mappings[d][k]

\* a port is published for one container at a time, an address belongs to one
Fits(c, i) ==
  \A d \in Containers \ {c} :
    state[d] # "none" => /\ podIp[d] # i
                         /\ ~ Shares(c, d)

\* cmd_add: an error without a prevResult and, where there are mappings, without an
\* IPv4 address in it (pod_ipv4); nothing to do without mappings
Add(c) ==
  /\ state[c] = "none"
  /\ \E i \in Ips :
       /\ Fits(c, i)
       /\ podIp' = [podIp EXCEPT ![c] = i]
  /\ \/ /\ IF Mappings[c] = <<>> THEN Turn(c, "ready", 0) ELSE Turn(c, "add", 1)
        /\ UNCHANGED faults
     \/ Disturbed("bad_args") /\ Turn(c, "failed", 0)
  /\ flushed' = IF c \in spared THEN flushed ELSE flushed \ {c}
  /\ UNCHANGED <<nat, spared>>

\* cmd_del: nothing to do without mappings, but when the configuration cannot be
\* decoded there may be some; the runtime repeats a DEL that died
Del(c) ==
  /\ state[c] \in {"ready", "failed"}
  /\ \/ /\ IF Mappings[c] = <<>> THEN Turn(c, "none", 0) ELSE Turn(c, "del", 1)
        /\ podIp' = IF Mappings[c] = <<>> THEN [podIp EXCEPT ![c] = None] ELSE podIp
        /\ UNCHANGED <<spared, faults>>
     \/ /\ Disturbed("bad_args")
        /\ Turn(c, "del", 1)
        /\ UNCHANGED <<podIp, spared>>
     \/ /\ Mappings[c] # <<>> /\ Disturbed("no_args")
        /\ Turn(c, "none", 0)
        /\ podIp' = [podIp EXCEPT ![c] = None]
        /\ spared' = spared \cup {c}
  /\ UNCHANGED <<nat, flushed>>

\* iptables -t nat -F by another program: the chains stay, empty
FlushNat ==
  /\ Disturbed("flush")
  /\ nat' = [chain \in Chains |-> IF nat[chain] = Absent THEN Absent ELSE <<>>]
  /\ flushed' = {c \in Containers : state[c] \in {"add", "ready"}}
  /\ UNCHANGED <<state, at, phase, podIp, spared>>

\* flanneld appends its RETURN for the local subnet (IpMasq, rule 3)
FlanneldReturn ==
  /\ ~ Present("POSTROUTING", LocalReturn)
  /\ nat' = [nat EXCEPT !["POSTROUTING"] = Append(@, LocalReturn)]
  /\ UNCHANGED <<state, at, phase, podIp, spared, flushed, faults>>

-----------------------------------------------------------------------------
(* The commands of ADD: iptables.rs *)

Current(c) == Program(c)[at[c]]

Fail(c) == Disturbed("add_fails") /\ Turn(c, "failed", 0) /\ UNCHANGED nat

\* ensure_chain: -N, "exists" is no error
EnsureChain(c) ==
  /\ state[c] = "add" /\ Current(c).op = "new"
  /\ LET chain == Current(c).chain
     IN  \/ /\ nat' = IF nat[chain] = Absent THEN [nat EXCEPT ![chain] = <<>>] ELSE nat
            /\ NextCommand(c)
            /\ UNCHANGED faults
         \/ nat[chain] = Absent /\ Fail(c)
  /\ UNCHANGED <<podIp, spared, flushed>>

\* (faulty variant: the rule is added without looking)
CheckSkipped(c) ==
  /\ state[c] = "add" /\ Current(c).op # "new" /\ phase[c] = "check"
  /\ phase' = [phase EXCEPT ![c] = "add"]
  /\ UNCHANGED <<nat, state, at, podIp, spared, flushed, faults>>

\* ensure_rule, insert_rule: -C ...
CheckRule(c) ==
  /\ state[c] = "add" /\ Current(c).op # "new" /\ phase[c] = "check"
  /\ LET here == Present(Current(c).chain, Current(c).rule)
     IN  \/ here /\ NextCommand(c) /\ UNCHANGED <<spared, faults>>
         \/ /\ IF here THEN Disturbed("check_fails") /\ spared' = spared \cup {c}
                       ELSE UNCHANGED <<spared, faults>>
            /\ phase' = [phase EXCEPT ![c] = "add"]
            /\ UNCHANGED <<state, at>>
  /\ UNCHANGED <<nat, podIp, flushed>>

\* (faulty variant: insert_rule appends)
RuleAppended(c) ==
  /\ state[c] = "add" /\ Current(c).op # "new" /\ phase[c] = "add"
  /\ nat' = [nat EXCEPT ![Current(c).chain] = Append(@, Current(c).rule)]
  /\ NextCommand(c)
  /\ UNCHANGED <<podIp, spared, flushed, faults>>

\* ... then -A at the end or -I at the top; others may have added it since
PutRule(c) ==
  /\ state[c] = "add" /\ Current(c).op # "new" /\ phase[c] = "add"
  /\ LET rule == Current(c).rule
     IN  \/ /\ nat' = [nat EXCEPT ![Current(c).chain] =
                         IF Current(c).op = "insert" THEN <<rule>> \o @ ELSE Append(@, rule)]
            /\ NextCommand(c)
            /\ UNCHANGED faults
         \/ Fail(c)
  /\ UNCHANGED <<podIp, spared, flushed>>

-----------------------------------------------------------------------------
(* The commands of DEL: remove *)

\* (faulty variant: -D is not run)
UnjumpNothing(c) == at[c] = 1 /\ UNCHANGED nat

\* delete_rule: one copy of the jump
Unjump(c) ==
  /\ at[c] = 1
  /\ nat' = IF nat["TOP"] = Absent THEN nat ELSE [nat EXCEPT !["TOP"] = RemoveFirst(@, Jump(c))]

\* (faulty variant: -X without -F, which refuses a chain with rules)
FlushNothing(c) == at[c] = 2 /\ UNCHANGED nat

\* flush_delete_chain: -F ...
Flush(c) ==
  /\ at[c] = 2
  /\ nat' = IF nat[c] = Absent THEN nat ELSE [nat EXCEPT ![c] = <<>>]

\* ... and -X, which refuses a chain with rules or with jumps to it
DeleteChain(c) ==
  /\ at[c] = 3
  /\ nat' = IF nat[c] = <<>> /\ ~ Present("TOP", Jump(c))
            THEN [nat EXCEPT ![c] = Absent] ELSE nat

\* remove: three commands, none of whose errors is looked at
Undo(c) ==
  /\ state[c] = "del"
  /\ \/ /\ Unjump(c) \/ Flush(c) \/ DeleteChain(c)
        /\ UNCHANGED <<spared, faults>>
     \/ /\ Disturbed("undo_fails")
        /\ spared' = spared \cup {c}
        /\ UNCHANGED nat
  /\ IF at[c] = 3 THEN Turn(c, "none", 0) /\ podIp' = [podIp EXCEPT ![c] = None]
                  ELSE Turn(c, "del", at[c] + 1) /\ UNCHANGED podIp
  /\ UNCHANGED flushed

-----------------------------------------------------------------------------
Kill(c) ==
  /\ state[c] \in {"add", "del"} /\ Disturbed("killed")
  /\ Turn(c, "failed", 0)
  /\ UNCHANGED <<nat, podIp, spared, flushed>>

Next ==
  \/ FlanneldReturn \/ FlushNat
  \/ \E c \in Containers :
       \/ Add(c) \/ EnsureChain(c) \/ CheckRule(c) \/ PutRule(c)
       \/ Del(c) \/ Undo(c)
       \/ Kill(c)

Spec == Init /\ [][Next]_vars

-----------------------------------------------------------------------------
(* What the plugin promises *)

\* Where the first DNAT for a port is: the position of the jump in TOP and of
\* the rule in the chain jumped to
Position(port) ==
  LET i == First("TOP", LAMBDA r : /\ r[2] # None
                                   /\ First(r[2], LAMBDA q : q[1] = "dnat" /\ q[2] = port) # 0)
  IN  IF i = 0 THEN <<0, 0>>
      ELSE <<i, First(nat["TOP"][i][2], LAMBDA q : q[1] = "dnat" /\ q[2] = port)>>

Published(port) == Position(port)[1] # 0

Publisher(port) == nat["TOP"][Position(port)[1]][2]
Target(port) == nat[Publisher(port)][Position(port)[2]][3]

\* a rule of the same or an earlier chain that a packet to the port meets first
Met(port, rule) ==
  LET at_ == Position(port)
  IN  \E i \in 1 .. at_[1] :
        LET k == First(nat["TOP"][i][2], LAMBDA q : q = rule)
        IN  k # 0 /\ (i < at_[1] \/ k < at_[2])

\* From a successful ADD to the DEL a packet to a published port goes to that
\* pod, whatever plugins of other containers add and remove meanwhile, unless a
\* rule left by a failed removal comes before it (apply, remove); a flush of the
\* table is made good for the pods that are added after it, not for those before
ServesPod ==
  \A c \in Containers \ flushed : state[c] = "ready" /\ (\A d \in spared : ~ Shares(c, d)) =>
    \A k \in DOMAIN Mappings[c] :
      /\ Present("PREROUTING", Jump("TOP")) /\ Present("OUTPUT", Jump("TOP"))
      /\ Published(Mappings[c][k]) /\ Target(Mappings[c][k]) = podIp[c]

\* A packet that a rule sends on to a pod from 127.0.0.1 is masqueraded, at any
\* moment of any ADD or DEL: it is marked before the DNAT, and the jump to MASQ
\* comes before flanneld's RETURN (ensure_top_chains, apply).  Only what an ADD puts
\* in after a flush that fell within it may lack the mark
LoopbackMasqueraded ==
  \A port \in Ports : Published(port) /\ Publisher(port) \notin flushed =>
    /\ Met(port, Localhost(port))
    /\ Present("SETMARK", Mark) /\ Present("MASQ", Masquerade)
    /\ LET jump == First("POSTROUTING", LAMBDA r : r = Jump("MASQ"))
           return == First("POSTROUTING", LAMBDA r : r = LocalReturn)
       IN  jump # 0 /\ (return # 0 => jump < return)

\* A DEL leaves no rule and no chain of its container, whatever state the ADD
\* before it was in, short of those the history `spared' excuses: one of the DEL's
\* commands failed, it was called without its arguments, or an ADD put a jump twice
\* since its check missed the first (remove)
DelLeavesNothing ==
  \A c \in Containers : state[c] = "none" /\ c \notin spared =>
    nat[c] = Absent /\ ~ Present("TOP", Jump(c))

\* However many ADDs run, a shared rule has at most as many copies as there may
\* be plugins that looked for it at once (insert_rule, ensure_rule)
SharedRulesBounded ==
  \A chain \in Hooks \cup {"SETMARK", "MASQ"} :
    nat[chain] # Absent => Len(nat[chain]) <= Cardinality(Containers) + 1 + faults

=============================================================================
