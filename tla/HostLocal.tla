----------------------------- MODULE HostLocal -----------------------------
(***************************************************************************)
(* The host-local IPAM plugin (crates/cni-host-local): short-lived         *)
(* processes, one per CNI command, that share a directory of lease files   *)
(* and a cursor file and serialise ADD and DEL with flock.                 *)
(*                                                                         *)
(* One step is one operation on the shared directory.  A process may be    *)
(* killed, or its file operation may fail, between any two of them: what   *)
(* it had written so far stays, and its flock is gone with it.             *)
(***************************************************************************)
EXTENDS Allocator, FiniteSets

CONSTANTS
  Procs,                  \* slots for CNI processes that run at the same time
  Containers,             \* the (CNI_CONTAINERID, CNI_IFNAME) pairs
  Hosts,                  \* usable_hosts of the node's pod subnet
  Former,                 \* usable_hosts of the subnet the node had before
  Absent,                 \* no lease file for this address
  Blank,                  \* a lease file created or truncated, not yet written
  NoProc, NoContainer,
  Faulty                  \* BOOLEAN: processes are killed and file operations fail

HostsOf(hosts) == {hosts[i] : i \in DOMAIN hosts}

\* the lease files of one network name: they outlive a change of the subnet
Addrs == HostsOf(Hosts) \cup HostsOf(Former)

ASSUME HostsAssumption == Hosts \in Seq(Addrs) /\ Former \in Seq(Addrs)
ASSUME NullsAssumption ==
  /\ Absent # Blank /\ Absent \notin Containers /\ Blank \notin Containers
  /\ NoContainer \notin Containers /\ NoProc \notin Procs
  /\ NoAddr \notin Addrs
ASSUME FaultyAssumption == Faulty \in BOOLEAN

VARIABLES
  \* on disk
  lease,                  \* <dir>/<ip>, per address: its owner, Blank or Absent
  cursor,                 \* last_reserved_ip.0; NoAddr: absent, empty, unparsable
  holder,                 \* which process has the flock on <dir>/lock
  \* per process
  pc, arg,                \* where it is, and the container it is called for
  ip,                     \* ADD: the address next_ip chose
  todo,                   \* DEL, CHECK: directory entries not yet visited
  \* history, not in the program
  held,                   \* the addresses a successful ADD gave to a container
  struck                  \* files hit by a kill or an I/O error while in use

vars == <<lease, cursor, holder, pc, arg, ip, todo, held, struck>>

AddPcs == {"add_lock", "add_pick", "create_ip", "fill_ip",
           "trunc_last", "fill_last", "add_ret"}
DelPcs == {"del_lock", "del_list", "del_scan"}
CheckPcs == {"chk_list", "chk_scan"}
Pcs == {"idle"} \cup AddPcs \cup DelPcs \cup CheckPcs

\* between lock() and the end of the command; cmd_check takes no lock
Critical == {"add_pick", "create_ip", "fill_ip", "trunc_last", "fill_last",
             "add_ret", "del_list", "del_scan"}

TypeOK ==
  /\ lease \in [Addrs -> Containers \cup {Absent, Blank}]
  /\ cursor \in Addrs \cup {NoAddr}
  /\ holder \in Procs \cup {NoProc}
  /\ pc \in [Procs -> Pcs]
  /\ arg \in [Procs -> Containers \cup {NoContainer}]
  /\ ip \in [Procs -> Addrs \cup {NoAddr}]
  /\ todo \in [Procs -> SUBSET Addrs]
  /\ held \in [Containers -> SUBSET Addrs]
  /\ struck \in SUBSET Addrs

Init ==
  /\ lease = [a \in Addrs |-> Absent]
  /\ cursor = NoAddr
  /\ holder = NoProc
  /\ pc = [p \in Procs |-> "idle"]
  /\ arg = [p \in Procs |-> NoContainer]
  /\ ip = [p \in Procs |-> NoAddr]
  /\ todo = [p \in Procs |-> {}]
  /\ held = [c \in Containers |-> {}]
  /\ struck = {}

-----------------------------------------------------------------------------
\* leased(): every file named like an address counts, whatever it contains
Leased == {a \in Addrs : lease[a] # Absent}

Owned(c) == {a \in Addrs : lease[a] = c}

\* the container runtime does not run two commands of one container at once
Quiet(c) == \A p \in Procs : pc[p] # "idle" => arg[p] # c

GoTo(p, label) == pc' = [pc EXCEPT ![p] = label]

\* the process ends, by returning or otherwise; dropping the File unlocks it
Exit(p) ==
  /\ GoTo(p, "idle")
  /\ holder' = IF holder = p THEN NoProc ELSE holder
  /\ arg' = [arg EXCEPT ![p] = NoContainer]
  /\ ip' = [ip EXCEPT ![p] = NoAddr]
  /\ todo' = [todo EXCEPT ![p] = {}]

\* the runtime starts a command for c; from a DEL on, c's addresses are not
\* c's any more
Invoke(p, c, label) ==
  /\ pc[p] = "idle"
  /\ Quiet(c)
  /\ GoTo(p, label)
  /\ arg' = [arg EXCEPT ![p] = c]
  /\ held' = IF label = "del_lock" THEN [held EXCEPT ![c] = {}] ELSE held
  /\ UNCHANGED <<lease, cursor, holder, ip, todo, struck>>

\* (faulty variant: lock_shared instead of lock_exclusive)
LockShared(p) ==
  /\ pc[p] \in {"add_lock", "del_lock"}
  /\ holder' = p
  /\ GoTo(p, IF pc[p] = "add_lock" THEN "add_pick" ELSE "del_list")
  /\ UNCHANGED <<lease, cursor, arg, ip, todo, held, struck>>

\* Store::lock: blocks until no other process has the file locked
Lock(p) ==
  /\ pc[p] \in {"add_lock", "del_lock"}
  /\ holder = NoProc
  /\ holder' = p
  /\ GoTo(p, IF pc[p] = "add_lock" THEN "add_pick" ELSE "del_list")
  /\ UNCHANGED <<lease, cursor, arg, ip, todo, held, struck>>

-----------------------------------------------------------------------------
(* ADD *)

\* (faulty variants: an exhausted pool is not noticed; a `let _' drops the lock
\* where `let _lock' keeps it)
PickUnchecked(p, hosts, seen) ==
  /\ pc[p] = "add_pick"
  /\ ip' = [ip EXCEPT ![p] = NextIp(hosts, Leased, seen)]
  /\ GoTo(p, "create_ip")
  /\ UNCHANGED <<lease, cursor, holder, arg, todo, held, struck>>

PickUnlocked(p, hosts, seen) ==
  /\ pc[p] = "add_pick"
  /\ LET chosen == NextIp(hosts, Leased, seen)
     IN  IF chosen = NoAddr
         THEN Exit(p)
         ELSE /\ ip' = [ip EXCEPT ![p] = chosen]
              /\ GoTo(p, "create_ip")
              /\ holder' = NoProc
              /\ UNCHANGED <<arg, todo>>
  /\ UNCHANGED <<lease, cursor, held, struck>>

\* leased(), last_reserved() and next_ip() over the subnet of the configuration
PickFrom(p, hosts, seen) ==
  /\ pc[p] = "add_pick"
  /\ LET chosen == NextIp(hosts, Leased, seen)
     IN  IF chosen = NoAddr
         THEN Exit(p)
         ELSE /\ ip' = [ip EXCEPT ![p] = chosen]
              /\ GoTo(p, "create_ip")
              /\ UNCHANGED <<holder, arg, todo>>
  /\ UNCHANGED <<lease, cursor, held, struck>>

Pick(p) == PickFrom(p, Hosts, cursor)

\* the cursor file cannot be read, which passes for None, or the ADD still has,
\* or has again, the node's former subnet in its configuration
PickAmiss(p) ==
  /\ Faulty
  /\ \E hosts \in {Hosts, Former}, seen \in {cursor, NoAddr} : PickFrom(p, hosts, seen)

\* reserve, first fs::write: create or truncate the lease file ...
CreateIp(p) ==
  /\ pc[p] = "create_ip"
  /\ lease' = [lease EXCEPT ![ip[p]] = Blank]
  /\ GoTo(p, "fill_ip")
  /\ UNCHANGED <<cursor, holder, arg, ip, todo, held, struck>>

\* ... then write its owner
FillIp(p) ==
  /\ pc[p] = "fill_ip"
  /\ lease' = [lease EXCEPT ![ip[p]] = arg[p]]
  /\ GoTo(p, "trunc_last")
  /\ UNCHANGED <<cursor, holder, arg, ip, todo, held, struck>>

\* reserve, second fs::write: the cursor is lost before it is written again
TruncLast(p) ==
  /\ pc[p] = "trunc_last"
  /\ cursor' = NoAddr
  /\ GoTo(p, "fill_last")
  /\ UNCHANGED <<lease, holder, arg, ip, todo, held, struck>>

FillLast(p) ==
  /\ pc[p] = "fill_last"
  /\ cursor' = ip[p]
  /\ GoTo(p, "add_ret")
  /\ UNCHANGED <<lease, holder, arg, ip, todo, held, struck>>

\* cmd_add returns the result and drops the lock
AddReturn(p) ==
  /\ pc[p] = "add_ret"
  /\ held' = [held EXCEPT ![arg[p]] = @ \cup {ip[p]}]
  /\ Exit(p)
  /\ UNCHANGED <<lease, cursor, struck>>

-----------------------------------------------------------------------------
(* DEL and CHECK *)

\* read_dir of release and of has
List(p) ==
  /\ pc[p] \in {"del_list", "chk_list"}
  /\ todo' = [todo EXCEPT ![p] = Leased]
  /\ GoTo(p, IF pc[p] = "del_list" THEN "del_scan" ELSE "chk_scan")
  /\ UNCHANGED <<lease, cursor, holder, arg, ip, held, struck>>

\* (faulty variants of release: it stops at the first match; it removes the
\* files without an owner too; it truncates instead of removing; it begins
\* again after each entry of somebody else)
Visit(p, Matches(_), content, Left(_), Passed(_)) ==
  /\ pc[p] = "del_scan"
  /\ \E a \in todo[p] :
       IF Matches(a)
       THEN /\ lease' = [lease EXCEPT ![a] = content]
            /\ todo' = [todo EXCEPT ![p] = Left(a)]
       ELSE /\ todo' = [todo EXCEPT ![p] = Passed(a)]
            /\ UNCHANGED lease
  /\ UNCHANGED <<cursor, holder, pc, arg, ip, held, struck>>

ReleaseFirst(p) ==
  Visit(p, LAMBDA a : lease[a] = arg[p], Absent,
        LAMBDA a : {}, LAMBDA a : todo[p] \ {a})
ReleaseBlank(p) ==
  Visit(p, LAMBDA a : lease[a] \in {arg[p], Blank}, Absent,
        LAMBDA a : todo[p] \ {a}, LAMBDA a : todo[p] \ {a})
ReleaseTruncates(p) ==
  Visit(p, LAMBDA a : lease[a] = arg[p], Blank,
        LAMBDA a : todo[p] \ {a}, LAMBDA a : todo[p] \ {a})
ReleaseRestarts(p) ==
  Visit(p, LAMBDA a : lease[a] = arg[p], Absent,
        LAMBDA a : todo[p] \ {a}, LAMBDA a : Leased)

\* release visits one entry: a file of this container is removed, a file that
\* cannot be read passes for one of somebody else
Release(p) ==
  /\ pc[p] = "del_scan"
  /\ \E a \in todo[p] :
       /\ todo' = [todo EXCEPT ![p] = @ \ {a}]
       /\ \/ /\ lease[a] = arg[p]
             /\ lease' = [lease EXCEPT ![a] = Absent]
             /\ struck' = struck \ {a}
          \/ /\ lease[a] # arg[p]
             /\ UNCHANGED <<lease, struck>>
          \/ /\ Faulty /\ lease[a] = arg[p]
             /\ struck' = struck \cup {a}
             /\ UNCHANGED lease
  /\ UNCHANGED <<cursor, holder, pc, arg, ip, held>>

\* (faulty variant: DEL rewinds the cursor)
DelRewinds(p) ==
  /\ pc[p] = "del_scan"
  /\ todo[p] = {}
  /\ Exit(p)
  /\ cursor' = NoAddr
  /\ UNCHANGED <<lease, held, struck>>

DelReturn(p) ==
  /\ pc[p] = "del_scan"
  /\ todo[p] = {}
  /\ Exit(p)
  /\ UNCHANGED <<lease, cursor, held, struck>>

\* (faulty variant: has gives up at the first file of somebody else)
ProbedFirst(p) ==
  /\ pc[p] = "chk_scan"
  /\ \E a \in todo[p] :
       IF lease[a] = arg[p]
       THEN Exit(p)
       ELSE /\ todo' = [todo EXCEPT ![p] = {}]
            /\ UNCHANGED <<pc, holder, arg, ip>>
  /\ UNCHANGED <<lease, cursor, held, struck>>

\* has visits one entry; the first match answers the CHECK
Probed(p) ==
  /\ pc[p] = "chk_scan"
  /\ \E a \in todo[p] :
       \/ /\ lease[a] = arg[p]
          /\ Exit(p)
          /\ UNCHANGED struck
       \/ /\ lease[a] # arg[p]
          /\ todo' = [todo EXCEPT ![p] = @ \ {a}]
          /\ UNCHANGED <<pc, holder, arg, ip, struck>>
       \/ /\ Faulty /\ lease[a] = arg[p]
          /\ todo' = [todo EXCEPT ![p] = @ \ {a}]
          /\ struck' = struck \cup {a}
          /\ UNCHANGED <<pc, holder, arg, ip>>
  /\ UNCHANGED <<lease, cursor, held>>

\* every entry visited: "no allocation found for container"
CheckReturn(p) ==
  /\ pc[p] = "chk_scan"
  /\ todo[p] = {}
  /\ Exit(p)
  /\ UNCHANGED <<lease, cursor, held, struck>>

-----------------------------------------------------------------------------
\* the process is killed, or its next file operation fails and it returns the
\* error; a lease file whose content was due next stays Blank
Abort(p) ==
  /\ Faulty
  /\ pc[p] # "idle"
  /\ Exit(p)
  /\ struck' = IF pc[p] = "fill_ip" THEN struck \cup {ip[p]} ELSE struck
  /\ UNCHANGED <<lease, cursor, held>>

\* the steps of a command that runs undisturbed
Step(p) ==
  \/ Lock(p)
  \/ Pick(p) \/ CreateIp(p) \/ FillIp(p)
  \/ TruncLast(p) \/ FillLast(p) \/ AddReturn(p)
  \/ List(p) \/ Release(p) \/ DelReturn(p)
  \/ Probed(p) \/ CheckReturn(p)

Undisturbed ==
  \E p \in Procs :
    \/ \E c \in Containers, label \in {"add_lock", "del_lock", "chk_list"} :
         Invoke(p, c, label)
    \/ Step(p)

Next == Undisturbed \/ \E p \in Procs : Abort(p) \/ PickAmiss(p)

Spec == Init /\ [][Next]_vars

\* a started process keeps running: no claim on who gets the flock next, and
\* none that it is ever killed
Fairness == \A p \in Procs : WF_vars(pc[p] # "idle" /\ Step(p))

FairSpec == Spec /\ Fairness

-----------------------------------------------------------------------------
(* What the plugin promises *)

\* An address that a successful ADD gave to a container stays that
\* container's on disk until its DEL, so no other container is given it
\* (cmd_add, reserve: the choice made from leased() is not stale when written)
NoSharedAddress ==
  \A c, d \in Containers : \A a \in held[c] :
    lease[a] = c /\ (d # c => a \notin held[d])

\* A lease file with an owner is removed before it can get another one: no
\* command truncates or rewrites the lease of a container (reserve, release)
NoOverwrite ==
  [][\A a \in Addrs : lease[a] \in Containers => lease'[a] \in {lease[a], Absent}]_vars

\* An address is lost - leased to nobody, so that no DEL can free it - only
\* when a kill or an I/O error hit its own file (reserve writes in two steps)
LeakOnlyByFault ==
  \A a \in Addrs :
    lease[a] = Blank => \/ a \in struck
                        \/ \E p \in Procs : pc[p] = "fill_ip" /\ ip[p] = a

\* When DEL is about to report success, no lease of the container is left,
\* but for a file it could not read, however many the container had (release)
DelComplete ==
  \A p \in Procs :
    pc[p] = "del_scan" /\ todo[p] = {} => Owned(arg[p]) \subseteq struck

\* CHECK, which takes no lock, denies an allocation only if there is none, but
\* for a file it could not read, whatever ADD and DEL do meanwhile (cmd_check)
CheckExact ==
  \A p \in Procs :
    pc[p] = "chk_scan" /\ todo[p] = {} => Owned(arg[p]) \subseteq struck

\* A process that has the lock lets it go, by itself (lock, and the scope of
\* _lock in cmd_add and cmd_del)
LockFreed == \A p \in Procs : holder = p ~> holder # p

\* Round robin: once kills, errors and changes of the subnet have ended, and
\* while ADDs go on succeeding, no host is passed over for ever, because DEL does
\* not move the cursor back (reserve, next_ip)
RoundRobin ==
  <>[][Undisturbed]_vars /\ []<>(\E p \in Procs : pc[p] = "add_ret")
    => \A a \in HostsOf(Hosts) : []<>(lease[a] # Absent)

\* The owner of an address as the pool sees it: a lease file being written
\* belongs to its writer, a Blank one without a writer to nobody any more.
PoolOwner ==
  [a \in Addrs |->
     IF lease[a] # Blank THEN lease[a]
     ELSE IF \E p \in Procs : pc[p] = "fill_ip" /\ ip[p] = a
          THEN arg[CHOOSE p \in Procs : pc[p] = "fill_ip" /\ ip[p] = a]
          ELSE Blank]

Pool == INSTANCE IpPool WITH owner <- PoolOwner, Unowned <- Absent, Lost <- Blank

\* The commands, with all their file operations, implement the pool: every
\* step is an allocation, a release or the loss of one address, or none
ImplementsPool == Pool!Spec

=============================================================================
