# Formal models of flannel-rs

TLA+ modules, model-checking runs and machine-checked proofs about flannel-rs:
the `flanneld` daemon and the CNI plugins `flannel`, `bridge`, `host-local` and
`portmap`. `PROJECT.json` lists the components, the runs, the mutants that each
property is tested with, the source lines each definition stands for, the
findings, the hazards and the theorems.

    tlc -workers 2 -config MCHostLocal.cfg MCHostLocal     # a run
    tlapm HostLocalProofs.tla                              # the proofs of a module

## 1. The system

On every node one `flanneld` process runs, and for every pod the container
runtime starts a chain of short-lived plugin processes, once for ADD and once or
more for DEL:

    runtime -> flannel -> bridge -> host-local      then -> portmap

| component | state it keeps | operations | talks to |
|---|---|---|---|
| host-local (`cni-host-local`) | one lease file per address, the cursor file, the flock, all in `/var/lib/cni/networks/<name>` | ADD, DEL, CHECK | bridge, by exec |
| peer reconciler (`flanneld`: `main.rs` loop, `peer.rs`, `kube_mgr.rs`, `netlink.rs`) | the reflector's store, `installed`, kernel routes, neighbours and fdb entries | watch event, 60 s resync, Add and Remove of a peer | API server (watch), kernel (netlink) |
| ip-masq (`flanneld`: `ipmasq.rs`) | four rules in nat POSTROUTING of the nft or the legacy table | `detect` at start, `ensure` every 10 s | iptables; shares the tables with kube-proxy, portmap and others |
| bootstrap (`flanneld`: `main.rs`, `netlink.rs`, `kube_mgr.rs`) | `flannel.1`, the own Node's annotations, `subnet.env` | `try_bootstrap`, back-off | kernel, API server, file system |
| flannel (`cni-flannel`) | none; reads `subnet.env` | ADD, DEL | flanneld by the file, bridge by exec |
| bridge (`cni-bridge`) | the bridge, veth pairs, addresses inside namespaces | ADD, DEL | kernel, host-local by exec |
| portmap (`cni-portmap`, `cni/src/iptables.rs`) | three shared chains and one per container in the nat table | ADD, DEL | iptables; shares chains with other plugins and flanneld |
| `cni` crate | pipes and threads of a running delegate | argument, config and result decoding; `run_delegate` | all plugins |

What is hard in it:

- *concurrency*: plugin processes of different pods run at the same time over
  the same lease directory, bridge and iptables chains; only host-local has a
  lock. In `flanneld` everything runs in one `select!` loop, but the cluster
  moves during each of its awaits.
- *failure*: each netlink, iptables and file operation may fail, and the code
  treats each failure differently (returns, logs, ignores, undoes); processes
  are killed; kernel state survives a restart of the process, not of the node.
- *waiting*: a plugin and its delegate are joined by two bounded pipes and an
  exit status, three processes deep.
- *ordering*: watch events, the unordered walk of a `HashMap`, the order of
  rules in a chain, publish before `subnet.env`, IPAM DEL before interface
  deletion.
- *retries*: ADDs by the runtime, bootstrap with back-off, peers by the next
  event or tick, rules every 10 s.

What makes each component correct, in one sentence: host-local never gives an
address to two containers and loses none but through a fault at its own file; the
reconciler's `installed` is the truth about the kernel, and the kernel comes to
be what the Node objects say; the rules go to kube-proxy's table, exempt traffic
is never masqueraded and the rules come back; peers know the device that the node
has, and pods are wired with its subnet and MTU; a pod that is ready is wired, and what
is not used any more is undone; a published port reaches its pod and nothing else; a
plugin and its delegate never wait for each other for ever, and the answer to an ADD
agrees with the lease.

## 2. Modules

| module | models |
|---|---|
| `Allocator` | `alloc.rs`: the pure address chooser |
| `HostLocal` | the host-local commands over the lease directory |
| `IpPool` | what an address pool promises: the abstract specification |
| `MCHostLocal` | instances of `HostLocal`; the chooser against a reference |
| `HostLocalProofs` | theorems about `HostLocal` and the chooser |
| `Peers`, `MCPeers`, `PeersProofs` | the peer reconciler; instances; theorems about it |
| `IpMasq`, `IpMasqProofs` | the ip-masq rules; theorems about them |
| `MasqBackend`, `MasqBackendProofs` | the choice of the nat table, composed with `IpMasq`; theorems about it |
| `Bootstrap`, `BootstrapProofs` | `flanneld`'s bootstrap and the flannel plugin that reads its file; theorems about it |
| `Bridge`, `MCBridge`, `BridgeProofs` | the bridge plugin over `IpPool`; instances; theorems about it |
| `Portmap`, `MCPortmap`, `PortmapProofs` | the portmap plugin beside flanneld's rule; instances; theorems about it |
| `Delegate`, `DelegateProofs` | `run_delegate` along the chain runtime, flannel, bridge, IPAM plugin; theorems about it |

How they are composed: `HostLocal` extends `Allocator` and implements `IpPool`
(`ImplementsPool`); `Bridge` uses an instance of that same `IpPool` as its IPAM
plugin, so that what it relies on is what `HostLocal` is proved to provide.
`Portmap` contains the one rule of `IpMasq` whose order with its own matters.
`MasqBackend` extends `IpMasq`: it adds the choice, the other table and the other
programs, and embeds every step of `IpMasq` in its own. `Delegate` shows of the
chain of processes what `HostLocal` takes for granted of its callers: commands of
one container do not overlap (`Serial`).
`Bootstrap` contains both writer and reader of `subnet.env`.

Two conventions hold everywhere. A *step* is one operation on state that others
see (a file operation, a netlink call, an iptables process), so that every
interleaving of processes is one of TLC's. What goes wrong is named in a set
`Disturbances`; a run enables some of them by the constant `Disturb` and bounds
how often they happen by `MaxFaults`. (In `HostLocal` the switch is `Faulty`,
and faults are not counted.) Definitions marked "faulty variant" are mutations of
the definition that follows them: they are used by no specification, and
`PROJECT.json` says which property must fail when one takes its place.

### HostLocal

`lease[a]` is the file named by the address `a`: `Absent`, `Blank` (created or
truncated, not yet written) or its owner. `cursor` is `last_reserved_ip.0`,
`holder` the process that has the flock. `pc`, `arg`, `ip`, `todo` are a
process's locals. `reserve` is four steps (`CreateIp`, `FillIp`, `TruncLast`,
`FillLast`), because `fs::write` truncates and then writes; `release` and `has`
visit the directory entry by entry in any order. `Abort` is a kill or an I/O
error before any of these steps. The history variables `held` (what successful
ADDs gave) and `struck` (files hit by a fault) are there for the properties.
An address is its offset in the subnet. `Hosts` is the list of usable hosts of the
present subnet and `Former` that of the subnet the node had before: a lease
directory outlives a change of podCIDR, so ADDs may choose from either list
(`PickAmiss`), and meet leases and cursors that it does not contain. A cursor that
cannot be read is taken for none, in the same action.

### Peers

`api` is what the API server has, `pending` the events on their way, `store` the
reflector's copy, `installed` the map of `main.rs`, and `route`, `neigh`, `fdb`
the kernel tables by key. `Begin` computes the actions of a reconcile as two sets
and `again` (a changed peer whose Remove has run and whose Add follows), from
which they are taken in any order that the `HashMap` allows. The Adds and Removes
do what `netlink.rs` does, EEXIST and dropped errors included. A VtepMAC or
`public-ip` may be `Bad`, a text that does not parse: `node_to_peer` passes it on and
the Add fails at it (`Parses`, `Succeeds`), in the case of vxlan after its route was
made. `half` is a history of the routes left behind in this way. The environment
keeps CIDRs, node addresses and MACs in use at once distinct (`Unused`). `Restart`
reads the backend anew: `net-conf.json` may have changed. `flannel.1` is there while
flanneld runs: one that is deleted, its entries with it, before flanneld is restarted
is a `"reboot"` here and a `"link_gone"` of `Bootstrap`.

### IpMasq

`chain` is the sequence of flanneld's rules in POSTROUTING; `pc` and `rule` are
where `ensure` is, command by command, with the fallback without
`--random-fully`. `Verdict` gives the fate of a packet by the first matching rule.

### MasqBackend

`chain` of `IpMasq` is flanneld's rules in the table it uses, `left` those in the
other. `LookNft` and `LookLegacy` are the two looks of `IpMasq::detect`, one process
each, so that what the first saw (`nft`) may be stale when the second chooses;
flanneld's own rules are among what they count. `proxy`, `kube` and `others` are
kube-proxy's table, its chains and other programs' rules. `PluginTable` is the
different rule by which `Iptables::detect` chooses for the portmap plugin. `alone`
and `settled` are histories of who has changed what the looks see.

### Bootstrap

`link` is `flannel.1` with MAC, address and MTU; `published` the annotations;
`env` the file, `Blank` between truncation and write; `backend`, `cidr`, `mtu`, `mac`
the locals of `try_bootstrap`, of which each `pc` is one call. A call fails by a
fault, or because it cannot succeed (`Failure`): the device is gone, or its MTU would
be less than the kernel takes (`CanSetMtu`). The device may be deleted at any moment
with the file kept (`DeleteLink`, as `tests/smoke/reconcile.sh` does). The Node object
may be deleted and made again (`Reregister`): its annotations are gone (`Anew`) and
its podCIDR may be another (`AssignCidr`); `given` is a history of all it has had. A
device that exists keeps the address of the podCIDR it was made under. Pods read the
file (`Load`) and are wired with what it said then (`Delegate`), by which time it may
have changed.

### Bridge

Per pod: `netns`, `veth` (how far its pair has come: on the host, moved, renamed),
`addr`, `port` (host end attached), `gateway` (the bridge has the pod's gateway
address) and the process's `pc` and `ip`. `Wire` is the pattern of `wire_pod`'s
later calls, whose errors delete the pair; `CreateVeth` and `OpenNetns` do not have
it. A pair is named by the first letters of the container id (`HostName`,
`TempName`), so two pods may have the same names, and creating the second pair
fails while a name is in use. `excused` is a history of what a fault has kept from
being undone. A namespace that is removed stays while a process has it open
(`into_raw_fd`), and takes its interfaces with it when it goes.

### Portmap

`nat` maps each chain to its rules; a container's chain is named by the
container. `Commands(c, ip)` is the list of iptables commands ADD runs, `at` the
position in it and `phase` whether `-C` has been done. `Undo` is the three
commands of `remove`. `Target` and `Met` follow a packet through the chains.
`FlushNat` is another program's `iptables -t nat -F`; the history `flushed` says
whose rules it took, for nothing makes them again until the next ADD. An ADD that
may find rules of its own that a fault spared (`spared`) does not end it: a DNAT
put after a flush within the ADD before it has no mark in front of it, and the next
ADD finds it there.

### Delegate

The processes of one ADD, of its undoing and of the DEL that follows, each with a
`pc`, its stdin pipe (`feed` not yet written, `inbox` in the pipe, `got` read),
its stdout pipe (`left` to print, `outbox` in the pipe) and, for a caller, what it
`have`s of its delegate's output and the status it `heard`. The writer thread of
`run_delegate` is the actions `Feed` and `CloseStdin`, its main thread `Drain`,
`Wait` and `Join`. A text is a number of units and a pipe holds `Cap` of them. A
process that is killed takes its thread with it and leaves its delegate an orphan,
which runs on.

## 3. Runs

| run | instance and disturbances | shows |
|---|---|---|
| `hostlocal` | 2 processes, 3 containers, 2 hosts now and one of them before; kills, errors and changes of subnet anywhere, unbounded | `NoSharedAddress`, `NoOverwrite`, `LeakOnlyByFault`, `DelComplete`, `CheckExact`, `LockFreed`, `RoundRobin`, refinement of `IpPool`; the chooser on all subnets up to 8 addresses |
| `peers` | 2 peers, 2 CIDRs, 3 MACs, 3 addresses, a malformed MAC and a malformed address, both backends, 5 changes; 2 of refused adds, reboots (into either backend), quiet relists | `KernelMirrorsInstalled`, `NoCollateral`, `Converges` |
| `peers_swallowed` | one partly failed add | **violates** `FailedAddNotInstalled` |
| `peers_crash` | one restart with the kernel tables kept | **violates** `Converges` |
| `ipmasq` | `MasqBackend`: 3 of failed appends and checks, early ends, flushes between ensures, failed looks, restarts, moves of kube-proxy, rules of others; iptables with and without `--random-fully`; either generic table | `SameTable`, `OneTable`, `ExemptInBoth`, `NoGrowth`, `Heals` |
| `ipmasq_flush` | `IpMasq`: one flush within an ensure | **violates** `Heals` |
| `bootstrap` | 1 pod, 2 podCIDRs, 2 MACs, MTUs 40, 1400, 9000; any 3 of 9 disturbances | `PublishedIsDevice`, `DeviceAgrees`, `PodsInSubnet`, `ComesUp` |
| `bootstrap_bare` | one failed netlink call | **violates** `DeviceHasAddress` |
| `bridge` | 3 pods, two of whose ids begin alike, 2 addresses; any 2 of 5 disturbances | `ReadyIsWired`, `LeaseOnlyWhileInUse`, `VethOnlyWhileInUse`, `FreedAddressIsDown` |
| `bridge_retry` | one failed call | **violates** `RetryNotBlocked` |
| `portmap` | 3 containers, 2 ports, 2 addresses; any 1 of 7 disturbances | `ServesPod`, `LoopbackMasqueraded`, `DelLeavesNothing`, `SharedRulesBounded` |
| `delegate` | configurations and results of 2 units, pipes of 1; an IPAM plugin that may skip its stdin; any 2 of failed spawns, failed IPAM plugins, kills | `Completes`, `ConfigWhole`, `AnswerMatchesLease`, `Serial`, `DelFrees` |

Every module also has its `TypeOK` checked. Deadlock is checked in every run. The
longest run takes under two minutes on two cores.

Why the bounds are enough to be worth something:

- *hostlocal*: two hosts for three containers make exhaustion, repeated ADDs and
  the reuse of a freed address happen within a few steps, with two processes to
  race in reserve, release and has. The former list lacks one of the hosts, so an
  ADD that chooses from it meets a cursor and a lease it does not contain. Safety
  does not rest on the bound: it is proved (section 5), for any two lists.
- *peers*: the leases let a node return with a new MAC, with a new address, without
  a MAC, with one that does not parse, and with the CIDR of the other; five changes and two faults let
  each of these meet a failed add and a retry. Hazards between peers concern a
  key that two of them share, so two peers suffice.
- *ipmasq*: the chain is bounded by six rules plus the faults; three faults let a
  restart find the left-over of a failed ensure and meet a failed look. Others have
  at most one rule in each table at first, so the counts compared by `detect` fall
  on either side of flanneld's own.
- *bootstrap*: there is one `flanneld`. The MTUs lie below the 50 bytes of
  overhead, which gives a vxlan MTU of 0 that the kernel refuses, below and above the
  default. Three faults let a device be deleted, flanneld be restarted and its publish
  fail, so that an old file, a new device and an old lease meet.
- *bridge*: one pod fails, one takes over its address, one is a bystander; two
  faults give a failed call and a failed undo, or two failures in a row.
- *portmap*: two plugins that race for the shared rules and a third container
  that takes over a port. One fault, which lets any step of any plugin go wrong
  once; for more faults and containers the properties are proved (section 5).
- *delegate*: with a pipe smaller than any text every write and every print can
  block, and with a result of two units a part of it differs from the whole. Two
  faults let a failed ADD meet a failed undoing.

Symmetry is used in `bridge` (the addresses, and the two pods with the same names)
and `portmap` (the addresses, and the two containers with the same port); never in
a run with a liveness property.

## 4. Fairness

- `HostLocal`: a command that has begun goes on (`WF` of each process's step).
  Nothing is assumed of who gets the flock, nor that anyone ever calls a plugin.
- `Peers`: the loop of `main.rs` runs: it delivers pending events, ticks (`tokio`
  intervals do not stop) and ends a reconcile it began. The watch lists again
  after an error, by its back-off. Events and lists have strong fairness (`SF`), for
  they wait while a reconcile is under way and with a malformed peer every tick begins
  one: `select!` picks among its ready branches at random, and the ticks are 60 s
  apart.
- `IpMasq`, `MasqBackend`: the 10 s interval ticks, each iptables process ends,
  and a flanneld that has begun to look goes on to its loop. kube-proxy need never
  start.
- `Bootstrap`: the process runs and sleeps end; the DaemonSet starts it again
  after an exit; the controller manager gives the node its podCIDR at some time;
  the runtime repeats a failed ADD.
- `Delegate`: each thread of a process that was started runs on: one condition for
  a process's main thread and one for its writer thread, which must be two, since
  either may be blocked on a pipe while the other can go on.

`RoundRobin` states its own premise: that ADDs go on succeeding and the faults,
which `HostLocal` does not count, have ended. Elsewhere faults are never fair and
are finite by `MaxFaults`, which is what "once the faults end" means in a liveness
property.

## 5. Proofs

TLAPS checks `HostLocalProofs`, `PeersProofs`, `IpMasqProofs`, `MasqBackendProofs`,
`BridgeProofs`, `PortmapProofs`, `BootstrapProofs` and `DelegateProofs`, for every
value of the constants. Every invariant and action property that a run checks is a
theorem, with the hypotheses named below. In each module `IInv` (or what is named
instead) is the inductive invariant; TLC checked it on small instances first.

**HostLocal.** For any number of processes, containers and hosts, under
`HostsAssumption` and `NullsAssumption` (the hosts are a sequence, the
placeholders are not members of the sets they stand beside): `Typing`,
`AddressesUnshared`, `LeasesNotOverwritten`, `LeaksAreFaults`, `DelIsComplete`,
`CheckIsExact`, `CommandsImplementPool`, and about the chooser `NextIpFree`,
`NextIpExhausted` and `NextIpGoesRound`, which says of every list of hosts in
ascending order what `ChooserAssumption` compares on bounded subnets: the first
free host above the cursor, else the first free one.

None of the safety properties is inductive by itself: that an address chosen by
`next_ip` is still free when it is written follows only from where all other
processes are. `IInv` adds this: the flock is held by exactly the process inside
`cmd_add` or `cmd_del` (`LockInv`); commands in progress are for different
containers (`SerialInv`); how far ADD has come determines what its lease file
contains (`AddInv`); a container being deleted owns nothing (`DelInv`); a scan
still has before it, or has seen struck by a fault, every lease of its container
(`ScanInv`, the reason why DEL and CHECK are exact although CHECK takes no lock);
what was given is leased (`HeldInv`). There is one lemma per action that it keeps
`IInv`, and the properties follow from it.

For the refinement, `PoolOwner` maps a lease file to an owner: a file with an
owner to that owner, a `Blank` file to the process writing it, a `Blank` file
without a writer to `Lost`. `CreateIp` is then the pool's `Allocate`, a visit of
`Release` its `Free`, an `Abort` between create and fill its `Lose`, and every
other step stutters (`StepImplements`).

**Peers.** For any nodes, leases, keys, changes and faults, under `LeasesAssumption`
(the leases are peers, the placeholders are not).
`Typing` needs no more. The other theorems need that no lease changes hands while the
watch is down (`Orderly`), and `KernelMirrors` and `InstalledIsProgrammed` that the
kernel's refusals are reported (`Reported`). The code needs both: `peers_swallowed` is
what happens without the second; without the first, one reconcile may hold the Remove
of a CIDR's old owner and the Add of its new one, in the order of a `HashMap`
(section 6). Malformed annotations are no hypothesis: any lease may have them.
The argument is about two nodes at a time. `ApartInv`: at the API server, in the
store, in `installed`, and of the store against `installed`, no two nodes have a
CIDR or a MAC in common. That the store, which is behind, clashes with nothing is
not inductive; `WatchInv` says that the undelivered events lead from the store to
the API server by states it has been in, each without a clash (`Replays`), so that the
delivery of one is the next of them. `WorkInv` is what a reconcile has still to do.
Then an Add or a Remove touches no entry of another node (`BystandersKept`), and with
that the kernel has after each single action, restarts included, what `installed` says
and the routes in `half` (`KernelMirrors`). `MirrorInv` says this table by table. That
a route in `half` is by way of the VTEP, like the one that an Add for its CIDR would
make, is why an Add that meets it, EEXIST and all, leaves the right entry.

**IpMasq.** `Typing` and `NoGrowthAlways` for any `MaxFaults` and every set of
disturbances; `ExemptAlways` for those without `"flush_within"`. With it `Exempt` is
not true of the code (the finding of `ipmasq_flush`), and the theorem says so as its
hypothesis. `IInv`: the RETURN of each pair precedes every MASQUERADE of the pair,
and `ensure` has passed a RETURN only if it is in the chain. `GrowthInv` is about
copies: an entry is of one of six kinds (four rules, two of them with a fallback),
and each entry that is not the first of its kind was paid for by a fault, that of the
append being made counted in advance (`Owed`).

**MasqBackend.** `TypingBackend`, `ExemptInBothAlways`, `SameTableAlways`,
`OneTableAlways` and `NoGrowthBackend`, for any number of faults, restarts and rules
of others. Only `ExemptInBothAlways` needs the hypothesis of `ExemptAlways`, of
whose invariant it uses both halves: a table that is left keeps the order its chain
had. For `NoGrowthBackend` it keeps its count as well. `SameTable` is not
inductive: it needs that a look made since `settled` became true saw the chains of
kube-proxy in its table only. For `OneTable` the invariant relates what the looks
see to what is there: as long as nobody else changes it, the rules of other programs
alone decided the first choice, and flanneld's own rules, all in the table chosen,
can only weigh on the same side.

**Bridge.** `Typing`, `ReadyPodsWired`, `LeasesInUse`, `VethsInUse` and
`FreedAddressesDown`, for any pods, names that clash or not, addresses and faults.
`IInv` is stated of one pod at a time (`PodInv`): which calls have been made by each
`pc` (`StageInv`), that the address a process has is the pod's in the pool (`IpInv`),
what a pod that is ready has (`ReadyInv`), and at which calls a lease or a pair may be
there though no pod uses it (`LeaseInv`, `PairInv`). What makes this enough is the
frame: a step of one pod leaves another's interfaces, process and addresses alone
and takes no bridge down (`SparesPod`, `SparesBridge`), although pairs are created
and deleted by names that two pods may share.

**Portmap.** `Typing`, `Serving`, `Masqueraded`, `NothingLeft` and `Bounded`, for any
finite set of containers, any mappings and any faults in any number, under
`NamesAssumption` (container chains are named unlike the shared ones and the
placeholders). The parts of `IInv`:

- an ADD's program has ten commands and then three for each mapping (`ProgramFacts`);
  of a command that an ADD has passed, the chain is there, flushed or not (`MadeInv`),
  and the rule is there if nobody flushed (`DoneInv`), whatever the plugins of other
  containers do;
- a container without a plugin has no chain and no jump unless a fault spared it, and
  never two jumps, so that the one `-D` of a DEL takes all there are (`CleanInv`,
  `JumpInv`, with the DEL's own commands told apart);
- in a pod's chain every DNAT has its mark before it (`MarkInv`) and is to the pod's
  own address (`OwnInv`); in POSTROUTING the jump to MASQ is before every RETURN, since
  it is inserted at the top while RETURN is appended (`PostInv`);
- the length of a shared chain and the number of plugins that looked for its rule and
  are about to put it (`Pending`) together are at most the containers and the
  faults (`CountInv`): putting a rule moves one from the second to the first, a look
  that finds none has found the chain empty, and a look that is wrong is a fault.

`Serving` follows by contradiction: the first jump in TOP that leads to a DNAT for the
port is to a container that has the port too, hence is not `spared`, hence has a
plugin, and a port is given to one pod at a time.
The proof changed the model once: `MarkInv` was not inductive while every ADD
took its container out of `flushed`. With a flush within an ADD and then a DEL
without its arguments, a second ADD finds the first one's unmarked DNAT: two faults,
where the run has one. `flushed` now says so.

**Delegate.** `Typing`, `ConfigsWhole`, `AnswersMatchLease`, `CommandsSerial` and
`DelsFree`, for texts and pipes of any length and any faults. `CallInv` says which
process may be where: who called whom, once. `TreeInv`: as long as no caller is
killed, each plugin that lives has a caller that drains it, so the living are
one chain. `ConfInv` and `AnswerInv` account for each unit of a configuration and of an
answer (still to write, in the pipe, read). On these rest what a success of each
plugin says of those below it (`SuccessInv`), what a failure says when nothing was
disturbed (`FailureInv`), what the runtime was told (`ToldInv`), and that the DEL
frees from the inside out (`FreedInv`).

**Bootstrap.** `Typing`, `DeviceIsPublished`, `DeviceIsAgreed` and `PodsStayInSubnet`,
for any podCIDRs, MACs, MTUs, pods and faults, under `NullsAssumption` (the null values
are not a device, a lease or a file). `IInv` says by each call of `try_bootstrap` what
the attempt has found out (`LocalsInv`), that the device, as far as it is still there,
is the one this attempt has set up (`DeviceInv`), and what it has published and
written (`FileInv`). The argument rests on this: only `ensure_vxlan` makes a device, and
no later call of the same process does, so that a device deleted under a flanneld that
is past it stays away until a restart, which forgets the attempt. That flanneld does
not notice, nor that the Node object was made again, is in the properties as what it
is (`link = None`, `Anew`).

**Model-checked only.** The liveness properties `LockFreed`, `RoundRobin`,
`Converges`, `Heals`, `ComesUp` and `Completes`: the prover has no fairness and no
ENABLED. That `UsableHosts` is in ascending order and leaves out the right addresses,
which `NextIpGoesRound` takes as given, is compared on bounded subnets
(`ChooserAssumption`): its definition selects recursively.

## 6. Findings

Five runs end in a behaviour that a document or comment of the repository rules
out; `PROJECT.json` quotes each.

1. `peers_swallowed`: a refused neighbour or fdb entry counts as success
   (`netlink.rs:259`), against "a failed add is left out of `installed`".
2. `peers_crash`: after a restart nothing reads the kernel's tables (`main.rs:277`),
   so stale entries stay, against "full resync on boot makes restarts safe".
3. `ipmasq_flush`: a flush within an ensure leaves a RETURN behind its MASQUERADE
   for good (`ipmasq.rs:133`), against "a flush self-heals".
4. `bridge_retry`: a failure between the creation and the move of the veth pair
   leaves the pair (`main.rs:76`, `hostns.rs:58`), against "tear down the created
   veth so a retry is not blocked".

5. `bootstrap_bare`: the error of `add_address` is dropped, and a later attempt that
   finds the device does not give it its address (`netlink.rs:28,41`), against "assign
   `<podCIDR network addr>/32` to flannel.1" and "netlink/kube errors retry with
   backoff". It is the branch for an existing device, too, that keeps the old address
   when a Node object is made again with another podCIDR.

Disagreements met while modelling that have no run of their own:

- when one relist shows that a CIDR has passed from one installed node to another,
  the order of a `HashMap` decides whether the old owner's Remove comes after the new
  owner's Add and deletes its route (`peer.rs:25`), for good; the design document
  (`2026-06-15`, lines 76-77) has a relist prune stale entries. `"desync"` enables it,
  and `Converges` is then violated;
- an Add that fails at a malformed VtepMAC or address leaves its route
  (`netlink.rs:249`), and when the node leaves nothing removes it, against "on delete ->
  remove" (`2026-06-15`, line 70); `Converges` and `KernelMirrorsInstalled` say exactly
  which routes these are;
- an underlay too small for vxlan is tried for ever (`netlink.rs:31,44`), though
  `Fatal` is for "misconfiguration that no amount of retrying will fix"
  (`main.rs:30-32`); `ComesUp` says so;
- a node without a podCIDR is tried again (`main.rs:75`), where the design document
  (`2026-06-15`, lines 80-81) has a fatal exit.

Recorded as hazards, or in the properties, with no document that rules them out: a
`flannel.1` deleted under a running flanneld is not made again until a restart, and
from then until the publish of the new MAC (`tests/smoke/reconcile.sh:100-105`) pods
are wired from the old `subnet.env` while peers know the old MAC; a Node object made
again is not published to until a restart; the table is chosen once, so with flanneld
up before kube-proxy, or kube-proxy moving, the rules stay where they are until a
restart (`ipmasq.rs:93`); the delegate of a plugin that was killed runs on and may
take an address after the runtime's DEL, which also ends what `HostLocal` assumes of
one container's commands (`delegate.rs:47`).

## 7. Not modelled

The decoding of JSON, environment variables and annotations beyond what decides
control (a configuration cut short, a `subnet.env` without a key, a missing
previous result or address): the structures hold no state and have unit tests. The
bridge's routes, `ip_forward`, MTUs and hairpin (errors ignored, or a no-op, in the
code); IPv6 (the code has none); what packets do beyond the rules and entries
named; manifests, images and CI, which have no behaviour of their own. Time is not
modelled: an interval is a tick that may come at any moment, a time-out of the
runtime a kill that may.

## 8. Plan

Every component of section 2 is modelled, and every safety property of the runs is
proved. What is left:

1. An abstract specification of a peer table (a map that becomes the desired one,
   entry by entry) that `Peers` implements, with its proof.
2. One of a CNI attachment (absent, ready, absent again) that `Bridge` over `IpPool`
   implements, with its proof.
