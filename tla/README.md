# A verification model of cfab

cfab turns one declaration, `fabric.toml`, into a routed fabric between the members of a
cluster: netdevs and rules, an OSPF engine, traffic shaping, gateways and a DHCP relay for
workloads. `cfab run` supervises it on each member, and `cfab conf-sync` keeps the declaration the
same on all of them. These modules model the parts whose correctness depends on the order of
things (several processes, tasks and machines, failures between two writes, stale reads) and the
derivations whose result nobody can enumerate by hand (costs, addresses, rulesets).

Source paths below are relative to `src/`.

## Inventory

| component | state it keeps | operations | talks to | what is hard | what makes it correct |
|---|---|---|---|---|---|
| conf-sync (`src/commands/conf_sync.rs`) | `fabric.toml`, `.prev`, `conf-sync-attempted`, `conf-sync-committed`, its witness window | tick, install, re-apply, status, ack, commit, revert | pmxcfs (files shared by the cluster), supervisor (socket), `status` | partitions, crashes between durable writes, a supervisor slower than the client's timeout, a restart caused by the attempt itself | commits only on a witness, reverts to the last committed text, one attempt per generation, every attempt ends |
| cluster store (`src/cluster.rs`, `src/commands/cluster.rs`) | `gen`, `fabric.toml`, `acks/`, `caps/`, the locks | publish, clean-up, lock and stale reclaim | every member's daemon | two renames that are not one step, a holder that dies, a reclaim that races a fresh lock | members agree on what a generation says; one holder |
| supervisor (`src/supervisor/mod.rs`, `child.rs`) | table of children, pending respawns, exit channel, last apply error | start, respawn, reload, re-apply, stop | children, systemd, operators, conf-sync | exits that carry a name only, children that ignore SIGTERM, exits during a restart | one process per child, no child forgotten, a stop leaves nothing running, everything ends |
| instance ownership (`src/supervisor/lock.rs`, `sock.rs`, `src/sock_frame.rs`, `src/commands/teardown.rs`) | `cfab.lock`, `cfab.sock`, `engine.lock`, the run directory | start, stop, `cfab down` | other supervisors, the engine | locks are on inodes of a directory that is removed | one owner of the netdevs |
| main loop and systemd feed (`src/supervisor/mod.rs`, the unit) | intervals, the state of the apply, the engine's last reading | arms of `select!`, feeds within a re-apply | systemd, engine | slow applies, slow children, silent engines | a slow loop survives, a wedged one does not |
| neighbor table (`src/workload/table.rs`) | entries, dirty queue, permit | upsert, take, put back, reap | relay tasks, flush actor | the wakeup after the unlock, stale queue keys, the cap | cap, no lost claim, no lost wakeup |
| flush actor (`src/workload/actor.rs`, `writer.rs`) | token bucket, the batch and its document | batch, sweep, sleep | table, kernel | a kernel that changes between read and write, claims during a write | learned MACs stay, lost entries are restored |
| host routes (`src/workload/hostroutes.rs`) | per row: hold-down, membership, last request; the nft set | tick: read, damp, ask the engine, sync the set, probe | bridge, neighbor table, engine, nft | legs that are rebuilt, refused commits, idle VMs | the engine and nft have the VMs that are here |
| announcer (`src/workload/announce.rs`, `neigh.rs`, `src/supervisor/workload.rs`) | beacon, burst, known MACs, trigger | event, poll, tick | netlink, bridge | a watch that dies, churn, a late loop | a bounded frame rate, every change told within a period |
| workload leg and uplink (`src/workload/leg.rs`, `uplink.rs`, `src/emit/workload.rs`) | leg, bridge vid and its record, guard file and table, gateway address, deferred rows | build, guard, defer, release | bridge, nft | ports that move, crashes between write and record | no address without a guard, vids go back |
| DHCP relay (`src/workload/relay.rs`) | two sockets, the baseline ifindex | bind, watch, forward, discover | leg, table, DHCP server | a leg rebuilt around the bind | never deaf for good |
| ingress leg, netdev by netdev (`src/commands/apply.rs`, `teardown.rs`) | the leg in one of two shapes, its ports | replace a wrong shape, build, remove | kernel, other tools | a build or removal cut anywhere, wires that go, one name for two shapes | built as declared or not reported built; the flip can be made and undone |
| pre-flight (`src/commands/check.rs`, pass 1 of `apply.rs`, `src/workload/uplink.rs`) | none; the rows ready and deferred | `check`, the first pass of apply | bridges | a host that changes between reads and between the verbs | check foretells apply; no row falls between |
| rtnetlink socket (`src/netlink.rs`) | socket, sequence number | `port_state`, `set_active_port` | kernel, prober | late, lost and left-over answers, netdevs that are replaced between the requests of one move | an answer is one's own; a move reported was made |
| engine process (`src/engine/mod.rs`, `sock.rs`, `src/sock_frame.rs`, `src/commands/engine_ctl.rs`) | `engine.lock`, `engine.sock`, kernel routes of its protocols | start, serve, exit, sweep | clients, providers, supervisor | kills at any step, hung providers, mute and deaf clients | who answers owns; a signal is heard; nothing is left after a sweep |
| prober (`src/prober/`) | per port: reachability, dates of hellos, grace, escalation, `hello_dead`; per leg: the port it holds | tick: read, observe, actuate, ask | kernel bond, taps, engine, watchdog | links that change between read and write, half a write, a wire that answers ARP but carries no hello | leaves a healthy leg alone and a failed wire, comes to rest, owns `primary` |
| forwarding watchdog, apply, teardown (`src/commands/fwd_watchdog.rs`, `apply.rs`, `teardown.rs`, `common.rs`) | netdevs, sysctls, policy, rules, routes, run directory | up, tick, down, stop | kernel, foreign stacks | failing half way, crashes, repeating | forwards only under the drop policy; fails closed |
| `ip rule`s (`src/commands/common.rs`) | rules of prefs 1000 to 2103 | ensure, restore, drop | kernel | one rule missing, lookups that fall through | no packet where the fabric must not send it |
| host default (`src/commands/common.rs`, `fwd_watchdog.rs`) | pins, lookup rules, route of table 250 | install, reconcile, remove | kernel, prober | an admin address that moves meanwhile | never locks the admin out, follows the router |
| engine (`src/engine/`) and its configuration (`src/emit/engine.rs`) | transit cost, routes per leg, the running tree | start, transit cost, routes, readback | providers (holo), supervisor | partial commits, ifindexes resolved once, the order of providers | remembers what is in force; offers only what is its own |
| shaping (`src/commands/shape_daemon.rs`, `src/emit/shape.rs`, `src/caps.rs`) and measurement (`measure_cap.rs`) | qdisc trees, the record, caps, the lease | reconverge, signals, flood | tc, `ip monitor`, pmxcfs | carriers that change meanwhile | floors follow the wires; one flood at a time |
| declaration and derivation (`src/decl.rs`, `model.rs`, `derive.rs`) | none | validate, derive | – | collisions between members, costs that tie | no collision, one cheapest path, order of the ladder |
| forward policy and marks (`src/emit/policy.rs`, `mark.rs`, `ceiling_ipt.rs`, `src/commands/policy_teeth.rs`) | two nft tables or iptables chains, `mark.backend` | load, switch backend, remove, test | nft, iptables | rule order, connections of before, two backends | lets through what is declared, marks once |
| status and metrics (`src/commands/status.rs`, `status/model.rs`, `src/supervisor/metrics.rs`) | snapshot, slots of the endpoint | gather, `--wait`, serve | everything, read-only | a member that changes while it is read, peers that hang | the verdict can be acted on; the page tells it; the endpoint stays open |

## Modules

| module | models | uses |
|---|---|---|
| `ConfSync` | conf-sync, publish, and the supervisor as far as the protocol reaches it | |
| `Supervisor` | `cfab run`'s main task, its children and the tasks that wait for them | |
| `Instance` | several `cfab run`s and `cfab down`s on one run directory | |
| `MainLoop` | the arms of `select!` in time, and the systemd watchdog | |
| `NeighborTable`, `FlushActor` | the table, one action per locked operation; the actor, its bucket, the claims | the second extends the first |
| `RouteEngine`, `HostRoutes` | the engine's request handler; the reconcile and the world it reads | the second extends the first |
| `Damper` | abstract: a damped membership | refined by `HostRoutes` |
| `Announcer`, `WorkloadLegs`, `DhcpRelay` | the parts of a workload row | |
| `Transit`, `RouteRules`, `HostDefault` | what apply, watchdog and teardown do to forwarding, to the rules, to the host default | |
| `ShapeDaemon`, `Lease` | the shaping of the wires; the lease of the measurements | |
| `Prober` | one leg over several wires, the kernel's bond, the watchdog's rebuild of a port | |
| `Derivation`, `Declaration` | the costs and paths of one zone; what is accepted and derived | the second extends the first |
| `EngineConfig`, `ForwardPolicy` | the trees and their commits; the rulesets and their loads | both extend `Declaration` |
| `LegBuild`, `Preflight` | the ingress leg's two shapes; check and apply on the same bridges | |
| `BondNetlink`, `EngineServe` | the prober's rtnetlink socket; the engine's process, clients and leftovers | |
| `MetricsPage`, `StatusReport`, `MetricsServer` | the page as a function of a gather; the gather, status and `--wait`; the endpoint | the second extends the first |
| `MC…` | instances for TLC | |
| `ConfSyncProofs`, `SupervisorProofs`, `FlushActorProofs`, `ProberProofs` | theorems of the module of that name | it |
| `HostRoutesProofs` | theorems of the reconcile, and of what follows from a declaration | `HostRoutes`, `EngineConfig`, `ForwardPolicy` |
| `ProcessProofs` | theorems of the processes of a member and of their reports | `MetricsServer`, `MainLoop`, `Instance`, `Lease`, `StatusReport` |
| `MemberProofs` | theorems of what apply, watchdog and teardown write | `HostDefault`, `Transit`, `WorkloadLegs`, `RouteRules` |
| `HostProofs` | theorems of what cfab shares with the host | `LegBuild`, `Preflight`, `BondNetlink`, `EngineServe`, `Announcer` |

Conventions. Every write another process or a crash can observe is a step; reads whose age matters
are steps too. What fails, crashes or interferes spends a bound of its own (`Max…Faults`), and
several modules carry an observer (`pass`, `wpass`, `hdPass`, `rrPass`) that is "clean" while nothing
disturbed the pass in progress: a property of an undisturbed pass speaks of whatever state earlier
disturbances left. A definition named "Mistake" or "Mutant" is a plausible error in the definition
below it; no specification uses it. The map names no line for a one-line abbreviation: its source is that of
the definitions that use it.

`MCMember`, `MCHostRoutes`, `MCSafety` and `MCHost` are sums: parts that share no state in the model, of which
one moves in each behaviour while the others rest in their initial state. A resting part is
quiescent, so its fairness constrains nothing. Interleaving them would multiply the states and
decide nothing, since no action of one reads a variable of another.

**ConfSync.** `pc[m]` is the daemon's place in `handle_new_generation`; an action ends at every
point another process or a crash can observe (a durable write, a read of shared state, a reply, a
sleep). A text is a model value; what the code asks of it is whether it validates on a member
(`Valid`), which fabric it derives (`FabricOf`) and whether that fabric carries traffic
(`Carries`). pmxcfs is external: quorate members share one copy, a severed member reads a frozen
one and its writes fail. `TimePasses` is one completed one-second sleep of everybody. The
supervisor answers `reapply` in place for an equal fabric; for a changed one it answers, stops
the daemon, removes the run directory and starts again. A request whose client gave up after 5 s
stays queued and is served later. `good`, `outcome`, `ackText` and `tried` only record
the past for the properties.

**Supervisor.** `mode` is the main task's place; processes are numbered per child, so that the
model can tell what the code cannot: whose exit a message on the channel is. Spawns may fail,
children die at any time, and `Unwilling` children may outlast the 10 s after SIGTERM. `launch`
of several children in one go is one action. A child whose killed predecessor's exit is still in
the channel (`Overtaken`) is excepted from `OneProcess` and `StopReachesAll`; `OneEngine` of the
violated run does not except it.

**Instance.** Every directory ever made under the run directory's path has a number, and a lock is
held of one of them: a lock file of a removed directory excludes nobody. `cfab run` takes the lock,
probes and binds the socket, applies, launches the engine and stops; `cfab down` probes and tears
down. Any of them may be killed; an engine that only starts dies with its parent, one that runs may
stay. `SoleOwner`: unless a start and a teardown have crossed where neither lock nor socket shows
one to the other (the ghost `crossed`, the runs to which that happened, see the limits), the supervisor in its main loop holds the
lock of the directory there is, answers on the socket, is the one `cfab status` describes and built
the netdevs there are, and there is one engine; and what a killed one leaves behind never refuses a
start that had no company (`beside`). `Quiet` begins the next episode when no process is left, so
the run directory's leftovers accumulate over any number of them.

**MainLoop.** One unit is five seconds, the timeout of a read of `engine.sock`; what takes less takes
none. `select!` picks any arm that is due, so every order is a behaviour, and an idle loop lets no due
arm wait. `WatchdogTrue`: systemd kills the unit only when since the last feed a running engine did not
answer, or the loop sat inside `apply::run` or waited for a starting engine for all of `WatchdogSec`
but one feed period; and an engine that is taken for running and does not answer is replaced within
`WatchdogSec` and the grace of a restart. `lastFeed` is what the last feed said: given or withheld.

**NeighborTable, FlushActor.** A key stands for a row and an address. Of an expiry the model only
keeps whether it has passed. `notify_one` comes after the unlock and is an action of its own.
The actor's batch holds one document (`doc`) of what the kernel said of each key: nothing, an
entry without a MAC, or one with. The kernel changes by itself at any time. `QueueBounded`: a key
is queued once, and once more for every expiry the sweep dropped.

**RouteEngine, HostRoutes, Damper.** A configuration tree is what it is generated from: the transit
cost and the routes per leg; `running` also keeps the ifindex each route was resolved to. A request
costs up to two commits, any of which may be refused. `HostRoutes` is the pass over the rows, read
by read and write by write, while VMs come, go and fall silent, legs are deleted, rebuilt and deferred,
the engine dies and the nft set is rendered again. `EngineInStep`: the engine's memory is what is in
force, resolved where the leg is now. `VmsKept`: a VM that stays keeps its route, unless it was not seen
for the hold-down, and it goes unseen only after two lost probe cycles. `ImplementsDamper`: the
hold-down refines `Damper` (`INSTANCE … WITH`: the membership is the wanted set, the idle time the
ticks since a read saw the address). `Converges`: once nothing fails any more, the engine and nft
have exactly the VMs that are here.

**Announcer.** Deadlines are relative to now; a negative one was missed by a busy loop. `FrameRate`
holds once the loop was on time and nothing failed for a period.

**WorkloadLegs.** Two rows, each on a bridge with uplink ports. Apply, tick and teardown are the
sequences of their writes to vid, record, leg, guard file, guard table and gateway address. A teardown
takes a row in four steps (address and `proxy_arp`, netdev, vid, record); the first fails where the row
has no leg and the third where its bridge is gone, and either ends the teardown (place "left").
`RowDiscipline` is `GuardFirst` (an address goes live only over an uplink the guard covers) and
`VidGoesBack` (a stop that reaches its end leaves no address and no vid of cfab's; an undisturbed one
gives up only at a row without a leg, and then the vids it leaves are on record; none takes a vid of the
host's). `EventuallyUp`: a row that is ready comes up.

**DhcpRelay.** The ifindex is read before and after the bind; a socket on a deleted netdev hears and
reports nothing. BOOTP packets are the fields the decisions read.

**Transit.** One class leg, the ingress leg and the fallback bond of a forwarding host, with the
sysctls, the policy, the foreign accept and the transit cost. The two builders of the bond differ: apply
makes it over the wires that are there, the tick over every declared one, so that with a wire missing
the tick ends with a bond that is down (`TickBondHalf`); any builder that fails may leave a leg half made
(`HalfMade`). A teardown may give up at a workload row or at a held engine lock (`StopGivesUp`, place "left").
`Contained` is `PassContains` (after an undisturbed pass that ran to its end nothing forwards without
the drop policy, and with it every leg of a wire that is there forwards) and `StopFailsClosed` (forwarding
is off before the policy goes, also where the stop gives up; one that reaches its end leaves nothing).

**RouteRules.** The rules as records of pref, source, target, locality and action, and the kernel's
lookup over them. What the tables hold is not a variable: `PathsSanctioned` quantifies over every
content of main, of table 250 and of the zones' tables, and over every kind of packet. After an
undisturbed apply or tick no identity-sourced packet leaves untagged or by the host default, a leaf
forwards nothing into a block, and the host default serves whom it is meant for and nobody else; a leaf's
guard outlasts its netdevs, and a stop that reaches its end leaves no rule; one that gives
up (`DropGivesUp`) does so at a workload row, before the first rule, or at a held lock, after the last.

**HostDefault.** The pins, the lookup rules as one, and the route, written and removed one by one
while the host's default and its admin addresses move.

**ShapeDaemon, Lease.** A wire carries one protected and one bulk zone. Carrier changes reach the
daemon by its monitor, with the debounce; the supervisor's re-apply is one step for all wires.
The lease is a directory that any member may have removed once it is stale.

**Prober.** One migrating leg, of either kind, or of a fallback member that has no peers
(`alone`). Time is counted in ticks, dates are ages capped at `Never`. `pc` is the place in a
tick: `Read` is `read_active`, `Observe` the whole of `observe`, and `Stay`, `Move` and `Refused`
are the outcomes of `actuate`, each ending with `ask`. The bonding driver is external: it selects
by `primary_reselect=always` and changes at any step, so that what a tick read may be stale when
it writes. Frames are read once per tick, so the wires change between ticks only. A wire is sound,
passes unicast only (`mute`, the case of F27) or nothing. Peers say hello every `Hello`; the first
one on a port may take that long. `Rebuild` is the watchdog putting back the port of a netdev that
returned; it runs on the same task and never inside a tick. `FindsItsWire`: a failed wire is left,
and the bond comes to rest.

**Derivation.** One zone; every member lists wires by preference, each in a domain. `Check` is what
every command runs; the accepted fabric's wires then fail and return. `PathsOrdered` compares the
equal-cost search with a search over all simple paths, and asks that, whatever wires are down, domain
paths come before universal ones and those before leaves.

**Declaration.** Octets have a few bits, so that blocks, segments and prefixes meet often; names are
tuples of what they are derived from. Two edits of an accepted text, accepted or refused. `Coherent`
compares everything the members create with everything else.

**EngineConfig.** The tree by provider; a commit goes to one provider after the other, in two phases,
and one engine commits at a time. What the protocols (a library) then exchange is external.
`ConfigHolds` is `OwnersOnly` (the router hears of an address only from whom it belongs to) and
`EngineHolds` (no dangling reference at any step of a commit, the routes asked for are those in force,
and the readback refuses no engine that took its configuration).

**ForwardPolicy.** A chain is a sequence of groups of rules with one verdict each; a packet walks it.
The two backends of the marks, the record of which one is in use, failures and re-declarations
between any two loads; tools of the host are only gained while cfab runs. `PolicyHolds`: what passes
is what is declared and the answers to it, every mark and ceiling is set once, and `policy-teeth`, which
runs in namespaces of its own beside a stopped member, says so when it may.

**StatusReport, MetricsPage.** A member of one zone with one peer, a set of named faults and a few
fields status reasons about. Status, or the supervisor's gather, reads it piece by piece while it
changes. `through` (faults that stood through the gather) and `ever` (states it was in) only record.
`VerdictSound`: a wait ends early over no fault that clears by itself, and nobody is accused of holding
the BFD port who does not, however much changes meanwhile. `PageTrue`: if at most one thing changed during
the gather (`OneChange`; it may change back), every series was true of the member since the gather began and
one that stood through it is there; and status prints the same of a member that did not change. A gather
is no snapshot: it takes its readings one after the other, so after two changes a row may join what never stood
together (a sibling rule read before it went, an uplink read after it was repaired: the row is up, and never was).

**LegBuild.** The ingress leg of one zone: the netdev of its name and one port per wire, each with
its kind, its master and whether it is cfab's. Every `ip` command is a step. A command that fails and
a process that is killed look alike, `CutShort`; wires go with their sub-interfaces and return without
them; other tools take names and delete bonds. The 8021q rule that a wire has one device of a vid is
what makes the two shapes exclude each other. The zone's return default is part of the job
(`InstallDefault`) and fails where the leg was skipped. `cut` and `alien` record whether a removal ended between
the bond and its last port, and whether somebody else had a hand in these names. `BuiltAsDeclared`
speaks of a job nothing disturbed, `FlipsUnlessCut` of every past but those two: an undisturbed job
succeeds, except the apply of a plain leg whose home wire is not there (`Homeless`), which always fails; that is
the finding of `absent_wire` again.

**Preflight.** A bridge is the set of facts that hold of it, out of six. `host_preflight`, `host_warnings` and
pass 1 are loops over the rows that read the facts in their own order and answer a missing one in their
own way; the host changes and probes fail between any two reads. `steady` says whether anything did
since the check, or the apply, began.

**BondNetlink.** rtnetlink answers inside `send`, so the answer is queued, or lost to a full buffer, when
the call begins to wait. `set_active_port` is three calls (the port's index, the bond's, the write), and
netdevs change between them. A call cut short by a signal keeps its socket and leaves its answer in the
queue; one that timed out or lost an answer drops the socket. `answer` and `wrote` record what the kernel said and did.

**EngineServe.** Engines are processes that may be started again and again; `at` is the place in `run` and
`serve`. A client asks for the state, for a change or for nonsense, or never asks, or never reads; a
provider is well, hung or gone. Time passes only when every engine waits for something. A sweep lists
and deletes protocol by protocol beside them. A listing that fails reads as no routes (`SweepMisses`). `met` and
`beside` record whom a client met, and which engines lived beside a sweep or that a listing failed in it.

**MetricsServer.** Connections, the semaphore and the deadline. `EndpointOpen`: no peer keeps a slot
past its deadline, whatever it does, and nobody is given a page replaced before it was accepted.

## Runs

| run | question | bounds |
|---|---|---|
| `confsync_in_place` (`MCSafety`) | the peer-witness protocol proper; and beside it: status and page, endpoint, ownership, systemd watchdog, lease | conf-sync: 2 members, 2 generations, window 2, one partition, one late request, a text one member refuses. Status: every fault on every kind of member; on a well or a silenced one also a change or a failing command meanwhile, or two faults; wait of 1 poll. Lease: 3 measurers, 2 attempts, flood and expiry 2, 5 faults. Ownership: 2 runs, 3 starts, 1 `down`, 1 kill per episode. Loop: `WatchdogSec` 6, feed 2, apply 13, grace 2, refresh 3, bind retry 4, 2 faults. Endpoint: 3 peers, 2 slots, deadline 2, 2 pages |
| `confsync_crash` | crashes at every step, torn writes, restarts; does every attempt end | 2 members, 1 generation, window 1, one crash, one partition, one late request, a text one member refuses |
| `supervisor` | one process per child, none lost, none left; does everything end | 3 children, of which two may ignore SIGTERM; 1 death, 1 failed spawn, 2 commands |
| `flush` | lost claims and wakeups, the queue; does the sweep restore | 2 addresses on 1 slot, 2 claims, 1 expiry, 1 failure, 1 kernel change, burst 3 |
| `prober` | is a healthy leg left alone and a failed wire left; does the bond come to rest | 2 wires, hello 2 and dead 4 ticks, 2 faults, all three kinds of leg |
| `host_routes` | does the reconcile converge, implement `Damper` and keep the engine in step; and beside it what follows from a declaration | 1 leg, 1 VM, hold-down 2, ageing 6, 3 ifindexes, 3 faults. Costs: 3 members on 3 domains, 1 wire down. Declaration: 3-bit octets, 2 edits. Engines: 3 requests, 1 refused commit. Policy: 2 mishaps |
| `member` (`MCMember`) | the parts of a member that apply, watchdog and teardown write | Transit: class leg, ingress leg, bond, 2 wires, 2 faults. Rows: 2 rows, 2 ports, 2 faults. Default: 2 addresses, 3 faults. Relay: 2 attempts, limit 2, 3 ifindexes, 3 faults. Shaping: 2 wires, caps 0, 20 and 100, 2 faults. Rules: 2 zones, 2 workloads, 2 faults |
| `host` (`MCHost`) | is the ingress leg built as declared and the flip possible; does check foretell apply; is an answer of the kernel one's own and a move made; does whoever answers own the engine's files and routes; is a signal, and a lone client, heard; does the announcer keep its rate | Leg: 3 wires, 4 mishaps. Bridges: 2 rows, 2 upsets. Netlink: 2 ports and a bond, numbers that wrap after 4, a buffer of 2 answers, deadline 2, 1 netdev to come, 2 events. Engine: 2 processes, 2 clients (both sets symmetric; the run has invariants only), 2 protocols, timeouts 1, 2 and 3, 2 faults; a behaviour has clients or a sweep. Announcer: period 4, burst 2, tick 3, 1 fault |

Some properties are conjunctions, one mutant to each part: `GenerationOnce` of `AttemptOnce` and
`CommitStands`, `NoStray` of `OneProcess` and `StopReachesAll`, `HandoverSound` of `NoLostWakeup`,
`NoLostClaim` and `QueueBounded`, `ReportsTrue` of `VerdictSound` and `PageTrue`, `LegSound` of
`BuiltAsDeclared` and `FlipsUnlessCut`, `VerbsAgree` of `SameVerdict` and `EachRowPlaced`,
`KernelTalkSound` of `OwnAnswer` and `MovesAsAsked`, `EngineOwns` of `ReadyIsOwner` and `SweepsAll`,
`ConversationsEnd` of `NotWedged` and `HeardAlone`. The rest of this text names the parts.

The exact values are in the cfg files. Why they are enough: a witness needs two members, and two
generations show one attempt overlapping the next; a burst of 3 lets a batch take the same address
twice; two faults let one failure fall into the repair of another, three let the world also change
between (the ifindexes allow two rebuilds of a leg); an ageing time of three hold-downs lets two probe
cycles be lost; three members on three domains are the least in which a detour of two hops competes
with a direct leg, a universal one and a leaf; a third measurer or peer finds what two others left; with
a 6-unit `WatchdogSec` two stops of 2 units and a feed period fit, as 30 s, 10 s and 10 s do. Four
mishaps let a removal be cut, a wire go and return beside it and one more command fail; a buffer of two
answers and four numbers let the number wrap while answers are queued; with timeouts 1, 2 and 3 the
state timeout lies between the client's I/O limit and its patience, as 2, 3 and 5 s do. A
second crash during one attempt is left to the proofs, which bound no crashes.

The other runs are expected to be violated; each states what a comment or the repository's README
says and shows a behaviour of the code that contradicts it:

- `confsync_self_heals`: the restart that a changed fabric causes removes the counters, so the
  generation is attempted again and committed as identical to what is installed, without status
  or witness.
- `confsync_stale_witness` (3 members): freshness counts from the ack, not from its writer's
  window; a severed writer reverts without being able to retract.
- `supervisor_twins`: the exit of a killed child is not awaited and is later taken for its
  successor's.
- `absent_wire`: a host that starts without the wire of its ingress leg skips the leg but installs the
  zone's default on it, which fails, and the supervisor exits.

### Known limits of what the passing runs claim

The properties say what the code gives. Where it does not give what one would like, the exception is
in the property or in its bounds, and listed here with the place in the source.

*Conf-sync, supervisor, flush actor, prober.* `AttemptOnce` is about one life of the run directory,
which a restart removes. `RevertsToGood` is checked without crashes: a tick that fails after the
install leaves a text that the next attempt saves as its revert target. A witness is not claimed to
run the same text: `publish` renames the text before the counter. A commit of an identical text is one
step (`conf_sync.rs:212`, ack and counter); no property tells a crash between the two from one before them. `CleanExit` (proved) assumes an
engine that obeys SIGTERM: after SIGKILL the stop sequence does not wait, teardown may find
`engine.lock` held and refuse, and the exit status is 0 all the same. A readback that fails returns
the status of a refused apply although the engine was started (`supervisor/mod.rs:893`). The queue of
the flush actor grows by one key per lease that runs out while it is queued. Its `replace` is not
create-only (`actor.rs:698`): a MAC the kernel learned between the batch's read and the write is overwritten by the
claim, although `actor.rs:103` says that "a MAC the kernel learned beats a DHCP claim". The memory of a refused
write is cleared only by a move (`prober/mod.rs:1035`), so after a refused write the bond may stay on
a failed wire: `FindsItsWire` and `PrimaryIsHeld` except that case. `passive.rs`
(`move_fits_inside_dead`) counts one tick between the active window and the move; `observe` needs
two, so with a hello of 1 s and a dead interval of 2 s the move comes one tick after the deadline its
test calls the last that fits. No property is about that deadline.

*Ownership and feed.* After a stop's rmdir, lock and socket are gone while it still deletes netdevs:
a new `cfab run` takes a fresh lock, and a `cfab down` finds nobody and races it, although
`teardown.rs:48` says it "must never race the supervisor's own stop sequence on the same netdevs".
`down` takes no `cfab.lock`, so a start between its probe and its rmdir overlaps (`crossed`). There is
no feed inside `apply::run`: an apply of more than 20 s is killed by systemd before the 63 s that
`should_feed` allows it. A failed re-apply feeds nothing, so failing re-applies back to back may
starve the watchdog; so may the 5 s reads of an engine that starts and stays silent.

*Workload rows.* The guard file is written before `nft -f`, and a failed load in a re-apply is not
loaded again, since the file is then equal to what is wanted (`apply.rs:672`); the same after a failed
restore of a missing table. Teardown deletes the guard before the gateway addresses
(`teardown.rs:199`). A crash between `ensure_self_vid`'s or `release_vid`'s two writes leaks a vid or
leaves a stale record. One leg that cannot be rebuilt ends the tick for the rest
(`restore_missing_legs`). A row that has no leg, because it was deferred or its leg was deleted, ends every
stop and every `down` at `teardown.rs:215`: `proxy_arp` is written without a look whether the netdev is
there. Forwarding and policy are off by then; the vid of that row, the address and vid of the rows after it,
the rules and the netdevs stay. A vid whose bridge is gone ends it likewise (`leg.rs:247`). A tick with one row it cannot identify does not reload the guard but still
rebuilds another row's leg and address (`fwd_watchdog.rs:504`); a leg that lost its gateway address is
not repaired (`fwd_watchdog.rs:536`). The relay's `wait_for_leg` returns at once when the leg exists,
so an unbindable leg is retried without a pause (`relay.rs:618`). Two empty readings around the bind
let the relay adopt a later ifindex as its baseline and stay deaf; `RelayServes` excepts it
(`adopted`). A loop that a re-apply made late sends its missed burst at once and may start another
beside it, above the rate of `announce.rs:18`.

*Legs of a host.* The tick rebuilds a lost bond over every declared port (`fwd_watchdog.rs:1063`) where
apply leaves out those of absent wires (`apply.rs:572`): with one wire missing the tick fails and leaves a bond
that is down and has no address, and as the netdev then exists, the ticks after it add ports and do not
bring it up; only a re-apply does. The comment there says that the invariant is "the declared leg set exists".
Where the drop policy is not loaded the tick fails closed and returns (`fwd_watchdog.rs:79`), before it looks
at rows, rules and legs; `EventuallyUp` and the claims of the rules are about ticks that get past it.

*Rules, routes, host default.* The rule from a block to a workload prefix has no
`suppress_prefixlength` (`common.rs:46`): identity-sourced traffic to a prefix with no route in main
leaves by main's default, though `common.rs:87` says it never leaves untagged; `PathsSanctioned`
excepts it. The containment route of `apply.rs:537` is not restored by the watchdog, and fabric legs
that `restore_rules` took down stay down until a re-apply. A failing `ip route del` is ignored by
`remove_host_default`; without a default of the host's own, addresses that were never pinned are
exposed, with a warning.

*Ingress leg, check, netlink, engine.* A removal that ends after the bond and before its last port (a
failing `ip link del`, a kill) leaves ports nobody looks for: the leg's name is gone, so every later
removal returns at once (`teardown.rs:107`), and the home wire's port keeps the plain leg from being
made, although `teardown.rs:88` says "the flip can always be undone and always be applied"; a bond
built over them again adopts them. Of a stranger the builders differ: a bond's name is refused, a
plain leg's or a port's is deleted and made anew (`apply.rs:904`), although `apply.rs:1208` says that
"`up` never deletes what it cannot prove is ours". The engine answers one client at a time: while a
provider hangs, the second of two clients waits for the first one's state timeout and then its own,
6 s against its patience of 5, and sees its own timeout and not the error text that
`engine/mod.rs:32` promises (`HeardAlone` is about the first). check warns of less than apply defers for
(`SameVerdict` says one inclusion only): it looks neither at STP nor at who holds the vid. A commit has no
time limit: while a provider hangs in one, the engine hears neither client nor SIGTERM (`NotWedged`
excepts it). A sweep with an engine beside it ends at the first route that goes meanwhile, and one whose
`ip route show` fails takes that for an empty list (`engine_ctl.rs:67`) and reports success with the routes
still there; `SweepsAll` excepts both. Output of `bridge -j` that does not parse reads as no vid
(`uplink.rs:118`) and not as a failed probe; this is not modelled. An interrupted `recv`
(EINTR) keeps its socket and ends the operation: its answer waits for the next call to discard it.

*Shaping.* The daemon reads carriers before `ip monitor` and the signal handler are set up; a failing
`tc` or reconverge is not retried; a re-apply that fails half way leaves wires unshaped; a new cap is
not heard; link noise within the debounce postpones a reconverge for as long as it lasts
(`FloorsFollow` excepts these, `unheard`). A wire whose tree cannot be derived is skipped
(`shape_daemon.rs:112`); the model's wires all derive. `measure-cap` checks the qdiscs before it takes the lease
(`measure_cap.rs:55`); a flood longer than the expiry, or a late release, removes another's lease.

*Declaration.* The equal-cost check is of the intact topology. `validate` does not compare two zones'
ingress vids, declared segment names with derived ones, or gateway subnets with blocks or each
other; it accepts segment 0, zone ids 250 and 253 to 255 (250 is the host default's table; the
kernel shows 253 to 255 by name, so the rule is never found, is added by every tick and never dropped,
`model.rs:921`), one nic twice in a member, two zones of one name, and a zone named like one of the
policy's own sets. Each instance any row allows redistributes all static routes
(`emit/engine.rs:184`). A provider that fails in the Apply phase of a commit, after all have prepared, leaves
the engine's record behind what other providers run (`northbound.rs:266`); this is not modelled.

*Policy and marks.* Flows that were established before a re-declaration keep passing. Forwarding and
gateway addresses are open before the mark table is loaded (`apply.rs:653`), so VM traffic leaves
with its own DSCP in that window or after a failed load. `mark.backend` is written before the other
backend is removed: a crash between lets `down` leave the other's chains; so does a tool that is
removed (`apply.rs:115`). A leaf does not remove a host's leftover table. `policy-teeth` takes
storage to storage for granted, needs a member wired for each zone's first segment, would pass a
generator that emits no admin rules at all, and two runs delete each other's namespaces.

*Status and metrics.* With a silent supervisor `--wait` may end although the daemon, the watchdog or
the announcer is down. An engine that comes back between the two reads is accused of its own port.
`PageTrue` is about the moment of the gather: until the next one the page may be out of date. The page shows the BGP session of a silent engine as absent, `collect_failures` lags one gather, and
`WATCHDOG_RESULTS` lacks "rebuilt".

### Fairness

`ConfSync`: the clock, each daemon's loop and each supervisor run on (systemd restarts the unit
on exit 6). Crashes, partitions and publishes are never assumed. `Supervisor`: `select!` picks
among ready arms at random, so an arm that stays ready is taken; a signalled child exits, one
that ignores SIGTERM when it is killed. Commands and deaths are never assumed. `FlushActor`: the
actor is a task, the bucket refills with the clock; claims, kernel changes and the relay's notify
are never assumed. `Prober`: the tick is an arm of the main loop and `updelay` runs out; a carrier,
a netdev or a wire that comes back is never assumed. `HostRoutes`: the ticks, the engine's respawn,
the watchdog that rebuilds a missing leg and takes up a deferred row, and a VM that is here and speaks
now and then; arrivals and departures are never assumed. `WorkloadLegs`, `HostDefault`: the tick and
its steps. `DhcpRelay`: its task runs, and a VM keeps asking (`RelayServes` is about such a VM).
`ShapeDaemon`: the supervisor respawns the daemon, and it runs on. The other modules have safety
properties only and assume nothing. Failures are bounded, which stands for "nothing fails for ever".

## Proofs

The theorems hold for every value of the constants that satisfies the named assumptions of the
modules. What these ask for beyond types: finite sets of members, keys, children and peers; a base text
that validates; a burst of at least two; a flood no longer than the expiry of its lease; the grace of
a stop below `WatchdogSec` (10 and 30 s in the unit); two probe intervals shorter than the
bridge's ageing time (`ProbeAssumption`); two answers more than the receive buffer holds below the
limit of the sequence numbers (2^32 against a few hundred); a state timeout below the client's patience
(3 and 5 s); a port for every bridge; declarations that validate accepts wherever a command has loaded
one (`EngineAssumption`, `PolicyAssumption`), with octets of any positive width
(`DeclarationAssumption`). Theorems with an `ASSUME` of their own name it: `Obedient`,
`Sensible`, `InPlace` and `NamesApart`, below. Every bound on faults is an arbitrary number.

Where a fact is about what a recursive function computes (a power of two, a commit's partial tree, a
window of frames), the induction is by least element: a counterexample would have a smallest one (`WFMin`
with `NatLessThanWellFounded`), and one step of the definition refutes it.

Each inductive invariant was first checked by TLC on the instance of its run.

*ConfSync.* Types first (`TypeInv`: the poll counter is only spent when there is a poll to
spend). On top of them the order of the two counter files, `committed <= attempted <= gen` with
what each place of the daemon adds to it, gives `AttemptOnce` and `CommitStands`; neither is
inductive alone, because both speak of the generation an attempt works on. On top of that, what
an ack says about its writer, in the shared table and in every frozen copy, gives
`WitnessedByPeer`. `RevertsToGood` needs `RevertInv`: the text a member committed is its local file
until an attempt installs another, and the saved copy from then to the end of the revert. It is
proved under `InPlace` (all texts derive one fabric, no crash), the case the run checks: a restart or a
crash inside an attempt does break it, see the limits.

*FlushActor.* One lemma per table operation shows that it keeps the types and that the queue
covers the dirty entries; every step of the actor is one of these or leaves the table alone.
`TypeOK` needs that a fork that is waited for costs at least one token and that exactly the
`write` place has a write in flight (`Ranges`). `NoLostClaim` needs that the write in flight
carries the entry's present claim unless the entry has been queued again (`JobCurrent`): that is
why the code clears the dirty flag at the take and not after the write. `RowWithinCap` follows
from the one operation that adds entries; `NoLostWakeup` is inductive as it stands. `QueueBounded`
is an account (`PlaceInv`): each place of a key in the queue is paid for by its dirty flag or by an expiry,
and an entry whose lease is over still holds what it will pay with.

*Supervisor.* Two arguments. `TrackInv` says of every child, except the one that `restart_child`
is busy with, that the table names a process that lives or whose exit is in the channel, or that
the child waits out its backoff; it needs nothing of the children and gives `NoChildLost`. The
other theorems need `Obedient`: the engine and the children a re-apply restarts exit on SIGTERM
within their grace (`supervisor_twins` shows what happens otherwise). Then the table and the
processes agree (`AgreeInv`: no process lives that the table does not name, and the channel holds
a child's exit, once, exactly when the named process has ended), because whenever a child is
launched the exit of its predecessor has been taken (`Launchable`). That gives `OneProcess`; with
what each place of the stop sequence has reached (`StopInv`) it gives `StopReachesAll` and
`CleanExit`.

*Prober.* One lemma per function that a tick applies to a port says what it keeps of it (`Keeps`,
`Folded`); from these follow the types and, step by step, `OnlyAFrameRevives`. That the decision
names a port of the leg (`BestPort`) needs that a non-empty set of ranks has a least element.
`PrimaryIsHeld` is about the time between ticks; `HeldInv` is the same at every step.
`HealthyStays` needs `Sensible`, which a declaration gives but nothing in the prober checks: the
dead interval is no shorter than the hello, and home is ranked first. Its invariant `Healthy`
follows the age of every port's last hello through the tick (`OnTime`): recent, due at this very
tick, or not yet arrived and covered by the grace period.

*Metrics endpoint.* `EndpointOpen` is nearly inductive; `ServerInv` adds what a connection remembers of
the pages (`SinceThen`: none was accepted on a page still to come).

*Main loop.* `WatchdogTrue` speaks of the moment of a kill; `OwnTime` accounts for the time since the
last feed in every place of the loop (in an apply, in reads, waiting for a child, until the next feed
is due), and `DeafTime` for how long an engine has been silent: no longer than the feed has been
withheld, plus the grace of its stop.

*Instance.* `SoloInv` says what a stage of a start or a stop implies by itself: which lock and socket its
process holds and whom it has met. `ApartInv`, as long as no run is in `crossed`, says how two of them
exclude each other: one holder, of the directory there is, a teardown alone, an engine in its holder's
directory, a directory never removed under somebody. `SoleOwner` needs both, because what excludes a
second owner was established several steps before the main loop.

*Status and the page.* `ReadInv` says of everything a gather took down (documents, wires, legs, row, default) that it was
true of a member seen since the gather began, and that two members alone are one change apart. `Escapes` and
`AtRest` follow the steps: once the step that looks for a fault has passed, a fault that stood through the gather
has a settling line, or the wire whose loss explains it was gone; this is `VerdictSound`, for any number of
changes. For `PageTrue`, `PageClaims` reads the families of a page back into the model they came from;
`WitnessApplied` and `RowTogether` find, among two members one change apart, the one of which readings put together
from both are true; `WordsRead` says that the lines of a gather of an unchanged member are a function of the member
and of how far the gather is, whoever asks. Beyond types, `SceneAssumption` asks that no leg be named like
a bond, "none" or the declaration's line.

*Lease.* `OneFlood` is not inductive: what excludes a second flood is that the lock is there and not
stale. `LeaseInv` adds that a flood's lock is exactly as old as the flood (`Held`), hence younger than
the expiry at which a reclaim may remove it, and that a measurer in the lock loop has attempts left
(`Tries`).

*Host default.* `PinnedFirst`: from the pins on, while nothing disturbs the pass, every address that is on the floor
is pinned, and while pins are removed there is no route.

*Transit.* `Contained` speaks of the end of a pass; `ApplyFirst`, `TickFirst` and `StopFirst` say what
each step of the three has reached: the policy is "drop" before anything is opened, forwarding is off
before the policy goes. A half-made leg is one that was missing and does not forward (`HalfMadeOf`), so a
builder that fails disturbs none of this.

*Workload rows.* `VidInv`: a vid of cfab's is in the record or about to be, and one of the host's never
is. `StopInv`: what a teardown has still to do, and that the bridge of the row it has begun is there
as long as nothing disturbs it, so that only a missing leg makes an undisturbed one give up. `PhaseInv`: what the pass knows of the uplinks is what the guard file says,
until something disturbs it.

*Host routes.* `EngineInStep` is inductive with `Fresh` (no remembered ifindex is one the kernel has still
to give). `ImplementsDamper` is proved step by step: every step of the reconcile is a step of `Damper` under the mapping or
leaves it alone; it needs `HoldInv`, that a deadline and the time an address was unseen add up to the hold-down. For
`VmsKept`, `Margin` relates the life left of a bridge entry to the probe cycles that may still be lost
before it ends, row by row of the pass.

*Ingress leg.* `ApplyInv` says how much of the leg stands at each place of an undisturbed apply, up to its
default. `FlipInv`
says what may be on the host while the names are cfab's: a port whose bond is gone is one that a
removal in progress has still to delete, unless that removal was cut.

*Pre-flight.* `WalkInv` and `PlacedInv` follow the loops over the rows; `ApplySteady` and `CheckSteady`
say what has been learnt of a host that stands still by each place of the two, and agree because both
speak of the same facts.

*Netlink.* `OwnAnswer` needs that the queue of a usable socket holds exactly the answers to the last
requests, one each and in order (`QueueInv`, with `Back` counting backwards past the wrap): as they are
fewer than the numbers, only the last one carries the number of the call. `MovesAsAsked` needs
`IndexInv`: the index that was looked up belongs to the port or to nobody any more, since the kernel
gives none twice.

*Engine process.* `OwnerInv` says where path, routes and lock are at every place of a process, `PaceInv`
how much of its time a conversation has used, `Alone` how long a client that met nobody has waited in
each of its parts, `SweepInv` which protocols a sweep without company has emptied.

*Rules.* `RulesInv` says which rules stand at each place of an apply, a tick and a stop, and that a kill or
a failure leaves only rules of the wanted list or rules somebody else removed. `PathsSanctioned` is then a
fact about one rule list: the first rule that answers is found by preference (`FoundIs`, `FirstAnswer`),
for any tables, so the argument is a case split on which rule that is.

*Announcer.* `FrameRate` is about a window; `AnnInv` bounds the frames of every window that ends now by the
beacons in it plus what the last two bursts can cover of it, and relates the burst that is left, the time since the
last trigger and what is owed. A burst that begins ends the previous one, which is why two suffice.

*Declaration.* `AcceptedCoherent` needs no invariant but that what is live was accepted; the work is in
the arithmetic: powers of two multiply and divide, two prefixes that do not overlap under the shorter mask share no
address, an address determines its octets. Names are apart because each kind of name has its own first
component, except a port's of a bond called cfab-work and a row's leg, which is what `LegFree` refuses.

*Engine configuration.* `EngInv` says that a tree is `NoTree`, the tree of the declaration with the
cost and the routes last asked for, or, while a commit is under way, one of the three partial trees
between; and that what is asked for was accepted. `OwnersOnly` then follows a route through the instance, the import
policy and the export policy; it needs `Coherent`, because an identity and a row's address are told apart by prefix.

*Forward policy.* `PolInv` says what each step of an apply has reached: the record names a tool that is there, the
chains are laid before they are jumped to, no table stands without its tool, and an apply that met no failure
has left exactly what its record says. With `PolicyVerdict`, what a chain decides of any packet, it gives
`OnlyDeclaredForwards`, for all declarations. `MarkedOnce` and `TeethFair` hold under `NamesApart` (no two zones of
one name; no segment named like an ingress leg, a wire of the member or the test's other stack), which `validate` does not
check (`model.rs:922` compares ids only): with two zones of one name a packet gets whichever mark the later zone's rule
sets. `MCDeclared` asserts it of the instances, so the hypothesis is met. `TeethInv` says that the tests found red are
those before the present one whose result is false, and `MatrixGreen` and `TestsBite` compute each of the five results.

### Only model-checked

Every liveness property (`AttemptEnds`, `KeepsGoing`, `Restored`, `FindsItsWire`, `Converges`, `EventuallyUp`,
`DefaultFollows`, `RelayServes`, `FloorsFollow`): liveness under fairness is out of the prover's reach. `PathsOrdered`
compares the number of shortest paths a search finds with the number there are: an induction over rounds of
the search and over paths, with cardinalities of sets of paths, for which no lemmas are at hand.
The properties of the
runs that must fail (`SelfHeals`, `WitnessStands`, `OneEngine`, `AbsentWireNeverRefuses`) are false.

## Not modelled

The report `check` makes of the file, the parsing of the declaration's text and its messages, the JSON and
text of reports, and the syntax of what is generated for nft, tc, iptables and the engine: pure
text. The engine's protocols, the bonding driver, the bridge, the kernel's lookup and pmxcfs are external and
appear as far as cfab relies on them. The wait for links
to settle (`engine_ctl.rs`), identity netdevs, and most of the I/O wrappers only have to
succeed; a failure is a failing step. Durations count where a deadline is compared with one; a
clock that jumps is not modelled. The neighbor cap is a constant, whereas the code reads it before
it takes the table's lock. More than half of the lines of the source files are inline tests, which
the map leaves out.

## Plan

1. `OneProcess` and `StopReachesAll` without `Obedient`, with `Overtaken` as the exception, as the run
   states them.
2. Safety of the DHCP relay and of the shaping daemon, whose properties are liveness only: types, and what
   a bound socket and a written floor imply.
3. Abstract specifications: an atomic publish that `ConfSync` would implement without the runs'
   exceptions; a map from addresses to MACs that `FlushActor` implements.
