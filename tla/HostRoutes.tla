----------------------------- MODULE HostRoutes -----------------------------
(***************************************************************************)
(* The per-VM host routes of one member: the level-triggered reconcile the *)
(* supervisor's 3 s workload tick runs (src/workload/hostroutes.rs,        *)
(* src/supervisor/workload.rs), the engine requests it makes (RouteEngine) *)
(* and the world it reads: bridge FDB, neighbor table, leg and nft set.    *)
(*                                                                         *)
(* Time is counted in ticks.  A VM is "here" while it runs on this host    *)
(* and sits on one of the bridge's VM ports.                               *)
(***************************************************************************)
EXTENDS RouteEngine, FiniteSets

CONSTANTS VMs,         \* VM addresses on a leg (fabric addresses excluded)
          Own,         \* the member's own leg address
          Absent,      \* an address with no hold-down entry
          Live,        \* an entry with no deadline
          Holddown,    \* HOLDDOWN = PERIOD, in ticks
          Ageing,      \* the bridge's ageing_time, in ticks
          DefaultAgeing, \* DEFAULT_AGEING, in ticks
          MaxIfindex,  \* bound: ifindexes the kernel hands out
          MaxFaults    \* bound: failures and outside events

ASSUME HostRoutesAssumption ==
    /\ Own \notin VMs
    /\ Absent \notin Nat /\ Live \notin Nat /\ Absent # Live
    /\ Routes = VMs \cup {Own}
    /\ Holddown \in Nat \ {0}
    /\ Ageing \in Nat \ {0}
    /\ DefaultAgeing \in Nat \ {0}
    /\ MaxIfindex \in Nat
    /\ MaxFaults \in Nat

VARIABLES
    here,      \* [Legs -> SUBSET VMs] VMs running on this host
    fdb,       \* [Legs -> [VMs -> 0..Ageing]] life left of the VM-port entry
    neigh,     \* [Legs -> SUBSET VMs] resolved neighbor entries
    ifindex,   \* [Legs -> 0..MaxIfindex] 0 = no such netdev
    born,      \* the last ifindex the kernel handed out
    deferred,  \* [Legs -> BOOLEAN] the name is in workload-deferred
    row,       \* [Legs -> Row] HostRoutes.rows
    up,        \* the engine answers its socket
    engine,    \* EngineState
    running,   \* what the northbound has in force
    nft,       \* [Legs -> SUBSET VMs] the <leg>-local set
    tick,      \* the pass in progress
    quiet,     \* ticks since a read last saw the VM (observer)
    missed,    \* probe cycles the VM missed since its FDB refresh (observer)
    faults     \* failures and outside events so far

env  == <<here, fdb, neigh, ifindex, born, deferred>>
eng  == <<up, engine, running>>
obs  == <<quiet, missed>>
vars == <<env, row, eng, nft, tick, obs, faults>>

RowNew == [due |-> [v \in VMs |-> Absent], last |-> {}, seen |-> FALSE, probe |-> 0]

Idle == [step |-> "idle", todo |-> {}, leg |-> Own, ifindex |-> 0,
         live |-> {}, wanted |-> {}, held |-> {}, installed |-> FALSE]

Least(a, b) == IF a < b THEN a ELSE b

\* A failure or an outside event spends one unit of the fault budget.
Fault == faults < MaxFaults /\ faults' = faults + 1
NoFault == faults' = faults

Init ==
    /\ here \in [Legs -> SUBSET VMs]
    /\ fdb = [l \in Legs |-> [v \in VMs |-> IF v \in here[l] THEN Ageing ELSE 0]]
    /\ neigh = here
    /\ born = 1 /\ ifindex = [l \in Legs |-> 1]
    /\ deferred = [l \in Legs |-> FALSE]
    /\ row = [l \in Legs |-> RowNew]
    /\ up = TRUE /\ engine = EngineNew /\ running = RunningNew
    /\ nft \in {here, [l \in Legs |-> {}]}
    /\ tick = [Idle EXCEPT !.step = "due"]
    /\ quiet = [l \in Legs |-> [v \in VMs |-> Holddown]]
    /\ missed = [l \in Legs |-> [v \in VMs |-> 0]]
    /\ faults = 0

-----------------------------------------------------------------------------
(* Holddown and the reads.                                                 *)

\* local_vms: resolved on the leg and seen on a port that is no uplink.
LocalVms(l) == {v \in VMs : v \in neigh[l] /\ fdb[l][v] > 0}

\* Mistakes in Holddown::observe: no hold-down at all, and a deadline moved by
\* every observation.
ObserveAtOnce(due, live) == [v \in VMs |-> IF v \in live THEN Live ELSE Absent]
ObserveRearms(due, live) ==
    [v \in VMs |-> CASE v \in live -> Live
                     [] v \notin live /\ due[v] = Absent -> Absent
                     [] OTHER -> Holddown]

\* Holddown::observe: the deadline an address has after seeing "live" ...
Observe(due, live) ==
    [v \in VMs |->
        CASE v \in live                       -> Live
          [] v \notin live /\ due[v] = Live   -> Holddown
          [] v \notin live /\ due[v] = 0      -> Absent
          [] OTHER                            -> due[v]]

\* ... and the addresses it wants.
Wanted(due) == {v \in VMs : due[v] # Absent}

\* probe_interval: a third of the ageing time, never below one PERIOD.
ProbeInterval(ageing) == IF ageing \div 3 > Holddown THEN ageing \div 3 ELSE Holddown

\* Where the bridge gives it time to: two probe cycles fit in the ageing time.
ASSUME ProbeAssumption ==
    \A ageing \in {Ageing, DefaultAgeing} : 2 * ProbeInterval(ageing) < Ageing

\* The row of leg l is finished: the next one, or the end of the pass.
RowDone(l) ==
    IF tick.todo = {l} THEN [Idle EXCEPT !.step = "done"]
    ELSE [Idle EXCEPT !.step = "read", !.todo = tick.todo \ {l}]

-----------------------------------------------------------------------------
(* One pass over the rows.                                                 *)

TickStart ==
    /\ tick.step = "due"
    /\ tick' = [Idle EXCEPT !.step = "read", !.todo = Legs]
    /\ UNCHANGED <<env, row, eng, nft, obs, faults>>

\* A deferred row forgets its hold-down and its membership.
ReadDeferred(l) ==
    /\ tick.step = "read" /\ l \in tick.todo
    /\ deferred[l]
    /\ row' = [row EXCEPT ![l] = [@ EXCEPT !.due = [v \in VMs |-> Absent], !.last = {}]]
    /\ tick' = [tick EXCEPT !.step = "observe", !.leg = l, !.live = {}, !.installed = FALSE]
    /\ quiet' = [quiet EXCEPT ![l] = [v \in VMs |-> Holddown]]
    /\ missed' = [missed EXCEPT ![l] = [v \in VMs |-> 2]]
    /\ UNCHANGED <<env, eng, nft, faults>>

ReadLocal(l) ==
    /\ tick.step = "read" /\ l \in tick.todo
    /\ ~deferred[l] /\ ifindex[l] # 0
    /\ tick' = [tick EXCEPT !.step = "observe", !.leg = l, !.live = LocalVms(l),
                            !.installed = TRUE]
    /\ quiet' = [quiet EXCEPT ![l] = [v \in VMs |-> IF v \in LocalVms(l) THEN 0 ELSE @[v]]]
    /\ UNCHANGED <<env, row, eng, nft, missed, faults>>

\* A read that fails (always so when the leg is not there) costs the row this
\* tick and changes nothing.
ReadFails(l) ==
    /\ tick.step = "read" /\ l \in tick.todo
    /\ ~deferred[l]
    /\ IF ifindex[l] = 0 THEN NoFault ELSE Fault
    /\ tick' = RowDone(l)
    /\ missed' = IF row[l].probe > 0 THEN missed
                 ELSE [missed EXCEPT ![l] = [v \in VMs |-> Least(@[v] + 1, 2)]]
    /\ UNCHANGED <<env, row, eng, nft, quiet>>

\* reconcile_membership: the addresses that left the wanted set; the first pass
\* only takes a baseline.
Departed(l, want) == IF tick.installed /\ row[l].seen THEN row[l].last \ want ELSE {}

\* leg_ifindex, Holddown::observe and reconcile_membership: a departed address
\* has its neighbor entry deleted.  "kept" are the deletions that failed.
ReconcileMembership(kept) ==
    LET l    == tick.leg
        due  == Observe(row[l].due, tick.live)
        want == Wanted(due)
        gone == Departed(l, want)
    IN  /\ tick.step = "observe"
        /\ kept \subseteq gone
        /\ IF kept = {} THEN NoFault ELSE Fault
        /\ neigh' = [neigh EXCEPT ![l] = @ \ (gone \ kept)]
        /\ row' = [row EXCEPT ![l] = [due |-> due,
                                      last |-> IF tick.installed THEN want ELSE @.last,
                                      seen |-> @.seen \/ tick.installed,
                                      probe |-> @.probe]]
        /\ tick' = [tick EXCEPT !.step = "ask", !.wanted = want, !.ifindex = ifindex[l]]
        /\ UNCHANGED <<here, fdb, ifindex, born, deferred, eng, nft, obs>>

\* ask_engine: the whole set, every tick.  The engine may be down, or a commit
\* may be refused after "landed" of the request's steps.
AskEngine(landed) ==
    LET req   == RoutesReq(tick.leg, tick.ifindex,
                           tick.wanted \cup (IF tick.installed THEN {Own} ELSE {}))
        steps == Steps(engine, req)
    IN  /\ tick.step = "ask"
        /\ landed \in 0..Len(steps)
        /\ (~up => landed = 0)
        /\ IF up /\ landed < Len(steps) THEN Fault ELSE NoFault
        /\ engine' = Adopted(engine, steps, landed)
        /\ running' = InForce(running, steps, landed, ifindex)
        /\ tick' = [tick EXCEPT !.step = "list"]
        /\ UNCHANGED <<env, row, up, nft, obs>>

\* sync_set: list what nft holds ...
ListSet(ok) ==
    /\ tick.step = "list"
    /\ IF ok THEN NoFault ELSE Fault
    /\ tick' = [tick EXCEPT !.step = IF ok THEN "move" ELSE "probe",
                            !.held = IF ok THEN nft[tick.leg] ELSE {}]
    /\ UNCHANGED <<env, row, eng, nft, obs>>

\* ... then add and delete the difference; deleting an element that is no
\* longer there is refused, and a refusal ends the row's update.
MoveSet(done) ==
    LET l     == tick.leg
        add   == tick.wanted \ tick.held
        del   == tick.held \ tick.wanted
        added == nft[l] \cup add
        can   == del \subseteq added
    IN  /\ tick.step = "move"
        /\ done \in 0..2
        /\ (~can => done < 2)
        /\ IF done = 2 \/ (~can /\ done = 1) THEN NoFault ELSE Fault
        /\ nft' = [nft EXCEPT ![l] = CASE done = 0 -> @
                                       [] done = 1 -> added
                                       [] done = 2 -> added \ del]
        /\ tick' = [tick EXCEPT !.step = "probe"]
        /\ UNCHANGED <<env, row, eng, obs>>

\* maybe_probe: when due, one unicast ARP to every VM of this tick's read; a
\* VM that is here answers, and the answer refreshes its FDB entry.
MaybeProbe(lost, ageing) ==
    LET l == tick.leg
        due == tick.installed /\ row[l].probe = 0
        answers(v) == v \in tick.live \ lost /\ v \in here[l]
    IN  /\ tick.step = "probe"
        /\ lost \in SUBSET tick.live
        /\ ageing \in {Ageing, DefaultAgeing}
        /\ (~due => lost = {} /\ ageing = Ageing)
        /\ IF lost = {} THEN NoFault ELSE Fault
        /\ IF due
           THEN /\ row' = [row EXCEPT ![l].probe = ProbeInterval(ageing)]
                /\ fdb' = [fdb EXCEPT ![l] = [v \in VMs |-> IF answers(v) THEN Ageing ELSE @[v]]]
                /\ missed' = [missed EXCEPT ![l] = [v \in VMs |->
                                CASE answers(v)                      -> 0
                                  [] ~answers(v) /\ v \in tick.live  -> Least(@[v] + 1, 2)
                                  [] OTHER                           -> 2]]
           ELSE UNCHANGED <<row, fdb, missed>>
        /\ tick' = RowDone(l)
        /\ UNCHANGED <<here, neigh, ifindex, born, deferred, eng, nft, quiet>>

\* A tick goes by: deadlines approach, FDB entries age.
Pass ==
    /\ tick.step = "done"
    /\ tick' = [Idle EXCEPT !.step = "due"]
    /\ row' = [l \in Legs |->
                 [row[l] EXCEPT !.due = [v \in VMs |-> IF @[v] \in 1..Holddown THEN @[v] - 1 ELSE @[v]],
                                !.probe = IF @ > 0 THEN @ - 1 ELSE 0]]
    /\ fdb' = [l \in Legs |-> [v \in VMs |-> IF fdb[l][v] > 0 THEN fdb[l][v] - 1 ELSE 0]]
    /\ quiet' = [l \in Legs |-> [v \in VMs |-> Least(quiet[l][v] + 1, Holddown)]]
    /\ UNCHANGED <<here, neigh, ifindex, born, deferred, eng, nft, missed, faults>>

-----------------------------------------------------------------------------
(* The world around the pass.                                              *)

\* A VM is started here or migrates in: its first frames are seen on its tap.
Arrive(l, v) ==
    /\ v \notin here[l] /\ Fault
    /\ here' = [here EXCEPT ![l] = @ \cup {v}]
    /\ fdb' = [fdb EXCEPT ![l][v] = Ageing]
    /\ missed' = [missed EXCEPT ![l][v] = 0]
    /\ neigh' = IF ifindex[l] = 0 THEN neigh ELSE [neigh EXCEPT ![l] = @ \cup {v}]
    /\ UNCHANGED <<ifindex, born, deferred, row, eng, nft, tick, quiet>>

\* A VM migrates away; the announcement from its new host may reach the uplink
\* at once, or the old entry stays until it ages out.
Depart(l, v, heard) ==
    /\ v \in here[l] /\ Fault
    /\ here' = [here EXCEPT ![l] = @ \ {v}]
    /\ fdb' = IF heard THEN [fdb EXCEPT ![l][v] = 0] ELSE fdb
    /\ UNCHANGED <<neigh, ifindex, born, deferred, row, eng, nft, tick, obs>>

\* A VM that is here sends a frame (or the flush actor writes its DHCP lease).
Speak(l, v) ==
    /\ v \in here[l]
    /\ fdb' = [fdb EXCEPT ![l][v] = Ageing]
    /\ missed' = [missed EXCEPT ![l][v] = 0]
    /\ neigh' = IF ifindex[l] = 0 THEN neigh ELSE [neigh EXCEPT ![l] = @ \cup {v}]
    /\ UNCHANGED <<here, ifindex, born, deferred, row, eng, nft, tick, quiet, faults>>

\* The leg is deleted ...
LoseLeg(l) ==
    /\ ifindex[l] # 0 /\ Fault
    /\ ifindex' = [ifindex EXCEPT ![l] = 0]
    /\ neigh' = [neigh EXCEPT ![l] = {}]
    /\ UNCHANGED <<here, fdb, born, deferred, row, eng, nft, tick, obs>>

\* ... or (re)built by the forwarding watchdog or a re-apply, under an index
\* the kernel never handed out before and with an empty neighbor table.
BuildLeg(l) ==
    /\ born < MaxIfindex
    /\ IF ifindex[l] = 0 THEN NoFault ELSE Fault
    /\ born' = born + 1
    /\ ifindex' = [ifindex EXCEPT ![l] = born + 1]
    /\ neigh' = [neigh EXCEPT ![l] = {}]
    /\ UNCHANGED <<here, fdb, deferred, row, eng, nft, tick, obs>>

\* apply writes the row's name to workload-deferred; a leg of an earlier apply
\* stays as it is.
Defer(l) ==
    /\ ~deferred[l] /\ Fault
    /\ deferred' = [deferred EXCEPT ![l] = TRUE]
    /\ UNCHANGED <<here, fdb, neigh, ifindex, born, row, eng, nft, tick, obs>>

\* The watchdog built the leg and takes the name out of the file.
Undefer(l) ==
    /\ deferred[l] /\ ifindex[l] # 0
    /\ deferred' = [deferred EXCEPT ![l] = FALSE]
    /\ UNCHANGED <<here, fdb, neigh, ifindex, born, row, eng, nft, tick, obs, faults>>

\* apply re-renders the forward table with the sets seed_locals read; a row
\* that is deferred or cannot be read is seeded empty.
Rerender(unread) ==
    /\ Fault
    /\ unread \in SUBSET Legs
    /\ nft' = [l \in Legs |-> IF deferred[l] \/ ifindex[l] = 0 \/ l \in unread THEN {}
                              ELSE LocalVms(l)]
    /\ UNCHANGED <<env, row, eng, tick, obs>>

\* The engine exits with its routes; a new one starts from the base tree.
EngineExits ==
    /\ up /\ Fault
    /\ up' = FALSE /\ engine' = EngineNew /\ running' = RunningNew
    /\ UNCHANGED <<env, row, nft, tick, obs>>

EngineStarts ==
    /\ ~up
    /\ up' = TRUE
    /\ UNCHANGED <<env, row, engine, running, nft, tick, obs, faults>>

\* The forwarding watchdog re-advertises the transit links.
AskTransit(cost) ==
    /\ up /\ engine.transit # cost /\ Fault
    /\ engine' = Adopted(engine, Steps(engine, TransitReq(cost)), 1)
    /\ running' = InForce(running, Steps(engine, TransitReq(cost)), 1, ifindex)
    /\ UNCHANGED <<env, row, up, nft, tick, obs>>

\* A new supervisor process starts with empty rows.
SupervisorRestarts ==
    /\ Fault
    /\ row' = [l \in Legs |-> RowNew]
    /\ tick' = [Idle EXCEPT !.step = "due"]
    /\ quiet' = [l \in Legs |-> [v \in VMs |-> Holddown]]
    /\ UNCHANGED <<env, eng, nft, missed>>

-----------------------------------------------------------------------------
TickSteps ==
    \/ TickStart
    \/ \E l \in Legs : ReadDeferred(l) \/ ReadLocal(l) \/ ReadFails(l)
    \/ \E kept \in SUBSET VMs : ReconcileMembership(kept)
    \/ \E landed \in 0..2 : AskEngine(landed)
    \/ \E ok \in BOOLEAN : ListSet(ok)
    \/ \E done \in 0..2 : MoveSet(done)
    \/ \E lost \in SUBSET VMs, ageing \in {Ageing, DefaultAgeing} : MaybeProbe(lost, ageing)
    \/ Pass

World ==
    \/ \E l \in Legs, v \in VMs :
          Arrive(l, v) \/ Depart(l, v, TRUE) \/ Depart(l, v, FALSE) \/ Speak(l, v)
    \/ \E l \in Legs : LoseLeg(l) \/ BuildLeg(l) \/ Defer(l) \/ Undefer(l)
    \/ \E unread \in SUBSET Legs : Rerender(unread)
    \/ EngineExits \/ EngineStarts
    \/ \E cost \in Costs : AskTransit(cost)
    \/ SupervisorRestarts

Next == TickSteps \/ World

\* The supervisor's loop keeps ticking, its engine child is restarted, the
\* watchdog rebuilds a missing leg, and a running VM sends a frame now and then.
Fairness ==
    /\ WF_vars(TickSteps)
    /\ WF_vars(EngineStarts)
    /\ \A l \in Legs : WF_vars(BuildLeg(l) /\ ifindex[l] = 0) /\ WF_vars(Undefer(l))
    /\ \A l \in Legs, v \in VMs : WF_vars(Speak(l, v))

Spec == Init /\ [][Next]_vars
LiveSpec == Spec /\ Fairness

-----------------------------------------------------------------------------
(* Properties.                                                             *)

\* The types of the rows, of the pass and of the reads.
HostTypeOK ==
    /\ here \in [Legs -> SUBSET VMs] /\ neigh \in [Legs -> SUBSET VMs]
    /\ nft \in [Legs -> SUBSET VMs]
    /\ fdb \in [Legs -> [VMs -> 0..Ageing]]
    /\ ifindex \in [Legs -> Nat] /\ born \in Nat
    /\ row \in [Legs -> [due : [VMs -> 0..Holddown \cup {Absent, Live}], last : SUBSET VMs,
                         seen : BOOLEAN, probe : Nat]]
    /\ tick \in [step : {"due", "read", "observe", "ask", "list", "move", "probe", "done"},
                 todo : SUBSET Legs, leg : Legs \cup {Own}, ifindex : Nat,
                 live : SUBSET VMs, wanted : SUBSET VMs, held : SUBSET VMs,
                 installed : BOOLEAN]
    /\ (tick.step \in {"observe", "ask", "list", "move", "probe"} => tick.leg \in Legs)
    /\ quiet \in [Legs -> [VMs -> 0..Holddown]]
    /\ missed \in [Legs -> [VMs -> 0..2]]
    /\ engine \in [transit : Costs, routes : [Legs -> [ifindex : Nat, cidrs : SUBSET Routes]]]
    /\ running \in [transit : Costs, routes : [Legs -> SUBSET Routes],
                    at : [Legs -> [Routes -> Nat]]]

\* What the engine remembers is what the northbound has in force: no refused
\* commit, transit flap or restart lets a later identical request diff to
\* nothing while the leg is withdrawn (EngineState, commit_steps).
StateMatchesRunning ==
    /\ engine.transit = running.transit
    /\ \A l \in Legs : engine.routes[l].cidrs = running.routes[l]

\* While the engine's ifindex for a leg is the leg's current one, every route
\* in force on the leg was resolved to that index: no route points at a dead
\* netdev unnoticed (the two-commit move of EngineState::apply).
RoutesResolved ==
    \A l \in Legs :
        engine.routes[l].ifindex = ifindex[l] /\ ifindex[l] # 0
            => \A c \in running.routes[l] : running.at[l][c] = ifindex[l]

\* The engine is in step with its northbound and with the legs: its memory is
\* what is in force, resolved where the leg is now (EngineState::apply).
EngineInStep == StateMatchesRunning /\ RoutesResolved

\* A VM's /32 leaves a live engine only when no read saw the VM for HOLDDOWN,
\* or when an ifindex move withdrew the leg and the reinstall was refused.
\* A failed read, an engine error or an nft error never withdraws.
NoEarlyWithdraw ==
    [][\A l \in Legs, v \in VMs :
          up /\ up' /\ v \in running.routes[l] /\ v \notin running'.routes[l]
            => \/ quiet[l][v] >= Holddown
               \/ running'.routes[l] = {} /\ engine'.routes[l].ifindex # engine.routes[l].ifindex]_vars

\* The hold-down of every row implements the damped membership its readers
\* rely on: seen addresses join at once, unseen ones stay for HOLDDOWN.
Membership == INSTANCE Damper WITH
    Rows <- Legs, Elements <- VMs, Window <- Holddown,
    member <- [l \in Legs |-> Wanted(row[l].due)], idle <- quiet
ImplementsDamper == Membership!Spec

\* The FDB entry of a VM that stays here ages out only after two probe cycles
\* missed it: one lost cycle leaves a full cycle of margin (probe_interval).
IdleVmKept ==
    [][\A l \in Legs, v \in VMs :
          v \in here[l] /\ fdb[l][v] > 0 /\ fdb'[l][v] = 0 /\ here' = here
            => missed[l][v] = 2]_vars

\* A VM that stays here keeps its route: neither a failure nor silence takes it
\* away before the hold-down, and silence only after two lost probe cycles.
VmsKept == NoEarlyWithdraw /\ IdleVmKept

\* Both actuators agree with where the VMs are: the engine originates and nft
\* admits exactly the VMs here, on the leg's current ifindex; nothing is left
\* of a deferred row.
Converged ==
    up /\ \A l \in Legs :
        /\ nft[l] = (IF deferred[l] THEN {} ELSE here[l])
        /\ running.routes[l] = (IF deferred[l] THEN {} ELSE here[l] \cup {Own})
        /\ \A c \in running.routes[l] : running.at[l][c] = ifindex[l]

\* Once the world stops failing the reconcile converges and stays converged,
\* or the leg could not be built again within the model's ifindexes.
Converges == <>[](Converged \/ \E l \in Legs : ifindex[l] = 0)

=============================================================================
