-------------------------- MODULE HostRoutesProofs --------------------------
(***************************************************************************)
(* Proofs about the host routes: the engine is in step with its northbound *)
(* and with the legs, the hold-down implements the damped membership, and  *)
(* no VM that stays loses its route to a failure or to one lost probe.     *)
(* Each holds for any number of legs and VMs and for any times.            *)
(*                                                                         *)
(* And about what follows from a declaration: what validate accepts is     *)
(* coherent, the engines run it and nothing else, and the policy lets      *)
(* through what it permits.  Each holds for any declaration.               *)
(***************************************************************************)
EXTENDS HostRoutes, EngineConfig, ForwardPolicy, WellFoundedInduction, TLAPS

USE HostRoutesAssumption

Busy == {"observe", "ask", "list", "move", "probe"}

Dues == 0..Holddown \cup {Absent, Live}
RowSet == [due : [VMs -> Dues], last : SUBSET VMs, seen : BOOLEAN, probe : Nat]
TickSet == [step : {"due", "done", "read"} \cup Busy, todo : SUBSET Legs, leg : Legs \cup {Own},
            ifindex : Nat, live : SUBSET VMs, wanted : SUBSET VMs, held : SUBSET VMs,
            installed : BOOLEAN]

-----------------------------------------------------------------------------
(* Types, group by group.                                                  *)

EnvTypes ==
    /\ here \in [Legs -> SUBSET VMs] /\ neigh \in [Legs -> SUBSET VMs]
    /\ nft \in [Legs -> SUBSET VMs]
    /\ fdb \in [Legs -> [VMs -> 0..Ageing]]
    /\ ifindex \in [Legs -> Nat] /\ born \in Nat

TickTypes == tick \in TickSet /\ (tick.step \in Busy => tick.leg \in Legs)

ObsTypes == quiet \in [Legs -> [VMs -> 0..Holddown]] /\ missed \in [Legs -> [VMs -> 0..2]]

EngineSet == [transit : Costs, routes : [Legs -> [ifindex : Nat, cidrs : SUBSET Routes]]]
RunningSet == [transit : Costs, routes : [Legs -> SUBSET Routes], at : [Legs -> [Routes -> Nat]]]

\* The type invariant is its five groups.
LEMMA TypeGroups ==
    HostTypeOK <=> /\ EnvTypes /\ TickTypes /\ ObsTypes
                   /\ row \in [Legs -> RowSet]
                   /\ engine \in EngineSet /\ running \in RunningSet
BY DEF HostTypeOK, EnvTypes, TickTypes, ObsTypes, RowSet, TickSet, EngineSet, RunningSet, Busy, Dues

\* What a pass is between two rows.
LEMMA IdleType ==
    /\ Idle \in [step : {"idle"}, todo : SUBSET Legs, leg : Legs \cup {Own}, ifindex : Nat,
                 live : SUBSET VMs, wanted : SUBSET VMs, held : SUBSET VMs, installed : BOOLEAN]
    /\ \A s \in {"due", "done", "read"}, t \in SUBSET Legs :
          [Idle EXCEPT !.step = s, !.todo = t] \in TickSet
    /\ \A s \in {"due", "done"} : [Idle EXCEPT !.step = s] \in TickSet
BY DEF Idle, TickSet, Busy

\* Writing one entry, or one leg's entries, of a table keeps its type.
LEMMA OneEntry ==
    ASSUME NEW S, NEW f \in [Legs -> [VMs -> S]], NEW l \in Legs, NEW v \in VMs, NEW x \in S
    PROVE  [f EXCEPT ![l][v] = x] \in [Legs -> [VMs -> S]]
<1>1. [f[l] EXCEPT ![v] = x] \in [VMs -> S]
  OBVIOUS
<1> QED
  BY <1>1

\* The row of one leg is replaced.
LEMMA OneLeg ==
    ASSUME NEW S, NEW f \in [Legs -> [VMs -> S]], NEW l \in Legs, NEW g \in [VMs -> S]
    PROVE  [f EXCEPT ![l] = g] \in [Legs -> [VMs -> S]]
OBVIOUS

\* The first states have the types.
LEMMA InitTypes == Init => HostTypeOK
<1> SUFFICES ASSUME Init PROVE HostTypeOK
    OBVIOUS
<1>1. EnvTypes
  <2>1. fdb \in [Legs -> [VMs -> 0..Ageing]]
    BY DEF Init
  <2> QED
    BY <2>1 DEF Init, EnvTypes
<1>2. TickTypes
  BY IdleType DEF Init, TickTypes, Busy, Idle
<1>3. ObsTypes
  BY DEF Init, ObsTypes
<1>4. row \in [Legs -> RowSet]
  BY DEF Init, RowNew, RowSet, Dues
<1>5. engine \in EngineSet /\ running \in RunningSet
  BY DEF Init, EngineNew, RunningNew, NoLeg, EngineSet, RunningSet, Costs
<1> QED
  BY <1>1, <1>2, <1>3, <1>4, <1>5, TypeGroups

\* Every step keeps the types of the world.
LEMMA EnvStep == HostTypeOK /\ [Next]_vars => EnvTypes'
<1> SUFFICES ASSUME EnvTypes, TickTypes, row \in [Legs -> RowSet], [Next]_vars PROVE EnvTypes'
    BY TypeGroups
<1> USE DEF EnvTypes
<1>1. CASE TickStart
  BY <1>1 DEF TickStart, env
<1>2. ASSUME NEW l \in Legs, ReadDeferred(l) \/ ReadLocal(l) \/ ReadFails(l) PROVE EnvTypes'
  BY <1>2 DEF ReadDeferred, ReadLocal, ReadFails, env
<1>3. ASSUME NEW kept \in SUBSET VMs, ReconcileMembership(kept) PROVE EnvTypes'
  BY <1>3 DEF ReconcileMembership
<1>4. ASSUME NEW landed \in 0..2, AskEngine(landed) PROVE EnvTypes'
  BY <1>4 DEF AskEngine, env
<1>5. ASSUME NEW ok \in BOOLEAN, ListSet(ok) PROVE EnvTypes'
  BY <1>5 DEF ListSet, env
<1>6. ASSUME NEW done \in 0..2, MoveSet(done) PROVE EnvTypes'
  <2>1. tick.leg \in Legs /\ tick.wanted \subseteq VMs
    BY <1>6 DEF MoveSet, TickTypes, TickSet, Busy
  <2> QED
    BY <1>6, <2>1 DEF MoveSet, env
<1>7. ASSUME NEW lost \in SUBSET VMs, NEW ageing \in {Ageing, DefaultAgeing}, MaybeProbe(lost, ageing)
      PROVE EnvTypes'
  <2>1. tick.leg \in Legs
    BY <1>7 DEF MaybeProbe, TickTypes, Busy
  <2>2. DEFINE g == [v \in VMs |-> IF v \in tick.live \ lost /\ v \in here[tick.leg]
                                    THEN Ageing ELSE fdb[tick.leg][v]]
  <2>3. g \in [VMs -> 0..Ageing]
    BY <2>1
  <2>4. fdb' = [fdb EXCEPT ![tick.leg] = g] \/ fdb' = fdb
    BY <1>7 DEF MaybeProbe
  <2> HIDE DEF g
  <2>5. fdb' \in [Legs -> [VMs -> 0..Ageing]]
    BY <2>1, <2>3, <2>4, OneLeg
  <2> QED
    BY <1>7, <2>5 DEF MaybeProbe
<1>8. CASE Pass
  <2>1. \A l \in Legs, v \in VMs : (IF fdb[l][v] > 0 THEN fdb[l][v] - 1 ELSE 0) \in 0..Ageing
    OBVIOUS
  <2>2. fdb' \in [Legs -> [VMs -> 0..Ageing]]
    BY <1>8, <2>1 DEF Pass
  <2> QED
    BY <1>8, <2>2 DEF Pass
<1>9. ASSUME NEW l \in Legs, NEW v \in VMs,
             Arrive(l, v) \/ Depart(l, v, TRUE) \/ Depart(l, v, FALSE) \/ Speak(l, v) PROVE EnvTypes'
  <2>1. [fdb EXCEPT ![l][v] = Ageing] \in [Legs -> [VMs -> 0..Ageing]]
    BY OneEntry
  <2>2. [fdb EXCEPT ![l][v] = 0] \in [Legs -> [VMs -> 0..Ageing]]
    BY OneEntry
  <2>3. fdb' \in [Legs -> [VMs -> 0..Ageing]]
    <3>1. CASE Arrive(l, v) \/ Speak(l, v)
      BY <2>1, <3>1 DEF Arrive, Speak
    <3>2. CASE Depart(l, v, TRUE)
      BY <2>2, <3>2 DEF Depart
    <3>3. CASE Depart(l, v, FALSE)
      BY <3>3 DEF Depart
    <3> QED
      BY <1>9, <3>1, <3>2, <3>3
  <2>4. CASE Arrive(l, v) \/ Speak(l, v)
    <3>1. /\ [here EXCEPT ![l] = @ \cup {v}] \in [Legs -> SUBSET VMs]
          /\ [neigh EXCEPT ![l] = @ \cup {v}] \in [Legs -> SUBSET VMs]
      OBVIOUS
    <3>2. here' \in [Legs -> SUBSET VMs]
      BY <2>4, <3>1 DEF Arrive, Speak
    <3>3. neigh' \in [Legs -> SUBSET VMs]
      BY <2>4, <3>1 DEF Arrive, Speak
    <3> QED
      BY <2>3, <2>4, <3>2, <3>3 DEF Arrive, Speak
  <2>5. CASE Depart(l, v, TRUE)
    BY <2>3, <2>5 DEF Depart
  <2>6. CASE Depart(l, v, FALSE)
    BY <2>3, <2>6 DEF Depart
  <2> QED
    BY <1>9, <2>4, <2>5, <2>6
<1>10. ASSUME NEW l \in Legs, LoseLeg(l) \/ BuildLeg(l) \/ Defer(l) \/ Undefer(l) PROVE EnvTypes'
  <2>1. CASE LoseLeg(l)
    BY <2>1 DEF LoseLeg
  <2>2. CASE BuildLeg(l)
    BY <2>2 DEF BuildLeg
  <2>3. CASE Defer(l) \/ Undefer(l)
    BY <2>3 DEF Defer, Undefer
  <2> QED
    BY <1>10, <2>1, <2>2, <2>3
<1>11. ASSUME NEW unread \in SUBSET Legs, Rerender(unread) PROVE EnvTypes'
  BY <1>11 DEF Rerender, env, LocalVms
<1>12. CASE EngineExits \/ EngineStarts \/ SupervisorRestarts
  BY <1>12 DEF EngineExits, EngineStarts, SupervisorRestarts, env
<1>13. ASSUME NEW cost \in Costs, AskTransit(cost) PROVE EnvTypes'
  BY <1>13 DEF AskTransit, env
<1>14. CASE UNCHANGED vars
  BY <1>14 DEF vars, env
<1> QED
  BY <1>1, <1>2, <1>3, <1>4, <1>5, <1>6, <1>7, <1>8, <1>9, <1>10, <1>11, <1>12, <1>13, <1>14
, ZenonT(60) DEF Next, TickSteps, World

\* The steps of the world outside the pass: they leave the pass alone, and all
\* but a restart the rows and the quiet times too.
LEMMA WorldFrame ==
    ASSUME World \/ UNCHANGED vars
    PROVE  \/ UNCHANGED <<row, tick, quiet>>
           \/ SupervisorRestarts
<1>1. ASSUME NEW l \in Legs, NEW v \in VMs,
             Arrive(l, v) \/ Depart(l, v, TRUE) \/ Depart(l, v, FALSE) \/ Speak(l, v)
      PROVE  UNCHANGED <<row, tick, quiet>>
  BY <1>1 DEF Arrive, Depart, Speak, obs
<1>2. ASSUME NEW l \in Legs, LoseLeg(l) \/ BuildLeg(l) \/ Defer(l) \/ Undefer(l)
      PROVE  UNCHANGED <<row, tick, quiet>>
  BY <1>2 DEF LoseLeg, BuildLeg, Defer, Undefer, obs
<1>3. ASSUME NEW unread \in SUBSET Legs, Rerender(unread) PROVE UNCHANGED <<row, tick, quiet>>
  BY <1>3 DEF Rerender, obs
<1>4. CASE EngineExits \/ EngineStarts
  BY <1>4 DEF EngineExits, EngineStarts, obs
<1>5. ASSUME NEW cost \in Costs, AskTransit(cost) PROVE UNCHANGED <<row, tick, quiet>>
  BY <1>5 DEF AskTransit, obs
<1>6. CASE UNCHANGED vars
  BY <1>6 DEF vars, obs
<1> QED
  BY <1>1, <1>2, <1>3, <1>4, <1>5, <1>6 DEF World

\* Every step keeps the rows' type.
LEMMA RowStep == HostTypeOK /\ [Next]_vars => row' \in [Legs -> RowSet]
<1> SUFFICES ASSUME TickTypes, row \in [Legs -> RowSet], [Next]_vars PROVE row' \in [Legs -> RowSet]
    BY TypeGroups
<1>1. CASE TickStart
  BY <1>1 DEF TickStart
<1>2. ASSUME NEW l \in Legs, ReadDeferred(l) \/ ReadLocal(l) \/ ReadFails(l) PROVE row' \in [Legs -> RowSet]
  <2>1. [row[l] EXCEPT !.due = [v \in VMs |-> Absent], !.last = {}] \in RowSet
    BY DEF RowSet, Dues
  <2> QED
    BY <1>2, <2>1 DEF ReadDeferred, ReadLocal, ReadFails
<1>3. ASSUME NEW kept \in SUBSET VMs, ReconcileMembership(kept) PROVE row' \in [Legs -> RowSet]
  <2> DEFINE l == tick.leg
             d == Observe(row[l].due, tick.live)
             w == Wanted(d)
             r == [due |-> d, last |-> IF tick.installed THEN w ELSE row[l].last,
                   seen |-> row[l].seen \/ tick.installed, probe |-> row[l].probe]
  <2>1. l \in Legs /\ row' = [row EXCEPT ![l] = r]
    <3>1. l \in Legs
      BY <1>3 DEF ReconcileMembership, TickTypes, Busy
    <3>2. row' = [row EXCEPT ![l] = r]
      BY <1>3, Zenon DEF ReconcileMembership
    <3> QED
      BY <3>1, <3>2
  <2>2. d \in [VMs -> Dues]
    <3>1. row[l].due \in [VMs -> Dues]
      BY <2>1 DEF RowSet
    <3>2. \A v \in VMs : d[v] \in {Live, Holddown, Absent, row[l].due[v]}
      BY DEF Observe
    <3>3. Live \in Dues /\ Holddown \in Dues /\ Absent \in Dues
      BY DEF Dues
    <3>4. d = [v \in VMs |-> d[v]]
      BY DEF Observe
    <3> HIDE DEF d
    <3> QED
      BY <3>1, <3>2, <3>3, <3>4
  <2>3. w \subseteq VMs
    BY DEF Wanted
  <2>4. r \in RowSet
    <3> HIDE DEF d, w
    <3> QED
      BY <2>1, <2>2, <2>3 DEF RowSet
  <2> QED
    BY <2>1, <2>4
<1>4. ASSUME NEW landed \in 0..2, AskEngine(landed) PROVE row' \in [Legs -> RowSet]
  BY <1>4 DEF AskEngine
<1>5. ASSUME NEW ok \in BOOLEAN, ListSet(ok) PROVE row' \in [Legs -> RowSet]
  BY <1>5 DEF ListSet
<1>6. ASSUME NEW done \in 0..2, MoveSet(done) PROVE row' \in [Legs -> RowSet]
  BY <1>6 DEF MoveSet
<1>7. ASSUME NEW lost \in SUBSET VMs, NEW ageing \in {Ageing, DefaultAgeing}, MaybeProbe(lost, ageing)
      PROVE row' \in [Legs -> RowSet]
  <2>1. tick.leg \in Legs
    BY <1>7 DEF MaybeProbe, TickTypes, Busy
  <2>2. ProbeInterval(ageing) \in Nat
    BY DEF ProbeInterval
  <2>3. [row[tick.leg] EXCEPT !.probe = ProbeInterval(ageing)] \in RowSet
    BY <2>1, <2>2 DEF RowSet
  <2>4. row' = row \/ row' = [row EXCEPT ![tick.leg] = [@ EXCEPT !.probe = ProbeInterval(ageing)]]
    BY <1>7 DEF MaybeProbe
  <2> QED
    BY <2>1, <2>3, <2>4
<1>8. CASE Pass
  <2>1. ASSUME NEW l \in Legs
        PROVE  [row[l] EXCEPT !.due = [v \in VMs |-> IF @[v] \in 1..Holddown THEN @[v] - 1 ELSE @[v]],
                              !.probe = IF @ > 0 THEN @ - 1 ELSE 0] \in RowSet
    <3> DEFINE d == [v \in VMs |-> IF row[l].due[v] \in 1..Holddown THEN row[l].due[v] - 1
                                   ELSE row[l].due[v]]
    <3>1. row[l] \in RowSet
      OBVIOUS
    <3>2. d \in [VMs -> Dues]
      BY <3>1 DEF RowSet, Dues
    <3>3. (IF row[l].probe > 0 THEN row[l].probe - 1 ELSE 0) \in Nat
      BY <3>1 DEF RowSet
    <3> HIDE DEF d
    <3>4. [row[l] EXCEPT !.due = d, !.probe = IF @ > 0 THEN @ - 1 ELSE 0] \in RowSet
      BY <3>1, <3>2, <3>3 DEF RowSet
    <3> QED
      BY <3>4 DEF d
  <2> QED
    BY <1>8, <2>1 DEF Pass
<1>9. CASE World \/ UNCHANGED vars
  <2>1. CASE SupervisorRestarts
    BY <2>1 DEF SupervisorRestarts, RowNew, RowSet, Dues
  <2> QED
    BY <1>9, <2>1, WorldFrame
<1> QED
  BY <1>1, <1>2, <1>3, <1>4, <1>5, <1>6, <1>7, <1>8, <1>9 DEF Next, TickSteps

\* A row that is done leaves the pass between two rows.
LEMMA RowDoneType ==
    ASSUME TickTypes, NEW l \in Legs
    PROVE  /\ RowDone(l) \in TickSet
           /\ RowDone(l).step \in {"read", "done"}
           /\ RowDone(l).todo = tick.todo \ {l}
           /\ RowDone(l).step = "done" => RowDone(l).todo = {}
           /\ RowDone(l).ifindex = 0
<1>1. tick.todo \ {l} \in SUBSET Legs
  BY DEF TickTypes, TickSet
<1>2. CASE tick.todo = {l}
  BY <1>2, IdleType DEF RowDone, Idle
<1>3. CASE tick.todo # {l}
  BY <1>1, <1>3, IdleType DEF RowDone, Idle
<1> QED
  BY <1>2, <1>3

\* Every step keeps the type of the pass.
LEMMA TickStep == HostTypeOK /\ [Next]_vars => TickTypes'
<1> SUFFICES ASSUME TickTypes, EnvTypes, row \in [Legs -> RowSet], [Next]_vars PROVE TickTypes'
    BY TypeGroups
<1>1. CASE TickStart
  BY <1>1, IdleType DEF TickStart, TickTypes, Busy, Idle
<1>2. ASSUME NEW l \in Legs, ReadDeferred(l) PROVE TickTypes'
  BY <1>2 DEF ReadDeferred, TickTypes, TickSet, Busy
<1>3. ASSUME NEW l \in Legs, ReadLocal(l) PROVE TickTypes'
  <2>1. LocalVms(l) \in SUBSET VMs
    BY DEF LocalVms
  <2> QED
    BY <1>3, <2>1 DEF ReadLocal, TickTypes, TickSet, Busy
<1>4. ASSUME NEW l \in Legs, ReadFails(l) PROVE TickTypes'
  BY <1>4, RowDoneType DEF ReadFails, TickTypes, Busy
<1>5. ASSUME NEW kept \in SUBSET VMs, ReconcileMembership(kept) PROVE TickTypes'
  <2>1. tick.leg \in Legs /\ ifindex[tick.leg] \in Nat
    BY <1>5 DEF ReconcileMembership, TickTypes, Busy, EnvTypes
  <2>2. Wanted(Observe(row[tick.leg].due, tick.live)) \in SUBSET VMs
    BY DEF Wanted
  <2>3. tick' = [tick EXCEPT !.step = "ask", !.wanted = Wanted(Observe(row[tick.leg].due, tick.live)),
                             !.ifindex = ifindex[tick.leg]]
    BY <1>5 DEF ReconcileMembership
  <2> QED
    BY <2>1, <2>2, <2>3 DEF TickTypes, TickSet, Busy
<1>6. ASSUME NEW landed \in 0..2, AskEngine(landed) PROVE TickTypes'
  BY <1>6 DEF AskEngine, TickTypes, TickSet, Busy
<1>7. ASSUME NEW ok \in BOOLEAN, ListSet(ok) PROVE TickTypes'
  <2>1. (IF ok THEN nft[tick.leg] ELSE {}) \in SUBSET VMs /\ tick.leg \in Legs
    BY <1>7 DEF ListSet, EnvTypes, TickTypes, Busy
  <2>2. (IF ok THEN "move" ELSE "probe") \in Busy
    BY DEF Busy
  <2>3. tick' = [tick EXCEPT !.step = IF ok THEN "move" ELSE "probe",
                             !.held = IF ok THEN nft[tick.leg] ELSE {}]
    BY <1>7 DEF ListSet
  <2> QED
    BY <2>1, <2>2, <2>3 DEF TickTypes, TickSet, Busy
<1>8. ASSUME NEW done \in 0..2, MoveSet(done) PROVE TickTypes'
  <2>1. tick' = [tick EXCEPT !.step = "probe"] /\ tick.step = "move"
    BY <1>8 DEF MoveSet
  <2> QED
    BY <2>1 DEF TickTypes, TickSet, Busy
<1>9. ASSUME NEW lost \in SUBSET VMs, NEW ageing \in {Ageing, DefaultAgeing}, MaybeProbe(lost, ageing)
      PROVE TickTypes'
  <2>1. tick.leg \in Legs /\ tick' = RowDone(tick.leg)
    BY <1>9 DEF MaybeProbe, TickTypes, Busy
  <2> QED
    BY <2>1, RowDoneType DEF TickTypes, Busy
<1>10. CASE Pass
  BY <1>10, IdleType DEF Pass, TickTypes, Busy, Idle
<1>11. CASE World \/ UNCHANGED vars
  <2>1. CASE SupervisorRestarts
    BY <2>1, IdleType DEF SupervisorRestarts, TickTypes, Busy, Idle
  <2>2. CASE UNCHANGED <<row, tick, quiet>>
    BY <2>2 DEF TickTypes
  <2> QED
    BY <1>11, <2>1, <2>2, WorldFrame
<1> QED
  BY <1>1, <1>2, <1>3, <1>4, <1>5, <1>6, <1>7, <1>8, <1>9, <1>10, <1>11 DEF Next, TickSteps

\* Every step keeps the types of the observers.
LEMMA ObsStep == HostTypeOK /\ [Next]_vars => ObsTypes'
<1> SUFFICES ASSUME TickTypes, ObsTypes, [Next]_vars PROVE ObsTypes'
    BY TypeGroups
<1> USE DEF ObsTypes
<1>1. CASE TickStart
  BY <1>1 DEF TickStart, obs
<1>2. ASSUME NEW l \in Legs, ReadDeferred(l) PROVE ObsTypes'
  BY <1>2 DEF ReadDeferred
<1>3. ASSUME NEW l \in Legs, ReadLocal(l) PROVE ObsTypes'
  BY <1>3 DEF ReadLocal
<1>4. ASSUME NEW l \in Legs, ReadFails(l) PROVE ObsTypes'
  <2>1. [v \in VMs |-> Least(missed[l][v] + 1, 2)] \in [VMs -> 0..2]
    BY DEF Least
  <2>2. [missed EXCEPT ![l] = [v \in VMs |-> Least(@[v] + 1, 2)]] \in [Legs -> [VMs -> 0..2]]
    BY <2>1, OneLeg
  <2> QED
    BY <1>4, <2>2 DEF ReadFails
<1>5. ASSUME NEW kept \in SUBSET VMs, ReconcileMembership(kept) PROVE ObsTypes'
  BY <1>5 DEF ReconcileMembership, obs
<1>6. ASSUME NEW landed \in 0..2, AskEngine(landed) PROVE ObsTypes'
  BY <1>6 DEF AskEngine, obs
<1>7. ASSUME NEW ok \in BOOLEAN, ListSet(ok) PROVE ObsTypes'
  BY <1>7 DEF ListSet, obs
<1>8. ASSUME NEW done \in 0..2, MoveSet(done) PROVE ObsTypes'
  BY <1>8 DEF MoveSet, obs
<1>9. ASSUME NEW lost \in SUBSET VMs, NEW ageing \in {Ageing, DefaultAgeing}, MaybeProbe(lost, ageing)
      PROVE ObsTypes'
  <2> DEFINE a(v) == v \in tick.live \ lost /\ v \in here[tick.leg]
             g == [v \in VMs |-> CASE a(v)                      -> 0
                                   [] ~a(v) /\ v \in tick.live  -> Least(missed[tick.leg][v] + 1, 2)
                                   [] OTHER                      -> 2]
  <2>1. tick.leg \in Legs
    BY <1>9 DEF MaybeProbe, TickTypes, Busy
  <2>2. missed' = [missed EXCEPT ![tick.leg] = g] \/ missed' = missed
    BY <1>9 DEF MaybeProbe
  <2>3. g \in [VMs -> 0..2]
    <3>1. \A v \in VMs : Least(missed[tick.leg][v] + 1, 2) \in 0..2
      BY <2>1 DEF Least
    <3>2. \A v \in VMs : g[v] \in {0, 2, Least(missed[tick.leg][v] + 1, 2)}
      OBVIOUS
    <3>3. g = [v \in VMs |-> g[v]]
      OBVIOUS
    <3> HIDE DEF g
    <3> QED
      BY <3>1, <3>2, <3>3
  <2> HIDE DEF g
  <2>4. missed' \in [Legs -> [VMs -> 0..2]]
    <3>1. [missed EXCEPT ![tick.leg] = g] \in [Legs -> [VMs -> 0..2]]
      BY <2>1, <2>3
    <3> QED
      BY <2>2, <3>1
  <2> QED
    BY <1>9, <2>4 DEF MaybeProbe
<1>10. CASE Pass
  <2>1. \A l \in Legs, v \in VMs : Least(quiet[l][v] + 1, Holddown) \in 0..Holddown
    BY DEF Least
  <2> QED
    BY <1>10, <2>1 DEF Pass
<1>11. CASE World \/ UNCHANGED vars
  <2>1. quiet' \in [Legs -> [VMs -> 0..Holddown]]
    BY <1>11, WorldFrame DEF SupervisorRestarts
  <2>2. ASSUME NEW l \in Legs, NEW v \in VMs,
               Arrive(l, v) \/ Depart(l, v, TRUE) \/ Depart(l, v, FALSE) \/ Speak(l, v)
        PROVE  missed' \in [Legs -> [VMs -> 0..2]]
    <3>1. [missed EXCEPT ![l][v] = 0] \in [Legs -> [VMs -> 0..2]]
      BY OneEntry
    <3> QED
      BY <2>2, <3>1 DEF Arrive, Depart, Speak, obs
  <2>3. ASSUME NEW l \in Legs, LoseLeg(l) \/ BuildLeg(l) \/ Defer(l) \/ Undefer(l)
        PROVE  UNCHANGED missed
    BY <2>3 DEF LoseLeg, BuildLeg, Defer, Undefer, obs
  <2>4. ASSUME NEW unread \in SUBSET Legs, Rerender(unread) PROVE UNCHANGED missed
    BY <2>4 DEF Rerender, obs
  <2>5. CASE EngineExits \/ EngineStarts \/ SupervisorRestarts
    BY <2>1, <2>5 DEF EngineExits, EngineStarts, SupervisorRestarts, obs
  <2>6. ASSUME NEW cost \in Costs, AskTransit(cost) PROVE UNCHANGED missed
    BY <2>6 DEF AskTransit, obs
  <2>7. CASE UNCHANGED vars
    BY <2>1, <2>7 DEF vars, obs
  <2> QED
    BY <1>11, <2>1, <2>2, <2>3, <2>4, <2>5, <2>6, <2>7 DEF World
<1> QED
  BY <1>1, <1>2, <1>3, <1>4, <1>5, <1>6, <1>7, <1>8, <1>9, <1>10, <1>11 DEF Next, TickSteps

-----------------------------------------------------------------------------
(* The engine's requests (RouteEngine).                                    *)

\* What a state with one leg's routes replaced has on every leg.
LEMMA WithLegFacts ==
    ASSUME NEW s \in EngineSet, NEW l \in Legs, NEW t \in Nat, NEW cs \in SUBSET Routes
    PROVE  /\ WithLeg(s, l, t, cs) \in EngineSet
           /\ WithLeg(s, l, t, cs).transit = s.transit
           /\ WithLeg(s, l, t, cs).routes[l].ifindex = t
           /\ WithLeg(s, l, t, cs).routes[l].cidrs = cs
           /\ \A m \in Legs \ {l} : WithLeg(s, l, t, cs).routes[m] = s.routes[m]
<1> DEFINE n == [s.routes EXCEPT ![l] = [ifindex |-> t, cidrs |-> cs]]
<1>1. WithLeg(s, l, t, cs) = [s EXCEPT !.routes = n]
  BY DEF WithLeg, EngineSet
<1>2. /\ n \in [Legs -> [ifindex : Nat, cidrs : SUBSET Routes]]
      /\ n[l] = [ifindex |-> t, cidrs |-> cs]
      /\ \A m \in Legs \ {l} : n[m] = s.routes[m]
  BY DEF EngineSet
<1> HIDE DEF n
<1>3. [s EXCEPT !.routes = n] \in EngineSet /\ [s EXCEPT !.routes = n].routes = n
  BY <1>2 DEF EngineSet
<1>4. [s EXCEPT !.routes = n].transit = s.transit
  BY DEF EngineSet
<1> QED
  BY <1>1, <1>2, <1>3, <1>4

\* What a commit leaves in force, and where its routes point.
LEMMA CommitFacts ==
    ASSUME NEW r \in RunningSet, NEW s \in EngineSet, NEW now \in [Legs -> Nat]
    PROVE  /\ Commit(r, s, now) \in RunningSet
           /\ Commit(r, s, now).transit = s.transit
           /\ \A l \in Legs : Commit(r, s, now).routes[l] = s.routes[l].cidrs
           /\ \A l \in Legs : \A c \in s.routes[l].cidrs :
                 Commit(r, s, now).at[l][c] = IF c \in r.routes[l] THEN r.at[l][c] ELSE now[l]
<1> DEFINE rs == [l \in Legs |-> s.routes[l].cidrs]
           ats == [l \in Legs |-> [c \in Routes |->
                      IF c \notin s.routes[l].cidrs THEN 0
                      ELSE IF c \in r.routes[l] THEN r.at[l][c] ELSE now[l]]]
<1>1. rs \in [Legs -> SUBSET Routes]
  BY DEF EngineSet
<1>2. ASSUME NEW l \in Legs, NEW c \in Routes
      PROVE  (IF c \notin s.routes[l].cidrs THEN 0
              ELSE IF c \in r.routes[l] THEN r.at[l][c] ELSE now[l]) \in Nat
  BY DEF RunningSet
<1>3. ats \in [Legs -> [Routes -> Nat]]
  BY <1>2
<1>4. \A l \in Legs : s.routes[l].cidrs \subseteq Routes
  BY DEF EngineSet
<1>5. \A l \in Legs : \A c \in s.routes[l].cidrs :
         ats[l][c] = IF c \in r.routes[l] THEN r.at[l][c] ELSE now[l]
  BY <1>4
<1>6. Commit(r, s, now) = [transit |-> s.transit, routes |-> rs, at |-> ats]
  BY DEF Commit
<1>7. \A l \in Legs : rs[l] = s.routes[l].cidrs
  OBVIOUS
<1> HIDE DEF rs, ats
<1>8. s.transit \in Costs
  BY DEF EngineSet
<1>9. [transit |-> s.transit, routes |-> rs, at |-> ats] \in RunningSet
  BY <1>1, <1>3, <1>8 DEF RunningSet
<1>10. /\ [transit |-> s.transit, routes |-> rs, at |-> ats].transit = s.transit
       /\ [transit |-> s.transit, routes |-> rs, at |-> ats].routes = rs
       /\ [transit |-> s.transit, routes |-> rs, at |-> ats].at = ats
  OBVIOUS
<1> QED
  BY <1>5, <1>6, <1>7, <1>9, <1>10

\* A workload-routes request: nothing landed, the leg was withdrawn first and
\* nothing more landed, or the whole set is in force.
LEMMA AskCases ==
    ASSUME HostTypeOK, NEW landed \in 0..2, AskEngine(landed)
    PROVE  \E cs \in SUBSET Routes :
             LET l == tick.leg
                 t == tick.ifindex
                 empty == WithLeg(engine, l, t, {})
                 full == WithLeg(engine, l, t, cs)
             IN  /\ l \in Legs /\ t \in Nat /\ tick.wanted \subseteq cs
                 /\ \/ UNCHANGED <<engine, running>>
                    \/ /\ t # engine.routes[l].ifindex
                       /\ engine' = empty /\ running' = Commit(running, empty, ifindex)
                    \/ /\ cs = {} \/ t = engine.routes[l].ifindex \/ engine.routes[l].cidrs = {}
                       /\ engine' = full /\ running' = Commit(running, full, ifindex)
                    \/ /\ engine' = full
                       /\ running' = Commit(Commit(running, empty, ifindex), full, ifindex)
<1> DEFINE l == tick.leg
           t == tick.ifindex
           cs == tick.wanted \cup (IF tick.installed THEN {Own} ELSE {})
           req == RoutesReq(l, t, cs)
           empty == WithLeg(engine, l, t, {})
           full == WithLeg(engine, l, t, cs)
           st == Steps(engine, req)
<1>1. l \in Legs /\ t \in Nat /\ cs \in SUBSET Routes /\ tick.wanted \subseteq cs
  BY TypeGroups DEF AskEngine, TickTypes, TickSet, Busy
<1>2. /\ landed \in 0..Len(st)
      /\ engine' = Adopted(engine, st, landed)
      /\ running' = InForce(running, st, landed, ifindex)
  BY DEF AskEngine
<1>3. /\ req.verb = "workload-routes" /\ req.leg = l /\ req.ifindex = t /\ req.cidrs = cs
  BY DEF RoutesReq
<1> HIDE DEF cs, req
<1>4. CASE Moved(engine, req)
  <2>1. st = <<empty, full>>
    BY <1>3, <1>4 DEF Steps
  <2>2. t # engine.routes[l].ifindex
    BY <1>3, <1>4 DEF Moved
  <2>3. CASE landed = 0
    BY <1>2, <2>3, <1>1 DEF Adopted, InForce
  <2>4. CASE landed = 1
    <3>1. engine' = empty /\ running' = Commit(running, empty, ifindex)
      <4> HIDE DEF empty, full
      <4> QED
        BY <1>2, <2>1, <2>4 DEF Adopted, InForce
    <3> QED
      BY <1>1, <2>2, <3>1
  <2>5. CASE landed = 2
    <3>1. engine' = full /\ running' = Commit(Commit(running, empty, ifindex), full, ifindex)
      <4> HIDE DEF empty, full
      <4> QED
        BY <1>2, <2>1, <2>5 DEF Adopted, InForce
    <3> QED
      BY <1>1, <3>1
  <2> QED
    BY <2>3, <2>4, <2>5
<1>5. CASE ~Moved(engine, req)
  <2>1. st = <<full>>
    BY <1>3, <1>5 DEF Steps
  <2>2. cs = {} \/ t = engine.routes[l].ifindex \/ engine.routes[l].cidrs = {}
    BY <1>3, <1>5 DEF Moved
  <2>3. landed \in 0..1
    <3> HIDE DEF st, full
    <3> QED
      BY <1>2, <2>1
  <2>4. CASE landed = 0
    BY <1>2, <2>4, <1>1 DEF Adopted, InForce
  <2>5. CASE landed = 1
    <3>1. engine' = full /\ running' = Commit(running, full, ifindex)
      <4> HIDE DEF full
      <4> QED
        BY <1>2, <2>1, <2>5 DEF Adopted, InForce
    <3> QED
      BY <1>1, <2>2, <3>1
  <2> QED
    BY <2>3, <2>4, <2>5
<1> QED
  BY <1>4, <1>5

\* A transit-cost request leaves the routes as they are.
LEMMA TransitCase ==
    ASSUME HostTypeOK, NEW cost \in Costs, AskTransit(cost)
    PROVE  LET s == [engine EXCEPT !.transit = cost]
           IN  /\ s \in EngineSet /\ s.transit = cost /\ s.routes = engine.routes
               /\ engine' = s /\ running' = Commit(running, s, ifindex)
<1> DEFINE s == [engine EXCEPT !.transit = cost]
           st == Steps(engine, TransitReq(cost))
<1>1. st = <<s>>
  BY DEF Steps, TransitReq
<1>2. engine' = Adopted(engine, st, 1) /\ running' = InForce(running, st, 1, ifindex)
  BY DEF AskTransit
<1>3. s \in EngineSet /\ s.transit = cost /\ s.routes = engine.routes
  BY TypeGroups DEF EngineSet
<1>4. engine' = s /\ running' = Commit(running, s, ifindex)
  <2> HIDE DEF s
  <2> QED
    BY <1>1, <1>2 DEF Adopted, InForce
<1> QED
  BY <1>3, <1>4

\* The engine changes only by a request or with its process.
LEMMA EngineFrame ==
    ASSUME [Next]_vars
    PROVE  \/ \E landed \in 0..2 : AskEngine(landed)
           \/ \E cost \in Costs : AskTransit(cost)
           \/ EngineExits
           \/ UNCHANGED <<engine, running>> /\ (up => up')
<1>1. CASE TickStart
  BY <1>1 DEF TickStart, eng
<1>2. ASSUME NEW l \in Legs, ReadDeferred(l) \/ ReadLocal(l) \/ ReadFails(l) PROVE UNCHANGED eng
  BY <1>2 DEF ReadDeferred, ReadLocal, ReadFails, eng
<1>3. ASSUME NEW kept \in SUBSET VMs, ReconcileMembership(kept) PROVE UNCHANGED eng
  BY <1>3 DEF ReconcileMembership, eng
<1>4. ASSUME NEW ok \in BOOLEAN, ListSet(ok) PROVE UNCHANGED eng
  BY <1>4 DEF ListSet, eng
<1>5. ASSUME NEW done \in 0..2, MoveSet(done) PROVE UNCHANGED eng
  BY <1>5 DEF MoveSet, eng
<1>6. ASSUME NEW lost \in SUBSET VMs, NEW ageing \in {Ageing, DefaultAgeing}, MaybeProbe(lost, ageing)
      PROVE UNCHANGED eng
  BY <1>6 DEF MaybeProbe, eng
<1>7. CASE Pass \/ SupervisorRestarts
  BY <1>7 DEF Pass, SupervisorRestarts, eng
<1>8. ASSUME NEW l \in Legs, NEW v \in VMs,
             Arrive(l, v) \/ Depart(l, v, TRUE) \/ Depart(l, v, FALSE) \/ Speak(l, v) PROVE UNCHANGED eng
  BY <1>8 DEF Arrive, Depart, Speak, eng
<1>9. ASSUME NEW l \in Legs, LoseLeg(l) \/ BuildLeg(l) \/ Defer(l) \/ Undefer(l) PROVE UNCHANGED eng
  BY <1>9 DEF LoseLeg, BuildLeg, Defer, Undefer, eng
<1>10. ASSUME NEW unread \in SUBSET Legs, Rerender(unread) PROVE UNCHANGED eng
  BY <1>10 DEF Rerender, eng
<1>11. CASE EngineStarts
  BY <1>11 DEF EngineStarts
<1>12. CASE UNCHANGED vars
  BY <1>12 DEF vars, eng
<1> QED
  BY <1>1, <1>2, <1>3, <1>4, <1>5, <1>6, <1>7, <1>8, <1>9, <1>10, <1>11, <1>12
     DEF Next, TickSteps, World, eng

\* The engine in force is in step at every leg: nothing of this depends on where
\* the legs are.
InStep(e, r) == e.transit = r.transit /\ \A l \in Legs : e.routes[l].cidrs = r.routes[l]

\* Every step keeps the types of the engine and its agreement with the
\* northbound.
LEMMA EngineStep ==
    ASSUME HostTypeOK, StateMatchesRunning, [Next]_vars
    PROVE  engine' \in EngineSet /\ running' \in RunningSet /\ StateMatchesRunning'
<1> USE DEF StateMatchesRunning
<1>1. engine \in EngineSet /\ running \in RunningSet /\ ifindex \in [Legs -> Nat]
  BY TypeGroups DEF EnvTypes
<1>2. ASSUME NEW landed \in 0..2, AskEngine(landed)
      PROVE  engine' \in EngineSet /\ running' \in RunningSet /\ StateMatchesRunning'
  <2> DEFINE l == tick.leg
             t == tick.ifindex
             empty == WithLeg(engine, l, t, {})
             mid == Commit(running, empty, ifindex)
  <2>1. PICK cs \in SUBSET Routes :
             /\ l \in Legs /\ t \in Nat
             /\ \/ UNCHANGED <<engine, running>>
                \/ engine' = empty /\ running' = mid
                \/ /\ engine' = WithLeg(engine, l, t, cs)
                   /\ \/ running' = Commit(running, WithLeg(engine, l, t, cs), ifindex)
                      \/ running' = Commit(mid, WithLeg(engine, l, t, cs), ifindex)
    BY <1>2, AskCases
  <2> DEFINE full == WithLeg(engine, l, t, cs)
  <2>2. empty \in EngineSet /\ full \in EngineSet
    BY <1>1, <2>1, WithLegFacts
  <2> HIDE DEF empty, full
  <2>3. mid \in RunningSet /\ InStep(empty, mid)
    BY <1>1, <2>2, CommitFacts DEF InStep
  <2> HIDE DEF mid
  <2>4. \A r \in RunningSet : Commit(r, full, ifindex) \in RunningSet /\ InStep(full, Commit(r, full, ifindex))
    BY <1>1, <2>2, CommitFacts DEF InStep
  <2>5. CASE UNCHANGED <<engine, running>>
    BY <1>1, <2>5
  <2>6. CASE engine' = empty /\ running' = mid
    BY <2>2, <2>3, <2>6 DEF InStep
  <2>7. CASE engine' = full /\ (running' = Commit(running, full, ifindex) \/ running' = Commit(mid, full, ifindex))
    BY <1>1, <2>2, <2>3, <2>4, <2>7 DEF InStep
  <2> QED
    BY <2>1, <2>5, <2>6, <2>7 DEF full
<1>3. ASSUME NEW cost \in Costs, AskTransit(cost)
      PROVE  engine' \in EngineSet /\ running' \in RunningSet /\ StateMatchesRunning'
  <2> DEFINE s == [engine EXCEPT !.transit = cost]
  <2>1. s \in EngineSet /\ engine' = s /\ running' = Commit(running, s, ifindex)
    BY <1>3, TransitCase
  <2> HIDE DEF s
  <2>2. running' \in RunningSet /\ InStep(s, running')
    BY <1>1, <2>1, CommitFacts DEF InStep
  <2> QED
    BY <2>1, <2>2 DEF InStep
<1>4. CASE EngineExits
  BY <1>4 DEF EngineExits, EngineNew, RunningNew, NoLeg, EngineSet, RunningSet, Costs
<1>5. CASE UNCHANGED <<engine, running>>
  BY <1>1, <1>5
<1> QED
  BY <1>2, <1>3, <1>4, <1>5, EngineFrame

-----------------------------------------------------------------------------
(* The engine and the legs.                                                *)

\* No index anybody remembers is one the kernel has yet to hand out: a leg that
\* is built again cannot be mistaken for the one the engine resolved.
Fresh ==
    /\ \A l \in Legs : ifindex[l] <= born /\ engine.routes[l].ifindex <= born
    /\ tick.ifindex <= born

EngineInv == HostTypeOK /\ Fresh /\ EngineInStep

\* Only the loss and the building of a leg touch the indexes.
LEMMA LegFrame ==
    ASSUME [Next]_vars
    PROVE  \/ \E l \in Legs : LoseLeg(l) \/ BuildLeg(l)
           \/ UNCHANGED <<ifindex, born>>
<1>1. CASE TickStart
  BY <1>1 DEF TickStart, env
<1>2. ASSUME NEW l \in Legs, ReadDeferred(l) \/ ReadLocal(l) \/ ReadFails(l) PROVE UNCHANGED <<ifindex, born>>
  BY <1>2 DEF ReadDeferred, ReadLocal, ReadFails, env
<1>3. ASSUME NEW kept \in SUBSET VMs, ReconcileMembership(kept) PROVE UNCHANGED <<ifindex, born>>
  BY <1>3 DEF ReconcileMembership
<1>4. ASSUME NEW landed \in 0..2, AskEngine(landed) PROVE UNCHANGED <<ifindex, born>>
  BY <1>4 DEF AskEngine, env
<1>5. ASSUME NEW ok \in BOOLEAN, ListSet(ok) PROVE UNCHANGED <<ifindex, born>>
  BY <1>5 DEF ListSet, env
<1>6. ASSUME NEW done \in 0..2, MoveSet(done) PROVE UNCHANGED <<ifindex, born>>
  BY <1>6 DEF MoveSet, env
<1>7. ASSUME NEW lost \in SUBSET VMs, NEW ageing \in {Ageing, DefaultAgeing}, MaybeProbe(lost, ageing)
      PROVE UNCHANGED <<ifindex, born>>
  BY <1>7 DEF MaybeProbe
<1>8. CASE Pass \/ SupervisorRestarts \/ EngineStarts \/ EngineExits
  BY <1>8 DEF Pass, SupervisorRestarts, EngineStarts, EngineExits, env
<1>9. ASSUME NEW l \in Legs, NEW v \in VMs,
             Arrive(l, v) \/ Depart(l, v, TRUE) \/ Depart(l, v, FALSE) \/ Speak(l, v)
      PROVE UNCHANGED <<ifindex, born>>
  BY <1>9 DEF Arrive, Depart, Speak
<1>10. ASSUME NEW l \in Legs, Defer(l) \/ Undefer(l) PROVE UNCHANGED <<ifindex, born>>
  BY <1>10 DEF Defer, Undefer
<1>11. ASSUME NEW unread \in SUBSET Legs, Rerender(unread) PROVE UNCHANGED <<ifindex, born>>
  BY <1>11 DEF Rerender, env
<1>12. ASSUME NEW cost \in Costs, AskTransit(cost) PROVE UNCHANGED <<ifindex, born>>
  BY <1>12 DEF AskTransit, env
<1>13. CASE UNCHANGED vars
  BY <1>13 DEF vars, env
<1> QED
  BY <1>1, <1>2, <1>3, <1>4, <1>5, <1>6, <1>7, <1>8, <1>9, <1>10, <1>11, <1>12, <1>13
     DEF Next, TickSteps, World

\* The index a pass carries is the leg's when it was looked up.
LEMMA TickIndex ==
    ASSUME HostTypeOK, [Next]_vars
    PROVE  \/ tick'.ifindex \in {0, tick.ifindex}
           \/ tick.leg \in Legs /\ tick'.ifindex = ifindex[tick.leg]
<1>0. TickTypes
  BY TypeGroups
<1>1. CASE TickStart \/ Pass
  BY <1>1 DEF TickStart, Pass, Idle
<1>2. ASSUME NEW l \in Legs, ReadDeferred(l) \/ ReadLocal(l) PROVE tick'.ifindex = tick.ifindex
  BY <1>0, <1>2 DEF ReadDeferred, ReadLocal, TickTypes, TickSet
<1>3. ASSUME NEW l \in Legs, ReadFails(l) PROVE tick'.ifindex = 0
  BY <1>0, <1>3, RowDoneType DEF ReadFails
<1>4. ASSUME NEW kept \in SUBSET VMs, ReconcileMembership(kept)
      PROVE tick.leg \in Legs /\ tick'.ifindex = ifindex[tick.leg]
  BY <1>0, <1>4 DEF ReconcileMembership, TickTypes, TickSet, Busy
<1>5. ASSUME NEW landed \in 0..2, AskEngine(landed) PROVE tick'.ifindex = tick.ifindex
  BY <1>0, <1>5 DEF AskEngine, TickTypes, TickSet
<1>6. ASSUME NEW ok \in BOOLEAN, ListSet(ok) PROVE tick'.ifindex = tick.ifindex
  BY <1>0, <1>6 DEF ListSet, TickTypes, TickSet
<1>7. ASSUME NEW done \in 0..2, MoveSet(done) PROVE tick'.ifindex = tick.ifindex
  BY <1>0, <1>7 DEF MoveSet, TickTypes, TickSet
<1>8. ASSUME NEW lost \in SUBSET VMs, NEW ageing \in {Ageing, DefaultAgeing}, MaybeProbe(lost, ageing)
      PROVE tick'.ifindex = 0
  BY <1>0, <1>8, RowDoneType DEF MaybeProbe, TickTypes, Busy
<1>9. CASE World \/ UNCHANGED vars
  BY <1>9, WorldFrame DEF SupervisorRestarts, Idle
<1> QED
  BY <1>1, <1>2, <1>3, <1>4, <1>5, <1>6, <1>7, <1>8, <1>9 DEF Next, TickSteps

\* Where the engine's index of a leg comes from.
LEMMA EngineIndex ==
    ASSUME HostTypeOK, [Next]_vars, NEW l \in Legs
    PROVE  engine'.routes[l].ifindex \in {0, tick.ifindex, engine.routes[l].ifindex}
<1>1. engine \in EngineSet
  BY TypeGroups
<1>2. ASSUME NEW landed \in 0..2, AskEngine(landed)
      PROVE  engine'.routes[l].ifindex \in {tick.ifindex, engine.routes[l].ifindex}
  <2>1. PICK cs \in SUBSET Routes :
           /\ tick.leg \in Legs /\ tick.ifindex \in Nat
           /\ \/ engine' = engine
              \/ engine' = WithLeg(engine, tick.leg, tick.ifindex, {})
              \/ engine' = WithLeg(engine, tick.leg, tick.ifindex, cs)
    BY <1>2, AskCases
  <2>2. \A x \in {{}, cs} :
           WithLeg(engine, tick.leg, tick.ifindex, x).routes[l].ifindex
              \in {tick.ifindex, engine.routes[l].ifindex}
    BY <1>1, <2>1, WithLegFacts
  <2> QED
    BY <2>1, <2>2
<1>3. ASSUME NEW cost \in Costs, AskTransit(cost) PROVE engine'.routes = engine.routes
  <2> DEFINE s == [engine EXCEPT !.transit = cost]
  <2>1. engine' = s /\ s.routes = engine.routes
    BY <1>3, TransitCase
  <2> HIDE DEF s
  <2> QED
    BY <2>1
<1>4. CASE EngineExits
  BY <1>4 DEF EngineExits, EngineNew, NoLeg
<1>5. CASE engine' = engine
  BY <1>5
<1> QED
  <2>1. \A x : x \in {tick.ifindex, engine.routes[l].ifindex} => x \in {0, tick.ifindex, engine.routes[l].ifindex}
    OBVIOUS
  <2> QED
    BY <1>2, <1>3, <1>4, <1>5, <2>1, EngineFrame

\* Every step keeps the remembered indexes behind the kernel's.
LEMMA FreshStep == HostTypeOK /\ Fresh /\ [Next]_vars => Fresh'
<1> SUFFICES ASSUME HostTypeOK, Fresh, [Next]_vars PROVE Fresh'
    OBVIOUS
<1>1. /\ ifindex \in [Legs -> Nat] /\ born \in Nat /\ tick.ifindex \in Nat
      /\ \A l \in Legs : engine.routes[l].ifindex \in Nat
  BY TypeGroups DEF EnvTypes, TickTypes, TickSet, EngineSet
<1>2. born' \in Nat /\ born <= born' /\ \A l \in Legs : ifindex'[l] <= born'
  <2>1. ASSUME NEW l \in Legs, LoseLeg(l)
        PROVE  born' \in Nat /\ born <= born' /\ \A m \in Legs : ifindex'[m] <= born'
    BY <1>1, <2>1 DEF LoseLeg, Fresh
  <2>2. ASSUME NEW l \in Legs, BuildLeg(l)
        PROVE  born' \in Nat /\ born <= born' /\ \A m \in Legs : ifindex'[m] <= born'
    BY <1>1, <2>2 DEF BuildLeg, Fresh
  <2>3. CASE UNCHANGED <<ifindex, born>>
    BY <1>1, <2>3 DEF Fresh
  <2> QED
    BY <2>1, <2>2, <2>3, LegFrame
<1>3. tick'.ifindex <= born
  BY <1>1, TickIndex DEF Fresh
<1>4. \A l \in Legs : engine'.routes[l].ifindex <= born
  BY <1>1, EngineIndex DEF Fresh
<1>5. tick'.ifindex \in Nat /\ \A l \in Legs : engine'.routes[l].ifindex \in Nat
  BY <1>1, TickIndex, EngineIndex
<1> QED
  BY <1>1, <1>2, <1>3, <1>4, <1>5 DEF Fresh

\* A request resolves every route of its leg to the leg's index, or carries an
\* index the leg does not have.
LEMMA AskResolves ==
    ASSUME EngineInv, NEW landed \in 0..2, AskEngine(landed)
    PROVE  RoutesResolved'
<1>1. /\ engine \in EngineSet /\ running \in RunningSet /\ ifindex \in [Legs -> Nat]
      /\ HostTypeOK /\ StateMatchesRunning /\ RoutesResolved
  BY TypeGroups DEF EnvTypes, EngineInv, EngineInStep
<1>2. ifindex' = ifindex
  BY DEF AskEngine, env
<1> DEFINE l == tick.leg
           t == tick.ifindex
           empty == WithLeg(engine, l, t, {})
           mid == Commit(running, empty, ifindex)
<1>3. PICK cs \in SUBSET Routes :
         /\ l \in Legs /\ t \in Nat
         /\ \/ UNCHANGED <<engine, running>>
            \/ engine' = empty /\ running' = mid
            \/ /\ cs = {} \/ t = engine.routes[l].ifindex \/ engine.routes[l].cidrs = {}
               /\ engine' = WithLeg(engine, l, t, cs)
               /\ running' = Commit(running, WithLeg(engine, l, t, cs), ifindex)
            \/ /\ engine' = WithLeg(engine, l, t, cs)
               /\ running' = Commit(mid, WithLeg(engine, l, t, cs), ifindex)
  BY <1>1, AskCases
<1> DEFINE full == WithLeg(engine, l, t, cs)
<1>4. /\ empty \in EngineSet /\ full \in EngineSet
      /\ empty.routes[l].cidrs = {} /\ full.routes[l].cidrs = cs
      /\ empty.routes[l].ifindex = t /\ full.routes[l].ifindex = t
      /\ \A m \in Legs \ {l} : empty.routes[m] = engine.routes[m] /\ full.routes[m] = engine.routes[m]
  BY <1>1, <1>3, WithLegFacts
<1> HIDE DEF empty, full
<1>5. /\ mid \in RunningSet
      /\ \A m \in Legs : mid.routes[m] = empty.routes[m].cidrs
      /\ \A m \in Legs : \A c \in empty.routes[m].cidrs :
            mid.at[m][c] = IF c \in running.routes[m] THEN running.at[m][c] ELSE ifindex[m]
  BY <1>1, <1>4, CommitFacts
<1> HIDE DEF mid
<1>6. \A r \in RunningSet :
         /\ \A m \in Legs : Commit(r, full, ifindex).routes[m] = full.routes[m].cidrs
         /\ \A m \in Legs : \A c \in full.routes[m].cidrs :
               Commit(r, full, ifindex).at[m][c] = IF c \in r.routes[m] THEN r.at[m][c] ELSE ifindex[m]
  BY <1>1, <1>4, CommitFacts
<1> SUFFICES ASSUME NEW m \in Legs, engine'.routes[m].ifindex = ifindex[m], ifindex[m] # 0,
                    NEW c \in running'.routes[m]
             PROVE  running'.at[m][c] = ifindex[m]
  BY <1>2 DEF RoutesResolved
<1>7. CASE UNCHANGED <<engine, running>>
  BY <1>1, <1>7 DEF RoutesResolved
<1>8. engine.routes[m].cidrs = running.routes[m]
  BY <1>1 DEF StateMatchesRunning
<1>9. engine.routes[m].ifindex = ifindex[m] => \A d \in running.routes[m] : running.at[m][d] = ifindex[m]
  BY <1>1 DEF RoutesResolved
<1>10. CASE engine' = empty /\ running' = mid
  <2>1. m # l
    BY <1>4, <1>5, <1>10
  <2> QED
    BY <1>4, <1>5, <1>8, <1>9, <1>10, <2>1
<1>11. CASE /\ cs = {} \/ t = engine.routes[l].ifindex \/ engine.routes[l].cidrs = {}
            /\ engine' = full /\ running' = Commit(running, full, ifindex)
  <2>1. /\ c \in full.routes[m].cidrs
        /\ running'.at[m][c] = IF c \in running.routes[m] THEN running.at[m][c] ELSE ifindex[m]
    BY <1>1, <1>6, <1>11
  <2>2. CASE m = l
    BY <1>4, <1>8, <1>9, <1>11, <2>1, <2>2
  <2>3. CASE m # l
    BY <1>4, <1>8, <1>9, <1>11, <2>1, <2>3
  <2> QED
    BY <2>2, <2>3
<1>12. CASE engine' = full /\ running' = Commit(mid, full, ifindex)
  <2>1. /\ c \in full.routes[m].cidrs
        /\ running'.at[m][c] = IF c \in mid.routes[m] THEN mid.at[m][c] ELSE ifindex[m]
    BY <1>5, <1>6, <1>12
  <2>2. CASE m = l
    BY <1>4, <1>5, <2>1, <2>2
  <2>3. CASE m # l
    BY <1>4, <1>5, <1>8, <1>9, <1>12, <2>1, <2>3
  <2> QED
    BY <2>2, <2>3
<1> QED
  BY <1>3, <1>7, <1>10, <1>11, <1>12 DEF full

\* Every step keeps the invariant of the engine and the legs.
LEMMA EngineInvStep == EngineInv /\ [Next]_vars => EngineInv'
<1> SUFFICES ASSUME EngineInv, [Next]_vars PROVE EngineInv'
    OBVIOUS
<1>1. HostTypeOK /\ Fresh /\ StateMatchesRunning /\ RoutesResolved
  BY DEF EngineInv, EngineInStep
<1>2. engine' \in EngineSet /\ running' \in RunningSet /\ StateMatchesRunning'
  BY <1>1, EngineStep
<1>3. HostTypeOK'
  <2>1. EnvTypes' /\ TickTypes' /\ ObsTypes' /\ row' \in [Legs -> RowSet]
    BY <1>1, EnvStep, RowStep, TickStep, ObsStep
  <2> QED
    BY <1>2, <2>1 DEF HostTypeOK, EnvTypes, TickTypes, ObsTypes, RowSet, TickSet, EngineSet,
                      RunningSet, Busy, Dues
<1>4. Fresh'
  BY <1>1, FreshStep
<1>5. RoutesResolved'
  <2>1. ASSUME NEW landed \in 0..2, AskEngine(landed) PROVE RoutesResolved'
    BY <2>1, AskResolves
  <2>2. ASSUME NEW cost \in Costs, AskTransit(cost) PROVE RoutesResolved'
    <3> DEFINE s == [engine EXCEPT !.transit = cost]
    <3>1. /\ s \in EngineSet /\ s.routes = engine.routes /\ engine' = s
          /\ running' = Commit(running, s, ifindex)
      BY <1>1, <2>2, TransitCase
    <3>2. running \in RunningSet /\ ifindex \in [Legs -> Nat] /\ ifindex' = ifindex
      BY <1>1, <2>2, TypeGroups DEF EnvTypes, AskTransit, env
    <3> HIDE DEF s
    <3>3. \A l \in Legs : /\ running'.routes[l] = running.routes[l]
                          /\ \A c \in running.routes[l] : running'.at[l][c] = running.at[l][c]
      BY <1>1, <3>1, <3>2, CommitFacts DEF StateMatchesRunning
    <3> QED
      BY <1>1, <3>1, <3>2, <3>3 DEF RoutesResolved
  <2>3. CASE EngineExits
    BY <2>3 DEF EngineExits, RoutesResolved, RunningNew
  <2>4. CASE UNCHANGED <<engine, running>>
    <3>1. /\ ifindex \in [Legs -> Nat] /\ born \in Nat
          /\ \A l \in Legs : engine.routes[l].ifindex \in Nat
      BY <1>1, TypeGroups DEF EnvTypes, EngineSet
    <3>2. ASSUME NEW l \in Legs, LoseLeg(l) PROVE RoutesResolved'
      BY <1>1, <2>4, <3>1, <3>2 DEF LoseLeg, RoutesResolved
    <3>3. ASSUME NEW l \in Legs, BuildLeg(l) PROVE RoutesResolved'
      <4>1. /\ ifindex'[l] = born + 1 /\ engine.routes[l].ifindex # born + 1
            /\ \A m \in Legs \ {l} : ifindex'[m] = ifindex[m]
        BY <1>1, <3>1, <3>3 DEF BuildLeg, Fresh
      <4> QED
        BY <1>1, <2>4, <4>1 DEF RoutesResolved
    <3>4. CASE UNCHANGED <<ifindex, born>>
      BY <1>1, <2>4, <3>4 DEF RoutesResolved
    <3> QED
      BY <3>2, <3>3, <3>4, LegFrame
  <2> QED
    BY <2>1, <2>2, <2>3, <2>4, EngineFrame
<1> QED
  BY <1>2, <1>3, <1>4, <1>5 DEF EngineInv, EngineInStep

\* The invariant holds at first.
LEMMA EngineInvInit == Init => EngineInv
<1> SUFFICES ASSUME Init PROVE EngineInv
    OBVIOUS
<1>1. HostTypeOK
  BY InitTypes
<1>2. Fresh
  BY DEF Init, Fresh, EngineNew, NoLeg, Idle
<1>3. EngineInStep
  BY DEF Init, EngineInStep, StateMatchesRunning, RoutesResolved, EngineNew, RunningNew, NoLeg
<1> QED
  BY <1>1, <1>2, <1>3 DEF EngineInv

\* The inductive invariant of the engine, for every behaviour.
LEMMA EngineInvariant == Spec => []EngineInv
<1>1. EngineInv /\ UNCHANGED vars => EngineInv'
  BY EngineInvStep
<1> QED
  BY EngineInvInit, EngineInvStep, PTL DEF Spec

\* The rows, the pass, the reads and the engine keep their types in every
\* behaviour of the reconcile and the world around it.
THEOREM HostTypes == Spec => []HostTypeOK
<1>1. EngineInv => HostTypeOK
  BY DEF EngineInv
<1> QED
  BY <1>1, EngineInvariant, PTL

\* Whatever commit is refused, whichever leg is rebuilt between the lookup of
\* its index and the commit, and whenever the engine restarts: what the engine
\* remembers is what the northbound has in force, and no route points at a dead
\* netdev while the engine believes it has the leg's index (EngineState::apply).
THEOREM EngineStaysInStep == Spec => []EngineInStep
<1>1. EngineInv => EngineInStep
  BY DEF EngineInv
<1> QED
  BY <1>1, EngineInvariant, PTL

-----------------------------------------------------------------------------
(* The hold-down.                                                          *)

\* A VM the row's read saw and the row has not been told of yet.
JustSeen(l, v) == tick.step = "observe" /\ tick.leg = l /\ v \in tick.live

\* A deadline never runs ahead of the time the VM was not seen, an address the
\* row does not hold was unseen for the whole of it, and what the engine is asked
\* for is what the row holds.
HoldInv ==
    /\ \A l \in Legs, v \in VMs :
          /\ JustSeen(l, v) => quiet[l][v] = 0
          /\ ~JustSeen(l, v) /\ row[l].due[v] \in 0..Holddown => quiet[l][v] + row[l].due[v] >= Holddown
          /\ ~JustSeen(l, v) /\ row[l].due[v] = Absent => quiet[l][v] = Holddown
    /\ tick.step = "ask" => tick.wanted = Wanted(row[tick.leg].due)

\* Nothing is half seen but between a read and its observation, so a step that
\* leaves rows and quiet times alone keeps the invariant elsewhere.
LEMMA HoldFrame ==
    ASSUME HoldInv, tick.step # "observe", tick'.step \notin {"observe", "ask"}, UNCHANGED <<row, quiet>>
    PROVE  HoldInv'
BY DEF HoldInv, JustSeen

\* Observe, address by address.
LEMMA ObserveFacts ==
    ASSUME NEW due \in [VMs -> Dues], NEW now \in SUBSET VMs, NEW v \in VMs
    PROVE  /\ v \in now => Observe(due, now)[v] = Live
           /\ v \notin now /\ due[v] = Live => Observe(due, now)[v] = Holddown
           /\ v \notin now /\ due[v] = 0 => Observe(due, now)[v] = Absent
           /\ v \notin now /\ due[v] # Live /\ due[v] # 0 => Observe(due, now)[v] = due[v]
BY DEF Observe, Dues

\* The read of a row, the observation and the passing of a tick, address by
\* address.
LEMMA ReadDeferredEntry ==
    ASSUME HostTypeOK, NEW l \in Legs, ReadDeferred(l)
    PROVE  /\ tick'.step = "observe" /\ tick'.leg = l /\ tick'.live = {}
           /\ \A v \in VMs : row'[l].due[v] = Absent /\ quiet'[l][v] = Holddown
           /\ \A m \in Legs \ {l} : row'[m] = row[m] /\ quiet'[m] = quiet[m]
<1>1. TickTypes /\ ObsTypes /\ row \in [Legs -> RowSet]
  BY TypeGroups
<1>2. tick'.step = "observe" /\ tick'.leg = l /\ tick'.live = {}
  BY <1>1 DEF ReadDeferred, TickTypes, TickSet
<1>3. \A v \in VMs : quiet'[l][v] = Holddown
  BY <1>1 DEF ReadDeferred, ObsTypes
<1>4. \A m \in Legs \ {l} : quiet'[m] = quiet[m]
  BY <1>1 DEF ReadDeferred, ObsTypes
<1>5. row' = [row EXCEPT ![l] = [@ EXCEPT !.due = [v \in VMs |-> Absent], !.last = {}]]
  BY DEF ReadDeferred
<1>6. \A m \in Legs \ {l} : row'[m] = row[m]
  BY <1>1, <1>5
<1>7. row'[l].due = [v \in VMs |-> Absent]
  BY <1>1, <1>5 DEF RowSet
<1> QED
  BY <1>2, <1>3, <1>4, <1>6, <1>7

\* What reading a leg's neighbors leaves of the row and of the times.
LEMMA ReadLocalEntry ==
    ASSUME HostTypeOK, NEW l \in Legs, ReadLocal(l)
    PROVE  /\ tick'.step = "observe" /\ tick'.leg = l /\ tick'.live = LocalVms(l)
           /\ row' = row
           /\ \A v \in VMs : quiet'[l][v] = IF v \in LocalVms(l) THEN 0 ELSE quiet[l][v]
           /\ \A m \in Legs \ {l} : quiet'[m] = quiet[m]
<1>1. TickTypes /\ ObsTypes
  BY TypeGroups
<1>2. tick'.step = "observe" /\ tick'.leg = l /\ tick'.live = LocalVms(l) /\ row' = row
  BY <1>1 DEF ReadLocal, TickTypes, TickSet
<1>3. quiet' = [quiet EXCEPT ![l] = [v \in VMs |-> IF v \in LocalVms(l) THEN 0 ELSE @[v]]]
  BY DEF ReadLocal
<1>4. \A v \in VMs : quiet'[l][v] = IF v \in LocalVms(l) THEN 0 ELSE quiet[l][v]
  BY <1>1, <1>3 DEF ObsTypes
<1>5. \A m \in Legs \ {l} : quiet'[m] = quiet[m]
  BY <1>1, <1>3 DEF ObsTypes
<1> QED
  BY <1>2, <1>4, <1>5

\* What the hold-down leaves for the request that follows.
LEMMA ReconcileEntry ==
    ASSUME HostTypeOK, NEW kept \in SUBSET VMs, ReconcileMembership(kept)
    PROVE  LET l == tick.leg IN
           /\ tick.step = "observe" /\ l \in Legs /\ tick'.step = "ask" /\ tick'.leg = l
           /\ quiet' = quiet
           /\ tick'.wanted = Wanted(row'[l].due)
           /\ row'[l].due = Observe(row[l].due, tick.live)
           /\ \A m \in Legs \ {l} : row'[m] = row[m]
<1>1. TickTypes /\ row \in [Legs -> RowSet]
  BY TypeGroups
<1>2. tick.step = "observe" /\ tick.leg \in Legs /\ quiet' = quiet
  BY <1>1 DEF ReconcileMembership, TickTypes, Busy, obs
<1> DEFINE l == tick.leg
           d == Observe(row[l].due, tick.live)
           r == [due |-> d, last |-> IF tick.installed THEN Wanted(d) ELSE row[l].last,
                 seen |-> row[l].seen \/ tick.installed, probe |-> row[l].probe]
<1>3. row' = [row EXCEPT ![l] = r]
  BY Zenon DEF ReconcileMembership
<1>4. tick' = [tick EXCEPT !.step = "ask", !.wanted = Wanted(d), !.ifindex = ifindex[l]]
  BY DEF ReconcileMembership
<1>5. r.due = d
  OBVIOUS
<1> HIDE DEF d, r
<1>6. row'[l] = r /\ \A m \in Legs \ {l} : row'[m] = row[m]
  BY <1>1, <1>2, <1>3
<1>7. tick'.step = "ask" /\ tick'.leg = l /\ tick'.wanted = Wanted(d)
  BY <1>1, <1>4 DEF TickTypes, TickSet
<1> QED
  BY <1>2, <1>5, <1>6, <1>7 DEF d

\* A second passes for every deadline and every absence.
LEMMA PassEntry ==
    ASSUME HostTypeOK, Pass, NEW l \in Legs
    PROVE  /\ \A v \in VMs :
                 /\ row'[l].due[v] = IF row[l].due[v] \in 1..Holddown THEN row[l].due[v] - 1
                                     ELSE row[l].due[v]
                 /\ quiet'[l][v] = Least(quiet[l][v] + 1, Holddown)
           /\ row'[l].probe = IF row[l].probe > 0 THEN row[l].probe - 1 ELSE 0
<1>1. row \in [Legs -> RowSet] /\ ObsTypes
  BY TypeGroups
<1> DEFINE d == [v \in VMs |-> IF row[l].due[v] \in 1..Holddown THEN row[l].due[v] - 1
                               ELSE row[l].due[v]]
           p == IF row[l].probe > 0 THEN row[l].probe - 1 ELSE 0
<1>2. row'[l] = [row[l] EXCEPT !.due = d, !.probe = p]
  BY DEF Pass
<1>3. \A v \in VMs : quiet'[l][v] = Least(quiet[l][v] + 1, Holddown)
  BY DEF Pass
<1>4. \A v \in VMs : d[v] = IF row[l].due[v] \in 1..Holddown THEN row[l].due[v] - 1 ELSE row[l].due[v]
  OBVIOUS
<1> HIDE DEF d, p
<1>5. row'[l].due = d /\ row'[l].probe = p
  BY <1>1, <1>2 DEF RowSet
<1> QED
  BY <1>3, <1>4, <1>5 DEF p

\* The deadlines and quiet times are of these kinds.
LEMMA EntryTypes ==
    ASSUME HostTypeOK, NEW l \in Legs, NEW v \in VMs
    PROVE  row[l].due \in [VMs -> Dues] /\ row[l].due[v] \in Dues /\ quiet[l][v] \in 0..Holddown
BY TypeGroups DEF RowSet, ObsTypes

\* Every step keeps the hold-down's invariant.
LEMMA HoldStep == HostTypeOK /\ HoldInv /\ [Next]_vars => HoldInv'
<1> SUFFICES ASSUME HostTypeOK, HoldInv, [Next]_vars PROVE HoldInv'
    OBVIOUS
<1>0. TickTypes
  BY TypeGroups
<1>1. CASE TickStart
  BY <1>1, HoldFrame DEF TickStart, Idle, obs
<1>2. ASSUME NEW l \in Legs, ReadDeferred(l) PROVE HoldInv'
  <2>1. ASSUME NEW m \in Legs, NEW v \in VMs
        PROVE  /\ ~JustSeen(m, v) /\ ~JustSeen(m, v)'
               /\ row'[m].due[v] \in 0..Holddown => quiet'[m][v] + row'[m].due[v] >= Holddown
               /\ row'[m].due[v] = Absent => quiet'[m][v] = Holddown
    <3>1. ~JustSeen(m, v) /\ ~JustSeen(m, v)'
      BY <1>2, ReadDeferredEntry DEF JustSeen, ReadDeferred
    <3>2. CASE m = l
      BY <1>2, <3>1, <3>2, ReadDeferredEntry
    <3>3. CASE m # l
      BY <1>2, <3>1, <3>3, ReadDeferredEntry DEF HoldInv
    <3> QED
      BY <3>1, <3>2, <3>3
  <2>2. tick'.step = "observe"
    BY <1>2, ReadDeferredEntry
  <2> QED
    BY <2>1, <2>2 DEF HoldInv
<1>3. ASSUME NEW l \in Legs, ReadLocal(l) PROVE HoldInv'
  <2>1. ASSUME NEW m \in Legs, NEW v \in VMs
        PROVE  /\ ~JustSeen(m, v)
               /\ JustSeen(m, v)' => quiet'[m][v] = 0
               /\ ~JustSeen(m, v)' => quiet'[m][v] = quiet[m][v]
    <3>1. ~JustSeen(m, v)
      BY <1>3 DEF JustSeen, ReadLocal
    <3>2. JustSeen(m, v)' <=> m = l /\ v \in LocalVms(l)
      BY <1>3, ReadLocalEntry DEF JustSeen
    <3>3. CASE m = l
      BY <1>3, <3>1, <3>2, <3>3, ReadLocalEntry
    <3>4. CASE m # l
      BY <1>3, <3>1, <3>2, <3>4, ReadLocalEntry
    <3> QED
      BY <3>3, <3>4
  <2>2. tick'.step = "observe" /\ row' = row
    BY <1>3, ReadLocalEntry
  <2> QED
    BY <2>1, <2>2 DEF HoldInv
<1>4. ASSUME NEW l \in Legs, ReadFails(l) PROVE HoldInv'
  BY <1>0, <1>4, HoldFrame, RowDoneType DEF ReadFails
<1>5. ASSUME NEW kept \in SUBSET VMs, ReconcileMembership(kept) PROVE HoldInv'
  <2> DEFINE l == tick.leg
  <2>1. /\ tick.step = "observe" /\ l \in Legs /\ tick'.step = "ask" /\ tick'.leg = l /\ quiet' = quiet
        /\ tick'.wanted = Wanted(row'[l].due)
        /\ row'[l].due = Observe(row[l].due, tick.live)
        /\ \A m \in Legs \ {l} : row'[m] = row[m]
    BY <1>5, ReconcileEntry
  <2>2. ASSUME NEW m \in Legs, NEW v \in VMs
        PROVE  /\ ~JustSeen(m, v)'
               /\ row'[m].due[v] \in 0..Holddown => quiet'[m][v] + row'[m].due[v] >= Holddown
               /\ row'[m].due[v] = Absent => quiet'[m][v] = Holddown
    <3>1. ~JustSeen(m, v)'
      BY <2>1 DEF JustSeen
    <3>2. CASE m # l
      <4>1. ~JustSeen(m, v)
        BY <3>2 DEF JustSeen
      <4> QED
        BY <2>1, <3>1, <3>2, <4>1 DEF HoldInv
    <3>3. CASE m = l /\ v \in tick.live
      <4>1. row'[m].due[v] = Live
        BY <1>0, <2>1, <3>3, EntryTypes, ObserveFacts DEF TickTypes, TickSet
      <4> QED
        BY <3>1, <4>1
    <3>4. CASE m = l /\ v \notin tick.live
      <4>1. ~JustSeen(m, v) /\ tick.live \in SUBSET VMs
        BY <1>0, <3>4 DEF JustSeen, TickTypes, TickSet
      <4>2. /\ row[m].due[v] \in Dues /\ quiet[m][v] \in 0..Holddown
            /\ row[m].due[v] \in 0..Holddown => quiet[m][v] + row[m].due[v] >= Holddown
            /\ row[m].due[v] = Absent => quiet[m][v] = Holddown
        BY <4>1, EntryTypes DEF HoldInv
      <4>3. /\ row[m].due[v] = Live => row'[m].due[v] = Holddown
            /\ row[m].due[v] = 0 => row'[m].due[v] = Absent
            /\ row[m].due[v] # Live /\ row[m].due[v] # 0 => row'[m].due[v] = row[m].due[v]
        BY <2>1, <3>4, <4>1, EntryTypes, ObserveFacts
      <4> QED
        BY <2>1, <3>1, <4>2, <4>3 DEF Dues
    <3> QED
      BY <3>2, <3>3, <3>4
  <2> QED
    BY <2>1, <2>2 DEF HoldInv
<1>6. ASSUME NEW landed \in 0..2, AskEngine(landed) PROVE HoldInv'
  BY <1>0, <1>6, HoldFrame DEF AskEngine, TickTypes, TickSet, obs
<1>7. ASSUME NEW ok \in BOOLEAN, ListSet(ok) PROVE HoldInv'
  <2>1. tick'.step \in {"move", "probe"} /\ tick.step = "list"
    BY <1>0, <1>7 DEF ListSet, TickTypes, TickSet
  <2> QED
    BY <1>7, <2>1, HoldFrame DEF ListSet, obs
<1>8. ASSUME NEW done \in 0..2, MoveSet(done) PROVE HoldInv'
  <2>1. tick'.step = "probe" /\ tick.step = "move"
    BY <1>0, <1>8 DEF MoveSet, TickTypes, TickSet
  <2> QED
    BY <1>8, <2>1, HoldFrame DEF MoveSet, obs
<1>9. ASSUME NEW lost \in SUBSET VMs, NEW ageing \in {Ageing, DefaultAgeing}, MaybeProbe(lost, ageing)
      PROVE HoldInv'
  <2>1. tick.step = "probe" /\ tick.leg \in Legs /\ tick' = RowDone(tick.leg) /\ quiet' = quiet
    BY <1>0, <1>9 DEF MaybeProbe, TickTypes, Busy
  <2>2. tick'.step \in {"read", "done"}
    BY <1>0, <2>1, RowDoneType
  <2>3. \A l \in Legs : row'[l].due = row[l].due
    BY <1>9, <2>1, TypeGroups DEF MaybeProbe, RowSet
  <2>4. \A l \in Legs, v \in VMs : ~JustSeen(l, v) /\ ~JustSeen(l, v)'
    BY <2>1, <2>2 DEF JustSeen
  <2> QED
    BY <2>1, <2>2, <2>3, <2>4 DEF HoldInv
<1>10. CASE Pass
  <2>1. tick.step = "done" /\ tick'.step = "due"
    BY <1>10 DEF Pass, Idle
  <2>2. ASSUME NEW l \in Legs, NEW v \in VMs
        PROVE  /\ ~JustSeen(l, v)'
               /\ row'[l].due[v] \in 0..Holddown => quiet'[l][v] + row'[l].due[v] >= Holddown
               /\ row'[l].due[v] = Absent => quiet'[l][v] = Holddown
    <3>1. ~JustSeen(l, v)' /\ ~JustSeen(l, v)
      BY <2>1 DEF JustSeen
    <3>2. /\ row[l].due[v] \in Dues /\ quiet[l][v] \in 0..Holddown
          /\ row[l].due[v] \in 0..Holddown => quiet[l][v] + row[l].due[v] >= Holddown
          /\ row[l].due[v] = Absent => quiet[l][v] = Holddown
      BY <3>1, EntryTypes DEF HoldInv
    <3>3. /\ row'[l].due[v] = IF row[l].due[v] \in 1..Holddown THEN row[l].due[v] - 1 ELSE row[l].due[v]
          /\ quiet'[l][v] = Least(quiet[l][v] + 1, Holddown)
      BY <1>10, PassEntry
    <3> QED
      BY <3>1, <3>2, <3>3 DEF Dues, Least
  <2> QED
    BY <2>1, <2>2 DEF HoldInv
<1>11. CASE World \/ UNCHANGED vars
  <2>1. CASE UNCHANGED <<row, tick, quiet>>
    BY <2>1 DEF HoldInv, JustSeen
  <2>2. CASE SupervisorRestarts
    <3>1. /\ tick'.step = "due"
          /\ \A l \in Legs, v \in VMs : row'[l].due[v] = Absent /\ quiet'[l][v] = Holddown
      BY <2>2 DEF SupervisorRestarts, RowNew, Idle
    <3> QED
      BY <3>1 DEF HoldInv, JustSeen
  <2> QED
    BY <1>11, <2>1, <2>2, WorldFrame
<1> QED
  BY <1>1, <1>2, <1>3, <1>4, <1>5, <1>6, <1>7, <1>8, <1>9, <1>10, <1>11 DEF Next, TickSteps

\* ... from the start.
LEMMA HoldInit == Init => HoldInv
<1> SUFFICES ASSUME Init PROVE HoldInv
    OBVIOUS
<1>1. tick.step = "due" /\ \A l \in Legs, v \in VMs : row[l].due[v] = Absent /\ quiet[l][v] = Holddown
  BY DEF Init, RowNew, Idle
<1> QED
  BY <1>1 DEF HoldInv, JustSeen

\* The invariants of the reconcile and of its hold-down always hold.
LEMMA HoldInvariant == Spec => [](EngineInv /\ HoldInv)
<1>1. Init => EngineInv /\ HoldInv
  BY EngineInvInit, HoldInit
<1>2. (EngineInv /\ HoldInv) /\ [Next]_vars => (EngineInv /\ HoldInv)'
  BY EngineInvStep, HoldStep DEF EngineInv
<1> QED
  BY <1>1, <1>2, PTL DEF Spec

-----------------------------------------------------------------------------
(* The hold-down implements the damper.                                    *)

Wanteds == [l \in Legs |-> Wanted(row[l].due)]

\* Rows with the same addresses wanted, and the same quiet times: a stutter.
LEMMA HeldSame ==
    ASSUME \A l \in Legs : Wanted(row'[l].due) = Wanted(row[l].due)
    PROVE  Wanteds' = Wanteds
BY DEF Wanteds

\* Each step of the reconcile is one of the damper's, or none.
LEMMA DamperStep ==
    ASSUME HostTypeOK, HoldInv, [Next]_vars
    PROVE  Membership!Next \/ UNCHANGED <<Wanteds, quiet>>
<1> USE DEF Wanteds
<1>0. TickTypes /\ ObsTypes /\ row \in [Legs -> RowSet]
  BY TypeGroups
<1>1. CASE TickStart
  BY <1>1 DEF TickStart, obs
<1>2. ASSUME NEW l \in Legs, ReadDeferred(l) PROVE Membership!Next
  <2>1. \A v \in VMs : row'[l].due[v] = Absent /\ quiet'[l][v] = Holddown
    BY <1>2, ReadDeferredEntry
  <2>2. \A m \in Legs \ {l} : row'[m] = row[m] /\ quiet'[m] = quiet[m]
    BY <1>2, ReadDeferredEntry
  <2>3. Wanted(row'[l].due) = {}
    BY <2>1 DEF Wanted
  <2>4. Wanteds' = [m \in Legs |-> IF m \in {l} THEN {} ELSE Wanteds[m]]
    BY <2>2, <2>3
  <2>5. quiet' = [m \in Legs |-> IF m \in {l} THEN [v \in VMs |-> Holddown] ELSE quiet[m]]
    BY <1>0, <1>2 DEF ReadDeferred, ObsTypes
  <2>6. Membership!Forget({l})
    BY <2>4, <2>5 DEF Membership!Forget, Membership!Unseen
  <2> QED
    BY <2>6 DEF Membership!Next
<1>3. ASSUME NEW l \in Legs, ReadLocal(l) PROVE Membership!Next
  <2>1. LocalVms(l) \in SUBSET VMs
    BY DEF LocalVms
  <2>2. row' = row
        /\ quiet' = [quiet EXCEPT ![l] = [v \in VMs |-> IF v \in LocalVms(l) THEN 0 ELSE @[v]]]
    BY <1>3 DEF ReadLocal
  <2>3. Membership!See(l, LocalVms(l))
    BY <2>2 DEF Membership!See
  <2> QED
    BY <2>1, <2>3 DEF Membership!Next
<1>4. ASSUME NEW l \in Legs, ReadFails(l) PROVE UNCHANGED <<Wanteds, quiet>>
  BY <1>4 DEF ReadFails
<1>5. ASSUME NEW kept \in SUBSET VMs, ReconcileMembership(kept) PROVE Membership!Next
  <2> DEFINE l == tick.leg
             w == Wanted(row'[l].due)
  <2>1. /\ tick.step = "observe" /\ l \in Legs /\ quiet' = quiet
        /\ row'[l].due = Observe(row[l].due, tick.live)
        /\ \A m \in Legs \ {l} : row'[m] = row[m]
    BY <1>5, ReconcileEntry
  <2>2. tick.live \in SUBSET VMs /\ row[l].due \in [VMs -> Dues]
    BY <1>0, <2>1 DEF TickTypes, TickSet, RowSet
  <2>3. ASSUME NEW v \in VMs
        PROVE  /\ v \in Wanted(row[l].due) \ w => quiet[l][v] = Holddown
               /\ v \in w \ Wanted(row[l].due) => quiet[l][v] = 0
    <3>1. /\ v \in w <=> row'[l].due[v] # Absent
          /\ v \in Wanted(row[l].due) <=> row[l].due[v] # Absent
      BY DEF Wanted
    <3>2. CASE v \in tick.live
      <4>1. row'[l].due[v] = Live /\ quiet[l][v] = 0
        BY <2>1, <2>2, <3>2, ObserveFacts DEF HoldInv, JustSeen
      <4> QED
        BY <3>1, <4>1
    <3>3. CASE v \notin tick.live
      <4>1. /\ row[l].due[v] = Live => row'[l].due[v] = Holddown
            /\ row[l].due[v] = 0 => row'[l].due[v] = Absent
            /\ row[l].due[v] # Live /\ row[l].due[v] # 0 => row'[l].due[v] = row[l].due[v]
        BY <2>1, <2>2, <3>3, ObserveFacts
      <4>2. quiet[l][v] \in 0..Holddown /\ row[l].due[v] \in Dues
        BY <2>1, EntryTypes
      <4>3. row[l].due[v] \in 0..Holddown => quiet[l][v] + row[l].due[v] >= Holddown
        BY <2>1, <3>3 DEF HoldInv, JustSeen
      <4> QED
        BY <3>1, <4>1, <4>2, <4>3 DEF Dues
    <3> QED
      BY <3>2, <3>3
  <2>4. w \in SUBSET VMs /\ Wanted(row[l].due) \in SUBSET VMs
    BY DEF Wanted
  <2>5. Wanteds' = [Wanteds EXCEPT ![l] = w] /\ Wanteds[l] = Wanted(row[l].due)
    BY <2>1
  <2>6. Membership!Update(l, w)
    <3> HIDE DEF w, Wanteds
    <3>1. \A v \in Wanteds[l] \ w : quiet[l][v] = Holddown
      BY <2>3, <2>4, <2>5
    <3>2. \A v \in w \ Wanteds[l] : quiet[l][v] = 0
      BY <2>3, <2>4, <2>5
    <3> QED
      BY <2>1, <2>5, <3>1, <3>2 DEF Membership!Update, Wanteds
  <2> QED
    BY <2>1, <2>4, <2>6 DEF Membership!Next
<1>6. ASSUME NEW landed \in 0..2, AskEngine(landed) PROVE UNCHANGED <<Wanteds, quiet>>
  BY <1>6 DEF AskEngine, obs
<1>7. ASSUME NEW ok \in BOOLEAN, ListSet(ok) PROVE UNCHANGED <<Wanteds, quiet>>
  BY <1>7 DEF ListSet, obs
<1>8. ASSUME NEW done \in 0..2, MoveSet(done) PROVE UNCHANGED <<Wanteds, quiet>>
  BY <1>8 DEF MoveSet, obs
<1>9. ASSUME NEW lost \in SUBSET VMs, NEW ageing \in {Ageing, DefaultAgeing}, MaybeProbe(lost, ageing)
      PROVE UNCHANGED <<Wanteds, quiet>>
  <2>1. tick.leg \in Legs /\ quiet' = quiet
    BY <1>0, <1>9 DEF MaybeProbe, TickTypes, Busy
  <2>2. \A l \in Legs : row'[l].due = row[l].due
    BY <1>0, <1>9, <2>1, SMTT(60) DEF MaybeProbe, RowSet
  <2> QED
    BY <2>1, <2>2, HeldSame
<1>10. CASE Pass
  <2>1. ASSUME NEW l \in Legs PROVE Wanted(row'[l].due) = Wanted(row[l].due)
    <3>1. \A v \in VMs : row'[l].due[v] = Absent <=> row[l].due[v] = Absent
      BY <1>10, PassEntry, EntryTypes DEF Dues
    <3> QED
      BY <3>1 DEF Wanted
  <2>2. ASSUME NEW l \in Legs, NEW v \in VMs
        PROVE  Least(quiet[l][v] + 1, Holddown) = IF quiet[l][v] < Holddown THEN quiet[l][v] + 1 ELSE Holddown
    <3>1. quiet[l][v] \in 0..Holddown
      BY EntryTypes
    <3> QED
      BY <3>1 DEF Least
  <2>3. quiet' = [l \in Legs |-> [v \in VMs |-> IF quiet[l][v] < Holddown THEN quiet[l][v] + 1 ELSE Holddown]]
    BY <1>10, <2>2 DEF Pass
  <2>4. Wanteds' = Wanteds
    BY <2>1, HeldSame
  <2>5. Membership!Elapse
    BY <2>3, <2>4 DEF Membership!Elapse
  <2> QED
    BY <2>5 DEF Membership!Next
<1>11. CASE World \/ UNCHANGED vars
  <2>1. CASE UNCHANGED <<row, tick, quiet>>
    BY <2>1
  <2>2. CASE SupervisorRestarts
    <3>1. \A l \in Legs : Wanted(row'[l].due) = {}
      BY <2>2 DEF SupervisorRestarts, RowNew, Wanted
    <3>2. quiet' = [l \in Legs |-> [v \in VMs |-> Holddown]]
      BY <2>2 DEF SupervisorRestarts
    <3>3. Membership!Forget(Legs)
      BY <3>1, <3>2 DEF Membership!Forget, Membership!Unseen
    <3> QED
      BY <3>3 DEF Membership!Next
  <2> QED
    BY <1>11, <2>1, <2>2, WorldFrame
<1> QED
  BY <1>1, <1>2, <1>3, <1>4, <1>5, <1>6, <1>7, <1>8, <1>9, <1>10, <1>11 DEF Next, TickSteps

\* The hold-down of every row implements the damped membership its readers rely
\* on (Holddown::observe): an address joins only while it is seen and leaves
\* only after HOLDDOWN unseen, through failed reads, refused commits, rebuilt
\* legs and restarts.
THEOREM HoldsDown == Spec => ImplementsDamper
<1>1. Init => Membership!Init
  <2> SUFFICES ASSUME Init PROVE Membership!Init
    OBVIOUS
  <2>1. \A l \in Legs : Wanted(row[l].due) = {}
    <3>1. \A l \in Legs : row[l].due = [v \in VMs |-> Absent]
      BY DEF Init, RowNew
    <3> QED
      BY <3>1 DEF Wanted
  <2> QED
    BY <2>1 DEF Init, Membership!Init, Membership!Unseen
<1>2. EngineInv /\ HoldInv /\ [Next]_vars => [Membership!Next]_<<[l \in Legs |-> Wanted(row[l].due)], quiet>>
  BY DamperStep DEF EngineInv, Wanteds
<1> QED
  BY <1>1, <1>2, HoldInvariant, PTL DEF Spec, ImplementsDamper, Membership!Spec

-----------------------------------------------------------------------------
(* No VM that stays loses its route.                                       *)

\* A route leaves a live engine only for a reason.
LEMMA WithdrawStep ==
    ASSUME EngineInv, HoldInv, [Next]_vars, NEW l \in Legs, NEW v \in VMs,
           up, up', v \in running.routes[l], v \notin running'.routes[l]
    PROVE  \/ quiet[l][v] >= Holddown
           \/ running'.routes[l] = {} /\ engine'.routes[l].ifindex # engine.routes[l].ifindex
<1>1. HostTypeOK /\ StateMatchesRunning
  BY DEF EngineInv, EngineInStep
<1>2. engine' \in EngineSet /\ running' \in RunningSet /\ StateMatchesRunning'
  BY <1>1, EngineStep
<1>3. engine.routes[l].cidrs = running.routes[l] /\ engine'.routes[l].cidrs = running'.routes[l]
  BY <1>1, <1>2 DEF StateMatchesRunning
<1>4. ASSUME NEW landed \in 0..2, AskEngine(landed)
      PROVE  \/ quiet[l][v] >= Holddown
             \/ running'.routes[l] = {} /\ engine'.routes[l].ifindex # engine.routes[l].ifindex
  <2> DEFINE m == tick.leg
             t == tick.ifindex
             empty == WithLeg(engine, m, t, {})
  <2>1. PICK cs \in SUBSET Routes :
           /\ m \in Legs /\ t \in Nat /\ tick.wanted \subseteq cs
           /\ \/ engine' = engine
              \/ t # engine.routes[m].ifindex /\ engine' = empty
              \/ engine' = WithLeg(engine, m, t, cs)
    BY <1>1, <1>4, AskCases
  <2> DEFINE full == WithLeg(engine, m, t, cs)
  <2>2. /\ empty.routes[m].cidrs = {} /\ full.routes[m].cidrs = cs /\ empty.routes[m].ifindex = t
        /\ \A n \in Legs \ {m} : empty.routes[n] = engine.routes[n] /\ full.routes[n] = engine.routes[n]
    BY <1>1, <2>1, TypeGroups, WithLegFacts
  <2> HIDE DEF empty, full
  <2>3. engine' # engine /\ l = m
    BY <1>3, <2>1, <2>2 DEF full
  <2>4. CASE t # engine.routes[m].ifindex /\ engine' = empty
    BY <1>3, <2>2, <2>3, <2>4
  <2>5. CASE engine' = full
    <3>1. v \notin tick.wanted
      BY <1>3, <2>1, <2>2, <2>3, <2>5
    <3>2. tick.step = "ask"
      BY <1>4 DEF AskEngine
    <3>3. tick.wanted = Wanted(row[l].due)
      BY <2>3, <3>2 DEF HoldInv
    <3>4. row[l].due[v] = Absent
      BY <3>1, <3>3 DEF Wanted
    <3>5. quiet[l][v] = Holddown
      BY <3>2, <3>4 DEF HoldInv, JustSeen
    <3> QED
      BY <3>5
  <2> QED
    BY <2>1, <2>3, <2>4, <2>5 DEF full
<1>5. ASSUME NEW cost \in Costs, AskTransit(cost) PROVE FALSE
  <2> DEFINE s == [engine EXCEPT !.transit = cost]
  <2>1. engine' = s /\ s.routes = engine.routes
    BY <1>1, <1>5, TransitCase
  <2> HIDE DEF s
  <2> QED
    BY <1>3, <2>1
<1>6. CASE EngineExits
  BY <1>6 DEF EngineExits
<1>7. CASE UNCHANGED <<engine, running>>
  BY <1>7
<1> QED
  BY <1>4, <1>5, <1>6, <1>7, EngineFrame

\* The longest a probe cycle can be, and how it fits in the ageing time.
Longest == IF ProbeInterval(Ageing) < ProbeInterval(DefaultAgeing)
           THEN ProbeInterval(DefaultAgeing) ELSE ProbeInterval(Ageing)

\* The longest probe cycle fits twice into the ageing time.
LEMMA LongestFacts ==
    /\ Longest \in Nat \ {0} /\ Longest + Longest < Ageing
    /\ \A ageing \in {Ageing, DefaultAgeing} :
          ProbeInterval(ageing) \in Nat /\ ProbeInterval(ageing) <= Longest
<1>1. \A ageing \in {Ageing, DefaultAgeing} : ProbeInterval(ageing) \in Nat \ {0}
  BY DEF ProbeInterval
<1>2. 2 * ProbeInterval(Ageing) < Ageing /\ 2 * ProbeInterval(DefaultAgeing) < Ageing
  BY ProbeAssumption
<1> QED
  BY <1>1, <1>2 DEF Longest

\* The pass is through with the row of leg l in this tick.
Finished(l) == tick.step # "due" /\ l \notin tick.todo

\* The life left of a VM's FDB entry covers the probe cycles it may still miss.
Margin(l, v) ==
    /\ missed[l][v] = 0 => fdb[l][v] + Longest >= Ageing + row[l].probe
    /\ missed[l][v] = 1 => fdb[l][v] + Longest + Longest >= Ageing + row[l].probe
    /\ Finished(l) /\ row[l].probe = 0 /\ missed[l][v] = 0 => fdb[l][v] = Ageing
    /\ Finished(l) /\ row[l].probe = 0 /\ missed[l][v] = 1 => fdb[l][v] + Longest >= Ageing
    /\ tick.step \in Busy /\ tick.leg = l /\ ~tick.installed =>
          missed[l][v] = 2 \/ (missed[l][v] = 0 /\ fdb[l][v] = Ageing)

\* The pass visits a row while it is still to be done.
PassInv ==
    /\ tick.step \in Busy => tick.leg \in tick.todo
    /\ tick.step \in {"due", "done"} => tick.todo = {}
    /\ \A l \in Legs : row[l].probe <= Longest

ProbeInv == PassInv /\ \A l \in Legs : \A v \in here[l] : Margin(l, v)

\* A step in the middle of a row, or a step that touches none of this.
LEMMA ProbeFrame ==
    ASSUME ProbeInv, UNCHANGED <<here, fdb, missed>>,
           \A l \in Legs : row'[l].probe = row[l].probe,
           UNCHANGED <<tick.todo, tick.leg, tick.installed>>,
           tick'.step = tick.step \/ (tick.step \in Busy /\ tick'.step \in Busy)
    PROVE  ProbeInv'
<1>1. \A l \in Legs : Finished(l)' <=> Finished(l)
  BY DEF Finished, Busy
<1>2. tick'.step \in Busy <=> tick.step \in Busy
  OBVIOUS
<1>3. \A l \in Legs, v \in VMs : Margin(l, v) => Margin(l, v)'
  BY <1>1, <1>2 DEF Margin
<1>4. PassInv'
  BY <1>2 DEF ProbeInv, PassInv, Busy
<1>5. \A l \in Legs : \A v \in here[l] : Margin(l, v)'
  BY <1>1, <1>2 DEF ProbeInv, Margin
<1> QED
  BY <1>4, <1>5 DEF ProbeInv

\* The types the margins are about.
LEMMA MarginTypes ==
    ASSUME HostTypeOK, NEW l \in Legs
    PROVE  /\ here[l] \subseteq VMs /\ row[l].probe \in Nat
           /\ \A v \in VMs : fdb[l][v] \in 0..Ageing /\ missed[l][v] \in 0..2
BY TypeGroups DEF EnvTypes, ObsTypes, RowSet

\* The passing of a tick costs an entry one tick of its life and the row one of
\* its probe interval.
LEMMA PassKeepsMargin ==
    ASSUME HostTypeOK, ProbeInv, Pass
    PROVE  ProbeInv'
<1>1. tick.step = "done" /\ tick'.step = "due" /\ tick'.todo = {} /\ tick.todo = {}
  BY DEF Pass, Idle, ProbeInv, PassInv
<1>2. here' = here /\ missed' = missed
  BY DEF Pass
<1>3. \A l \in Legs : Finished(l) /\ ~Finished(l)'
  BY <1>1 DEF Finished
<1>4. ASSUME NEW l \in Legs PROVE row'[l].probe = IF row[l].probe > 0 THEN row[l].probe - 1 ELSE 0
  BY PassEntry
<1>5. PassInv'
  <2>1. \A l \in Legs : row'[l].probe <= Longest
    BY <1>4, MarginTypes, LongestFacts DEF ProbeInv, PassInv
  <2> QED
    BY <1>1, <2>1 DEF PassInv, Busy
<1>6. ASSUME NEW l \in Legs, NEW v \in here[l] PROVE Margin(l, v)'
  <2>1. /\ v \in VMs /\ fdb[l][v] \in 0..Ageing /\ missed[l][v] \in 0..2 /\ row[l].probe \in Nat
    BY MarginTypes
  <2>2. fdb'[l][v] = IF fdb[l][v] > 0 THEN fdb[l][v] - 1 ELSE 0
    BY <2>1 DEF Pass
  <2>3. /\ missed[l][v] = 0 => fdb[l][v] + Longest >= Ageing + row[l].probe
        /\ missed[l][v] = 1 => fdb[l][v] + Longest + Longest >= Ageing + row[l].probe
        /\ row[l].probe = 0 /\ missed[l][v] = 0 => fdb[l][v] = Ageing
        /\ row[l].probe = 0 /\ missed[l][v] = 1 => fdb[l][v] + Longest >= Ageing
    BY <1>3 DEF ProbeInv, Margin
  <2>4. /\ missed[l][v] = 0 => fdb'[l][v] + Longest >= Ageing + row'[l].probe
        /\ missed[l][v] = 1 => fdb'[l][v] + Longest + Longest >= Ageing + row'[l].probe
    BY <1>4, <2>1, <2>2, <2>3, LongestFacts
  <2>5. ~(tick'.step \in Busy)
    BY <1>1 DEF Busy
  <2> QED
    BY <1>2, <1>3, <2>4, <2>5 DEF Margin
<1> QED
  BY <1>2, <1>5, <1>6 DEF ProbeInv

\* A probe that is due refreshes the entries of the VMs that answer and costs
\* the others one of the cycles they may miss.
LEMMA ProbeKeepsMargin ==
    ASSUME HostTypeOK, ProbeInv, NEW lost \in SUBSET VMs, NEW ageing \in {Ageing, DefaultAgeing},
           MaybeProbe(lost, ageing)
    PROVE  ProbeInv'
<1> DEFINE l == tick.leg
           a(v) == v \in tick.live \ lost /\ v \in here[l]
<1>0. TickTypes /\ EnvTypes /\ ObsTypes /\ row \in [Legs -> RowSet]
  BY TypeGroups
<1>1. tick.step = "probe" /\ l \in Legs /\ l \in tick.todo /\ here' = here /\ tick' = RowDone(l)
  BY <1>0 DEF MaybeProbe, TickTypes, Busy, ProbeInv, PassInv
<1>2. /\ tick'.step \in {"read", "done"} /\ tick'.todo = tick.todo \ {l}
      /\ tick'.step = "done" => tick'.todo = {}
  BY <1>0, <1>1, RowDoneType
<1>3. \A m \in Legs \ {l} : Finished(m)' <=> Finished(m)
  BY <1>1, <1>2 DEF Finished
<1>4. tick'.step \notin Busy
  BY <1>2 DEF Busy
<1>5. CASE tick.installed /\ row[l].probe = 0
  <2> DEFINE p == ProbeInterval(ageing)
             g == [v \in VMs |-> CASE a(v)                     -> 0
                                   [] ~a(v) /\ v \in tick.live -> Least(missed[l][v] + 1, 2)
                                   [] OTHER                     -> 2]
  <2>1. p \in Nat /\ p <= Longest
    BY LongestFacts
  <2>2. row' = [row EXCEPT ![l] = [@ EXCEPT !.probe = p]]
    BY <1>5 DEF MaybeProbe
  <2>3. fdb' = [fdb EXCEPT ![l] = [v \in VMs |-> IF a(v) THEN Ageing ELSE @[v]]]
    BY <1>5 DEF MaybeProbe
  <2>4. missed' = [missed EXCEPT ![l] = g]
    BY <1>5 DEF MaybeProbe
  <2> HIDE DEF p
  <2>5. row'[l].probe = p /\ \A m \in Legs \ {l} : row'[m] = row[m]
    BY <1>0, <1>1, <2>2 DEF RowSet
  <2>6. /\ \A v \in VMs : fdb'[l][v] = IF a(v) THEN Ageing ELSE fdb[l][v]
        /\ \A m \in Legs \ {l} : fdb'[m] = fdb[m]
    BY <1>0, <1>1, <2>3 DEF EnvTypes
  <2>7. \A m \in Legs \ {l} : missed'[m] = missed[m]
    BY <1>0, <1>1, <2>4 DEF ObsTypes
  <2>8. missed'[l] = g
    BY <1>0, <1>1, <2>4 DEF ObsTypes
  <2>9. \A v \in VMs : g[v] = 2 \/ (g[v] = 0 /\ a(v)) \/ (~a(v) /\ g[v] = Least(missed[l][v] + 1, 2))
    OBVIOUS
  <2> HIDE DEF g, a
  <2>10. PassInv'
    <3>1. \A m \in Legs : row'[m].probe <= Longest
      BY <2>1, <2>5 DEF ProbeInv, PassInv
    <3> QED
      BY <1>2, <1>4, <3>1 DEF PassInv
  <2>11. ASSUME NEW m \in Legs, NEW v \in here[m] PROVE Margin(m, v)'
    <3>1. CASE m # l
      BY <1>3, <1>4, <2>5, <2>6, <2>7, <3>1 DEF ProbeInv, Margin
    <3>2. CASE m = l
      <4>1. v \in VMs /\ fdb[l][v] \in 0..Ageing /\ missed[l][v] \in 0..2
        BY <1>1, <3>2, MarginTypes
      <4>2. missed[l][v] = 0 => fdb[l][v] + Longest >= Ageing
        BY <1>5, <3>2 DEF ProbeInv, Margin
      <4>3. /\ missed'[l][v] = 0 => fdb'[l][v] = Ageing
            /\ missed'[l][v] = 1 => fdb'[l][v] + Longest >= Ageing
        <5>1. fdb'[l][v] = IF a(v) THEN Ageing ELSE fdb[l][v]
          BY <2>6, <4>1
        <5>2. \/ missed'[l][v] = 2
              \/ missed'[l][v] = 0 /\ a(v)
              \/ ~a(v) /\ missed'[l][v] = Least(missed[l][v] + 1, 2)
          BY <2>8, <2>9, <4>1
        <5> QED
          BY <4>1, <4>2, <5>1, <5>2 DEF Least
      <4>4. fdb'[l][v] \in 0..Ageing
        BY <2>6, <4>1
      <4>5. /\ missed'[l][v] = 0 => fdb'[l][v] + Longest >= Ageing + p
            /\ missed'[l][v] = 1 => fdb'[l][v] + Longest + Longest >= Ageing + p
        BY <2>1, <4>3, <4>4, LongestFacts
      <4> QED
        BY <1>4, <2>5, <3>2, <4>3, <4>5 DEF Margin
    <3> QED
      BY <3>1, <3>2
  <2> QED
    BY <1>1, <2>10, <2>11 DEF ProbeInv
<1>6. CASE ~(tick.installed /\ row[l].probe = 0)
  <2>1. UNCHANGED <<row, fdb, missed>>
    BY <1>6 DEF MaybeProbe
  <2>2. PassInv'
    BY <1>2, <1>4, <2>1 DEF ProbeInv, PassInv
  <2>3. ASSUME NEW m \in Legs, NEW v \in here[m] PROVE Margin(m, v)'
    <3>1. CASE m # l
      BY <1>3, <1>4, <2>1, <3>1 DEF ProbeInv, Margin
    <3>2. CASE m = l
      <4>1. v \in VMs /\ fdb[l][v] \in 0..Ageing /\ missed[l][v] \in 0..2
        BY <1>1, <3>2, MarginTypes
      <4>2. row[l].probe = 0 => ~tick.installed
        BY <1>6
      <4>3. row[l].probe = 0 => missed[l][v] = 2 \/ (missed[l][v] = 0 /\ fdb[l][v] = Ageing)
        BY <1>1, <3>2, <4>2 DEF ProbeInv, Margin, Busy
      <4> QED
        BY <1>4, <2>1, <3>2, <4>3 DEF ProbeInv, Margin
    <3> QED
      BY <3>1, <3>2
  <2> QED
    BY <1>1, <2>2, <2>3 DEF ProbeInv
<1> QED
  BY <1>5, <1>6

\* Every step keeps the margins.
LEMMA ProbeStep == HostTypeOK /\ ProbeInv /\ [Next]_vars => ProbeInv'
<1> SUFFICES ASSUME HostTypeOK, ProbeInv, [Next]_vars PROVE ProbeInv'
    OBVIOUS
<1>0. TickTypes /\ EnvTypes /\ ObsTypes /\ row \in [Legs -> RowSet]
  BY TypeGroups
<1>1. CASE TickStart
  <2>1. /\ tick.step = "due" /\ tick'.step = "read" /\ tick'.todo = Legs
        /\ UNCHANGED <<here, fdb, missed, row>>
    BY <1>1 DEF TickStart, Idle, env, obs
  <2>2. \A l \in Legs : ~Finished(l)'
    BY <2>1 DEF Finished
  <2>3. tick'.step \notin Busy \cup {"due", "done"}
    BY <2>1 DEF Busy
  <2> QED
    BY <2>1, <2>2, <2>3 DEF ProbeInv, PassInv, Margin
<1>2. ASSUME NEW l \in Legs, ReadDeferred(l) PROVE ProbeInv'
  <2>1. /\ tick.step = "read" /\ tick'.step = "observe" /\ tick'.leg = l /\ tick'.todo = tick.todo
        /\ l \in tick.todo /\ UNCHANGED <<here, fdb>>
    BY <1>0, <1>2 DEF ReadDeferred, TickTypes, TickSet, env
  <2>2. \A v \in VMs : missed'[l][v] = 2
    BY <1>0, <1>2 DEF ReadDeferred, ObsTypes
  <2>3. \A m \in Legs \ {l} : missed'[m] = missed[m]
    BY <1>0, <1>2 DEF ReadDeferred, ObsTypes
  <2>4. row' = [row EXCEPT ![l] = [@ EXCEPT !.due = [v \in VMs |-> Absent], !.last = {}]]
    BY <1>2 DEF ReadDeferred
  <2>5. \A m \in Legs : row'[m].probe = row[m].probe
    BY <1>0, <2>4 DEF RowSet
  <2>6. \A m \in Legs : Finished(m)' <=> Finished(m)
    BY <2>1 DEF Finished
  <2>7. PassInv'
    BY <2>1, <2>5 DEF ProbeInv, PassInv
  <2>8. ASSUME NEW m \in Legs, NEW v \in here[m] PROVE Margin(m, v)'
    <3>1. v \in VMs
      BY MarginTypes
    <3>2. CASE m = l
      BY <2>2, <3>1, <3>2 DEF Margin
    <3>3. CASE m # l
      BY <2>1, <2>3, <2>5, <2>6, <3>3 DEF ProbeInv, Margin
    <3> QED
      BY <3>2, <3>3
  <2> QED
    BY <2>1, <2>7, <2>8 DEF ProbeInv
<1>3. ASSUME NEW l \in Legs, ReadLocal(l) PROVE ProbeInv'
  <2>1. /\ tick.step = "read" /\ tick'.step = "observe" /\ tick'.leg = l /\ tick'.todo = tick.todo
        /\ l \in tick.todo /\ UNCHANGED <<here, fdb, missed, row>>
    BY <1>0, <1>3 DEF ReadLocal, TickTypes, TickSet, env
  <2>2. tick'.installed
    BY <1>0, <1>3 DEF ReadLocal, TickTypes, TickSet
  <2>3. \A m \in Legs : Finished(m)' <=> Finished(m)
    BY <2>1 DEF Finished
  <2> QED
    BY <2>1, <2>2, <2>3 DEF ProbeInv, PassInv, Margin
<1>4. ASSUME NEW l \in Legs, ReadFails(l) PROVE ProbeInv'
  <2>1. /\ tick.step = "read" /\ l \in tick.todo /\ UNCHANGED <<here, fdb, row>> /\ tick' = RowDone(l)
    BY <1>4 DEF ReadFails, env
  <2>2. /\ tick'.step \in {"read", "done"} /\ tick'.todo = tick.todo \ {l}
        /\ tick'.step = "done" => tick'.todo = {}
    BY <1>0, <2>1, RowDoneType
  <2>3. tick'.step \notin Busy
    BY <2>2 DEF Busy
  <2>4. \A m \in Legs \ {l} : Finished(m)' <=> Finished(m)
    BY <2>1, <2>2 DEF Finished
  <2>5. missed' = IF row[l].probe > 0 THEN missed
                  ELSE [missed EXCEPT ![l] = [v \in VMs |-> Least(@[v] + 1, 2)]]
    BY <1>4 DEF ReadFails
  <2>6. \A m \in Legs \ {l} : missed'[m] = missed[m]
    BY <1>0, <2>5 DEF ObsTypes
  <2>7. \A v \in VMs : missed'[l][v] = IF row[l].probe > 0 THEN missed[l][v] ELSE Least(missed[l][v] + 1, 2)
    BY <1>0, <2>5 DEF ObsTypes
  <2>8. PassInv'
    BY <2>1, <2>2, <2>3 DEF ProbeInv, PassInv
  <2>9. ASSUME NEW m \in Legs, NEW v \in here[m] PROVE Margin(m, v)'
    <3>1. CASE m # l
      BY <2>1, <2>3, <2>4, <2>6, <3>1 DEF ProbeInv, Margin
    <3>2. CASE m = l
      <4>1. v \in VMs /\ fdb[l][v] \in 0..Ageing /\ missed[l][v] \in 0..2 /\ row[l].probe \in Nat
        BY <3>2, MarginTypes
      <4>2. /\ missed[l][v] = 0 => fdb[l][v] + Longest >= Ageing + row[l].probe
            /\ missed[l][v] = 1 => fdb[l][v] + Longest + Longest >= Ageing + row[l].probe
        BY <3>2 DEF ProbeInv, Margin
      <4>3. /\ missed'[l][v] = 0 => fdb[l][v] + Longest >= Ageing + row[l].probe /\ row[l].probe # 0
            /\ missed'[l][v] = 1 => fdb[l][v] + Longest + Longest >= Ageing + row[l].probe
            /\ missed'[l][v] = 1 /\ row[l].probe = 0 => fdb[l][v] + Longest >= Ageing
        <5>1. missed'[l][v] = IF row[l].probe > 0 THEN missed[l][v] ELSE Least(missed[l][v] + 1, 2)
          BY <2>7, <4>1
        <5> QED
          BY <4>1, <4>2, <5>1, LongestFacts DEF Least
      <4> QED
        BY <2>1, <2>3, <3>2, <4>3 DEF Margin
    <3> QED
      BY <3>1, <3>2
  <2> QED
    BY <2>1, <2>8, <2>9 DEF ProbeInv
<1>5. ASSUME NEW kept \in SUBSET VMs, ReconcileMembership(kept) PROVE ProbeInv'
  <2> DEFINE l == tick.leg
             d == Observe(row[l].due, tick.live)
             w == IF tick.installed THEN Wanted(d) ELSE row[l].last
             b == row[l].seen \/ tick.installed
  <2>1. row' = [row EXCEPT ![l] = [due |-> d, last |-> w, seen |-> b, probe |-> row[l].probe]]
    BY <1>5, Zenon DEF ReconcileMembership
  <2> HIDE DEF d, w, b
  <2>2. \A m \in Legs : row'[m].probe = row[m].probe
    BY <1>0, <2>1
  <2>3. UNCHANGED <<here, fdb, missed>>
    BY <1>5 DEF ReconcileMembership, obs
  <2>4. /\ tick.step = "observe" /\ tick'.step = "ask"
        /\ UNCHANGED <<tick.todo, tick.leg, tick.installed>>
    BY <1>0, <1>5 DEF ReconcileMembership, TickTypes, TickSet
  <2> QED
    BY <2>2, <2>3, <2>4, ProbeFrame DEF Busy
<1>6. ASSUME NEW landed \in 0..2, AskEngine(landed) PROVE ProbeInv'
  <2>1. /\ tick.step = "ask" /\ tick'.step = "list"
        /\ UNCHANGED <<tick.todo, tick.leg, tick.installed, here, fdb, missed, row>>
    BY <1>0, <1>6 DEF AskEngine, TickTypes, TickSet, env, obs
  <2> QED
    BY <2>1, ProbeFrame DEF Busy
<1>7. ASSUME NEW ok \in BOOLEAN, ListSet(ok) PROVE ProbeInv'
  <2>1. /\ tick.step = "list" /\ tick'.step \in {"move", "probe"}
        /\ UNCHANGED <<tick.todo, tick.leg, tick.installed, here, fdb, missed, row>>
    BY <1>0, <1>7 DEF ListSet, TickTypes, TickSet, env, obs
  <2> QED
    BY <2>1, ProbeFrame DEF Busy
<1>8. ASSUME NEW done \in 0..2, MoveSet(done) PROVE ProbeInv'
  <2>1. /\ tick.step = "move" /\ tick'.step = "probe"
        /\ UNCHANGED <<tick.todo, tick.leg, tick.installed, here, fdb, missed, row>>
    BY <1>0, <1>8 DEF MoveSet, TickTypes, TickSet, env, obs
  <2> QED
    BY <2>1, ProbeFrame DEF Busy
<1>9. ASSUME NEW lost \in SUBSET VMs, NEW ageing \in {Ageing, DefaultAgeing}, MaybeProbe(lost, ageing)
      PROVE ProbeInv'
  BY <1>9, ProbeKeepsMargin
<1>10. CASE Pass
  BY <1>10, PassKeepsMargin
<1>11. ASSUME NEW l \in Legs, NEW v \in VMs, Arrive(l, v) \/ Speak(l, v) PROVE ProbeInv'
  <2>1. /\ fdb' = [fdb EXCEPT ![l][v] = Ageing] /\ missed' = [missed EXCEPT ![l][v] = 0]
        /\ UNCHANGED <<row, tick>>
    BY <1>11 DEF Arrive, Speak
  <2>2. fdb'[l][v] = Ageing /\ missed'[l][v] = 0
    BY <1>0, <2>1 DEF EnvTypes, ObsTypes
  <2>3. \A m \in Legs, u \in VMs : m # l \/ u # v => fdb'[m][u] = fdb[m][u] /\ missed'[m][u] = missed[m][u]
    BY <1>0, <2>1 DEF EnvTypes, ObsTypes
  <2>4. \A m \in Legs : here'[m] \subseteq VMs /\ \A u \in here'[m] : u \in here[m] \/ (m = l /\ u = v)
    BY <1>0, <1>11 DEF Arrive, Speak, EnvTypes
  <2>5. \A m \in Legs : Finished(m)' <=> Finished(m)
    BY <2>1 DEF Finished
  <2>6. PassInv'
    BY <2>1 DEF ProbeInv, PassInv
  <2>7. ASSUME NEW m \in Legs, NEW u \in here'[m] PROVE Margin(m, u)'
    <3>1. CASE m = l /\ u = v
      <4>1. row[l].probe \in Nat /\ row[l].probe <= Longest
        BY MarginTypes DEF ProbeInv, PassInv
      <4>2. Ageing + Longest >= Ageing + row[l].probe
        BY <4>1, LongestFacts
      <4> QED
        BY <2>1, <2>2, <3>1, <4>2 DEF Margin
    <3>2. CASE m # l \/ u # v
      <4>1. u \in VMs /\ u \in here[m]
        BY <2>4, <3>2
      <4>2. fdb'[m][u] = fdb[m][u] /\ missed'[m][u] = missed[m][u] /\ Margin(m, u)
        BY <2>3, <3>2, <4>1 DEF ProbeInv
      <4> QED
        BY <2>1, <2>5, <4>2 DEF Margin
    <3> QED
      BY <3>1, <3>2
  <2> QED
    BY <2>6, <2>7 DEF ProbeInv
<1>12. ASSUME NEW l \in Legs, NEW v \in VMs, NEW heard \in BOOLEAN, Depart(l, v, heard) PROVE ProbeInv'
  <2>1. /\ fdb' = fdb \/ fdb' = [fdb EXCEPT ![l][v] = 0]
        /\ UNCHANGED <<row, tick, missed>> /\ here' = [here EXCEPT ![l] = @ \ {v}]
    BY <1>12 DEF Depart, obs
  <2>2. \A m \in Legs : \A u \in here'[m] : u \in here[m] /\ u \in VMs /\ (m # l \/ u # v)
    BY <1>0, <2>1 DEF EnvTypes
  <2>3. \A m \in Legs, u \in VMs : m # l \/ u # v => fdb'[m][u] = fdb[m][u]
    BY <1>0, <2>1 DEF EnvTypes
  <2>4. \A m \in Legs : Finished(m)' <=> Finished(m)
    BY <2>1 DEF Finished
  <2>5. PassInv'
    BY <2>1 DEF ProbeInv, PassInv
  <2>6. ASSUME NEW m \in Legs, NEW u \in here'[m] PROVE Margin(m, u)'
    BY <2>1, <2>2, <2>3, <2>4 DEF ProbeInv, Margin
  <2> QED
    BY <2>5, <2>6 DEF ProbeInv
<1>13. ASSUME NEW l \in Legs, LoseLeg(l) \/ BuildLeg(l) \/ Defer(l) \/ Undefer(l) PROVE ProbeInv'
  <2>1. UNCHANGED <<here, fdb, missed, row, tick>>
    BY <1>13 DEF LoseLeg, BuildLeg, Defer, Undefer, obs
  <2> QED
    BY <2>1, ProbeFrame
<1>14. ASSUME NEW unread \in SUBSET Legs, Rerender(unread) PROVE ProbeInv'
  <2>1. UNCHANGED <<here, fdb, missed, row, tick>>
    BY <1>14 DEF Rerender, env, obs
  <2> QED
    BY <2>1, ProbeFrame
<1>15. CASE EngineExits \/ EngineStarts \/ UNCHANGED vars
  <2>1. UNCHANGED <<here, fdb, missed, row, tick>>
    BY <1>15 DEF EngineExits, EngineStarts, vars, env, obs
  <2> QED
    BY <2>1, ProbeFrame
<1>16. ASSUME NEW cost \in Costs, AskTransit(cost) PROVE ProbeInv'
  <2>1. UNCHANGED <<here, fdb, missed, row, tick>>
    BY <1>16 DEF AskTransit, env, obs
  <2> QED
    BY <2>1, ProbeFrame
<1>17. CASE SupervisorRestarts
  <2>1. /\ tick'.step = "due" /\ tick'.todo = {} /\ UNCHANGED <<here, fdb, missed>>
        /\ \A l \in Legs : row'[l].probe = 0
    BY <1>17 DEF SupervisorRestarts, Idle, RowNew, env
  <2>2. \A l \in Legs : ~Finished(l)'
    BY <2>1 DEF Finished
  <2>3. PassInv'
    BY <2>1, LongestFacts DEF PassInv, Busy
  <2>4. ASSUME NEW l \in Legs, NEW v \in here[l] PROVE Margin(l, v)'
    <3>1. v \in VMs /\ fdb[l][v] \in 0..Ageing /\ missed[l][v] \in 0..2 /\ row[l].probe \in Nat
      BY MarginTypes
    <3>2. /\ missed[l][v] = 0 => fdb[l][v] + Longest >= Ageing + 0
          /\ missed[l][v] = 1 => fdb[l][v] + Longest + Longest >= Ageing + 0
      BY <3>1, LongestFacts DEF ProbeInv, Margin
    <3> QED
      BY <2>1, <2>2, <3>2 DEF Margin, Busy
  <2> QED
    BY <2>1, <2>3, <2>4 DEF ProbeInv
<1> QED
  BY <1>1, <1>2, <1>3, <1>4, <1>5, <1>6, <1>7, <1>8, <1>9, <1>10, <1>11, <1>12, <1>13, <1>14,
     <1>15, <1>16, <1>17 DEF Next, TickSteps, World

\* ... from the start.
LEMMA ProbeInit == Init => ProbeInv
<1> SUFFICES ASSUME Init PROVE ProbeInv
    OBVIOUS
<1>1. HostTypeOK
  BY InitTypes
<1>2. /\ tick.step = "due" /\ tick.todo = {}
      /\ \A l \in Legs : row[l].probe = 0
      /\ \A l \in Legs, v \in VMs : missed[l][v] = 0
  BY DEF Init, Idle, RowNew
<1>3. \A l \in Legs : \A v \in here[l] : v \in VMs /\ fdb[l][v] = Ageing
  BY DEF Init
<1>4. PassInv
  BY <1>2, LongestFacts DEF PassInv, Busy
<1>5. Ageing + Longest >= Ageing + 0
  BY LongestFacts
<1> QED
  BY <1>2, <1>3, <1>4, <1>5 DEF ProbeInv, Margin, Finished, Busy

\* Only the passing of a tick ages an entry of a VM that stays.
LEMMA AgeStep ==
    ASSUME HostTypeOK, ProbeInv, [Next]_vars, NEW l \in Legs, NEW v \in VMs,
           v \in here[l], fdb[l][v] > 0, fdb'[l][v] = 0, here' = here
    PROVE  missed[l][v] = 2
<1>0. TickTypes /\ EnvTypes /\ ObsTypes
  BY TypeGroups
<1>1. fdb[l][v] \in 0..Ageing /\ missed[l][v] \in 0..2 /\ row[l].probe \in Nat
  BY MarginTypes
<1>2. CASE Pass
  <2>1. fdb'[l][v] = fdb[l][v] - 1
    BY <1>1, <1>2 DEF Pass
  <2>2. Finished(l)
    BY <1>2 DEF Pass, Finished, ProbeInv, PassInv
  <2>3. /\ missed[l][v] = 0 => fdb[l][v] + Longest >= Ageing + row[l].probe
        /\ missed[l][v] = 1 => fdb[l][v] + Longest + Longest >= Ageing + row[l].probe
        /\ row[l].probe = 0 /\ missed[l][v] = 0 => fdb[l][v] = Ageing
        /\ row[l].probe = 0 /\ missed[l][v] = 1 => fdb[l][v] + Longest >= Ageing
    BY <2>2 DEF ProbeInv, Margin
  <2> QED
    BY <1>1, <2>1, <2>3, LongestFacts
<1>3. ASSUME NEW lost \in SUBSET VMs, NEW ageing \in {Ageing, DefaultAgeing}, MaybeProbe(lost, ageing)
      PROVE FALSE
  <2> DEFINE a(u) == u \in tick.live \ lost /\ u \in here[tick.leg]
  <2>1. \/ fdb' = fdb
        \/ fdb' = [fdb EXCEPT ![tick.leg] = [u \in VMs |-> IF a(u) THEN Ageing ELSE @[u]]]
    BY <1>3 DEF MaybeProbe
  <2> HIDE DEF a
  <2>2. fdb'[l][v] \in {fdb[l][v], Ageing}
    BY <1>0, <2>1 DEF EnvTypes
  <2> QED
    BY <1>1, <2>2
<1>4. ASSUME NEW m \in Legs, NEW u \in VMs, Speak(m, u) PROVE FALSE
  <2>1. fdb' = [fdb EXCEPT ![m][u] = Ageing]
    BY <1>4 DEF Speak
  <2>2. fdb'[l][v] \in {fdb[l][v], Ageing}
    BY <1>0, <2>1 DEF EnvTypes
  <2> QED
    BY <1>1, <2>2
<1>5. ASSUME NEW m \in Legs, NEW u \in VMs, NEW heard \in BOOLEAN, Arrive(m, u) \/ Depart(m, u, heard)
      PROVE FALSE
  <2>1. CASE Arrive(m, u)
    BY <1>0, <2>1 DEF Arrive, EnvTypes
  <2>2. CASE Depart(m, u, heard)
    BY <1>0, <2>2 DEF Depart, EnvTypes
  <2> QED
    BY <1>5, <2>1, <2>2
<1>6. CASE TickStart \/ EngineExits \/ EngineStarts \/ SupervisorRestarts \/ UNCHANGED vars
  BY <1>6 DEF TickStart, EngineExits, EngineStarts, SupervisorRestarts, vars, env
<1>7. ASSUME NEW m \in Legs, ReadDeferred(m) \/ ReadLocal(m) \/ ReadFails(m) PROVE FALSE
  BY <1>7 DEF ReadDeferred, ReadLocal, ReadFails, env
<1>8. ASSUME NEW m \in Legs, LoseLeg(m) \/ BuildLeg(m) \/ Defer(m) \/ Undefer(m) PROVE FALSE
  BY <1>8 DEF LoseLeg, BuildLeg, Defer, Undefer
<1>9. ASSUME NEW kept \in SUBSET VMs, ReconcileMembership(kept) PROVE FALSE
  BY <1>9 DEF ReconcileMembership
<1>10. ASSUME NEW landed \in 0..2, AskEngine(landed) PROVE FALSE
  BY <1>10 DEF AskEngine, env
<1>11. ASSUME NEW ok \in BOOLEAN, ListSet(ok) PROVE FALSE
  BY <1>11 DEF ListSet, env
<1>12. ASSUME NEW done \in 0..2, MoveSet(done) PROVE FALSE
  BY <1>12 DEF MoveSet, env
<1>13. ASSUME NEW unread \in SUBSET Legs, Rerender(unread) PROVE FALSE
  BY <1>13 DEF Rerender, env
<1>14. ASSUME NEW cost \in Costs, AskTransit(cost) PROVE FALSE
  BY <1>14 DEF AskTransit, env
<1> QED
  BY <1>2, <1>3, <1>4, <1>5, <1>6, <1>7, <1>8, <1>9, <1>10, <1>11, <1>12, <1>13, <1>14
     DEF Next, TickSteps, World

\* A VM that stays on the host keeps its route: it leaves a live engine only
\* when no read saw the VM for HOLDDOWN, or when the withdrawal of a moved leg
\* landed and the reinstall was refused; and the VM's FDB entry ages out only
\* after two probe cycles missed it, wherever two of them fit in the ageing
\* time (ProbeAssumption).
THEOREM NoVmLosesItsRoute == Spec => VmsKept
<1> DEFINE Inv == EngineInv /\ HoldInv /\ ProbeInv
<1>1. Init => Inv
  BY EngineInvInit, HoldInit, ProbeInit
<1>2. Inv /\ [Next]_vars => Inv'
  BY EngineInvStep, HoldStep, ProbeStep DEF EngineInv
<1>3. Inv /\ [Next]_vars =>
        [\A l \in Legs, v \in VMs :
          up /\ up' /\ v \in running.routes[l] /\ v \notin running'.routes[l]
            => \/ quiet[l][v] >= Holddown
               \/ running'.routes[l] = {} /\ engine'.routes[l].ifindex # engine.routes[l].ifindex]_vars
  BY WithdrawStep
<1>4. Inv /\ [Next]_vars =>
        [\A l \in Legs, v \in VMs :
          v \in here[l] /\ fdb[l][v] > 0 /\ fdb'[l][v] = 0 /\ here' = here
            => missed[l][v] = 2]_vars
  BY AgeStep DEF EngineInv
<1> HIDE DEF Inv
<1> QED
  BY <1>1, <1>2, <1>3, <1>4, PTL DEF Spec, VmsKept, NoEarlyWithdraw, IdleVmKept

HIDE HostRoutesAssumption

-----------------------------------------------------------------------------
(* What is accepted is coherent: powers of two, addresses, prefixes, names.*)

\* A set of natural numbers has a least one.
LEMMA LeastOf ==
    ASSUME NEW T \in SUBSET Nat, T # {}
    PROVE  \E n \in T : \A k \in T : n <= k
<1> DEFINE less == OpToRel(<, Nat)
<1>1. IsWellFoundedOn(less, Nat)
  BY NatLessThanWellFounded
<1>2. \A i, j \in Nat : <<i, j>> \notin less => j <= i
  BY DEF OpToRel
<1> HIDE DEF less
<1>3. PICK n \in T : \A k \in T : <<k, n>> \notin less
  BY <1>1, WFMin
<1> QED BY <1>2, <1>3

\* Induction up to N, over a set.
LEMMA UpTo ==
    ASSUME NEW N \in Nat, NEW G, 0 \in G, \A n \in 0..(N - 1) : n \in G => n + 1 \in G
    PROVE  0..N \subseteq G
<1> DEFINE T == (0..N) \ G
<1> SUFFICES ASSUME T # {} PROVE FALSE
  OBVIOUS
<1>1. PICK n \in T : \A k \in T : n <= k
  <2>1. T \in SUBSET Nat
    OBVIOUS
  <2> HIDE DEF T
  <2> QED BY <2>1, LeastOf
<1>2. n # 0 /\ n - 1 \in 0..(N - 1) /\ n - 1 \notin T
  BY <1>1
<1>3. n - 1 \in G
  BY <1>2
<1>4. (n - 1) + 1 \in G
  BY <1>2, <1>3
<1> QED BY <1>1, <1>4

\* The constants of an address are natural, and it is four octets long.
LEMMA BitsNat == Bits \in Nat /\ OctetBits \in Nat /\ Ten \in Nat /\ OctetBits > 0 /\ Bits = 4 * OctetBits
  BY DeclarationAssumption DEF Bits

\* There are powers of two, one twice the other.
LEMMA PowerStep ==
    /\ Power2[0] = 1
    /\ \A n \in 0..(Bits - 1) : Power2[n + 1] = 2 * Power2[n]
<1> DEFINE P == Bits
           Powers(h, m) == h = [n \in 0..m |-> IF n = 0 THEN 1 ELSE 2 * h[n - 1]]
           J == {m \in 0..P : \E h : Powers(h, m)}
           g == Power2
<1>0. P \in Nat
  BY BitsNat
<1>1. \E h : Powers(h, P)
  <2> HIDE DEF P
  <2>1. 0 \in J
    <3>1. Powers([n \in 0..0 |-> 1], 0)
      OBVIOUS
    <3>2. 0 \in 0..P
      BY <1>0
    <3> HIDE DEF Powers
    <3> QED BY <3>1, <3>2
  <2>2. ASSUME NEW m \in 0..(P - 1), m \in J PROVE m + 1 \in J
    <3>1. PICK h : Powers(h, m)
      BY <2>2
    <3> DEFINE k == [n \in 0..(m + 1) |-> IF n = m + 1 THEN 2 * h[m] ELSE h[n]]
               K(n) == IF n = 0 THEN 1 ELSE 2 * k[n - 1]
    <3>2. ASSUME NEW n \in 0..(m + 1) PROVE k[n] = K(n)
      <4>1. CASE n = m + 1
        <5>1. n # 0 /\ n - 1 = m /\ m \in 0..(m + 1) /\ m # m + 1
          BY <1>0, <4>1
        <5>2. k[n] = 2 * h[m] /\ k[m] = h[m]
          BY <4>1, <5>1
        <5> QED BY <4>1, <5>1, <5>2
      <4>2. CASE n # m + 1
        <5>1. n \in 0..m
          BY <1>0, <4>2
        <5>2. h[n] = IF n = 0 THEN 1 ELSE 2 * h[n - 1]
          BY <3>1, <5>1
        <5>3. k[n] = h[n] /\ (n # 0 => k[n - 1] = h[n - 1])
          BY <1>0, <4>2, <5>1
        <5> QED BY <5>2, <5>3
      <4> QED BY <4>1, <4>2
    <3>3. k = [n \in 0..(m + 1) |-> K(n)]
      <4>1. k = [n \in 0..(m + 1) |-> k[n]]
        OBVIOUS
      <4> HIDE DEF k, K
      <4> QED BY <3>2, <4>1
    <3>4. Powers(k, m + 1)
      BY <3>3
    <3>5. m + 1 \in 0..P
      BY <1>0
    <3> HIDE DEF k, Powers
    <3> QED BY <3>4, <3>5
  <2> HIDE DEF J
  <2>3. 0..P \subseteq J
    BY <1>0, <2>1, <2>2, UpTo
  <2>4. P \in 0..P
    BY <1>0
  <2>5. P \in J
    BY <2>3, <2>4
  <2> QED BY <2>5 DEF J
<1>2. g = CHOOSE h : Powers(h, P)
  BY DEF Power2
<1> HIDE DEF g
<1>3. Powers(g, P)
  <2> HIDE DEF Powers
  <2> QED BY <1>1, <1>2
<1>4. \A n \in 0..P : g[n] = IF n = 0 THEN 1 ELSE 2 * g[n - 1]
  BY <1>3
<1>5. 0 \in 0..P /\ \A n \in 0..(P - 1) : n + 1 \in 0..P /\ n + 1 # 0 /\ (n + 1) - 1 = n
  BY <1>0
<1>6. ASSUME NEW n \in 0..(P - 1) PROVE g[n + 1] = 2 * g[n]
  <2>1. g[n + 1] = IF n + 1 = 0 THEN 1 ELSE 2 * g[(n + 1) - 1]
    BY <1>4, <1>5
  <2> QED BY <1>5, <2>1
<1>7. g[0] = 1
  BY <1>4, <1>5
<1> QED BY <1>6, <1>7 DEF g

\* Powers of two are numbers, and add in the exponent.
LEMMA PowerNat == \A n \in 0..Bits : Power2[n] \in Nat /\ Power2[n] > 0
<1> DEFINE G == {n \in 0..Bits : Power2[n] \in Nat /\ Power2[n] > 0}
<1>1. 0 \in G
  BY BitsNat, PowerStep
<1>2. ASSUME NEW n \in 0..(Bits - 1), n \in G PROVE n + 1 \in G
  BY <1>2, BitsNat, PowerStep
<1>3. 0..Bits \subseteq G
  <2> HIDE DEF G
  <2> QED BY <1>1, <1>2, BitsNat, UpTo
<1> QED BY <1>3

\* Doubling a factor doubles the product.
LEMMA Times2 == ASSUME NEW a \in Nat, NEW b \in Nat PROVE 2 * (a * b) = a * (2 * b)
  OBVIOUS

\* A power of a sum is the product of the powers.
LEMMA PowerAdds ==
    ASSUME NEW a \in 0..Bits, NEW b \in 0..Bits, a + b <= Bits
    PROVE  Power2[a + b] = Power2[a] * Power2[b]
<1> DEFINE G == {n \in 0..b : Power2[a + n] = Power2[a] * Power2[n]}
<1>1. 0 \in G
  BY BitsNat, PowerStep, PowerNat
<1>2. ASSUME NEW n \in 0..(b - 1), n \in G PROVE n + 1 \in G
  <2>1. a + n \in 0..(Bits - 1) /\ n \in 0..(Bits - 1) /\ n \in 0..Bits /\ (a + n) + 1 = a + (n + 1) /\ n + 1 \in 0..b
    BY BitsNat
  <2>2. Power2[a + (n + 1)] = 2 * Power2[a + n] /\ Power2[n + 1] = 2 * Power2[n]
    BY <2>1, PowerStep
  <2>3. Power2[a] \in Nat /\ Power2[n] \in Nat
    BY <2>1, PowerNat
  <2>4. 2 * (Power2[a] * Power2[n]) = Power2[a] * (2 * Power2[n])
    BY <2>3, Times2
  <2> QED BY <1>2, <2>1, <2>2, <2>4
<1>3. 0..b \subseteq G
  <2>1. b \in Nat
    BY BitsNat
  <2> HIDE DEF G
  <2> QED BY <1>1, <1>2, <2>1, UpTo
<1>4. b \in 0..b
  BY BitsNat
<1>5. b \in G
  BY <1>3, <1>4
<1> QED BY <1>5

-----------------------------------------------------------------------------
(* Quotients.                                                              *)

\* What a division leaves and what it yields make up the number.
LEMMA Quotient ==
    ASSUME NEW a \in Nat, NEW w \in Nat, w > 0
    PROVE  a \div w \in Nat /\ a % w \in 0..(w - 1) /\ a = w * (a \div w) + (a % w)
  OBVIOUS

\* Two different multiples of a width are a width apart.
LEMMA Multiples ==
    ASSUME NEW w \in Nat, NEW d \in Nat, NEW e \in Nat, d < e
    PROVE  w * d + w <= w * e
<1>1. e - d \in Nat /\ e - d - 1 \in Nat
  OBVIOUS
<1>2. w * (e - d - 1) >= 0
  BY <1>1
<1>3. w * (e - d - 1) = w * e - w * d - w
  BY <1>1
<1>4. w * e \in Nat /\ w * d \in Nat
  OBVIOUS
<1> QED BY <1>2, <1>3, <1>4

\* The quotient and the rest of a division are the only ones there are.
LEMMA QuotientIs ==
    ASSUME NEW a \in Nat, NEW w \in Nat, w > 0, NEW q \in Nat, NEW r \in 0..(w - 1), a = w * q + r
    PROVE  a \div w = q /\ a % w = r
<1> DEFINE d == a \div w
           e == a % w
<1>1. d \in Nat /\ e \in 0..(w - 1) /\ a = w * d + e
  BY Quotient
<1> HIDE DEF d, e
<1>2. w * d \in Nat /\ w * q \in Nat
  BY <1>1
<1>3. ~(d < q)
  BY <1>1, <1>2, Multiples
<1>4. ~(q < d)
  BY <1>1, <1>2, Multiples
<1>5. d = q
  BY <1>1, <1>3, <1>4
<1>6. e = r
  BY <1>1, <1>2, <1>5
<1> QED BY <1>5, <1>6 DEF d, e

\* What is at a multiple of w and in the w numbers from it.
LEMMA SameQuotient ==
    ASSUME NEW a \in Nat, NEW n \in Nat, NEW w \in Nat, w > 0, n % w = 0
    PROVE  a \div w = n \div w <=> n <= a /\ a <= n + w - 1
<1> DEFINE d == a \div w
           e == a % w
           q == n \div w
<1>1. d \in Nat /\ e \in 0..(w - 1) /\ a = w * d + e
  BY Quotient
<1>2. q \in Nat /\ n = w * q
  <2>1. q \in Nat /\ n = w * q + (n % w)
    BY Quotient
  <2> QED BY <2>1
<1>3. ASSUME n <= a, a <= n + w - 1 PROVE d = q
  <2>1. a - n \in 0..(w - 1)
    BY <1>3
  <2>2. a = w * q + (a - n)
    BY <1>2, <2>1
  <2> HIDE DEF q
  <2> QED BY <1>2, <2>1, <2>2, QuotientIs
<1>4. ASSUME d = q PROVE n <= a /\ a <= n + w - 1
  <2> HIDE DEF d, e, q
  <2> QED BY <1>1, <1>2, <1>4
<1> QED BY <1>3, <1>4

\* Numbers within one aligned run share the quotient by any multiple of its width.
LEMMA Coarser ==
    ASSUME NEW a \in Nat, NEW n \in Nat, NEW w \in Nat, w > 0, n % w = 0, NEW k \in Nat, k > 0,
           n <= a, a <= n + w - 1
    PROVE  a \div (k * w) = n \div (k * w)
<1> DEFINE q == n \div w
           d == q \div k
           e == q % k
<1>1. q \in Nat /\ n = w * q
  <2>1. q \in Nat /\ n = w * q + (n % w)
    BY Quotient
  <2> QED BY <2>1
<1>2. d \in Nat /\ e \in 0..(k - 1) /\ q = k * d + e
  <2> HIDE DEF q
  <2> QED BY <1>1, Quotient
<1> HIDE DEF q, d, e
<1>3. k * w \in Nat /\ k * w > 0
  OBVIOUS
<1>4. w * e \in Nat /\ w * e + w <= w * k
  BY <1>2, Multiples
<1>5. n = (k * w) * d + w * e
  <2>1. n = w * (k * d + e)
    BY <1>1, <1>2
  <2>2. w * (k * d + e) = w * (k * d) + w * e
    BY <1>2
  <2>3. w * (k * d) = (k * w) * d
    BY <1>2
  <2> QED BY <2>1, <2>2, <2>3
<1>6. w * k = k * w
  OBVIOUS
<1>7. w * e \in 0..(k * w - 1)
  BY <1>3, <1>4, <1>6
<1>8. n \div (k * w) = d
  BY <1>2, <1>3, <1>5, <1>7, QuotientIs
<1>9. w * e + (a - n) \in 0..(k * w - 1) /\ a = (k * w) * d + (w * e + (a - n))
  <2>1. (k * w) * d \in Nat
    BY <1>2, <1>3
  <2> QED BY <1>3, <1>4, <1>5, <1>6, <2>1
<1>10. a \div (k * w) = d
  BY <1>2, <1>3, <1>9, QuotientIs
<1> QED BY <1>8, <1>10

-----------------------------------------------------------------------------
(* Addresses.                                                              *)

\* An octet has more than one value.
LEMMA Octets == Octet \in Nat /\ Octet > 1
<1>1. OctetBits \in 0..Bits /\ OctetBits - 1 \in 0..(Bits - 1) /\ OctetBits - 1 \in 0..Bits
  BY BitsNat
<1>2. Power2[(OctetBits - 1) + 1] = 2 * Power2[OctetBits - 1] /\ (OctetBits - 1) + 1 = OctetBits
  BY <1>1, BitsNat, PowerStep
<1>3. Power2[OctetBits - 1] \in Nat /\ Power2[OctetBits - 1] > 0
  BY <1>1, PowerNat
<1> QED BY <1>2, <1>3 DEF Octet

\* The width of a prefix is positive.
LEMMA Widths == \A len \in 0..Bits : Width(len) \in Nat /\ Width(len) > 0
  BY PowerNat, BitsNat DEF Width

\* The shorter mask covers a whole number of the longer one's blocks.
LEMMA WidthsNest ==
    ASSUME NEW l \in 0..Bits, NEW k \in l..Bits
    PROVE  Power2[k - l] \in Nat /\ Power2[k - l] > 0 /\ Width(l) = Power2[k - l] * Width(k)
<1>1. k - l \in 0..Bits /\ Bits - k \in 0..Bits /\ (k - l) + (Bits - k) = Bits - l /\ Bits - l <= Bits
  BY BitsNat
<1>2. Power2[(k - l) + (Bits - k)] = Power2[k - l] * Power2[Bits - k]
  BY <1>1, PowerAdds
<1> QED BY <1>1, <1>2, PowerNat DEF Width

\* The widths that zone blocks, segments and hosts are made of, in octets.
LEMMA OctetWidths ==
    /\ Width(2 * OctetBits) = Octet * Octet /\ 2 * OctetBits \in 0..Bits
    /\ Width(Slash24) = Octet /\ Slash24 \in 0..Bits
    /\ Width(Bits) = 1
<1>1. OctetBits \in 0..Bits /\ OctetBits + OctetBits <= Bits /\ Bits - 2 * OctetBits = OctetBits + OctetBits
      /\ Bits - 3 * OctetBits = OctetBits /\ 2 * OctetBits \in 0..Bits /\ 3 * OctetBits \in 0..Bits /\ Bits - Bits = 0
  BY BitsNat
<1>2. Power2[OctetBits + OctetBits] = Octet * Octet
  BY <1>1, PowerAdds DEF Octet
<1>3. Width(2 * OctetBits) = Octet * Octet
  BY <1>1, <1>2 DEF Width
<1> QED BY <1>1, <1>3, PowerStep DEF Width, Octet, Slash24

\* An address is its four octets.
Two(a, b) == a * Octet + b
Three(a, b, c) == Two(a, b) * Octet + c
\* An address is its octets, from the left.
LEMMA AddressNat ==
    ASSUME NEW a \in Nat, NEW b \in Nat, NEW c \in Nat, NEW d \in Nat
    PROVE  /\ Address(a, b, c, d) \in Nat /\ Three(a, b, c) \in Nat /\ Two(a, b) \in Nat
           /\ Address(a, b, c, d) = Octet * Three(a, b, c) + d
           /\ Three(a, b, c) = Octet * Two(a, b) + c
           /\ Two(a, b) = Octet * a + b
<1>1. Two(a, b) \in Nat /\ Two(a, b) = Octet * a + b
  BY Octets DEF Two
<1>2. Three(a, b, c) \in Nat /\ Three(a, b, c) = Octet * Two(a, b) + c
  BY <1>1, Octets DEF Three
<1>3. Three(a, b, c) * Octet + d \in Nat /\ Three(a, b, c) * Octet + d = Octet * Three(a, b, c) + d
  BY <1>2, Octets
<1>4. Address(a, b, c, d) = Three(a, b, c) * Octet + d
  BY DEF Address, Three, Two
<1> QED BY <1>1, <1>2, <1>3, <1>4

\* Addresses of 10/8 that are equal have equal octets.
LEMMA OctetsApart ==
    ASSUME NEW b \in 0..(Octet - 1), NEW c \in 0..(Octet - 1), NEW d \in 0..(Octet - 1),
           NEW e \in 0..(Octet - 1), NEW g \in 0..(Octet - 1), NEW h \in 0..(Octet - 1),
           Address(Ten, b, c, d) = Address(Ten, e, g, h)
    PROVE  b = e /\ c = g /\ d = h
<1>0. SUFFICES ASSUME NEW a \in Nat, Address(a, b, c, d) = Address(a, e, g, h)
               PROVE  b = e /\ c = g /\ d = h
  BY BitsNat
<1> DEFINE x == Two(a, b)
           y == Three(a, b, c)
           u == Two(a, e)
           v == Three(a, e, g)
<1>1. /\ x \in Nat /\ y \in Nat /\ u \in Nat /\ v \in Nat
      /\ Octet * y + d = Octet * v + h /\ y = Octet * x + c /\ v = Octet * u + g
      /\ x = Octet * a + b /\ u = Octet * a + e
      /\ Octet * y + d \in Nat
  <2>1. b \in Nat /\ c \in Nat /\ d \in Nat /\ e \in Nat /\ g \in Nat /\ h \in Nat
    BY Octets
  <2>2. /\ x \in Nat /\ y \in Nat /\ Address(a, b, c, d) \in Nat /\ Address(a, b, c, d) = Octet * y + d
        /\ y = Octet * x + c /\ x = Octet * a + b
    BY <1>0, <2>1, AddressNat
  <2>3. /\ u \in Nat /\ v \in Nat /\ Address(a, e, g, h) = Octet * v + h /\ v = Octet * u + g /\ u = Octet * a + e
    BY <1>0, <2>1, AddressNat
  <2> HIDE DEF x, y, u, v
  <2> QED BY <1>0, <2>2, <2>3
<1> HIDE DEF x, y, u, v
<1>2. y = v /\ d = h
  <2> DEFINE n == Octet * y + d
  <2>1. n \in Nat /\ n = Octet * y + d /\ n = Octet * v + h
    BY <1>1
  <2> HIDE DEF n
  <2>2. n \div Octet = y /\ n % Octet = d
    BY <1>1, <2>1, Octets, QuotientIs, SMTT(30)
  <2>3. n \div Octet = v /\ n % Octet = h
    BY <1>1, <2>1, Octets, QuotientIs
  <2> QED BY <2>2, <2>3
<1>3. x = u /\ c = g
  <2>1. y \div Octet = x /\ y % Octet = c
    BY <1>1, Octets, QuotientIs
  <2>2. y \div Octet = u /\ y % Octet = g
    BY <1>1, <1>2, Octets, QuotientIs
  <2> QED BY <2>1, <2>2
<1>4. b = e
  <2>1. x \div Octet = a /\ x % Octet = b
    BY <1>0, <1>1, Octets, QuotientIs
  <2>2. x \div Octet = a /\ x % Octet = e
    BY <1>0, <1>1, <1>3, Octets, QuotientIs
  <2> QED BY <2>1, <2>2
<1> QED BY <1>2, <1>3, <1>4

\* A prefix whose net is aligned.
IsPrefix(p) == p.net \in Nat /\ p.len \in 0..Bits /\ p.net % Width(p.len) = 0

\* decl.rs contains: to share the prefix is to be among its addresses.
LEMMA PrefixRange ==
    ASSUME NEW p, IsPrefix(p), NEW a \in Nat
    PROVE  Contains(p, a) <=> a \in Addresses(p)
<1>1. Width(p.len) \in Nat /\ Width(p.len) > 0 /\ p.net \in Nat /\ p.net % Width(p.len) = 0
  BY Widths DEF IsPrefix
<1>2. a \div Width(p.len) = p.net \div Width(p.len) <=> p.net <= a /\ a <= p.net + Width(p.len) - 1
  BY <1>1, SameQuotient
<1>3. a \in Addresses(p) <=> p.net <= a /\ a <= p.net + Width(p.len) - 1
  BY <1>1 DEF Addresses, Broadcast
<1> QED BY <1>2, <1>3 DEF Contains

\* decl.rs overlaps: prefixes that do not overlap share no address.
LEMMA PrefixesApart ==
    ASSUME NEW p, NEW q, IsPrefix(p), IsPrefix(q), ~Overlaps(p, q)
    PROVE  Addresses(p) \cap Addresses(q) = {}
<1>1. ASSUME NEW x, NEW y, IsPrefix(x), IsPrefix(y), x.len <= y.len,
             x.net \div Width(x.len) # y.net \div Width(x.len), NEW a \in Nat
      PROVE  ~(a \in Addresses(x) /\ a \in Addresses(y))
  <2>1. /\ x.net \in Nat /\ y.net \in Nat /\ x.len \in 0..Bits /\ y.len \in x.len..Bits
        /\ x.net % Width(x.len) = 0 /\ y.net % Width(y.len) = 0
        /\ Width(y.len) \in Nat /\ Width(y.len) > 0 /\ Width(x.len) \in Nat /\ Width(x.len) > 0
    BY <1>1, Widths, BitsNat DEF IsPrefix
  <2> DEFINE k == Power2[y.len - x.len]
  <2>2. k \in Nat /\ k > 0 /\ Width(x.len) = k * Width(y.len)
    BY <2>1, WidthsNest
  <2> HIDE DEF k
  <2>3. ASSUME a \in Addresses(y) PROVE a \div Width(x.len) = y.net \div Width(x.len)
    <3>1. y.net <= a /\ a <= y.net + Width(y.len) - 1
      BY <2>1, <2>3 DEF Addresses, Broadcast
    <3> QED BY <2>1, <2>2, <3>1, Coarser
  <2>4. ASSUME a \in Addresses(x) PROVE a \div Width(x.len) = x.net \div Width(x.len)
    BY <1>1, <2>4, PrefixRange DEF Contains
  <2> QED BY <1>1, <2>3, <2>4
<1>2. /\ p.len \in Nat /\ q.len \in Nat
      /\ p.len < q.len => p.net \div Width(p.len) # q.net \div Width(p.len)
      /\ ~(p.len < q.len) => p.net \div Width(q.len) # q.net \div Width(q.len)
  BY BitsNat DEF Overlaps, IsPrefix
<1>3. Addresses(p) \subseteq Nat
  BY Widths DEF Addresses, Broadcast, IsPrefix
<1>4. ASSUME NEW a \in Addresses(p), a \in Addresses(q) PROVE FALSE
  <2>1. CASE p.len < q.len
    BY <1>1, <1>2, <1>3, <1>4, <2>1
  <2>2. CASE ~(p.len < q.len)
    <3>1. q.len <= p.len
      BY <1>2, <2>2
    <3> QED BY <1>1, <1>2, <1>3, <1>4, <2>2, <3>1
  <2> QED BY <2>1, <2>2
<1> QED BY <1>4

\* The block of a zone, the addresses in it.
LEMMA InBlock ==
    ASSUME NEW i \in 0..(Octet - 1), NEW s \in 0..(Octet - 1), NEW n \in 0..(Octet - 1)
    PROVE  /\ Two(Ten, i) \in Nat /\ Octet * Octet \in Nat /\ Octet * Octet > 0
           /\ Address(Ten, i, s, n) \in Nat
           /\ Address(Ten, i, s, n) = (Octet * Octet) * Two(Ten, i) + (Octet * s + n)
           /\ Octet * s + n \in 0..(Octet * Octet - 1)
<1> DEFINE x == Two(Ten, i)
           y == Three(Ten, i, s)
           w == Octet * Octet
<1>1. i \in Nat /\ s \in Nat /\ n \in Nat /\ Ten \in Nat
  BY Octets, BitsNat
<1>2. /\ Address(Ten, i, s, n) \in Nat /\ Address(Ten, i, s, n) = Octet * y + n /\ y = Octet * x + s
      /\ y \in Nat /\ x \in Nat
  <2>1. Address(Ten, i, s, n) \in Nat /\ Three(Ten, i, s) \in Nat /\ Two(Ten, i) \in Nat
    BY <1>1, AddressNat
  <2>2. Address(Ten, i, s, n) = Octet * Three(Ten, i, s) + n
    BY <1>1, AddressNat
  <2>3. Three(Ten, i, s) = Octet * Two(Ten, i) + s
    BY <1>1, AddressNat
  <2> QED BY <2>1, <2>2, <2>3
<1>3. w \in Nat /\ w > 0
  BY Octets
<1> HIDE DEF x, y
<1>4. Octet * y = w * x + Octet * s
  BY <1>1, <1>2, Octets
<1>5. Octet * s + Octet <= Octet * Octet /\ Octet * s \in Nat
  BY Octets, Multiples
<1>6. w * x \in Nat
  BY <1>2, <1>3
<1>7. Octet * s + Octet <= w
  BY <1>5 DEF w
<1> HIDE DEF w
<1>8. Address(Ten, i, s, n) = w * x + (Octet * s + n) /\ Octet * s + n \in 0..(w - 1)
  BY <1>1, <1>2, <1>3, <1>4, <1>5, <1>6, <1>7, Octets
<1> QED BY <1>2, <1>3, <1>8 DEF w, x

\* A zone's block is a prefix, and its segments' addresses are in it.
LEMMA BlockIs ==
    ASSUME NEW z, z.id \in 0..(Octet - 1)
    PROVE  /\ IsPrefix(Block(z))
           /\ \A s, n \in 0..(Octet - 1) : SegmentAddr(z, s, n) \in Addresses(Block(z)) /\ SegmentAddr(z, s, n) \in Nat
<1> DEFINE x == Two(Ten, z.id)
           w == Octet * Octet
<1>0. 0 \in 0..(Octet - 1) /\ Octet * 0 + 0 = 0
  BY Octets
<1>1. x \in Nat /\ w \in Nat /\ w > 0
  BY <1>0, InBlock
<1>2. Block(z).len = 2 * OctetBits /\ Block(z).net = Address(Ten, z.id, 0, 0) /\ Width(Block(z).len) = w
  BY OctetWidths DEF Block
<1>3. ASSUME NEW s \in 0..(Octet - 1), NEW n \in 0..(Octet - 1)
      PROVE  Address(Ten, z.id, s, n) \in Nat /\ Address(Ten, z.id, s, n) = w * x + (Octet * s + n)
             /\ Octet * s + n \in 0..(w - 1)
  BY InBlock
<1> HIDE DEF x, w
<1>4. Block(z).net \in Nat /\ Block(z).net = w * x + 0
  BY <1>0, <1>2, <1>3
<1>5. Block(z).net % w = 0
  <2>1. 0 \in 0..(w - 1)
    BY <1>1
  <2> QED BY <1>1, <1>4, <2>1, QuotientIs
<1>6. IsPrefix(Block(z))
  BY <1>2, <1>4, <1>5, OctetWidths DEF IsPrefix
<1>7. ASSUME NEW s \in 0..(Octet - 1), NEW n \in 0..(Octet - 1)
      PROVE  SegmentAddr(z, s, n) \in Addresses(Block(z)) /\ SegmentAddr(z, s, n) \in Nat
  <2>1. w * x \in Nat
    BY <1>1
  <2>2. Address(Ten, z.id, s, n) >= Block(z).net /\ Address(Ten, z.id, s, n) <= Block(z).net + w - 1
    BY <1>1, <1>3, <1>4, <2>1
  <2> QED BY <1>1, <1>2, <1>3, <1>4, <2>2 DEF Addresses, Broadcast, SegmentAddr
<1> QED BY <1>6, <1>7

-----------------------------------------------------------------------------
(* The rows a member derives.                                              *)

\* Every segment of a zone is at a key, under which it is compared with the others.
LEMMA KeyOfSegment ==
    ASSUME NEW f, Typed(f), NEW z \in Zones(f), NEW s \in Range(z.segs) \cup z.universal
    PROVE  \E key \in SegKeys(f) : f.zones[key[1]] = z /\ SegAt(f, key) = s
<1>1. PICK i \in DOMAIN f.zones : f.zones[i] = z
  BY DEF Zones, Range
<1>2. z.segs \in Seq(Range(z.segs)) /\ \A u, v \in z.universal : u = v
  BY DEF Typed
<1>3. CASE s \in Range(z.segs)
  <2>1. PICK k \in DOMAIN z.segs : s = z.segs[k]
    BY <1>3 DEF Range
  <2>2. k # 0
    BY <1>2, <2>1
  <2>3. <<i, k>> \in SegKeys(f)
    BY <1>1, <2>1 DEF SegKeys
  <2>4. SegAt(f, <<i, k>>) = s
    BY <1>1, <2>1, <2>2 DEF SegAt
  <2> QED BY <1>1, <2>3, <2>4
<1>4. CASE s \in z.universal
  <2>1. <<i, 0>> \in SegKeys(f)
    BY <1>1, <1>4 DEF SegKeys
  <2>2. SegAt(f, <<i, 0>>) = s
    BY <1>1, <1>2, <1>4 DEF SegAt
  <2> QED BY <1>1, <2>1, <2>2
<1> QED BY <1>3, <1>4

\* A class row is a segment of a zone, under its name, number and VLAN.
LEMMA ClassRowOf ==
    ASSUME NEW f, NEW m, NEW r \in ClassRows(f, m)
    PROVE  \E z \in Zones(f) : \E s \in Range(z.segs) :
              r.ifname = s.ifname /\ r.zone = z.name /\ r.seg = s.seg /\ r.vid = s.vid
  BY DEF ClassRows

\* Universal segments and ingress legs of scope any are bonds of the declaration.
LEMMA InBondNames ==
    ASSUME NEW f, NEW z \in Zones(f)
    PROVE  /\ \A u \in z.universal : u.ifname \in BondNames(f)
           /\ \A g \in z.gw : g.scope = "any" => GwIf(z) \in BondNames(f)
<1> DEFINE B(y) == {u.ifname : u \in y.universal} \cup {GwIf(y) : g \in {x \in y.gw : x.scope = "any"}}
<1>1. BondNames(f) = UNION {B(y) : y \in Zones(f)}
  BY Zenon DEF BondNames
<1>2. \A u \in z.universal : u.ifname \in B(z)
  OBVIOUS
<1>3. \A g \in z.gw : g.scope = "any" => GwIf(z) \in B(z)
  OBVIOUS
<1> HIDE DEF B
<1> QED BY <1>1, <1>2, <1>3

\* A fallback row is a universal segment of a zone, over its ports on the member.
LEMMA FallbackRowOf ==
    ASSUME NEW f, NEW m, NEW r \in FallbackRows(f, m)
    PROVE  /\ \E z \in Zones(f) : \E u \in z.universal :
                 r.ifname = u.ifname /\ r.zone = z.name /\ r.seg = u.seg /\ r.vid = u.vid
           /\ r.ifname \in BondNames(f) /\ r.ports = Ports(f, m, r.ifname)
<1>1. PICK z \in Zones(f) : \E u \in z.universal :
          r.ifname = u.ifname /\ r.zone = z.name /\ r.seg = u.seg /\ r.vid = u.vid /\ r.ports = Ports(f, m, u.ifname)
  BY DEF FallbackRows
<1>2. PICK u \in z.universal :
          r.ifname = u.ifname /\ r.zone = z.name /\ r.seg = u.seg /\ r.vid = u.vid /\ r.ports = Ports(f, m, u.ifname)
  BY <1>1
<1>3. u.ifname \in BondNames(f)
  BY InBondNames
<1> QED BY <1>2, <1>3

\* An ingress row is a host's, one per leg of a zone, over its ports on the member.
LEMMA GwRowOf ==
    ASSUME NEW f, NEW m, NEW r \in GwRows(f, m)
    PROVE  /\ f.kind[m] = "host"
           /\ \E z \in Zones(f) : \E g \in z.gw : r.ifname = GwIf(z) /\ r.zone = z.name /\ r.vid = g.vid
           /\ r.ports # {} => r.ifname \in BondNames(f) /\ r.ports = Ports(f, m, r.ifname)
<1>1. f.kind[m] = "host"
  BY DEF GwRows
<1>2. PICK z \in Zones(f) : \E g \in z.gw :
          /\ r.ifname = GwIf(z) /\ r.zone = z.name /\ r.vid = g.vid
          /\ r.ports = IF g.scope = "any" THEN Ports(f, m, GwIf(z)) ELSE {}
  BY <1>1 DEF GwRows
<1>3. PICK g \in z.gw :
          /\ r.ifname = GwIf(z) /\ r.zone = z.name /\ r.vid = g.vid
          /\ r.ports = IF g.scope = "any" THEN Ports(f, m, GwIf(z)) ELSE {}
  BY <1>2
<1>4. g.scope = "any" => GwIf(z) \in BondNames(f)
  BY InBondNames
<1> QED BY <1>1, <1>3, <1>4

\* Every row the probing and the routing work on has the key of its segment.
LEMMA RowKey ==
    ASSUME NEW f, Typed(f), NEW m, NEW r \in ClassRows(f, m) \cup FallbackRows(f, m)
    PROVE  \E key \in SegKeys(f) :
              /\ f.zones[key[1]] \in Zones(f) /\ r.zone = f.zones[key[1]].name
              /\ r.ifname = SegAt(f, key).ifname /\ r.seg = SegAt(f, key).seg /\ r.vid = SegAt(f, key).vid
              /\ r.seg \in 0..(Octet - 1)
<1>1. PICK z \in Zones(f) : \E s \in Range(z.segs) \cup z.universal :
          r.ifname = s.ifname /\ r.zone = z.name /\ r.seg = s.seg /\ r.vid = s.vid
  <2>1. CASE r \in ClassRows(f, m)
    BY <2>1, ClassRowOf
  <2>2. CASE r \in FallbackRows(f, m)
    BY <2>2, FallbackRowOf
  <2> QED BY <2>1, <2>2
<1>2. PICK s \in Range(z.segs) \cup z.universal :
          r.ifname = s.ifname /\ r.zone = z.name /\ r.seg = s.seg /\ r.vid = s.vid
  BY <1>1
<1>3. PICK key \in SegKeys(f) : f.zones[key[1]] = z /\ SegAt(f, key) = s
  BY KeyOfSegment
<1>4. s.seg \in 0..(Octet - 1)
  BY DEF Typed
<1> QED BY <1>2, <1>3, <1>4

\* The ports of a member's bonds are on domains of the fabric.
LEMMA PortsOf ==
    ASSUME NEW f, DomainsKnown(f), NEW z \in Zones(f), NEW m \in Names, NEW bond \in BondNames(f),
           NEW p \in Ports(f, m, bond)
    PROVE  \E b \in BondNames(f), d \in f.domains : p = PortIf(b, d)
<1>1. PICK i \in DOMAIN f.wires[m] : p = PortIf(bond, f.wires[m][i].domain)
  BY DEF Ports
<1>2. DomainsOf(InZone(f, z), m) \subseteq f.domains
  BY DEF DomainsKnown, DomainsDeclared, InZone
<1>3. f.wires[m][i].domain \in DomainsOf(InZone(f, z), m)
  BY DEF DomainsOf, Wires, InZone
<1> QED BY <1>1, <1>2, <1>3

-----------------------------------------------------------------------------
(* What an accepted declaration means.                                     *)

\* A leg is no interface that anything else on a member is.
LEMMA LegUnlike ==
    ASSUME NEW f, Accepts(f), NEW w \in Loads(f), NEW m \in Names
    PROVE  /\ \A x \in Range(f.wires[m]) : NicIf(x) # LegIf(w)
           /\ \A r \in ClassRows(f, m) \cup FallbackRows(f, m) \cup GwRows(f, m) : r.ifname # LegIf(w)
           /\ \A r \in FallbackRows(f, m) \cup GwRows(f, m) : \A p \in r.ports : p # LegIf(w)
           /\ \A z \in Zones(f) : \A i \in IdentityIfs(z) : i # LegIf(w)
<1>1. LegFree(f, w) /\ Typed(f) /\ DomainsKnown(f)
  BY DEF Accepts, Resolves
<1>2. /\ \A x \in Range(f.wires[m]) : LegIf(w) # NicIf(x)
      /\ \A key \in SegKeys(f) : LegIf(w) # SegAt(f, key).ifname
      /\ \A z \in Zones(f) : LegIf(w) \notin IdentityIfs(z) /\ LegIf(w) # GwIf(z)
      /\ \A b \in BondNames(f), d \in f.domains : LegIf(w) # PortIf(b, d)
  BY <1>1 DEF LegFree, LegFreeOfPorts
<1>6. ASSUME NEW r \in ClassRows(f, m) \cup FallbackRows(f, m) PROVE r.ifname # LegIf(w)
  <2>1. \E key \in SegKeys(f) : r.ifname = SegAt(f, key).ifname
    BY <1>1, RowKey
  <2> QED BY <1>2, <2>1
<1>7. ASSUME NEW r \in GwRows(f, m) PROVE r.ifname # LegIf(w)
  <2>1. \E z \in Zones(f) : r.ifname = GwIf(z)
    BY GwRowOf
  <2> QED BY <1>2, <2>1
<1>8. ASSUME NEW r \in FallbackRows(f, m) \cup GwRows(f, m), NEW p \in r.ports PROVE p # LegIf(w)
  <2>1. r.ifname \in BondNames(f) /\ p \in Ports(f, m, r.ifname)
    BY FallbackRowOf, GwRowOf
  <2>2. \E z \in Zones(f) : TRUE
    BY FallbackRowOf, GwRowOf
  <2>3. \E b \in BondNames(f), d \in f.domains : p = PortIf(b, d)
    BY <1>1, <2>1, <2>2, PortsOf
  <2> QED BY <1>2, <2>3
<1> QED BY <1>2, <1>6, <1>7, <1>8

\* Workload rows that are built under one name are one row.
LEMMA LegsDiffer ==
    ASSUME NEW f, Accepts(f), NEW v \in Loads(f), NEW w \in Loads(f), LegIf(v) = LegIf(w)
    PROVE  v = w
<1>1. IsInjective([i \in DOMAIN f.workloads |-> LegIf(f.workloads[i])])
  BY DEF Accepts, RowNamesDistinct
<1>2. \A i, j \in DOMAIN f.workloads : LegIf(f.workloads[i]) = LegIf(f.workloads[j]) => i = j
  BY <1>1 DEF IsInjective
<1>3. PICK i \in DOMAIN f.workloads : v = f.workloads[i]
  BY DEF Loads, Range
<1>4. PICK j \in DOMAIN f.workloads : w = f.workloads[j]
  BY DEF Loads, Range
<1> QED BY <1>2, <1>3, <1>4

\* No leg of a workload row takes the name of another interface of the member.
LEMMA AcceptedLegs ==
    ASSUME NEW f, Accepts(f), NEW m \in Names
    PROVE  LegsApart(f, m)
<1> SUFFICES ASSUME NEW w \in WorkloadRows(f, m)
             PROVE  /\ LegIf(w) \notin MadeFor(f, m)
                    /\ \A v \in WorkloadRows(f, m) : v # w => LegIf(v) # LegIf(w)
                    /\ f.forward /\ Forwards(f, m, LegIf(w))
  BY DEF LegsApart
<1>0. w \in Loads(f) /\ CarriesRow(f, m, w)
  BY DEF WorkloadRows
<1>1. /\ \A x \in Range(f.wires[m]) : NicIf(x) # LegIf(w)
      /\ \A r \in ClassRows(f, m) \cup FallbackRows(f, m) \cup GwRows(f, m) : r.ifname # LegIf(w)
      /\ \A r \in FallbackRows(f, m) \cup GwRows(f, m) : \A p \in r.ports : p # LegIf(w)
      /\ \A z \in Zones(f) : \A i \in IdentityIfs(z) : i # LegIf(w)
  BY <1>0, LegUnlike
<1>2. LegIf(w) \notin NicIfs(f, m) /\ LegIf(w) \notin PortIfs(f, m) /\ LegIf(w) \notin AllIdentityIfs(f)
      /\ LegIf(w) \notin RowIfs(f, m)
  <2>1. LegIf(w) \notin NicIfs(f, m)
    BY <1>1 DEF NicIfs
  <2>2. LegIf(w) \notin PortIfs(f, m)
    BY <1>1 DEF PortIfs
  <2>3. LegIf(w) \notin AllIdentityIfs(f)
    BY <1>1 DEF AllIdentityIfs
  <2>4. LegIf(w) \notin RowIfs(f, m)
    BY <1>1 DEF RowIfs, ZoneRows
  <2> QED BY <2>1, <2>2, <2>3, <2>4
<1>3. \A v \in WorkloadRows(f, m) : v # w => LegIf(v) # LegIf(w)
  BY <1>0, LegsDiffer DEF WorkloadRows
<1>4. f.forward /\ f.kind[m] = "host"
  <2>1. f.forward
    BY <1>0 DEF Accepts, AllowSound
  <2>2. PICK r \in f.rows[m] : r.name = w.name
    BY <1>0 DEF CarriesRow
  <2>3. f.kind[m] = "host"
    BY <2>2 DEF Accepts, MemberRowsSound
  <2> QED BY <2>1, <2>3
<1>5. LegIf(w) \in TransitIfs(f, m)
  BY DEF TransitIfs, LegIfs
<1>6. LegIf(w) \notin NeverForward(f, m) /\ LegIf(w) \notin MadeFor(f, m)
  BY <1>2 DEF NeverForward, MadeFor
<1> QED BY <1>3, <1>4, <1>5, <1>6 DEF Forwards

\* The tags on a wire are distinct, those of the ingress legs included.
LEMMA AcceptedTags ==
    ASSUME NEW f, Accepts(f), NEW m \in Names, NEW i
    PROVE  /\ \A s, t \in TagsOn(f, m, i) : s # t => s[1] # t[1]
           /\ \A s \in TagsOn(f, m, i), t \in IngressTags(f, m, i) : s[1] # t[1]
<1>0. Typed(f) /\ SegmentsDistinct(f) /\ \A z \in Zones(f) : IngressSound(f, z)
  BY DEF Accepts, Resolves
<1>1. \A j, k \in SegKeys(f) : SegAt(f, j).vid = SegAt(f, k).vid => j = k
  BY <1>0 DEF SegmentsDistinct, IsInjective
<1>2. ASSUME NEW s \in TagsOn(f, m, i)
      PROVE  \E key \in SegKeys(f) : s = <<SegAt(f, key).vid, SegAt(f, key).ifname>>
  <2>1. PICK r \in ClassRows(f, m) \cup FallbackRows(f, m) : s = <<r.vid, r.ifname>>
    BY DEF TagsOn
  <2> QED BY <1>0, <2>1, RowKey
<1>3. ASSUME NEW t \in IngressTags(f, m, i)
      PROVE  \A key \in SegKeys(f) : SegAt(f, key).vid # t[1]
  <2>1. PICK r \in GwRows(f, m) : t = <<r.vid, r.ifname>>
    BY DEF IngressTags
  <2>2. PICK z \in Zones(f) : \E g \in z.gw : r.vid = g.vid
    BY GwRowOf
  <2> QED BY <1>0, <2>1, <2>2 DEF IngressSound
<1>4. ASSUME NEW s \in TagsOn(f, m, i), NEW t \in TagsOn(f, m, i), s # t PROVE s[1] # t[1]
  BY <1>1, <1>2, <1>4
<1>5. ASSUME NEW s \in TagsOn(f, m, i), NEW t \in IngressTags(f, m, i) PROVE s[1] # t[1]
  BY <1>2, <1>3
<1> QED BY <1>4, <1>5

\* A bond that has ports has a name the kernel takes.
LEMMA AcceptedNames ==
    ASSUME NEW f, Accepts(f), NEW m \in Names, NEW r \in FallbackRows(f, m) \cup GwRows(f, m), r.ports # {}
    PROVE  ~TooLong(r.ifname)
<1>1. BondNamesFit(f)
  BY DEF Accepts
<1>2. r.ifname \in BondNames(f)
  BY FallbackRowOf, GwRowOf
<1> QED BY <1>1, <1>2 DEF BondNamesFit

\* The zone that a name stands for.
LEMMA ZoneOfName ==
    ASSUME NEW f, NEW n \in ZoneNames(f)
    PROVE  ZoneOf(f, n) \in Zones(f) /\ ZoneOf(f, n).name = n
<1>1. \E z \in Zones(f) : z.name = n
  BY DEF ZoneNames
<1> QED BY <1>1 DEF ZoneOf

\* Zones with one id are one, and so are members with one octet.
LEMMA OctetsNamed ==
    ASSUME NEW f, Accepts(f)
    PROVE  /\ \A y, z \in Zones(f) : y.id = z.id => y = z
           /\ \A m, n \in Names : f.node[m] = f.node[n] => m = n
           /\ \A m \in Names : f.node[m] \in 0..(Octet - 1)
           /\ \A z \in Zones(f) : z.id \in 0..(Octet - 1)
<1>1. Typed(f) /\ NodesDistinct(f) /\ ZonesSound(f)
  BY DEF Accepts, Resolves
<1>2. f.node \in [Names -> 0..(Octet - 1)] /\ \A z \in Zones(f) : z.id \in 0..(Octet - 1)
  BY <1>1 DEF Typed
<1>3. \A i, j \in DOMAIN f.zones : f.zones[i].id = f.zones[j].id => i = j
  BY <1>1 DEF ZonesSound, IsInjective
<1>4. \A m, n \in Names : f.node[m] = f.node[n] => m = n
  BY <1>1, <1>2 DEF NodesDistinct, IsInjective
<1>5. ASSUME NEW y \in Zones(f), NEW z \in Zones(f), y.id = z.id PROVE y = z
  <2>1. PICK i \in DOMAIN f.zones : y = f.zones[i]
    BY DEF Zones, Range
  <2>2. PICK j \in DOMAIN f.zones : z = f.zones[j]
    BY DEF Zones, Range
  <2> QED BY <1>3, <1>5, <2>1, <2>2
<1> QED BY <1>2, <1>4, <1>5

\* An address on a segment is held once.
LEMMA AcceptedAddresses ==
    ASSUME NEW f, Accepts(f), NEW s \in Held(f), NEW t \in Held(f), s[1] = t[1]
    PROVE  s = t
<1>0. Typed(f) /\ SegmentsDistinct(f)
  BY DEF Accepts, Resolves
<1>1. ASSUME NEW x \in Held(f)
      PROVE  \E m \in Names, key \in SegKeys(f) :
                LET zone == f.zones[key[1]]
                IN  /\ zone \in Zones(f)
                    /\ x = <<SegmentAddr(ZoneOf(f, zone.name), SegAt(f, key).seg, f.node[m]), m, SegAt(f, key).ifname>>
                    /\ SegAt(f, key).seg \in 0..(Octet - 1)
  <2>1. PICK m \in Names : x \in {<<SegmentAddr(ZoneOf(f, r.zone), r.seg, f.node[m]), m, r.ifname>> :
                                      r \in ClassRows(f, m) \cup FallbackRows(f, m)}
    BY DEF Held
  <2>2. PICK r \in ClassRows(f, m) \cup FallbackRows(f, m) :
           x = <<SegmentAddr(ZoneOf(f, r.zone), r.seg, f.node[m]), m, r.ifname>>
    BY <2>1
  <2>3. PICK key \in SegKeys(f) :
              /\ f.zones[key[1]] \in Zones(f) /\ r.zone = f.zones[key[1]].name
              /\ r.ifname = SegAt(f, key).ifname /\ r.seg = SegAt(f, key).seg /\ r.vid = SegAt(f, key).vid
              /\ r.seg \in 0..(Octet - 1)
    BY <1>0, RowKey
  <2> QED BY <2>2, <2>3
<1>2. PICK m \in Names, k \in SegKeys(f) :
          /\ f.zones[k[1]] \in Zones(f)
          /\ s = <<SegmentAddr(ZoneOf(f, f.zones[k[1]].name), SegAt(f, k).seg, f.node[m]), m, SegAt(f, k).ifname>>
          /\ SegAt(f, k).seg \in 0..(Octet - 1)
  BY <1>1
<1>3. PICK n \in Names, l \in SegKeys(f) :
          /\ f.zones[l[1]] \in Zones(f)
          /\ t = <<SegmentAddr(ZoneOf(f, f.zones[l[1]].name), SegAt(f, l).seg, f.node[n]), n, SegAt(f, l).ifname>>
          /\ SegAt(f, l).seg \in 0..(Octet - 1)
  BY <1>1
<1> DEFINE y == ZoneOf(f, f.zones[k[1]].name)
           z == ZoneOf(f, f.zones[l[1]].name)
<1>4. y \in Zones(f) /\ y.name = f.zones[k[1]].name /\ z \in Zones(f) /\ z.name = f.zones[l[1]].name
  BY <1>2, <1>3, ZoneOfName DEF ZoneNames
<1>5. y.id \in 0..(Octet - 1) /\ z.id \in 0..(Octet - 1) /\ f.node[m] \in 0..(Octet - 1) /\ f.node[n] \in 0..(Octet - 1)
  BY <1>4, OctetsNamed
<1>6. Address(Ten, y.id, SegAt(f, k).seg, f.node[m]) = Address(Ten, z.id, SegAt(f, l).seg, f.node[n])
  BY <1>2, <1>3 DEF SegmentAddr
<1>7. y.id = z.id /\ SegAt(f, k).seg = SegAt(f, l).seg /\ f.node[m] = f.node[n]
  <2> DEFINE b == y.id
             c == SegAt(f, k).seg
             d == f.node[m]
             e == z.id
             g == SegAt(f, l).seg
             h == f.node[n]
  <2>1. /\ Ten \in Nat /\ b \in 0..(Octet - 1) /\ c \in 0..(Octet - 1) /\ d \in 0..(Octet - 1)
        /\ e \in 0..(Octet - 1) /\ g \in 0..(Octet - 1) /\ h \in 0..(Octet - 1)
    BY <1>2, <1>3, <1>5, BitsNat
  <2>2. Address(Ten, b, c, d) = Address(Ten, e, g, h)
    BY <1>6
  <2> HIDE DEF b, c, d, e, g, h
  <2>3. b = e /\ c = g /\ d = h
    BY <2>1, <2>2, OctetsApart
  <2> QED BY <2>3 DEF b, c, d, e, g, h
<1>8. y = z /\ m = n
  BY <1>4, <1>7, OctetsNamed
<1>9. \A i, j \in SegKeys(f) :
         <<f.zones[i[1]].name, SegAt(f, i).seg>> = <<f.zones[j[1]].name, SegAt(f, j).seg>> => i = j
  BY <1>0 DEF SegmentsDistinct, IsInjective
<1>10. k = l
  BY <1>4, <1>7, <1>8, <1>9
<1> QED BY <1>2, <1>3, <1>8, <1>10

\* The router keeps its address.
LEMMA AcceptedRouter ==
    ASSUME NEW f, Accepts(f), NEW z \in Zones(f), NEW g \in z.gw, NEW m \in Names
    PROVE  LegAddr(g, f.node[m]) # g.router
<1>1. f.node[m] # (g.router % Octet)
  BY DEF Accepts, IngressSound
<1>2. f.node[m] \in Nat
  BY OctetsNamed, Octets
<1>3. g.router \in Nat
  <2>1. g.router \in 0..(Width(0) - 1)
    BY DEF Accepts, Resolves, Typed, AllAddresses
  <2>2. Width(0) \in Nat
    BY Widths, BitsNat
  <2> QED BY <2>1, <2>2
<1>4. g.router % Octet \in Nat
  BY <1>3, Octets, Quotient
<1> DEFINE d == g.router % Octet
<1> HIDE DEF d
<1>5. (g.router - d) + f.node[m] # g.router
  BY <1>1, <1>2, <1>3, <1>4 DEF d
<1> QED BY <1>5 DEF LegAddr, d

\* A row that a member carries is one it lists, with the address listed.
LEMMA RowAddrOf ==
    ASSUME NEW f, Accepts(f), NEW w \in Loads(f), NEW m \in Names, CarriesRow(f, m, w)
    PROVE  \E r \in f.rows[m] : r.name = w.name /\ RowAddr(f, m, w) = r.addr
<1>1. \E r \in f.rows[m] : r.name = w.name
  BY DEF CarriesRow
<1> QED BY <1>1 DEF RowAddr

\* A row's prefix is one, and what is on its VLAN is inside it.
LEMMA AcceptedPrefix ==
    ASSUME NEW f, Accepts(f), NEW w \in Loads(f)
    PROVE  /\ IsPrefix(w.prefix)
           /\ w.gw \in Addresses(w.prefix) \ {w.prefix.net, Broadcast(w.prefix)}
           /\ \A s \in w.server : s \notin Addresses(w.prefix)
           /\ \A z \in Zones(f) : Addresses(w.prefix) \cap Addresses(Block(z)) = {}
<1>1. /\ Typed(f) /\ Aligned(w.prefix) /\ PrefixSound(w) /\ ServerElsewhere(f, w) /\ OutsideBlocks(f, w)
  BY DEF Accepts, Resolves
<1>2. \A a \in AllAddresses : a \in Nat
  <2>1. Width(0) \in Nat
    BY Widths, BitsNat
  <2> QED BY <2>1 DEF AllAddresses
<1>3. w.prefix.net \in Nat /\ w.prefix.len \in 0..Bits /\ w.gw \in Nat /\ \A s \in w.server : s \in Nat
  BY <1>1, <1>2 DEF Typed
<1>4. IsPrefix(w.prefix)
  BY <1>1, <1>3 DEF IsPrefix, Aligned
<1>5. w.gw \in Addresses(w.prefix) \ {w.prefix.net, Broadcast(w.prefix)}
  BY <1>1, <1>3, <1>4, PrefixRange DEF PrefixSound
<1>6. \A s \in w.server : s \notin Addresses(w.prefix)
  BY <1>1, <1>3, <1>4, PrefixRange DEF ServerElsewhere
<1>7. ASSUME NEW z \in Zones(f) PROVE Addresses(w.prefix) \cap Addresses(Block(z)) = {}
  <2>1. IsPrefix(Block(z))
    BY OctetsNamed, BlockIs
  <2>2. ~Overlaps(w.prefix, Block(z))
    BY <1>1 DEF OutsideBlocks
  <2> QED BY <1>4, <2>1, <2>2, PrefixesApart
<1> QED BY <1>4, <1>5, <1>6, <1>7

\* A member's address on a row is a host's of its prefix and not the gateway's.
LEMMA AcceptedRowAddr ==
    ASSUME NEW f, Accepts(f), NEW w \in Loads(f), NEW m \in Names, CarriesRow(f, m, w)
    PROVE  /\ RowAddr(f, m, w) \in Addresses(w.prefix) \ {w.prefix.net, Broadcast(w.prefix)}
           /\ RowAddr(f, m, w) # w.gw
<1>1. PICK r \in f.rows[m] : r.name = w.name /\ RowAddr(f, m, w) = r.addr
  BY RowAddrOf
<1>2. Contains(w.prefix, r.addr) /\ r.addr \notin {w.gw, w.prefix.net, Broadcast(w.prefix)}
  BY <1>1 DEF Accepts, MemberRowsSound
<1>3. r.addr \in Nat
  <2>1. Width(0) \in Nat
    BY Widths, BitsNat
  <2>2. r.addr \in AllAddresses
    BY DEF Accepts, Resolves, Typed
  <2> QED BY <2>1, <2>2 DEF AllAddresses
<1> QED BY <1>1, <1>2, <1>3, AcceptedPrefix, PrefixRange

\* The members on a row's VLAN have addresses of their own, hosts' of its prefix, which
\* is apart from every zone's block and from the address of a DHCP server.
LEMMA AcceptedVlans ==
    ASSUME NEW f, Accepts(f), NEW w \in Loads(f)
    PROVE  VlansApart(f, w)
<1> DEFINE C == {n \in Names : CarriesRow(f, n, w)}
           on == {<<m, RowAddr(f, m, w)>> : m \in C} \cup {<<"gw", w.gw>>}
<1>1. AddressesDistinct(f, w)
  BY DEF Accepts
<1>2. ASSUME NEW s \in on
      PROVE  s = <<"gw", w.gw>> \/ \E m \in C : s = <<m, RowAddr(f, m, w)>>
  OBVIOUS
<1>3. \A s \in on : s[2] \in Addresses(w.prefix) \ {w.prefix.net, Broadcast(w.prefix)}
  BY <1>2, AcceptedRowAddr, AcceptedPrefix
<1>4. ASSUME NEW s \in on, NEW t \in on, s # t PROVE s[2] # t[2]
  <2>1. CASE s = <<"gw", w.gw>> /\ t = <<"gw", w.gw>>
    BY <2>1, <1>4
  <2>2. CASE s = <<"gw", w.gw>> /\ \E m \in C : t = <<m, RowAddr(f, m, w)>>
    BY <2>2, AcceptedRowAddr
  <2>3. CASE t = <<"gw", w.gw>> /\ \E m \in C : s = <<m, RowAddr(f, m, w)>>
    BY <2>3, AcceptedRowAddr
  <2>4. CASE (\E m \in C : s = <<m, RowAddr(f, m, w)>>) /\ (\E m \in C : t = <<m, RowAddr(f, m, w)>>)
    <3>1. PICK m \in C : s = <<m, RowAddr(f, m, w)>>
      BY <2>4
    <3>2. PICK n \in C : t = <<n, RowAddr(f, n, w)>>
      BY <2>4
    <3>3. m # n
      BY <1>4, <3>1, <3>2
    <3> QED BY <1>1, <3>1, <3>2, <3>3 DEF AddressesDistinct
  <2> QED BY <1>2, <2>1, <2>2, <2>3, <2>4
<1>5. Addresses(w.prefix) \cap UNION {Addresses(Block(z)) : z \in Zones(f)} = {}
  BY AcceptedPrefix
<1>6. \A a \in Addresses(w.prefix) : a \notin w.server
  BY AcceptedPrefix
<1>7. (\A s, t \in on : s # t => s[2] # t[2])
  BY <1>4
<1> HIDE DEF on
<1>8. VlansApart(f, w) <=>
        /\ \A s, t \in on : s # t => s[2] # t[2]
        /\ \A s \in on : s[2] \in Addresses(w.prefix) \ {w.prefix.net, Broadcast(w.prefix)}
        /\ \A a \in Addresses(w.prefix) : a \notin w.server
        /\ Addresses(w.prefix) \cap UNION {Addresses(Block(z)) : z \in Zones(f)} = {}
  BY Zenon DEF VlansApart, on
<1> QED BY <1>3, <1>5, <1>6, <1>7, <1>8

\* Every declaration that validate accepts is coherent on every member.
LEMMA AcceptsCoherent == ASSUME NEW f, Accepts(f) PROVE CoherentIn(f)
<1>1. ASSUME NEW m \in Names PROVE LegsApart(f, m)
  BY AcceptedLegs
<1>2. \A m \in Names : \A r \in FallbackRows(f, m) \cup GwRows(f, m) : r.ports # {} => ~TooLong(r.ifname)
  BY AcceptedNames
<1>3. ASSUME NEW m \in Names, NEW i \in DOMAIN f.wires[m]
      PROVE  /\ \A s, t \in TagsOn(f, m, i) : s # t => s[1] # t[1]
             /\ \A s \in TagsOn(f, m, i), t \in IngressTags(f, m, i) : s[1] # t[1]
  BY AcceptedTags
<1>4. \A w \in Loads(f) : VlansApart(f, w)
  BY AcceptedVlans
<1>5. \A s, t \in Held(f) : s # t => s[1] # t[1]
  BY AcceptedAddresses
<1>6. \A z \in Zones(f) : \A g \in z.gw : \A m \in Names : LegAddr(g, f.node[m]) # g.router
  BY AcceptedRouter
<1> QED BY <1>1, <1>2, <1>3, <1>4, <1>5, <1>6 DEF CoherentIn

\* What is accepted is coherent: a declaration that resolves and that validate lets
\* pass (src/decl.rs, src/model.rs) gives every member names, tags and addresses that
\* are its own, and no address, block or row prefix overlaps another.  It holds for any
\* number of members, zones, segments, wires and rows, and any width of an octet.
THEOREM AcceptedCoherent == DeclSpec => []Coherent
<1> DEFINE Inv == \A f \in live : Accepts(f)
<1>1. DeclInit => Inv
  BY DEF DeclInit
<1>2. Inv /\ [DeclNext]_declVars => Inv'
  <2> SUFFICES ASSUME Inv, [DeclNext]_declVars PROVE Inv'
    OBVIOUS
  <2>1. CASE Edit
    BY <2>1 DEF Edit
  <2>2. CASE Load
    <3>1. CASE Accepts(draft)
      <4>1. live' = {draft}
        BY <2>2, <3>1 DEF Load
      <4> QED BY <3>1, <4>1
    <3>2. CASE ~Accepts(draft)
      BY <2>2, <3>2 DEF Load
    <3> QED BY <3>1, <3>2
  <2>3. CASE UNCHANGED declVars
    BY <2>3 DEF declVars
  <2> QED BY <2>1, <2>2, <2>3 DEF DeclNext
<1>3. Inv => Coherent
  BY AcceptsCoherent DEF Coherent
<1> QED BY <1>1, <1>2, <1>3, PTL DEF DeclSpec

-----------------------------------------------------------------------------
(* The engines run what the declaration means.                             *)

\* The routes a member's engine may be asked for: out of its own legs, to addresses
\* of the row.
Good(f, m, routes) ==
    \A r \in routes : \E w \in WorkloadRows(f, m) : r[1] = LegIf(w) /\ r[2] \in Addresses(w.prefix)

\* A tree of which the providers before the k-th have what is new, from nothing.
Partial(f, m, k) ==
    [interface |-> IF k > 1 THEN IfNames(f, m) ELSE {},
     policy    |-> IF k > 2 THEN RoutingPolicies(f, m) ELSE <<>>,
     routing   |-> NoTree.routing]

ProvidersHave(f, m, a, c, t, k) == t = Tree(f, m, c, a) \/ (t = Partial(f, m, k) /\ a = {})

JobOf(f, m, phase, at, cost, routes) ==
    [phase |-> phase, at |-> at, tree |-> Tree(f, m, cost, routes), cost |-> cost, routes |-> routes]

\* What an engine has between two steps: a whole tree, or what a commit of one has
\* come to, and the routes of the tree that was committed last.
Sound(m, f, a, c, t, i, j) ==
    /\ f \in Fabrics \cup {Original} /\ Good(f, m, a) /\ i = a
    /\ \/ j = NoJob /\ ProvidersHave(f, m, a, c, t, 1)
       \/ \E at \in 1..3 : \E cost, routes :
             Good(f, m, routes) /\ j = JobOf(f, m, "prepare", at, cost, routes) /\ ProvidersHave(f, m, a, c, t, 1)
       \/ \E at \in 1..3 : \E cost, routes :
             Good(f, m, routes) /\ j = JobOf(f, m, "apply", at, cost, routes) /\ ProvidersHave(f, m, a, c, t, at)

EngDomains ==
    /\ DOMAIN runs = Names /\ DOMAIN asked = Names /\ DOMAIN transit = Names
    /\ DOMAIN trees = Names /\ DOMAIN installed = Names /\ DOMAIN job = Names

EngSound(m) == Sound(m, runs[m], asked[m], transit[m], trees[m], installed[m], job[m])

EngInv == EngDomains /\ \A m \in Names : EngSound(m)

-----------------------------------------------------------------------------
\* Two trees of one declaration differ in the protocols alone.
LEMMA TreeFields ==
    ASSUME NEW f, NEW m, NEW c, NEW a
    PROVE  /\ Tree(f, m, c, a).interface = IfNames(f, m)
           /\ Tree(f, m, c, a).policy = RoutingPolicies(f, m)
           /\ Tree(f, m, c, a).routing = [ospf |-> Ospf(f, m, c), static |-> Static(f, m, a), bgp |-> Bgp(f, m, a)]
           /\ Tree(f, m, c, a) = [interface |-> IfNames(f, m), policy |-> RoutingPolicies(f, m),
                                  routing |-> Tree(f, m, c, a).routing]
BY DEF Tree

\* What each protocol has of a generated tree.
LEMMA TreeProtocols ==
    ASSUME NEW f, NEW m, NEW c, NEW a
    PROVE  /\ Tree(f, m, c, a).routing.ospf = Ospf(f, m, c)
           /\ Tree(f, m, c, a).routing.static = Static(f, m, a)
           /\ Tree(f, m, c, a).routing.bgp = Bgp(f, m, a)
BY DEF Tree

\* Before the first provider has applied there is nothing.
LEMMA NothingYet == ASSUME NEW f, NEW m PROVE Partial(f, m, 1) = NoTree
BY DEF Partial, NoTree

\* A provider that takes its part brings the tree one step on.
LEMMA AppliesPart ==
    ASSUME NEW f, NEW m, NEW a, NEW c, NEW t, NEW cost, NEW routes, NEW k \in 1..2, ProvidersHave(f, m, a, c, t, k)
    PROVE  ProvidersHave(f, m, a, c, [t EXCEPT ![Providers[k]] = Tree(f, m, cost, routes)[Providers[k]]], k + 1)
<1> DEFINE new == Tree(f, m, cost, routes)
           I == IfNames(f, m)
           P == RoutingPolicies(f, m)
           R == Tree(f, m, c, a).routing
           N == NoTree.routing
<1>1. new.interface = I /\ new.policy = P
  BY TreeFields
<1>2. Tree(f, m, c, a) = [interface |-> I, policy |-> P, routing |-> R]
  BY TreeFields
<1>3. /\ Partial(f, m, 1) = [interface |-> {}, policy |-> <<>>, routing |-> N]
      /\ Partial(f, m, 2) = [interface |-> I, policy |-> <<>>, routing |-> N]
      /\ Partial(f, m, 3) = [interface |-> I, policy |-> P, routing |-> N]
  BY DEF Partial
<1> HIDE DEF new, I, P, R, N
<1>4. CASE k = 1
  <2>1. Providers[k] = "interface"
    BY <1>4 DEF Providers
  <2>2. CASE t = Tree(f, m, c, a)
    <3>1. [t EXCEPT !["interface"] = new["interface"]] = Tree(f, m, c, a)
      BY <1>1, <1>2, <2>2
    <3> QED BY <2>1, <3>1 DEF ProvidersHave, new
  <2>3. CASE t = Partial(f, m, 1) /\ a = {}
    <3>1. [t EXCEPT !["interface"] = new["interface"]] = Partial(f, m, 2)
      BY <1>1, <1>3, <2>3
    <3> QED BY <1>4, <2>1, <2>3, <3>1 DEF ProvidersHave, new
  <2> QED BY <1>4, <2>2, <2>3 DEF ProvidersHave
<1>5. CASE k = 2
  <2>1. Providers[k] = "policy"
    BY <1>5 DEF Providers
  <2>2. CASE t = Tree(f, m, c, a)
    <3>1. [t EXCEPT !["policy"] = new["policy"]] = Tree(f, m, c, a)
      BY <1>1, <1>2, <2>2
    <3> QED BY <2>1, <3>1 DEF ProvidersHave, new
  <2>3. CASE t = Partial(f, m, 2) /\ a = {}
    <3>1. [t EXCEPT !["policy"] = new["policy"]] = Partial(f, m, 3)
      BY <1>1, <1>3, <2>3
    <3> QED BY <1>5, <2>1, <2>3, <3>1 DEF ProvidersHave, new
  <2> QED BY <1>5, <2>2, <2>3 DEF ProvidersHave
<1> QED BY <1>4, <1>5

\* With the last provider's part the whole tree is the one that was asked for.
LEMMA AppliesLast ==
    ASSUME NEW f, NEW m, NEW a, NEW c, NEW t, NEW cost, NEW routes, ProvidersHave(f, m, a, c, t, 3)
    PROVE  [t EXCEPT !["routing"] = Tree(f, m, cost, routes).routing] = Tree(f, m, cost, routes)
<1> DEFINE I == IfNames(f, m)
           P == RoutingPolicies(f, m)
           R == Tree(f, m, c, a).routing
           S == Tree(f, m, cost, routes).routing
           N == NoTree.routing
<1>1. /\ Tree(f, m, c, a) = [interface |-> I, policy |-> P, routing |-> R]
      /\ Tree(f, m, cost, routes) = [interface |-> I, policy |-> P, routing |-> S]
  BY TreeFields
<1>2. Partial(f, m, 3) = [interface |-> I, policy |-> P, routing |-> N]
  BY DEF Partial
<1>3. t = [interface |-> I, policy |-> P, routing |-> R] \/ t = [interface |-> I, policy |-> P, routing |-> N]
  BY <1>1, <1>2 DEF ProvidersHave
<1> HIDE DEF I, P, R, S, N
<1>4. [t EXCEPT !["routing"] = S] = [interface |-> I, policy |-> P, routing |-> S]
  BY <1>3
<1> QED BY <1>1, <1>4 DEF S

\* The kernel's routes are those of the tree.
LEMMA InstallsAsked ==
    ASSUME NEW f, NEW m, NEW cost, NEW routes, Good(f, m, routes), NEW a, Good(f, m, a)
    PROVE  (IF Static(f, m, routes) = {} THEN a ELSE UNION Static(f, m, routes)) = routes
<1>1. CASE WorkloadRows(f, m) = {}
  BY <1>1 DEF Good, Static
<1>2. CASE WorkloadRows(f, m) # {}
  <2>1. Static(f, m, routes) = {routes}
    BY <1>2 DEF Static
  <2> QED BY <2>1
<1> QED BY <1>1, <1>2

\* Equal static parts are of equal sets of routes.
LEMMA StaticTells ==
    ASSUME NEW f, NEW m, NEW a, NEW b, Good(f, m, a), Good(f, m, b), Static(f, m, a) = Static(f, m, b)
    PROVE  a = b
BY DEF Good, Static

-----------------------------------------------------------------------------
\* A step of one member's engine leaves the others sound.
LEMMA OneEngine ==
    ASSUME EngInv, NEW m \in Names, EngDomains', EngSound(m)',
           \A n \in Names \ {m} :
              /\ runs'[n] = runs[n] /\ asked'[n] = asked[n] /\ transit'[n] = transit[n]
              /\ trees'[n] = trees[n] /\ installed'[n] = installed[n] /\ job'[n] = job[n]
    PROVE  EngInv'
<1>1. ASSUME NEW n \in Names \ {m} PROVE EngSound(n)'
  <2>1. EngSound(n)
    BY DEF EngInv
  <2> QED BY <2>1 DEF EngSound
<1> QED BY <1>1 DEF EngInv

\* A request is of routes out of the member's legs.
LEMMA RegenerateSound ==
    ASSUME EngInv, NEW m \in Names, NEW cost, NEW routes, Regenerate(m, cost, routes),
           Generates(runs[m], m, routes) => Good(runs[m], m, routes)
    PROVE  EngInv'
<1> DEFINE f == runs[m]
           new == Tree(f, m, cost, routes)
<1>1. EngSound(m) /\ EngDomains
  BY DEF EngInv
<1>2. /\ f \in Fabrics \cup {Original} /\ Good(f, m, asked[m]) /\ installed[m] = asked[m]
      /\ job[m] = NoJob /\ trees[m] # NoTree
      /\ UNCHANGED <<runs, trees, installed, refused>>
  BY <1>1 DEF EngSound, Sound, Regenerate
<1>3. ProvidersHave(f, m, asked[m], transit[m], trees[m], 1)
  <2>1. \A p \in {"prepare", "apply"} : \A at, c, r : job[m] # JobOf(f, m, p, at, c, r)
    <3>1. job[m].phase = "idle"
      BY <1>2 DEF NoJob
    <3>2. \A at, c, r, p : JobOf(f, m, p, at, c, r).phase = p
      BY DEF JobOf
    <3> QED BY <3>1, <3>2
  <2> QED BY <1>1, <2>1 DEF EngSound, Sound
<1>4. trees[m] = Tree(f, m, transit[m], asked[m])
  BY <1>2, <1>3, NothingYet DEF ProvidersHave
<1> HIDE DEF new
<1>5. CASE /\ Generates(f, m, routes) /\ new # trees[m]
           /\ job' = [job EXCEPT ![m] = Committing(new, cost, routes)] /\ UNCHANGED <<asked, transit>>
  <2>1. Good(f, m, routes)
    BY <1>5
  <2>2. Committing(new, cost, routes) = JobOf(f, m, "prepare", 1, cost, routes)
    BY DEF Committing, JobOf, new
  <2>3. job'[m] = JobOf(f, m, "prepare", 1, cost, routes)
    BY <1>1, <1>5, <2>2 DEF EngDomains
  <2>4. EngSound(m)'
    BY <1>2, <1>3, <1>5, <2>1, <2>3 DEF EngSound, Sound
  <2> QED BY <1>1, <1>2, <1>5, <2>4, OneEngine DEF EngDomains
<1>6. CASE /\ Generates(f, m, routes) /\ new = trees[m]
           /\ asked' = [asked EXCEPT ![m] = routes] /\ transit' = [transit EXCEPT ![m] = cost]
           /\ UNCHANGED <<job, requests>>
  <2>1. Good(f, m, routes)
    BY <1>6
  <2>2. asked'[m] = routes /\ transit'[m] = cost
    BY <1>1, <1>6 DEF EngDomains
  <2>3. Static(f, m, asked[m]) = Static(f, m, routes)
    <3>1. new.routing.static = Static(f, m, routes) /\ Tree(f, m, transit[m], asked[m]).routing.static = Static(f, m, asked[m])
      BY TreeProtocols DEF new
    <3> QED BY <1>4, <1>6, <3>1
  <2>4. routes = asked[m]
    BY <1>2, <2>1, <2>3, StaticTells
  <2>5. ProvidersHave(f, m, routes, cost, trees[m], 1)
    BY <1>6 DEF ProvidersHave, new
  <2>6. EngSound(m)'
    BY <1>2, <1>6, <2>1, <2>2, <2>4, <2>5 DEF EngSound, Sound
  <2> QED BY <1>1, <1>2, <1>6, <2>6, OneEngine DEF EngDomains
<1>7. CASE ~Generates(f, m, routes) /\ UNCHANGED <<job, asked, transit, requests>>
  BY <1>1, <1>2, <1>7 DEF EngInv, EngDomains, EngSound
<1> QED BY <1>5, <1>6, <1>7 DEF Regenerate, new

\* An engine that starts has asked for no route and has no tree.
LEMMA StartSound ==
    ASSUME EngInv, NEW m \in Names, NEW f \in Fabrics, Start(m, f)
    PROVE  EngInv'
<1>1. EngDomains
  BY DEF EngInv
<1>2. /\ runs'[m] = f /\ asked'[m] = {} /\ transit'[m] = "declared" /\ trees'[m] = NoTree /\ installed'[m] = {}
      /\ job'[m] = Committing(Tree(f, m, "declared", {}), "declared", {})
  BY <1>1 DEF Start, EngDomains
<1>3. job'[m] = JobOf(f, m, "prepare", 1, "declared", {})
  BY <1>2 DEF Committing, JobOf
<1>4. Good(f, m, {})
  BY DEF Good
<1>5. ProvidersHave(f, m, {}, "declared", NoTree, 1)
  BY NothingYet DEF ProvidersHave
<1>6. EngSound(m)'
  BY <1>2, <1>3, <1>4, <1>5 DEF EngSound, Sound
<1> QED BY <1>1, <1>6, OneEngine DEF Start, EngDomains

\* The commit that is being prepared, or applied.
LEMMA JobPhase ==
    ASSUME EngInv, NEW m \in Names, NEW phase \in {"prepare", "apply"}, job[m].phase = phase
    PROVE  \E at \in 1..3 : \E cost, routes :
              /\ Good(runs[m], m, routes) /\ job[m] = JobOf(runs[m], m, phase, at, cost, routes)
              /\ ProvidersHave(runs[m], m, asked[m], transit[m], trees[m], IF phase = "apply" THEN at ELSE 1)
<1>1. EngSound(m)
  BY DEF EngInv
<1>2. NoJob.phase = "idle"
  BY DEF NoJob
<1>3. \A at, c, r, p : JobOf(runs[m], m, p, at, c, r).phase = p
  BY DEF JobOf
<1> QED BY <1>1, <1>2, <1>3 DEF EngSound, Sound

\* A provider that prepares changes no tree.
LEMMA PrepareSound ==
    ASSUME EngInv, NEW m \in Names, Prepare(m)
    PROVE  EngInv'
<1>0. EngDomains /\ EngSound(m)
  BY DEF EngInv
<1>1. PICK at \in 1..3 : \E cost, routes :
        /\ Good(runs[m], m, routes) /\ job[m] = JobOf(runs[m], m, "prepare", at, cost, routes)
        /\ ProvidersHave(runs[m], m, asked[m], transit[m], trees[m], 1)
  BY JobPhase DEF Prepare
<1>2. PICK cost, routes :
        /\ Good(runs[m], m, routes) /\ job[m] = JobOf(runs[m], m, "prepare", at, cost, routes)
        /\ ProvidersHave(runs[m], m, asked[m], transit[m], trees[m], 1)
  BY <1>1
<1>3. UNCHANGED <<runs, asked, transit, trees, installed>>
  BY DEF Prepare
<1>4. Len(Providers) = 3
  BY DEF Providers
<1>7. job[m].at = at
  BY <1>2 DEF JobOf
<1>5. CASE at < 3
  <2>1. job' = [job EXCEPT ![m].at = @ + 1]
    BY <1>4, <1>5, <1>7 DEF Prepare
  <2>2. job'[m] = JobOf(runs[m], m, "prepare", at + 1, cost, routes)
    BY <1>0, <1>2, <2>1 DEF JobOf, EngDomains
  <2>3. EngSound(m)'
    BY <1>0, <1>2, <1>3, <1>5, <2>2 DEF EngSound, Sound
  <2> QED BY <1>0, <1>3, <2>1, <2>3, OneEngine DEF EngDomains
<1>6. CASE ~(at < 3)
  <2>1. job' = [job EXCEPT ![m] = Applying(job[m])]
    BY <1>4, <1>6, <1>7 DEF Prepare
  <2>2. job'[m] = JobOf(runs[m], m, "apply", 1, cost, routes)
    BY <1>0, <1>2, <2>1 DEF JobOf, Applying, EngDomains
  <2>3. EngSound(m)'
    BY <1>0, <1>2, <1>3, <2>2 DEF EngSound, Sound
  <2> QED BY <1>0, <1>3, <2>1, <2>3, OneEngine DEF EngDomains
<1> QED BY <1>5, <1>6

\* A commit that is given up leaves the tree in force.
LEMMA AbortedSound ==
    ASSUME EngInv, NEW m \in Names, Aborted(m)
    PROVE  EngInv'
<1>0. EngDomains /\ EngSound(m)
  BY DEF EngInv
<1>1. ProvidersHave(runs[m], m, asked[m], transit[m], trees[m], 1)
  BY JobPhase DEF Aborted
<1>2. UNCHANGED <<runs, asked, transit, trees, installed>> /\ job'[m] = NoJob
  BY <1>0 DEF Aborted, EngDomains
<1>3. EngSound(m)'
  BY <1>0, <1>1, <1>2 DEF EngSound, Sound
<1> QED BY <1>0, <1>2, <1>3, OneEngine DEF Aborted, EngDomains

\* A provider that applies adds its part; the last one makes the tree whole.
LEMMA ApplySound ==
    ASSUME EngInv, NEW m \in Names, Apply(m)
    PROVE  EngInv'
<1>0. EngDomains /\ EngSound(m)
  BY DEF EngInv
<1> DEFINE f == runs[m]
           a == asked[m]
           c == transit[m]
           t == trees[m]
<1>1. PICK at \in 1..3 : \E cost, routes :
        /\ Good(f, m, routes) /\ job[m] = JobOf(f, m, "apply", at, cost, routes)
        /\ ProvidersHave(f, m, a, c, t, at)
  BY JobPhase DEF Apply
<1>2. PICK cost, routes :
        /\ Good(f, m, routes) /\ job[m] = JobOf(f, m, "apply", at, cost, routes)
        /\ ProvidersHave(f, m, a, c, t, at)
  BY <1>1
<1> DEFINE new == Tree(f, m, cost, routes)
           p == Providers[at]
<1>3. job[m].at = at /\ job[m].tree = new /\ job[m].cost = cost /\ job[m].routes = routes
  BY <1>2 DEF JobOf
<1>4. /\ trees' = [trees EXCEPT ![m][p] = new[p]]
      /\ installed' = [installed EXCEPT ![m] = IF p = "routing" THEN Installs(m, new) ELSE @]
      /\ runs' = runs
  BY <1>3 DEF Apply
<1>5. trees'[m] = [t EXCEPT ![p] = new[p]] /\ runs'[m] = f
  BY <1>0, <1>4 DEF EngDomains
<1>6. Len(Providers) = 3
  BY DEF Providers
<1> HIDE DEF new
<1>7. CASE at < 3
  <2>1. UNCHANGED <<asked, transit>> /\ job' = [job EXCEPT ![m].at = @ + 1]
    BY <1>3, <1>6, <1>7 DEF Apply
  <2>2. job'[m] = JobOf(f, m, "apply", at + 1, cost, routes)
    BY <1>0, <1>2, <2>1 DEF JobOf, EngDomains
  <2>3. p # "routing"
    BY <1>7 DEF Providers
  <2>4. installed'[m] = installed[m]
    BY <1>0, <1>4, <2>3 DEF EngDomains
  <2>5. ProvidersHave(f, m, a, c, [t EXCEPT ![p] = new[p]], at + 1)
    <3>1. at \in 1..2
      BY <1>7
    <3> QED BY <1>2, <3>1, AppliesPart, Zenon DEF new
  <2>6. EngSound(m)'
    BY <1>0, <1>2, <1>5, <1>7, <2>1, <2>2, <2>4, <2>5 DEF EngSound, Sound
  <2> QED BY <1>0, <1>4, <2>1, <2>6, OneEngine DEF EngDomains
<1>8. CASE ~(at < 3)
  <2>0. at = 3
    BY <1>8
  <2>1. /\ job' = [job EXCEPT ![m] = NoJob] /\ asked' = [asked EXCEPT ![m] = routes]
        /\ transit' = [transit EXCEPT ![m] = cost]
    BY <1>3, <1>6, <1>8 DEF Apply
  <2>2. p = "routing"
    BY <2>0 DEF Providers
  <2>3. trees'[m] = new
    BY <1>2, <1>5, <2>0, <2>2, AppliesLast DEF new
  <2>4. installed'[m] = routes
    <3>1. installed'[m] = Installs(m, new)
      BY <1>0, <1>4, <2>2 DEF EngDomains
    <3>2. new.routing.static = Static(f, m, routes)
      BY TreeProtocols DEF new
    <3>3. installed[m] = a /\ Good(f, m, a)
      BY <1>0 DEF EngSound, Sound
    <3> QED BY <1>2, <3>1, <3>2, <3>3, InstallsAsked DEF Installs
  <2>5. job'[m] = NoJob /\ asked'[m] = routes /\ transit'[m] = cost
    BY <1>0, <2>1 DEF EngDomains
  <2>6. ProvidersHave(f, m, routes, cost, new, 1)
    BY DEF ProvidersHave, new
  <2>7. EngSound(m)'
    BY <1>0, <1>2, <1>5, <2>3, <2>4, <2>5, <2>6 DEF EngSound, Sound
  <2> QED BY <1>0, <1>4, <2>1, <2>7, OneEngine DEF EngDomains
<1> QED BY <1>7, <1>8

\* What the supervisor asks for on a leg is of the leg's row.
LEMMA AskedGood ==
    ASSUME NEW f, Accepts(f), NEW m \in Names, NEW w \in Loads(f), NEW asks, Good(f, m, asks), NEW addrs,
           addrs = {} \/ (CarriesRow(f, m, w) /\ \A v \in addrs : v \in Addresses(w.prefix))
    PROVE  Good(f, m, {r \in asks : r[1] # LegIf(w)} \cup ({LegIf(w)} \X addrs))
<1>1. ASSUME NEW r \in {LegIf(w)} \X addrs
      PROVE  w \in WorkloadRows(f, m) /\ r[1] = LegIf(w) /\ r[2] \in Addresses(w.prefix)
  BY DEF WorkloadRows
<1> QED BY <1>1 DEF Good

\* Every step of an engine or of its northbound keeps the invariant.
LEMMA CommitsStep == EngInv /\ [EngNext]_engVars => EngInv'
<1> SUFFICES ASSUME EngInv, [EngNext]_engVars PROVE EngInv'
  OBVIOUS
<1>1. ASSUME NEW m \in Names, Prepare(m) PROVE EngInv'
  BY <1>1, PrepareSound
<1>2. ASSUME NEW m \in Names, Aborted(m) PROVE EngInv'
  BY <1>2, AbortedSound
<1>3. ASSUME NEW m \in Names, Apply(m) PROVE EngInv'
  BY <1>3, ApplySound
<1>4. ASSUME NEW m \in Names, NEW cost, TransitCost(m, cost) PROVE EngInv'
  <2>1. Good(runs[m], m, asked[m])
    BY DEF EngInv, EngSound, Sound
  <2> QED BY <1>4, <2>1, RegenerateSound DEF TransitCost
<1>5. ASSUME NEW m \in Names, NEW f \in Fabrics, Start(m, f) PROVE EngInv'
  BY <1>5, StartSound
<1>6. ASSUME NEW m \in Names, NEW w \in Loads(runs[m]), NEW addrs, WorkloadRoutes(m, LegIf(w), addrs),
             addrs = {} \/ (CarriesRow(runs[m], m, w) /\ \A v \in addrs : v \in Addresses(w.prefix))
      PROVE  EngInv'
  <2>1. Good(runs[m], m, asked[m]) /\ runs[m] \in Fabrics \cup {Original}
    BY DEF EngInv, EngSound, Sound
  <2>2. Accepts(runs[m])
    BY <2>1, EngineAssumption
  <2> DEFINE routes == {r \in asked[m] : r[1] # LegIf(w)} \cup ({LegIf(w)} \X addrs)
  <2>3. Good(runs[m], m, routes)
    BY <1>6, <2>1, <2>2, AskedGood
  <2>4. Regenerate(m, transit[m], routes)
    BY <1>6 DEF WorkloadRoutes
  <2> HIDE DEF routes
  <2> QED BY <2>3, <2>4, RegenerateSound
<1>7. ASSUME NEW m \in Names, NEW w \in Loads(runs[m]), CarriesRow(runs[m], m, w),
             NEW s \in SUBSET {v \in Vms : Contains(w.prefix, v)},
             WorkloadRoutes(m, LegIf(w), s \cup {RowAddr(runs[m], m, w)})
      PROVE  EngInv'
  <2>1. Accepts(runs[m])
    BY EngineAssumption DEF EngInv, EngSound, Sound
  <2>2. \A v \in Vms : v \in Nat
    <3>1. Width(0) \in Nat
      BY Widths, BitsNat
    <3> QED BY <3>1, EngineAssumption DEF AllAddresses
  <2>3. \A v \in s : v \in Addresses(w.prefix)
    BY <1>7, <2>1, <2>2, AcceptedPrefix, PrefixRange
  <2>4. RowAddr(runs[m], m, w) \in Addresses(w.prefix)
    BY <1>7, <2>1, AcceptedRowAddr
  <2> QED BY <1>6, <1>7, <2>3, <2>4
<1>8. CASE UNCHANGED engVars
  BY <1>8 DEF engVars, EngInv, EngDomains, EngSound
<1>9. ASSUME NEW m \in Names, NEW w \in Loads(runs[m]), WorkloadRoutes(m, LegIf(w), {}) PROVE EngInv'
  BY <1>6, <1>9
<1> QED BY <1>1, <1>2, <1>3, <1>4, <1>5, <1>7, <1>8, <1>9 DEF EngNext

\* The invariant holds before any engine runs.
LEMMA CommitsStart == EngInit => EngInv
<1> SUFFICES ASSUME EngInit PROVE EngInv
  OBVIOUS
<1>1. EngDomains
  BY DEF EngInit, EngDomains
<1>2. ASSUME NEW m \in Names PROVE EngSound(m)
  <2>1. /\ runs[m] = Original /\ asked[m] = {} /\ installed[m] = {} /\ transit[m] = "declared"
        /\ trees[m] = Tree(Original, m, "declared", {}) /\ job[m] = NoJob
    BY DEF EngInit
  <2>2. Good(Original, m, {}) /\ ProvidersHave(Original, m, {}, "declared", Tree(Original, m, "declared", {}), 1)
    BY DEF Good, ProvidersHave
  <2> QED BY <2>1, <2>2 DEF EngSound, Sound
<1> QED BY <1>1, <1>2 DEF EngInv

-----------------------------------------------------------------------------
(* What the tree says.                                                     *)

\* The protocols name no policy that the tree of the declaration has not.
LEMMA PoliciesNamed ==
    ASSUME NEW f, NEW m, NEW a, NEW bgp \in Bgp(f, m, a)
    PROVE  bgp.import \cup {nb.export : nb \in bgp.neighbors} \subseteq DOMAIN RoutingPolicies(f, m)
<1> DEFINE gws == {ZoneOf(f, r.zone) : r \in GwRows(f, m)}
<1>1. bgp.import = {<<"import", z.name>> : z \in gws} /\
      bgp.neighbors = {[zone |-> z.name, export |-> <<"export", z.name>>] : z \in gws}
  BY DEF Bgp
<1>2. DOMAIN RoutingPolicies(f, m) = {"import", "export"} \X {r.zone : r \in GwRows(f, m)}
  BY DEF RoutingPolicies
<1>3. \A z \in gws : z.name \in {r.zone : r \in GwRows(f, m)}
  <2>1. ASSUME NEW r \in GwRows(f, m) PROVE ZoneOf(f, r.zone).name = r.zone
    BY GwRowOf, ZoneOfName DEF ZoneNames
  <2> QED BY <2>1
<1> HIDE DEF gws
<1> QED BY <1>1, <1>2, <1>3

\* A link is a row of the zone, and every such row is one.
LEMMA LinkOf ==
    ASSUME NEW f, NEW m, NEW cost, NEW zone
    PROVE  /\ \A l \in Adjacencies(f, m, cost, zone) : \E r \in ClassRows(f, m) \cup FallbackRows(f, m) :
                 r.zone = zone /\ l.ifname = r.ifname /\ l.cost = LinkCost(f, m, cost, r.cost)
           /\ \A r \in ClassRows(f, m) \cup FallbackRows(f, m) : r.zone = zone =>
                 \E l \in Adjacencies(f, m, cost, zone) :
                    l.ifname = r.ifname /\ l.cost = LinkCost(f, m, cost, r.cost)
<1> DEFINE own(r) == [ifname |-> r.ifname, cost |-> LinkCost(f, m, cost, r.cost), bfd |-> "own"]
           none(r) == [ifname |-> r.ifname, cost |-> LinkCost(f, m, cost, r.cost), bfd |-> "none"]
           C == {x \in ClassRows(f, m) : x.zone = zone}
           F == {x \in FallbackRows(f, m) : x.zone = zone}
<1>1. Adjacencies(f, m, cost, zone) = {own(r) : r \in C} \cup {none(r) : r \in F}
  BY Zenon DEF Adjacencies
<1>2. \A r : /\ own(r).ifname = r.ifname /\ own(r).cost = LinkCost(f, m, cost, r.cost)
             /\ none(r).ifname = r.ifname /\ none(r).cost = LinkCost(f, m, cost, r.cost)
  OBVIOUS
<1> HIDE DEF own, none
<1> QED BY <1>1, <1>2

\* The protocols name no interface that the tree of the declaration has not.
LEMMA InterfacesNamed ==
    ASSUME NEW f, NEW m, NEW cost, NEW zone \in ZoneNames(f)
    PROVE  {l.ifname : l \in Adjacencies(f, m, cost, zone)} \cup Passive(f, m, zone) \subseteq IfNames(f, m)
<1> DEFINE A == {r.ifname : r \in ClassRows(f, m) \cup FallbackRows(f, m) \cup GwRows(f, m)}
           B == {<<"id", z.id>> : z \in Zones(f)}
           C == {LegIf(w) : w \in WorkloadRows(f, m)}
<1>1. IfNames(f, m) = A \cup B \cup C
  BY Zenon DEF IfNames
<1>2. {l.ifname : l \in Adjacencies(f, m, cost, zone)} \subseteq A
  BY LinkOf
<1>3. <<"id", ZoneOf(f, zone).id>> \in B
  BY ZoneOfName
<1>4. {r.ifname : r \in {x \in GwRows(f, m) : x.zone = zone}} \subseteq A
  OBVIOUS
<1>5. {LegIf(w) : w \in Reaching(f, m, zone)} \subseteq C
  BY DEF Reaching
<1>6. Passive(f, m, zone) = {<<"id", ZoneOf(f, zone).id>>} \cup {r.ifname : r \in {x \in GwRows(f, m) : x.zone = zone}}
                            \cup {LegIf(w) : w \in Reaching(f, m, zone)}
  BY DEF Passive
<1> HIDE DEF A, B, C
<1> QED BY <1>1, <1>2, <1>3, <1>4, <1>5, <1>6

\* Rows of one name are of one segment.
LEMMA SameSegment ==
    ASSUME NEW f, Accepts(f), NEW m, NEW r \in ClassRows(f, m) \cup FallbackRows(f, m),
           NEW s \in ClassRows(f, m) \cup FallbackRows(f, m), r.ifname = s.ifname
    PROVE  r.zone = s.zone /\ r.seg = s.seg
<1>0. Typed(f) /\ SegmentsDistinct(f)
  BY DEF Accepts, Resolves
<1>1. PICK k \in SegKeys(f) :
        r.zone = f.zones[k[1]].name /\ r.ifname = SegAt(f, k).ifname /\ r.seg = SegAt(f, k).seg
  BY <1>0, RowKey
<1>2. PICK l \in SegKeys(f) :
        s.zone = f.zones[l[1]].name /\ s.ifname = SegAt(f, l).ifname /\ s.seg = SegAt(f, l).seg
  BY <1>0, RowKey
<1>3. \A i, j \in SegKeys(f) : SegAt(f, i).ifname = SegAt(f, j).ifname => i = j
  BY <1>0 DEF SegmentsDistinct, IsInjective
<1> QED BY <1>1, <1>2, <1>3

\* The readback refuses no engine that runs the tree of its declaration.
LEMMA ReadsBack ==
    ASSUME NEW m \in Names, Accepts(runs[m]), NEW cost, NEW a, trees[m] = Tree(runs[m], m, cost, a)
    PROVE  Readback(runs[m], m)
<1> DEFINE f == runs[m]
           rows == ClassRows(f, m) \cup FallbackRows(f, m)
           gws == GwRows(f, m)
<1>1. trees[m].routing.ospf = Ospf(f, m, cost) /\ trees[m].routing.bgp = Bgp(f, m, a)
  BY TreeProtocols
<1>2. ASSUME NEW zone \in ZoneNames(f)
      PROVE  /\ HasInstance(m, zone)
             /\ InstanceOf(m, zone).self = IdentityAddr(ZoneOf(f, zone), f.node[m])
             /\ InstanceOf(m, zone).links = Adjacencies(f, m, cost, zone)
             /\ InstanceOf(m, zone).passive = Passive(f, m, zone)
  BY <1>1 DEF HasInstance, InstanceOf, Ospf
<1>3. ASSUME NEW zone \in ZoneNames(f)
      PROVE  LET said == Said(m, zone, rows)
             IN  /\ HasInstance(m, zone)
                 /\ said.router = IdentityAddr(ZoneOf(f, zone), f.node[m])
                 /\ ConfiguredIfs(f, zone, rows \cup gws) \subseteq said.listed
                 /\ f.kind[m] = "leaf" => LeafCosts(f, m, zone, rows, said)
  <2> DEFINE L == Adjacencies(f, m, cost, zone)
             said == Said(m, zone, rows)
             T(r) == {<<SegmentAddr(ZoneOf(f, r.zone), r.seg, f.node[m]), l.cost>> : l \in {x \in L : x.ifname = r.ifname}}
  <2>1. /\ said.router = IdentityAddr(ZoneOf(f, zone), f.node[m])
        /\ said.listed = {l.ifname : l \in L} \cup Passive(f, m, zone)
        /\ said.cost = {<<l.ifname, l.cost>> : l \in L}
    BY <1>2 DEF Said
  <2>2. said.transit = UNION {T(r) : r \in rows}
    BY <1>2 DEF Said
  <2>3. ConfiguredIfs(f, zone, rows \cup gws) \subseteq said.listed
    <3>1. \A r \in rows : r.zone = zone => r.ifname \in {l.ifname : l \in L}
      BY LinkOf
    <3>2. \A r \in gws : r.zone = zone => r.ifname \in Passive(f, m, zone)
      BY DEF Passive
    <3>3. <<"id", ZoneOf(f, zone).id>> \in Passive(f, m, zone)
      BY DEF Passive
    <3> HIDE DEF L, said, rows, gws
    <3> QED BY <2>1, <3>1, <3>2, <3>3 DEF ConfiguredIfs
  <2>4. ASSUME f.kind[m] = "leaf" PROVE LeafCosts(f, m, zone, rows, said)
    <3> DEFINE legs == {x \in rows : x.zone = zone}
    <3>1. \A c : LinkCost(f, m, cost, c) = c + f.offset
      BY <2>4 DEF LinkCost
    <3>2. ASSUME NEW r \in legs PROVE <<r.ifname, r.cost + f.offset>> \in said.cost
      <4>1. PICK l \in L : l.ifname = r.ifname /\ l.cost = r.cost + f.offset
        BY <3>1, LinkOf
      <4> QED BY <2>1, <4>1
    <3>3. ASSUME NEW t \in said.transit
          PROVE  \E r \in legs : t = <<SegmentAddr(ZoneOf(f, zone), r.seg, f.node[m]), r.cost + f.offset>>
      <4>1. PICK r \in rows : t \in T(r)
        BY <2>2
      <4>2. PICK l \in L : l.ifname = r.ifname /\ t = <<SegmentAddr(ZoneOf(f, r.zone), r.seg, f.node[m]), l.cost>>
        BY <4>1
      <4>3. PICK s \in rows : s.zone = zone /\ l.ifname = s.ifname /\ l.cost = s.cost + f.offset
        BY <3>1, <4>2, LinkOf
      <4>4. r.zone = s.zone /\ r.seg = s.seg
        <5>1. r.ifname = s.ifname /\ Accepts(f)
          BY <4>2, <4>3
        <5> HIDE DEF f
        <5> QED BY <5>1, SameSegment
      <4> QED BY <4>2, <4>3, <4>4
    <3> HIDE DEF rows, said
    <3> QED BY <3>2, <3>3 DEF LeafCosts
  <2> QED BY <1>2, <2>1, <2>3, <2>4
<1>4. ASSUME NEW r \in gws PROVE \E bgp \in trees[m].routing.bgp : \E nb \in bgp.neighbors : nb.zone = r.zone
  <2> DEFINE zs == {ZoneOf(f, x.zone) : x \in gws}
  <2>1. ZoneOf(f, r.zone) \in zs /\ ZoneOf(f, r.zone).name = r.zone
    BY GwRowOf, ZoneOfName DEF ZoneNames
  <2>2. \E bgp \in Bgp(f, m, a) : bgp.neighbors = {[zone |-> z.name, export |-> <<"export", z.name>>] : z \in zs}
    BY <2>1 DEF Bgp
  <2>3. PICK bgp \in Bgp(f, m, a) : bgp.neighbors = {[zone |-> z.name, export |-> <<"export", z.name>>] : z \in zs}
    BY <2>2
  <2> DEFINE nb == [zone |-> ZoneOf(f, r.zone).name, export |-> <<"export", ZoneOf(f, r.zone).name>>]
  <2>4. nb \in bgp.neighbors /\ nb.zone = r.zone
    BY <2>1, <2>3
  <2> HIDE DEF zs, nb
  <2> QED BY <1>1, <2>3, <2>4
<1> QED BY <1>3, <1>4 DEF Readback

-----------------------------------------------------------------------------
(* What the router hears.                                                  *)

\* A host prefix is one address.
LEMMA HostPrefixIs ==
    ASSUME NEW a \in Nat, NEW b \in Nat
    PROVE  Contains(HostPrefix(b), a) <=> a = b
<1>1. HostPrefix(b).net = b /\ HostPrefix(b).len = Bits /\ Width(Bits) = 1
  BY OctetWidths DEF HostPrefix
<1>2. a \div 1 = a /\ b \div 1 = b
  OBVIOUS
<1> QED BY <1>1, <1>2 DEF Contains

\* An identity is an address.
LEMMA IdentityNat ==
    ASSUME NEW z, z.id \in 0..(Octet - 1), NEW n \in 0..(Octet - 1)
    PROVE  IdentityAddr(z, n) \in Nat
<1>1. 0 \in 0..(Octet - 1)
  BY Octets
<1> QED BY <1>1, BlockIs DEF IdentityAddr

\* The identities of a zone are apart from those of another.
LEMMA IdentityApart ==
    ASSUME NEW y, y.id \in 0..(Octet - 1), NEW z, z.id \in 0..(Octet - 1),
           NEW m \in 0..(Octet - 1), NEW n \in 0..(Octet - 1), IdentityAddr(y, m) = IdentityAddr(z, n)
    PROVE  y.id = z.id /\ m = n
<1> DEFINE b == y.id
           e == z.id
           o == 0
<1>1. b \in 0..(Octet - 1) /\ e \in 0..(Octet - 1) /\ o \in 0..(Octet - 1)
  BY Octets
<1>2. Address(Ten, b, o, m) = Address(Ten, e, o, n)
  BY DEF IdentityAddr, SegmentAddr
<1> HIDE DEF b, e, o
<1>3. b = e /\ m = n
  BY <1>1, <1>2, OctetsApart
<1> QED BY <1>3 DEF b, e

\* What is in the identity block of a zone is an identity of it.
LEMMA InIdentityBlock ==
    ASSUME NEW z, z.id \in 0..(Octet - 1), NEW a \in Nat, Contains(IdentityBlock(z), a)
    PROVE  \E d \in 0..(Octet - 1) : a = IdentityAddr(z, d)
<1> DEFINE b == z.id
           o == 0
           d == a % Octet
           T == Three(Ten, b, o)
           n == Address(Ten, b, o, o)
<1>0. b \in Nat /\ o \in Nat /\ Ten \in Nat /\ Octet \in Nat /\ Octet > 0 /\ o \in 0..(Octet - 1)
  BY Octets, BitsNat
<1>1. d \in 0..(Octet - 1) /\ d \in Nat /\ a = Octet * (a \div Octet) + d
  BY <1>0, Quotient
<1>2. IdentityBlock(z).net = n /\ Width(IdentityBlock(z).len) = Octet
  BY OctetWidths DEF IdentityBlock, IdentityAddr, SegmentAddr
<1>3. Address(Ten, b, o, d) = IdentityAddr(z, d)
  BY DEF IdentityAddr, SegmentAddr
<1> HIDE DEF b, o, d
<1>4. T \in Nat /\ n \in Nat /\ n = Octet * T + o
  <2>1. T \in Nat
    BY <1>0, AddressNat
  <2>2. Address(Ten, b, o, o) \in Nat
    BY <1>0, AddressNat
  <2>3. Address(Ten, b, o, o) = Octet * Three(Ten, b, o) + o
    BY <1>0, AddressNat
  <2> QED BY <2>1, <2>2, <2>3
<1>5. Address(Ten, b, o, d) = Octet * T + d
  BY <1>0, <1>1, AddressNat
<1> HIDE DEF T, n
<1>6. n \div Octet = T
  BY <1>0, <1>4, QuotientIs
<1>7. a \div Octet = T
  BY <1>2, <1>6 DEF Contains
<1> QED BY <1>1, <1>3, <1>5, <1>7

\* No identity is an address of a row.
LEMMA RowsHaveNone ==
    ASSUME NEW f, Accepts(f), NEW w \in Loads(f), NEW z \in Zones(f), NEW n \in 0..(Octet - 1)
    PROVE  IdentityAddr(z, n) \notin Addresses(w.prefix)
<1>1. 0 \in 0..(Octet - 1) /\ z.id \in 0..(Octet - 1)
  BY Octets, OctetsNamed
<1>2. IdentityAddr(z, n) \in Addresses(Block(z))
  BY <1>1, BlockIs DEF IdentityAddr
<1> QED BY <1>2, AcceptedPrefix

\* A row's prefix has more than one address.
LEMMA RowLength ==
    ASSUME NEW f, Accepts(f), NEW w \in Loads(f)
    PROVE  w.prefix.len # Bits
<1>1. w.gw \in Addresses(w.prefix) \ {w.prefix.net} /\ IsPrefix(w.prefix)
  BY AcceptedPrefix
<1>2. Width(Bits) = 1
  BY OctetWidths
<1> QED BY <1>1, <1>2 DEF Addresses, Broadcast, IsPrefix

\* The statements of a zone but its rows' take its identities alone.
LEMMA OnlyIdentities ==
    ASSUME NEW f, Accepts(f), NEW z \in Zones(f), NEW s \in RejectLeaves(f, z) \cup AcceptIdentities(z),
           NEW p \in s.within, NEW a \in Nat, Contains(p, a)
    PROVE  \E d \in 0..(Octet - 1) : a = IdentityAddr(z, d)
<1>0. z.id \in 0..(Octet - 1) /\ \A m \in Names : f.node[m] \in 0..(Octet - 1)
  BY OctetsNamed
<1>1. CASE s \in RejectLeaves(f, z)
  <2>1. s.within = {HostPrefix(IdentityAddr(z, f.node[m])) : m \in Leaves(f)}
    BY <1>1 DEF RejectLeaves, Stmt
  <2>2. PICK m \in Leaves(f) : p = HostPrefix(IdentityAddr(z, f.node[m]))
    BY <2>1
  <2>3. f.node[m] \in 0..(Octet - 1) /\ IdentityAddr(z, f.node[m]) \in Nat
    BY <1>0, IdentityNat DEF Leaves
  <2>4. a = IdentityAddr(z, f.node[m])
    BY <2>2, <2>3, HostPrefixIs
  <2> QED BY <2>3, <2>4
<1>2. CASE s \in AcceptIdentities(z)
  <2>1. p = IdentityBlock(z)
    BY <1>2 DEF AcceptIdentities, Stmt
  <2> QED BY <1>0, <2>1, InIdentityBlock
<1> QED BY <1>1, <1>2

\* Of the identities a zone's policy lets out those of the zone's hosts.
LEMMA LetsOutHosts ==
    ASSUME NEW f, Accepts(f), NEW m, NEW z \in Zones(f), NEW y \in Zones(f), NEW n \in Names, NEW route,
           route.net = IdentityAddr(y, f.node[n]),
           NEW s \in Deciding(ExportPolicy(f, m, z), route), s.result = "accept"
    PROVE  y = z /\ f.kind[n] # "leaf"
<1> DEFINE a == IdentityAddr(y, f.node[n])
           P == ExportPolicy(f, m, z)
<1>0. /\ z.id \in 0..(Octet - 1) /\ y.id \in 0..(Octet - 1) /\ f.node[n] \in 0..(Octet - 1) /\ a \in Nat
  BY OctetsNamed, IdentityNat
<1>1. s \in Matching(P, route) /\ \A t \in Matching(P, route) : s.name <= t.name
  BY DEF Deciding
<1>2. s \in P /\ route.len = Bits /\ \E p \in s.within : Contains(p, a)
  BY <1>1 DEF Matching
<1>3. PICK p \in s.within : Contains(p, a)
  BY <1>2
<1>4. s \notin AcceptRows(f, m)
  <2> SUFFICES ASSUME s \in AcceptRows(f, m) PROVE FALSE
    OBVIOUS
  <2>1. PICK w \in WorkloadRows(f, m) : s = Stmt(2, {w.prefix}, "accept")
    BY DEF AcceptRows
  <2>2. p = w.prefix /\ w \in Loads(f)
    BY <2>1 DEF Stmt, WorkloadRows
  <2>3. a \in Addresses(w.prefix)
    BY <1>0, <1>3, <2>2, AcceptedPrefix, PrefixRange
  <2> QED BY <1>0, <2>2, <2>3, RowsHaveNone
<1>5. s \notin RejectLeaves(f, z)
  BY DEF RejectLeaves, Stmt
<1>6. s \in AcceptIdentities(z)
  BY <1>2, <1>4, <1>5 DEF ExportPolicy
<1>7. y = z
  <2>1. PICK d \in 0..(Octet - 1) : a = IdentityAddr(z, d)
    BY <1>0, <1>3, <1>6, OnlyIdentities
  <2>2. y.id = z.id
    BY <1>0, <2>1, IdentityApart
  <2> QED BY <2>2, OctetsNamed
<1>8. ASSUME f.kind[n] = "leaf" PROVE FALSE
  <2> DEFINE t == Stmt(0, {HostPrefix(IdentityAddr(z, f.node[l])) : l \in Leaves(f)}, "reject")
  <2>1. n \in Leaves(f)
    BY <1>8 DEF Leaves
  <2>2. t \in P
    BY <2>1 DEF RejectLeaves, ExportPolicy
  <2>3. HostPrefix(a) \in t.within
    BY <1>7, <2>1 DEF Stmt
  <2>4. Contains(HostPrefix(a), a)
    BY <1>0, HostPrefixIs
  <2>5. t \in Matching(P, route)
    BY <1>2, <2>2, <2>3, <2>4 DEF Matching
  <2>6. t.name = 0 /\ s.name = 1
    BY <1>6 DEF Stmt, AcceptIdentities
  <2> QED BY <1>1, <2>5, <2>6
<1> QED BY <1>7, <1>8

\* What is in force is the protocols of a whole tree, or none.
LEMMA Protocols ==
    ASSUME EngInv, NEW m \in Names
    PROVE  /\ runs[m] \in Fabrics \cup {Original} /\ Accepts(runs[m])
           /\ Good(runs[m], m, asked[m]) /\ installed[m] = asked[m]
           /\ \/ trees[m] = Tree(runs[m], m, transit[m], asked[m])
              \/ \E k \in 1..3 : trees[m] = Partial(runs[m], m, k) /\ asked[m] = {}
           /\ job[m] = NoJob => (trees[m] = Tree(runs[m], m, transit[m], asked[m]) \/ trees[m] = NoTree)
<1>1. EngSound(m)
  BY DEF EngInv
<1>2. \A p, at, c, r : JobOf(runs[m], m, p, at, c, r).phase = p
  BY DEF JobOf
<1>3. NoJob.phase = "idle"
  BY DEF NoJob
<1>4. runs[m] \in Fabrics \cup {Original} /\ Good(runs[m], m, asked[m]) /\ installed[m] = asked[m]
  BY <1>1 DEF EngSound, Sound
<1>5. \E k \in 1..3 : ProvidersHave(runs[m], m, asked[m], transit[m], trees[m], k)
  BY <1>1 DEF EngSound, Sound
<1>6. job[m] = NoJob => ProvidersHave(runs[m], m, asked[m], transit[m], trees[m], 1)
  BY <1>1, <1>2, <1>3 DEF EngSound, Sound
<1> QED BY <1>4, <1>5, <1>6, NothingYet, EngineAssumption DEF ProvidersHave

\* Until the last provider has applied no protocol runs.
LEMMA PartialHas ==
    ASSUME NEW f, NEW m, NEW k
    PROVE  Partial(f, m, k).routing.bgp = {} /\ DOMAIN Partial(f, m, k).routing.ospf = {}
BY DEF Partial, NoTree

\* An identity of its own, an address of a row, or a prefix that is longer than one.
LEMMA AdvertisedWhat ==
    ASSUME EngInv, NEW n \in Names, NEW zone, HasInstance(n, zone), NEW x \in Advertised(n, zone)
    PROVE  /\ x.from = n /\ x.med = 10
           /\ \/ /\ zone \in ZoneNames(runs[n])
                 /\ x.net = IdentityAddr(ZoneOf(runs[n], zone), runs[n].node[n])
              \/ \E w \in Loads(runs[n]) : x.net \in Addresses(w.prefix)
              \/ x.len # Bits
<1> DEFINE f == runs[n]
           A == {[net |-> InstanceOf(n, zone).self, len |-> Bits, from |-> n, med |-> 10]}
           B == {[net |-> r[2], len |-> Bits, from |-> n, med |-> 10] : r \in installed[n]}
           C == {[net |-> w.prefix.net, len |-> w.prefix.len, from |-> n, med |-> 10] : w \in Reaching(f, n, zone)}
           D == IF "static" \in InstanceOf(n, zone).redistribute THEN B ELSE {}
<1>1. Accepts(f) /\ Good(f, n, asked[n]) /\ installed[n] = asked[n]
  BY Protocols
<1>2. trees[n].routing.ospf = Ospf(f, n, transit[n])
  <2>1. DOMAIN trees[n].routing.ospf # {}
    BY DEF HasInstance
  <2> QED BY <2>1, Protocols, PartialHas, TreeProtocols
<1>3. zone \in ZoneNames(f) /\ InstanceOf(n, zone).self = IdentityAddr(ZoneOf(f, zone), f.node[n])
  BY <1>2 DEF HasInstance, InstanceOf, Ospf
<1>4. Advertised(n, zone) = A \cup D \cup C
  BY Zenon DEF Advertised
<1>5. x \in A \/ x \in B \/ x \in C
  <2> HIDE DEF A, B, C
  <2> QED BY <1>4
<1>6. CASE x \in A
  BY <1>3, <1>6
<1>7. CASE x \in B
  <2>1. PICK r \in asked[n] : x = [net |-> r[2], len |-> Bits, from |-> n, med |-> 10]
    BY <1>1, <1>7
  <2>2. PICK w \in WorkloadRows(f, n) : r[2] \in Addresses(w.prefix)
    BY <1>1 DEF Good
  <2>3. w \in Loads(f)
    BY DEF WorkloadRows
  <2> QED BY <2>1, <2>2, <2>3
<1>8. CASE x \in C
  <2>1. PICK w \in Reaching(f, n, zone) : x = [net |-> w.prefix.net, len |-> w.prefix.len, from |-> n, med |-> 10]
    BY <1>8
  <2>2. w \in Loads(f)
    BY DEF Reaching, WorkloadRows
  <2>3. w.prefix.len # Bits
    BY <1>1, <2>2, RowLength
  <2> QED BY <2>1, <2>3
<1> QED BY <1>5, <1>6, <1>7, <1>8

\* A statement that decides has matched.
LEMMA PassesBy ==
    ASSUME NEW m, NEW names, NEW x, Passes(m, names, x)
    PROVE  /\ \E n \in names : \E s \in Deciding(trees[m].policy[n], x) : s.result = "accept"
           /\ x.len = Bits
<1> DEFINE R(n) == {s.result : s \in Deciding(trees[m].policy[n], x)}
<1>1. "accept" \in UNION {R(n) : n \in names}
  BY DEF Passes
<1>2. PICK n \in names : "accept" \in R(n)
  <2> HIDE DEF R
  <2> QED BY <1>1
<1>3. PICK s \in Deciding(trees[m].policy[n], x) : s.result = "accept"
  BY <1>2
<1>4. x.len = Bits
  BY <1>3 DEF Deciding, Matching
<1> QED BY <1>3, <1>4

\* An engine offers a neighbor the hosts' identities and the routes it was asked for.
LEMMA EnginesOwn ==
    ASSUME EngInv, NEW m \in Names, job[m] = NoJob, NEW bgp \in trees[m].routing.bgp, NEW nb \in bgp.neighbors,
           NEW r \in Offered(m, bgp, nb), runs[r.from] = runs[m]
    PROVE  /\ r.len = Bits
           /\ \/ r.from = m /\ r.med = 0 /\ \E a \in asked[m] : a[2] = r.net
              \/ \E n \in Names :
                    /\ runs[m].kind[n] = "host"
                    /\ r.net = IdentityAddr(ZoneOf(runs[m], nb.zone), runs[m].node[n])
                    /\ (r.med = 0) = (n = m)
<1> DEFINE f == runs[m]
           gws == {ZoneOf(f, g.zone) : g \in GwRows(f, m)}
<1>1. Accepts(f) /\ trees[m] = Tree(f, m, transit[m], asked[m])
  <2>1. trees[m].routing.bgp # {}
    OBVIOUS
  <2>2. NoTree.routing.bgp = {}
    BY DEF NoTree
  <2> QED BY <2>1, <2>2, Protocols
<1>2. bgp \in Bgp(f, m, asked[m]) /\ trees[m].policy = RoutingPolicies(f, m)
  <2>1. trees[m].policy = RoutingPolicies(f, m)
    BY <1>1 DEF Tree
  <2>2. trees[m].routing.bgp = Bgp(f, m, asked[m])
    BY <1>1, TreeProtocols
  <2> QED BY <2>1, <2>2
<1>3. /\ bgp.import = {<<"import", z.name>> : z \in gws}
      /\ bgp.neighbors = {[zone |-> z.name, export |-> <<"export", z.name>>] : z \in gws}
      /\ bgp.networks = {IdentityAddr(z, f.node[m]) : z \in gws} \cup {a[2] : a \in asked[m]}
  BY <1>2 DEF Bgp
<1>4. ASSUME NEW z \in gws
      PROVE  /\ z \in Zones(f) /\ ZoneOf(f, z.name) = z /\ f.kind[m] = "host"
             /\ trees[m].policy[<<"import", z.name>>] = ImportPolicy(f, m, z)
             /\ trees[m].policy[<<"export", z.name>>] = ExportPolicy(f, m, z)
  <2>1. PICK g \in GwRows(f, m) : z = ZoneOf(f, g.zone)
    OBVIOUS
  <2>2. g.zone \in ZoneNames(f) /\ f.kind[m] = "host"
    BY GwRowOf DEF ZoneNames
  <2>3. z \in Zones(f) /\ z.name = g.zone
    BY <2>1, <2>2, ZoneOfName
  <2>4. ZoneOf(f, z.name) = z
    BY <2>1, <2>3
  <2>5. z.name \in {x.zone : x \in GwRows(f, m)}
    BY <2>3
  <2> QED BY <1>2, <2>2, <2>3, <2>4, <2>5 DEF RoutingPolicies
<1>5. PICK z \in gws : nb = [zone |-> z.name, export |-> <<"export", z.name>>]
  BY <1>3
<1> HIDE DEF f, gws
<1> DEFINE own(a) == [net |-> a, len |-> Bits, from |-> m, med |-> 0]
           O == {own(a) : a \in bgp.networks}
           L == {x \in Learned(m) \cup Direct(m) : Passes(m, bgp.import, x)}
<1>6. (r \in O \/ r \in L) /\ Passes(m, {nb.export}, r)
  BY DEF Offered
<1>7. PICK s \in Deciding(ExportPolicy(f, m, z), r) : s.result = "accept"
  <2>1. trees[m].policy[nb.export] = ExportPolicy(f, m, z)
    BY <1>4, <1>5
  <2>2. \E n \in {nb.export} : \E s \in Deciding(trees[m].policy[n], r) : s.result = "accept"
    BY <1>6, PassesBy
  <2> QED BY <2>1, <2>2
<1>8. r.len = Bits
  BY <1>6, PassesBy
<1>9. \A n \in Names : f.kind[n] # "leaf" => f.kind[n] = "host"
  BY <1>1 DEF Accepts, Resolves, Typed
<1>10. \A n \in Names : f.node[n] \in 0..(Octet - 1)
  BY <1>1, OctetsNamed
<1>11. ASSUME NEW y \in Zones(f), NEW n \in Names, r.net = IdentityAddr(y, f.node[n])
       PROVE  f.kind[n] = "host" /\ r.net = IdentityAddr(ZoneOf(f, nb.zone), f.node[n])
  <2>1. y = z /\ f.kind[n] # "leaf"
    <3>1. z \in Zones(f)
      BY <1>4
    <3> QED BY <1>1, <1>7, <1>11, <3>1, LetsOutHosts
  <2> QED BY <1>4, <1>5, <1>9, <1>11, <2>1
<1>12. CASE r \in O
  <2>1. PICK a \in bgp.networks : r = own(a)
    BY <1>12
  <2>2. r.net = a /\ r.from = m /\ r.med = 0
    BY <2>1
  <2>3. CASE a \in {b[2] : b \in asked[m]}
    BY <1>8, <2>2, <2>3
  <2>4. CASE \E y \in gws : a = IdentityAddr(y, f.node[m])
    <3>1. PICK y \in gws : a = IdentityAddr(y, f.node[m])
      BY <2>4
    <3>2. f.kind[m] = "host" /\ r.net = IdentityAddr(ZoneOf(f, nb.zone), f.node[m])
      BY <1>4, <1>11, <2>2, <3>1
    <3> QED BY <1>8, <2>2, <3>2 DEF f
  <2> QED BY <1>3, <2>3, <2>4
<1>13. CASE r \in L
  <2>1. Passes(m, bgp.import, r) /\ (r \in Learned(m) \/ r \in Direct(m))
    BY <1>13
  <2>2. PICK n \in bgp.import : \E t \in Deciding(trees[m].policy[n], r) : t.result = "accept"
    BY <2>1, PassesBy
  <2>3. PICK y \in gws : n = <<"import", y.name>>
    BY <1>3
  <2>4. PICK t \in ImportPolicy(f, m, y) : \E p \in t.within : Contains(p, r.net)
    BY <1>4, <2>2, <2>3 DEF Deciding, Matching
  <2>5. ASSUME NEW w \in Loads(f), r.net \in Addresses(w.prefix) PROVE FALSE
    <3>1. r.net \in Nat
      <4>1. IsPrefix(w.prefix)
        BY <1>1, AcceptedPrefix
      <4>2. Width(w.prefix.len) \in Nat
        BY <4>1, Widths DEF IsPrefix
      <4> QED BY <2>5, <4>1, <4>2 DEF IsPrefix, Addresses, Broadcast
    <3>2. \E d \in 0..(Octet - 1) : r.net = IdentityAddr(y, d)
      BY <1>1, <1>4, <2>4, <3>1, OnlyIdentities DEF ImportPolicy
    <3> QED BY <1>1, <1>4, <2>5, <3>2, RowsHaveNone
  <2>6. r \notin Direct(m)
    <3>1. ASSUME NEW w \in WorkloadRows(f, m) PROVE w.prefix.len # Bits
      BY <1>1, RowLength DEF WorkloadRows
    <3> QED BY <1>8, <3>1 DEF Direct, f
  <2>7. PICK x \in (Names \ {m}) \X DOMAIN trees[m].routing.ospf : HasInstance(x[1], x[2]) /\ r \in Advertised(x[1], x[2])
    BY <2>1, <2>6 DEF Learned
  <2>8. x[1] \in Names /\ x[1] # m
    BY <2>7
  <2>9. /\ r.from = x[1] /\ r.med = 10
        /\ \/ x[2] \in ZoneNames(runs[x[1]]) /\ r.net = IdentityAddr(ZoneOf(runs[x[1]], x[2]), runs[x[1]].node[x[1]])
           \/ \E w \in Loads(runs[x[1]]) : r.net \in Addresses(w.prefix)
           \/ r.len # Bits
    BY <2>7, <2>8, AdvertisedWhat
  <2>10. runs[x[1]] = f
    BY <2>9 DEF f
  <2>11. x[2] \in ZoneNames(f) /\ r.net = IdentityAddr(ZoneOf(f, x[2]), f.node[x[1]])
    BY <1>8, <2>5, <2>9, <2>10
  <2>12. f.kind[x[1]] = "host" /\ r.net = IdentityAddr(ZoneOf(f, nb.zone), f.node[x[1]])
    BY <1>11, <2>8, <2>11, ZoneOfName
  <2> QED BY <1>8, <2>8, <2>9, <2>12 DEF f
<1> QED BY <1>6, <1>12, <1>13

\* What the tree in force refers to, it has.
LEMMA EngineInForce ==
    ASSUME EngInv, NEW m \in Names
    PROVE  /\ \A bgp \in trees[m].routing.bgp :
                 bgp.import \cup {nb.export : nb \in bgp.neighbors} \subseteq DOMAIN trees[m].policy
           /\ \A zone \in DOMAIN trees[m].routing.ospf :
                 {l.ifname : l \in InstanceOf(m, zone).links} \cup InstanceOf(m, zone).passive
                     \subseteq trees[m].interface
<1> DEFINE f == runs[m]
<1>1. CASE trees[m] = Tree(f, m, transit[m], asked[m])
  <2>1. /\ trees[m].routing.bgp = Bgp(f, m, asked[m]) /\ trees[m].routing.ospf = Ospf(f, m, transit[m])
        /\ trees[m].policy = RoutingPolicies(f, m) /\ trees[m].interface = IfNames(f, m)
    <3>1. trees[m].policy = RoutingPolicies(f, m) /\ trees[m].interface = IfNames(f, m)
      BY <1>1 DEF Tree
    <3>2. trees[m].routing.bgp = Bgp(f, m, asked[m]) /\ trees[m].routing.ospf = Ospf(f, m, transit[m])
      BY <1>1, TreeProtocols
    <3> QED BY <3>1, <3>2
  <2>2. ASSUME NEW bgp \in Bgp(f, m, asked[m])
        PROVE  bgp.import \cup {nb.export : nb \in bgp.neighbors} \subseteq DOMAIN RoutingPolicies(f, m)
    BY PoliciesNamed
  <2>3. ASSUME NEW zone \in DOMAIN trees[m].routing.ospf
        PROVE  /\ zone \in ZoneNames(f) /\ InstanceOf(m, zone).links = Adjacencies(f, m, transit[m], zone)
               /\ InstanceOf(m, zone).passive = Passive(f, m, zone)
    BY <2>1 DEF InstanceOf, Ospf
  <2> HIDE DEF f
  <2> QED BY <2>1, <2>2, <2>3, InterfacesNamed
<1>2. CASE \E k \in 1..3 : trees[m] = Partial(f, m, k)
  BY <1>2, PartialHas
<1> QED BY <1>1, <1>2, Protocols

\* Every engine of a fabric runs what its declaration means, and only that, whatever
\* accepted declarations the members run and whichever commits are refused.
THEOREM EnginesHold == EngSpec => []ConfigHolds
<1>1. EngInv => ConfigHolds
  <2> SUFFICES ASSUME EngInv PROVE ConfigHolds
    OBVIOUS
  <2>1. OwnersOnly
    BY EnginesOwn DEF OwnersOnly
  <2>2. ASSUME NEW m \in Names, job[m] = NoJob, trees[m] # NoTree PROVE Readback(runs[m], m)
    BY <2>2, Protocols, ReadsBack
  <2>3. \A m \in Names : installed[m] = asked[m]
    BY Protocols
  <2>4. EngineHolds
    BY <2>2, <2>3, EngineInForce DEF EngineHolds
  <2> QED BY <2>1, <2>4 DEF ConfigHolds
<1> QED BY <1>1, CommitsStart, CommitsStep, PTL DEF EngSpec

-----------------------------------------------------------------------------
(* The policy is the declaration's, and each mark is set once.             *)

\* A rule that replies are let through by takes every reply and nothing else.
LEMMA RepliesTaken ==
    ASSUME NEW i, NEW o, NEW ct
    PROVE  Takes(ReturnOfAllowed, i, o, ct) <=> ct = "established"
BY DEF Takes, ReturnOfAllowed, On, Any, NotOf

\* What a chain of cfab-fwd decides: the admin plane's drops first, then what is
\* another stack's, a reply, or allowed.
LEMMA ChainVerdict ==
    ASSUME NEW admin, NEW foreign, NEW allowed, NEW i, NEW o, NEW ct
    PROVE  /\ Verdict(Chain(admin, foreign, allowed), i, o, ct) \in {"accept", "drop"}
           /\ Verdict(Chain(admin, foreign, allowed), i, o, ct) = "accept" <=>
                 /\ ~Takes(admin, i, o, ct)
                 /\ Takes(foreign, i, o, ct) \/ ct = "established" \/ Takes(allowed, i, o, ct)
<1> DEFINE c == Chain(admin, foreign, allowed)
           T(k) == Takes(c[k].rules, i, o, ct)
<1>1. /\ DOMAIN c = 1..4
      /\ c[1].to = "drop" /\ c[2].to = "accept" /\ c[3].to = "accept" /\ c[4].to = "accept"
      /\ c[1].rules = admin /\ c[2].rules = foreign /\ c[3].rules = ReturnOfAllowed /\ c[4].rules = allowed
  BY DEF Chain, Group
<1>2. /\ T(1) <=> Takes(admin, i, o, ct)
      /\ T(2) <=> Takes(foreign, i, o, ct)
      /\ T(3) <=> ct = "established"
      /\ T(4) <=> Takes(allowed, i, o, ct)
  BY <1>1, RepliesTaken
<1>3. Verdict(c, i, o, ct) =
        IF \E k \in DOMAIN c : c[k].to = "accept" /\ T(k) /\ \A n \in 1 .. k - 1 : ~T(n)
        THEN "accept" ELSE "drop"
  BY DEF Verdict
<1> HIDE DEF T, c
<1>4. (\E k \in DOMAIN c : c[k].to = "accept" /\ T(k) /\ \A n \in 1 .. k - 1 : ~T(n))
        <=> ~T(1) /\ (T(2) \/ T(3) \/ T(4))
  <2>1. ASSUME NEW k \in 1..4, c[k].to = "accept", T(k), \A n \in 1 .. k - 1 : ~T(n)
        PROVE  ~T(1) /\ (T(2) \/ T(3) \/ T(4))
    <3>1. k # 1
      BY <2>1, <1>1
    <3>2. k \in {2, 3, 4} /\ 1 \in 1 .. k - 1
      BY <3>1
    <3> QED BY <2>1, <3>2
  <2>2. ASSUME ~T(1), T(2) \/ T(3) \/ T(4)
        PROVE  \E k \in 1..4 : c[k].to = "accept" /\ T(k) /\ \A n \in 1 .. k - 1 : ~T(n)
    <3>1. CASE T(2)
      <4> WITNESS 2 \in 1..4
      <4>1. \A n \in 1 .. 2 - 1 : n = 1
        OBVIOUS
      <4> QED BY <1>1, <2>2, <3>1, <4>1
    <3>2. CASE ~T(2) /\ T(3)
      <4> WITNESS 3 \in 1..4
      <4>1. \A n \in 1 .. 3 - 1 : n = 1 \/ n = 2
        OBVIOUS
      <4> QED BY <1>1, <2>2, <3>2, <4>1
    <3>3. CASE ~T(2) /\ ~T(3) /\ T(4)
      <4> WITNESS 4 \in 1..4
      <4>1. \A n \in 1 .. 4 - 1 : n = 1 \/ n = 2 \/ n = 3
        OBVIOUS
      <4> QED BY <1>1, <2>2, <3>3, <4>1
    <3> QED BY <2>2, <3>1, <3>2, <3>3
  <2> QED BY <1>1, <2>1, <2>2
<1>5. Verdict(c, i, o, ct) \in {"accept", "drop"}
      /\ (Verdict(c, i, o, ct) = "accept" <=> ~T(1) /\ (T(2) \/ T(3) \/ T(4)))
  BY <1>3, <1>4
<1> QED BY <1>2, <1>5 DEF c

\* A packet is on a side of a rule as the side's set says.
LEMMA Sides ==
    ASSUME NEW A, NEW i
    PROVE  /\ On(Of(A), i) <=> i \in A
           /\ On(NotOf(A), i) <=> i \notin A
           /\ On(Any, i)
BY DEF On, Of, NotOf, Any

\* The rules of the admin plane take what touches it.
LEMMA AdminTakes ==
    ASSUME NEW f, NEW m, NEW i, NEW o, NEW ct \in {"new", "established"}
    PROVE  Takes(AdminPlane(f, m), i, o, ct) <=> i \in AdminIfs(f, m) \/ o \in AdminIfs(f, m)
<1> DEFINE A == AdminIfs(f, m)
<1>1. /\ Rule(Of(A), Any).in = Of(A) /\ Rule(Of(A), Any).out = Any /\ ct \in Rule(Of(A), Any).ct
      /\ Rule(Any, Of(A)).in = Any /\ Rule(Any, Of(A)).out = Of(A) /\ ct \in Rule(Any, Of(A)).ct
  BY DEF Rule
<1> HIDE DEF A
<1> QED BY <1>1, Sides DEF Takes, AdminPlane, A

\* The accept for other stacks takes what touches nothing of cfab's.
LEMMA ForeignTakes ==
    ASSUME NEW f, NEW m, NEW i, NEW o, NEW ct \in {"new", "established"}
    PROVE  Takes(ForeignTransit(f, m), i, o, ct) <=> i \notin Owned(f, m) /\ o \notin Owned(f, m)
<1> DEFINE A == Owned(f, m)
<1>1. /\ Rule(NotOf(A), NotOf(A)).in = NotOf(A) /\ Rule(NotOf(A), NotOf(A)).out = NotOf(A)
      /\ ct \in Rule(NotOf(A), NotOf(A)).ct
  BY DEF Rule
<1> HIDE DEF A
<1> QED BY <1>1, Sides DEF Takes, ForeignTransit, A

\* The accepts of a row: a is its leg, and b an interface it may reach.
LegReaches(f, m, spliced, a, b) ==
    \E w \in WorkloadRows(f, m) :
        a = LegIf(w) /\ ((\E r \in GwRows(f, m) : b = r.ifname) \/ \E z \in w.allow : b \in SetOf(f, m, z, spliced))

\* The accepts take what is between two zones of a pair, or a row's leg and what it
\* reaches, either way.
LEMMA AllowedTakes ==
    ASSUME NEW f, NEW m, NEW allow, NEW spliced, NEW i, NEW o, NEW ct \in {"new", "established"}
    PROVE  Takes(Allowed(f, m, allow, spliced), i, o, ct) <=>
              \/ \E p \in allow : i \in SetOf(f, m, p[1], spliced) /\ o \in SetOf(f, m, p[2], spliced)
              \/ LegReaches(f, m, spliced, i, o) \/ LegReaches(f, m, spliced, o, i)
<1> DEFINE Hit(r) == On(r.in, i) /\ On(r.out, o) /\ ct \in r.ct
           S(z) == SetOf(f, m, z, spliced)
           P == {Between(S(p[1]), S(p[2])) : p \in allow}
           W == UNION {RowPairs(f, m, w, spliced) : w \in WorkloadRows(f, m)}
           Either(leg, ifs) == (i = leg /\ o \in ifs) \/ (o = leg /\ i \in ifs)
<1>1. Takes(Allowed(f, m, allow, spliced), i, o, ct) <=> (\E r \in P : Hit(r)) \/ (\E r \in W : Hit(r))
  BY DEF Takes, Allowed
<1>2. ASSUME NEW A, NEW B PROVE Hit(Between(A, B)) <=> i \in A /\ o \in B
  <2>1. Between(A, B).in = Of(A) /\ Between(A, B).out = Of(B) /\ ct \in Between(A, B).ct
    BY DEF Between, Rule
  <2>2. Hit(Between(A, B)) <=> On(Of(A), i) /\ On(Of(B), o)
    BY <2>1
  <2> HIDE DEF Hit
  <2> QED BY <2>2, Sides
<1>3. ASSUME NEW leg, NEW ifs PROVE (\E r \in Pairs(leg, ifs) : Hit(r)) <=> Either(leg, ifs)
  <2>1. (\E r \in Pairs(leg, ifs) : Hit(r)) <=> Hit(Between({leg}, ifs)) \/ Hit(Between(ifs, {leg}))
    BY DEF Pairs
  <2>2. Hit(Between({leg}, ifs)) <=> i = leg /\ o \in ifs
    BY <1>2
  <2>3. Hit(Between(ifs, {leg})) <=> i \in ifs /\ o = leg
    BY <1>2
  <2> HIDE DEF Hit
  <2> QED BY <2>1, <2>2, <2>3
<1> HIDE DEF Hit
<1>4. (\E r \in P : Hit(r)) <=> \E p \in allow : i \in S(p[1]) /\ o \in S(p[2])
  BY <1>2
<1>5. ASSUME NEW w
      PROVE  (\E r \in RowPairs(f, m, w, spliced) : Hit(r)) <=>
                \/ \E z \in w.allow : Either(LegIf(w), S(z))
                \/ \E g \in GwRows(f, m) : Either(LegIf(w), {g.ifname})
  <2> DEFINE a == {Pairs(LegIf(w), S(z)) : z \in w.allow}
             b == {Pairs(LegIf(w), {g.ifname}) : g \in GwRows(f, m)}
             Z == UNION a
             G == UNION b
  <2>1. RowPairs(f, m, w, spliced) = Z \cup G
    <3>1. UNION (a \cup b) = (UNION a) \cup (UNION b)
      OBVIOUS
    <3> QED BY <3>1, Zenon DEF RowPairs
  <2>2. (\E r \in Z : Hit(r)) <=> \E z \in w.allow : \E r \in Pairs(LegIf(w), S(z)) : Hit(r)
    BY Zenon
  <2>3. (\E r \in G : Hit(r)) <=> \E g \in GwRows(f, m) : \E r \in Pairs(LegIf(w), {g.ifname}) : Hit(r)
    BY Zenon
  <2>4. (\E r \in Z : Hit(r)) <=> \E z \in w.allow : Either(LegIf(w), S(z))
    <3> HIDE DEF Either, S, Z, a, b
    <3> QED BY <1>3, <2>2
  <2>5. (\E r \in G : Hit(r)) <=> \E g \in GwRows(f, m) : Either(LegIf(w), {g.ifname})
    <3> HIDE DEF Either, S, G, a, b
    <3> QED BY <1>3, <2>3
  <2> HIDE DEF Z, G, Either, S
  <2> QED BY <2>1, <2>4, <2>5
<1>6. (\E r \in W : Hit(r)) <=> \E w \in WorkloadRows(f, m) : \E r \in RowPairs(f, m, w, spliced) : Hit(r)
  BY Zenon
<1>7. (\E w \in WorkloadRows(f, m) : \E r \in RowPairs(f, m, w, spliced) : Hit(r)) <=>
        LegReaches(f, m, spliced, i, o) \/ LegReaches(f, m, spliced, o, i)
  <2> HIDE DEF W, P
  <2>1. \A w : (\E r \in RowPairs(f, m, w, spliced) : Hit(r)) <=>
                  \/ i = LegIf(w) /\ ((\E g \in GwRows(f, m) : o = g.ifname) \/ \E z \in w.allow : o \in S(z))
                  \/ o = LegIf(w) /\ ((\E g \in GwRows(f, m) : i = g.ifname) \/ \E z \in w.allow : i \in S(z))
    BY <1>5
  <2> QED BY <2>1 DEF LegReaches
<1> HIDE DEF P, W, S
<1> QED BY <1>1, <1>4, <1>6, <1>7 DEF S

\* The policy without anything spliced names each zone's own interfaces.
LEMMA NothingSpliced ==
    ASSUME NEW f, NEW m, NEW zone
    PROVE  SetOf(f, m, zone, {}) = ZoneIfs(f, m, zone)
BY DEF SetOf

\* policy.rs: what the forward chain of a declaration lets through.
LEMMA PolicyVerdict ==
    ASSUME NEW f, NEW m, NEW allow, NEW i, NEW o, NEW ct \in {"new", "established"}
    PROVE  Verdict(Chain(AdminPlane(f, m), ForeignTransit(f, m), Allowed(f, m, allow, {})), i, o, ct) = "accept" <=>
              /\ i \notin AdminIfs(f, m) /\ o \notin AdminIfs(f, m)
              /\ \/ i \notin Owned(f, m) /\ o \notin Owned(f, m)
                 \/ ct = "established"
                 \/ \E p \in allow : i \in ZoneIfs(f, m, p[1]) /\ o \in ZoneIfs(f, m, p[2])
                 \/ LegReaches(f, m, {}, i, o) \/ LegReaches(f, m, {}, o, i)
<1>1. Takes(AdminPlane(f, m), i, o, ct) <=> i \in AdminIfs(f, m) \/ o \in AdminIfs(f, m)
  BY AdminTakes
<1>2. Takes(ForeignTransit(f, m), i, o, ct) <=> i \notin Owned(f, m) /\ o \notin Owned(f, m)
  BY ForeignTakes
<1>3. Takes(Allowed(f, m, allow, {}), i, o, ct) <=>
        \/ \E p \in allow : i \in ZoneIfs(f, m, p[1]) /\ o \in ZoneIfs(f, m, p[2])
        \/ LegReaches(f, m, {}, i, o) \/ LegReaches(f, m, {}, o, i)
  BY AllowedTakes, NothingSpliced
<1> QED BY <1>1, <1>2, <1>3, ChainVerdict

\* What is permitted is what the chain accepts of a new connection.
LEMMA PermittedIs ==
    ASSUME NEW f, NEW m, NEW i, NEW o
    PROVE  Permitted(f, m, i, o) <=>
              /\ i \notin AdminIfs(f, m) /\ o \notin AdminIfs(f, m)
              /\ \/ i \notin Owned(f, m) /\ o \notin Owned(f, m)
                 \/ \E p \in f.allow : i \in ZoneIfs(f, m, p[1]) /\ o \in ZoneIfs(f, m, p[2])
                 \/ LegReaches(f, m, {}, i, o) \/ LegReaches(f, m, {}, o, i)
<1>1. \A a, b : LegReaches(f, m, {}, a, b) <=>
        \E w \in WorkloadRows(f, m) : a = LegIf(w) /\ (b \in {r.ifname : r \in GwRows(f, m)} \/ \E z \in w.allow : b \in ZoneIfs(f, m, z))
  BY NothingSpliced DEF LegReaches
<1>2. {i, o} \cap AdminIfs(f, m) = {} <=> i \notin AdminIfs(f, m) /\ o \notin AdminIfs(f, m)
  OBVIOUS
<1>3. {i, o} \cap Owned(f, m) = {} <=> i \notin Owned(f, m) /\ o \notin Owned(f, m)
  OBVIOUS
<1> QED BY <1>1, <1>2, <1>3 DEF Permitted

-----------------------------------------------------------------------------
(* An apply installs what it says, or is known to be torn.                 *)

FwdDone(f, chain) == f.kind[Local] = "host" /\ f.forward => chain = Policy(f, Local)

CeilingZones(f) == {c.zone : c \in Ceilings(f, Local)}
CeilingJumps(f) == {[ifname |-> c.ifname, zone |-> c.zone] : c \in Ceilings(f, Local)}
RatesOf(f, z) == {c.rate : c \in {x \in Ceilings(f, Local) : x.zone = z}}

\* The chains of the mangle table after the restore: this declaration's, and what is
\* stale.
Laid(f, t) ==
    /\ t = [hook |-> t.hook, out |-> CeilingJumps(f), chains |-> t.chains]
    /\ CeilingZones(f) \subseteq DOMAIN t.chains
    /\ \A z \in CeilingZones(f) : t.chains[z] = RatesOf(f, z)

\* What a whole apply leaves behind, by the tool that is on record.
Installed(f, r, marks, t) ==
    \/ r = "nft" /\ marks = MarkTable(f, Local) /\ t = NoIpt
    \/ r = "ipt" /\ marks = Nil /\ Laid(f, t) /\ t.hook = "cfab-out" /\ DOMAIN t.chains = CeilingZones(f)

StageFacts ==
    /\ stage \in {"idle", "policy", "record", "other", "nft", "ipt", "jump", "sweep"}
    /\ stage # "idle" => ~Refused(ruled)
    /\ stage \in {"other", "nft", "ipt", "jump", "sweep"} => record = Backend(ruled)
    /\ stage = "nft" => record = "nft"
    /\ stage \in {"ipt", "jump", "sweep"} => record = "ipt"
    /\ stage \in {"jump", "sweep"} => Laid(ruled, ipt)
    /\ stage = "sweep" => ipt.hook = "cfab-out"

\* No table without the tool that made it: only a restart of the host takes tools away.
ToolFacts ==
    /\ mark # Nil => "nft" \in can
    /\ ipt # NoIpt => "ipt" \in can

LifeFacts ==
    /\ life \in {"clean", "whole", "stopped", "torn"}
    /\ life = "clean" =>
          /\ stage # "idle" /\ (stage # "policy" => FwdDone(ruled, fwd))
          /\ stage = "nft" => ipt = NoIpt
          /\ stage \in {"ipt", "jump", "sweep"} => mark = Nil
    /\ life = "whole" => stage = "idle" /\ FwdDone(ruled, fwd) /\ Installed(ruled, record, mark, ipt)
    /\ life = "stopped" => stage = "idle" /\ mark = Nil /\ ipt = NoIpt

PolInv == ruled \in Policies /\ StageFacts /\ ToolFacts /\ LifeFacts

\* mark_backend_for_leaf: what is not refused has the tool it needs.
LEMMA BackendHas ==
    ASSUME NEW f, ~Refused(f)
    PROVE  /\ Backend(f) \in {"nft", "ipt"}
           /\ Backend(f) = "nft" => "nft" \in can
           /\ Backend(f) = "ipt" => "ipt" \in can
BY DEF Refused, Backend

\* install_mark_ipt, restore: this declaration's chains are laid.
LEMMA RestoreLays ==
    ASSUME NEW f, NEW old
    PROVE  Laid(f, RestoreChains(old, Ceilings(f, Local))) /\ RestoreChains(old, Ceilings(f, Local)).hook = old.hook
<1> DEFINE cs == Ceilings(f, Local)
           t == RestoreChains(old, cs)
<1>1. /\ t = [hook |-> old.hook, out |-> CeilingJumps(f), chains |-> t.chains] /\ t.hook = old.hook
      /\ t.chains = [z \in DOMAIN old.chains \cup CeilingZones(f) |->
                       IF \E c \in cs : c.zone = z THEN RatesOf(f, z) ELSE old.chains[z]]
  BY DEF RestoreChains, CeilingJumps, CeilingZones, RatesOf
<1>2. \A z \in CeilingZones(f) : \E c \in cs : c.zone = z
  BY DEF CeilingZones
<1> HIDE DEF t, cs
<1>3. /\ CeilingZones(f) \subseteq DOMAIN t.chains
      /\ \A z \in CeilingZones(f) : t.chains[z] = RatesOf(f, z)
  BY <1>1, <1>2
<1> QED BY <1>1, <1>3 DEF Laid, t, cs

\* ... jump: nothing but the hook is changed.
LEMMA JumpKeeps ==
    ASSUME NEW f, NEW t, Laid(f, t)
    PROVE  Laid(f, [t EXCEPT !.hook = "cfab-out"]) /\ [t EXCEPT !.hook = "cfab-out"].hook = "cfab-out"
BY DEF Laid

\* ... sweep: nothing stale is left.
LEMMA SweepLeaves ==
    ASSUME NEW f, NEW t, Laid(f, t)
    PROVE  /\ Laid(f, Sweep(t, Ceilings(f, Local))) /\ Sweep(t, Ceilings(f, Local)).hook = t.hook
           /\ DOMAIN Sweep(t, Ceilings(f, Local)).chains = CeilingZones(f)
<1>1. Sweep(t, Ceilings(f, Local)) =
        [hook |-> t.hook, out |-> CeilingJumps(f), chains |-> [z \in CeilingZones(f) |-> t.chains[z]]]
  BY DEF Sweep, Laid, CeilingZones
<1> QED BY <1>1 DEF Laid

\* A mangle table that is hooked is no empty one.
LEMMA HookedIsSome == ASSUME NEW t, t.hook = "cfab-out" PROVE t # NoIpt
BY DEF NoIpt

\* Nothing is installed at first.
LEMMA PolStart == PolInit => PolInv
BY DEF PolInit, PolInv, StageFacts, ToolFacts, LifeFacts

\* An apply that begins is clean, and nothing of it is loaded.
LEMMA StartApplyKeeps == ASSUME PolInv, NEW f \in Policies, StartApply(f) PROVE PolInv'
<1>1. ~Refused(ruled)'
  BY DEF StartApply, Refused, Backend
<1> QED BY <1>1 DEF StartApply, tables, PolInv, StageFacts, ToolFacts, LifeFacts

\* The policy is loaded in one transaction, or taken away.
LEMMA LoadPolicyKeeps == ASSUME PolInv, LoadPolicy PROVE PolInv'
<1>1. ~Refused(ruled)'
  BY DEF LoadPolicy, PolInv, StageFacts, Refused, Backend
<1>2. FwdDone(ruled, fwd)'
  BY DEF LoadPolicy, FwdDone, Kind
<1> QED BY <1>1, <1>2 DEF LoadPolicy, PolInv, StageFacts, ToolFacts, LifeFacts

\* The record names a tool that is there.
LEMMA RecordBackendKeeps == ASSUME PolInv, RecordBackend PROVE PolInv'
<1>1. ~Refused(ruled)' /\ Backend(ruled)' = Backend(ruled)
  BY DEF RecordBackend, PolInv, StageFacts, Refused, Backend
<1> QED BY <1>1 DEF RecordBackend, PolInv, StageFacts, ToolFacts, LifeFacts

\* remove_other_mark_backend removes what the other tool may have left, and can where
\* there is anything.
LEMMA RemoveOtherKeeps == ASSUME PolInv, RemoveOther PROVE PolInv'
<1>1. ~Refused(ruled)' /\ Backend(ruled)' = Backend(ruled)
  BY DEF RemoveOther, PolInv, StageFacts, Refused, Backend
<1>2. ~Refused(ruled) /\ record = Backend(ruled) /\ stage = "other"
  BY DEF RemoveOther, PolInv, StageFacts
<1>3. record \in {"nft", "ipt"}
  BY <1>2, BackendHas
<1>4. CASE record = "nft"
  <2>1. ipt' = NoIpt
    BY <1>4 DEF RemoveOther, PolInv, ToolFacts
  <2> QED BY <1>1, <1>2, <1>4, <2>1 DEF RemoveOther, PolInv, StageFacts, ToolFacts, LifeFacts
<1>5. CASE record = "ipt"
  <2>1. mark' = Nil
    BY <1>5 DEF RemoveOther, PolInv, ToolFacts
  <2> QED BY <1>1, <1>2, <1>5, <2>1 DEF RemoveOther, PolInv, StageFacts, ToolFacts, LifeFacts
<1> QED BY <1>3, <1>4, <1>5

\* The mark table is whole when an apply that met no failure ends with it.
LEMMA LoadMarkKeeps == ASSUME PolInv, LoadMark PROVE PolInv'
<1>1. record = "nft" /\ "nft" \in can
  BY BackendHas DEF LoadMark, PolInv, StageFacts
<1>2. life = "clean" => Installed(ruled, record, mark, ipt)'
  BY <1>1 DEF LoadMark, PolInv, LifeFacts, Installed
<1> QED BY <1>1, <1>2 DEF LoadMark, PolInv, StageFacts, ToolFacts, LifeFacts

\* install_mark_ipt, in its order: the chains,
LEMMA RestoreIptKeeps == ASSUME PolInv, RestoreIpt PROVE PolInv'
<1>1. ~Refused(ruled)' /\ Backend(ruled)' = Backend(ruled)
  BY DEF RestoreIpt, PolInv, StageFacts, Refused, Backend
<1>2. record = "ipt" /\ "ipt" \in can
  BY BackendHas DEF RestoreIpt, PolInv, StageFacts
<1>3. Laid(ruled, ipt)'
  BY RestoreLays DEF RestoreIpt
<1> QED BY <1>1, <1>2, <1>3 DEF RestoreIpt, PolInv, StageFacts, ToolFacts, LifeFacts

\* the jump to them,
LEMMA JumpIptKeeps == ASSUME PolInv, JumpIpt PROVE PolInv'
<1>1. ~Refused(ruled)' /\ Backend(ruled)' = Backend(ruled)
  BY DEF JumpIpt, PolInv, StageFacts, Refused, Backend
<1>2. record = "ipt" /\ "ipt" \in can
  BY BackendHas DEF JumpIpt, PolInv, StageFacts
<1>3. Laid(ruled, ipt)' /\ ipt'.hook = "cfab-out"
  BY JumpKeeps DEF JumpIpt, PolInv, StageFacts
<1> QED BY <1>1, <1>2, <1>3 DEF JumpIpt, PolInv, StageFacts, ToolFacts, LifeFacts

\* and what is stale; only then has the apply ended.
LEMMA SweepIptKeeps == ASSUME PolInv, SweepIpt PROVE PolInv'
<1>1. record = "ipt" /\ "ipt" \in can
  BY BackendHas DEF SweepIpt, PolInv, StageFacts
<1>2. Laid(ruled, ipt)' /\ ipt'.hook = "cfab-out" /\ DOMAIN ipt'.chains = CeilingZones(ruled)
  BY SweepLeaves DEF SweepIpt, PolInv, StageFacts
<1>3. life = "clean" => Installed(ruled, record, mark, ipt)'
  BY <1>1, <1>2 DEF SweepIpt, PolInv, LifeFacts, Installed
<1> QED BY <1>1, <1>2, <1>3 DEF SweepIpt, PolInv, StageFacts, ToolFacts, LifeFacts

\* An apply that is cut short is torn.
LEMMA InterruptedKeeps == ASSUME PolInv, Interrupted PROVE PolInv'
BY DEF Interrupted, tables, PolInv, StageFacts, ToolFacts, LifeFacts

\* So is one that could not remove the other tool's rules.
LEMMA KeepsOtherKeeps == ASSUME PolInv, KeepsOther PROVE PolInv'
<1>1. ~Refused(ruled)' /\ Backend(ruled)' = Backend(ruled)
  BY DEF KeepsOther, tables, PolInv, StageFacts, Refused, Backend
<1>2. record \in {"nft", "ipt"}
  BY BackendHas DEF KeepsOther, PolInv, StageFacts
<1> QED BY <1>1, <1>2 DEF KeepsOther, tables, PolInv, StageFacts, ToolFacts, LifeFacts

\* The teardown removes what is on record, and after a whole apply there is nothing
\* else.
LEMMA StopKeeps == ASSUME PolInv, Stop PROVE PolInv'
<1>1. ASSUME life \in {"whole", "stopped"} PROVE mark' = Nil /\ ipt' = NoIpt
  <2>1. CASE life = "stopped"
    BY <2>1 DEF Stop, PolInv, LifeFacts
  <2>2. CASE life = "whole"
    <3>1. CASE record = "nft" /\ mark = MarkTable(ruled, Local) /\ ipt = NoIpt
      <4>1. mark # Nil
        BY <3>1, PolicyAssumption DEF PolInv
      <4> QED BY <3>1, <4>1 DEF Stop, PolInv, ToolFacts
    <3>2. CASE record = "ipt" /\ mark = Nil /\ ipt.hook = "cfab-out"
      <4>1. ipt # NoIpt
        BY <3>2, HookedIsSome
      <4> QED BY <3>2, <4>1 DEF Stop, PolInv, ToolFacts
    <3> QED BY <2>2, <3>1, <3>2 DEF PolInv, LifeFacts, Installed
  <2> QED BY <1>1, <2>1, <2>2
<1> QED BY <1>1 DEF Stop, PolInv, StageFacts, ToolFacts, LifeFacts

\* A tool that is added refutes nothing.
LEMMA GainsKeeps == ASSUME PolInv, Gains PROVE PolInv'
BY DEF Gains, tables, PolInv, StageFacts, ToolFacts, LifeFacts

\* A restart of the host takes every table with it.
LEMMA RebootKeeps == ASSUME PolInv, Reboot PROVE PolInv'
BY DEF Reboot, PolInv, StageFacts, ToolFacts, LifeFacts

\* A connection or a policy-teeth run changes no table.
LEMMA RestKeeps ==
    ASSUME PolInv, UNCHANGED <<ruled, tables, can, stage, life>>
    PROVE  PolInv'
<1>1. Refused(ruled)' <=> Refused(ruled)
  BY DEF Refused, Backend
<1>2. Backend(ruled)' = Backend(ruled)
  BY DEF Backend
<1> QED BY <1>1, <1>2 DEF tables, PolInv, StageFacts, ToolFacts, LifeFacts

\* Every step keeps it.
LEMMA PolStep == PolInv /\ [PolNext]_polVars => PolInv'
<1> SUFFICES ASSUME PolInv, [PolNext]_polVars PROVE PolInv'
  OBVIOUS
<1>1. ASSUME NEW f \in Policies, StartApply(f) PROVE PolInv'
  BY <1>1, StartApplyKeeps
<1>2. ASSUME NEW f \in Policies, TeethStart(f) PROVE PolInv'
  BY <1>2, RestKeeps DEF TeethStart
<1>3. CASE LoadPolicy \/ RecordBackend \/ RemoveOther \/ LoadMark \/ RestoreIpt \/ JumpIpt \/ SweepIpt
  BY <1>3, LoadPolicyKeeps, RecordBackendKeeps, RemoveOtherKeeps, LoadMarkKeeps, RestoreIptKeeps, JumpIptKeeps,
     SweepIptKeeps
<1>4. CASE Interrupted \/ KeepsOther \/ Stop \/ Gains \/ Reboot
  BY <1>4, InterruptedKeeps, KeepsOtherKeeps, StopKeeps, GainsKeeps, RebootKeeps
<1>5. CASE Connects \/ TeethStep \/ TeethSays \/ TeethFails \/ TeethErrs
  BY <1>5, RestKeeps DEF Connects, TeethStep, TeethSays, TeethFails, TeethErrs
<1>6. CASE UNCHANGED polVars
  BY <1>6, RestKeeps DEF polVars, tables
<1> QED BY <1>1, <1>2, <1>3, <1>4, <1>5, <1>6 DEF PolNext

-----------------------------------------------------------------------------
(* The policy lets through what is declared.                               *)

\* What a host's policy does, of any declaration.
LEMMA PolicyRight ==
    ASSUME NEW f, NEW m, NEW i, NEW o
    PROVE  /\ Verdict(Policy(f, m), i, o, "new") = "accept" <=> Permitted(f, m, i, o)
           /\ Permitted(f, m, i, o) => Verdict(Policy(f, m), o, i, "established") = "accept"
           /\ {i, o} \cap AdminIfs(f, m) # {} =>
                 /\ Verdict(Policy(f, m), i, o, "established") = "drop"
                 /\ Verdict(Policy(f, m), o, i, "established") = "drop"
<1>1. Verdict(Policy(f, m), i, o, "new") = "accept" <=> Permitted(f, m, i, o)
  BY PolicyVerdict, PermittedIs DEF Policy
<1>2. \A a, b : Verdict(Policy(f, m), a, b, "established") = "accept" <=>
                   a \notin AdminIfs(f, m) /\ b \notin AdminIfs(f, m)
  BY PolicyVerdict DEF Policy
<1>3. \A a, b : Verdict(Policy(f, m), a, b, "established") \in {"accept", "drop"}
  BY ChainVerdict DEF Policy
<1>4. Permitted(f, m, i, o) => i \notin AdminIfs(f, m) /\ o \notin AdminIfs(f, m)
  BY PermittedIs
<1> QED BY <1>1, <1>2, <1>3, <1>4

\* policy.rs, "only `[forward] allow` pairs pass, the admin interface never transits":
\* after every apply that met no failure the policy that is loaded is the one of the
\* declaration, and what it lets through is what that permits, for any declaration,
\* any number of zones, rows, wires and interfaces, and any connection of before.
THEOREM OnlyDeclaredForwards == PolSpec => []OnlyDeclared
<1>1. PolInv => OnlyDeclared
  <2> SUFFICES ASSUME PolInv, stage = "idle", life = "whole", Kind = "host", ruled.forward
               PROVE  /\ \A i, o \in Ifs(ruled) : i # o =>
                            /\ Verdict(fwd, i, o, "new") = "accept" <=> Permitted(ruled, Local, i, o)
                            /\ Permitted(ruled, Local, i, o) => Verdict(fwd, o, i, "established") = "accept"
                      /\ flow # Nil /\ {flow[1], flow[2]} \cap AdminIfs(ruled, Local) # {} =>
                            /\ Verdict(fwd, flow[1], flow[2], "established") = "drop"
                            /\ Verdict(fwd, flow[2], flow[1], "established") = "drop"
    BY DEF OnlyDeclared
  <2>1. fwd = Policy(ruled, Local)
    BY DEF PolInv, LifeFacts, FwdDone, Kind
  <2> QED BY <2>1, PolicyRight
<1> QED BY <1>1, PolStart, PolStep, PTL DEF PolSpec

-----------------------------------------------------------------------------
(* Every control packet is policed once, and every mark is the zone's.     *)

\* mark.rs: a rule of the out chain is a ceiling, or one of a zone's guards and clamp.
LEMMA OutRule ==
    ASSUME NEW f, NEW m, NEW r \in OutChain(f, m)
    PROVE  \/ \E c \in Ceilings(f, m) : r = Limit(c)
           \/ f.setDscp /\ \E k \in DOMAIN f.zones : r \in ZoneClamps(f, m, k)
BY DEF OutChain

\* A zone's rules: the guards are before the clamp and behind every ceiling.
LEMMA ClampRule ==
    ASSUME NEW f, NEW m, NEW k \in Nat \ {0}, NEW r \in ZoneClamps(f, m, k)
    PROVE  /\ r.on = ZoneIfs(f, m, f.zones[k].name) /\ r.on # {}
           /\ (r.to = "return" /\ r.at = 2 * k) \/ (r.to = "set" /\ r.at = 2 * k + 1)
<1> DEFINE ifs == ZoneIfs(f, m, f.zones[k].name)
<1>1. ifs # {} /\ r \in {Guard(2 * k, ifs, "ospf"), Guard(2 * k, ifs, "bfd"), Clamp(2 * k + 1, ifs, f.zones[k].dscp)}
  BY DEF ZoneClamps
<1> HIDE DEF ifs
<1>2. \A p : Guard(2 * k, ifs, p).on = ifs /\ Guard(2 * k, ifs, p).to = "return" /\ Guard(2 * k, ifs, p).at = 2 * k
  BY DEF Guard
<1>3. \A d : Clamp(2 * k + 1, ifs, d).on = ifs /\ Clamp(2 * k + 1, ifs, d).to = "set" /\ Clamp(2 * k + 1, ifs, d).at = 2 * k + 1
  BY DEF Clamp
<1> QED BY <1>1, <1>2, <1>3 DEF ifs

\* Places of zones are positive.
LEMMA ZonePlaces ==
    ASSUME NEW f, Accepts(f), NEW k \in DOMAIN f.zones
    PROVE  k \in Nat \ {0} /\ f.zones[k] \in Zones(f)
<1>1. f.zones \in Seq(Zones(f))
  BY DEF Accepts, Resolves, Typed
<1> QED BY <1>1

\* "FIRST: the guard rules below `return` on OSPF": every ceiling of an interface
\* meets the control packets that leave by it, and no other ceiling does.
LEMMA CeilingsMeet ==
    ASSUME NEW f, Accepts(f), NEW m, NEW i
    PROVE  {r \in Walk(OutChain(f, m), i, "ospf") : r.to = "limit"}
              = {Limit(c) : c \in {x \in Ceilings(f, m) : x.ifname = i}}
<1>1. \A c : Limit(c).at = 0 /\ Limit(c).on = {c.ifname} /\ Limit(c).proto = {"ospf"} /\ Limit(c).to = "limit"
  BY DEF Limit
<1>2. ASSUME NEW r \in OutChain(f, m), r.to = "limit" PROVE \E c \in Ceilings(f, m) : r = Limit(c)
  <2>1. ASSUME NEW k \in DOMAIN f.zones, r \in ZoneClamps(f, m, k) PROVE FALSE
    BY <1>2, <2>1, ClampRule, ZonePlaces
  <2> QED BY <2>1, OutRule
<1>3. ASSUME NEW g \in OutChain(f, m), g.to = "return" PROVE 0 < g.at
  <2>1. ASSUME NEW k \in DOMAIN f.zones, g \in ZoneClamps(f, m, k) PROVE 0 < g.at
    <3>1. k \in Nat \ {0} /\ g.at = 2 * k
      BY <1>3, <2>1, ClampRule, ZonePlaces
    <3> QED BY <3>1
  <2> QED BY <1>1, <1>3, <2>1, OutRule
<1>4. \A c \in Ceilings(f, m) : Limit(c) \in OutChain(f, m)
  BY DEF OutChain
<1>5. ASSUME NEW r PROVE r \in Walk(OutChain(f, m), i, "ospf") <=>
        /\ r \in OutChain(f, m) /\ i \in r.on /\ "ospf" \in r.proto
        /\ \A g \in OutChain(f, m) : i \in g.on /\ "ospf" \in g.proto /\ g.to = "return" => r.at < g.at
  BY DEF Walk
<1>6. ASSUME NEW c \in Ceilings(f, m), c.ifname = i
      PROVE  Limit(c) \in Walk(OutChain(f, m), i, "ospf") /\ Limit(c).to = "limit"
  BY <1>1, <1>3, <1>4, <1>5, <1>6
<1>7. ASSUME NEW r \in Walk(OutChain(f, m), i, "ospf"), r.to = "limit"
      PROVE  \E c \in Ceilings(f, m) : c.ifname = i /\ r = Limit(c)
  BY <1>1, <1>2, <1>5, <1>7
<1> QED BY <1>6, <1>7

\* "control leaves the chain BEFORE the bulk clamp can rewrite the DSCP".
LEMMA ControlUnmarked ==
    ASSUME NEW f, Accepts(f), NEW m, NEW i, NEW p \in {"ospf", "bfd"}, NEW r \in Walk(OutChain(f, m), i, p)
    PROVE  r.to # "set"
<1> SUFFICES ASSUME r.to = "set" PROVE FALSE
  OBVIOUS
<1>1. r \in OutChain(f, m) /\ i \in r.on
  BY DEF Walk
<1>2. \A c : Limit(c).to = "limit"
  BY DEF Limit
<1>3. PICK k \in DOMAIN f.zones : r \in ZoneClamps(f, m, k) /\ f.setDscp
  BY <1>1, <1>2, OutRule
<1>4. k \in Nat \ {0}
  BY ZonePlaces
<1> DEFINE ifs == ZoneIfs(f, m, f.zones[k].name)
           g == Guard(2 * k, ifs, p)
<1>5. r.on = ifs /\ ifs # {} /\ r.at = 2 * k + 1
  BY <1>3, <1>4, ClampRule
<1>6. g \in ZoneClamps(f, m, k)
  BY <1>5 DEF ZoneClamps
<1>7. g \in OutChain(f, m)
  BY <1>3, <1>6 DEF OutChain
<1>8. g.on = ifs /\ p \in g.proto /\ g.to = "return" /\ g.at = 2 * k
  BY DEF Guard
<1> HIDE DEF g
<1>9. r.at < g.at
  BY <1>1, <1>5, <1>7, <1>8 DEF Walk
<1> QED BY <1>4, <1>5, <1>8, <1>9

\* An interface of one zone is of no other, when the names are apart.
LEMMA ZonesApart ==
    ASSUME NEW f, Accepts(f), NamesApart(f), NEW m, NEW a, NEW b, NEW o,
           o \in ZoneIfs(f, m, a), o \in ZoneIfs(f, m, b)
    PROVE  a = b
<1> DEFINE segs == ClassRows(f, m) \cup FallbackRows(f, m)
<1>1. PICK r \in segs \cup GwRows(f, m) : r.ifname = o /\ r.zone = a
  BY DEF ZoneIfs, ZoneRows
<1>2. PICK s \in segs \cup GwRows(f, m) : s.ifname = o /\ s.zone = b
  BY DEF ZoneIfs, ZoneRows
<1>3. ASSUME NEW x \in segs PROVE \A z \in Zones(f) : x.ifname # GwIf(z)
  <2>1. PICK key \in SegKeys(f) : x.ifname = SegAt(f, key).ifname
    BY RowKey DEF Accepts, Resolves
  <2> QED BY <2>1 DEF NamesApart
<1>4. ASSUME NEW x \in GwRows(f, m) PROVE \E z \in Zones(f) : x.ifname = GwIf(z) /\ x.zone = z.name
  BY GwRowOf
<1> HIDE DEF segs
<1>5. CASE r \in segs /\ s \in segs
  BY <1>1, <1>2, <1>5, SameSegment DEF segs
<1>6. CASE r \in GwRows(f, m) /\ s \in GwRows(f, m)
  <2>1. PICK y \in Zones(f) : r.ifname = GwIf(y) /\ r.zone = y.name
    BY <1>4, <1>6
  <2>2. PICK z \in Zones(f) : s.ifname = GwIf(z) /\ s.zone = z.name
    BY <1>4, <1>6
  <2>3. y.id = z.id
    BY <1>1, <1>2, <2>1, <2>2 DEF GwIf
  <2>4. y = z
    BY <2>3, OctetsNamed
  <2> QED BY <1>1, <1>2, <2>1, <2>2, <2>4
<1> QED BY <1>1, <1>2, <1>3, <1>4, <1>5, <1>6

\* A zone is found by its name.
LEMMA ZoneFound ==
    ASSUME NEW f, NamesApart(f), NEW z \in Zones(f)
    PROVE  ZoneOf(f, z.name) = z
<1>1. z.name \in ZoneNames(f)
  BY DEF ZoneNames
<1> QED BY <1>1, ZoneOfName DEF NamesApart

\* No leg of a row is an interface of a zone.
LEMMA LegInNoZone ==
    ASSUME NEW f, Accepts(f), NEW m \in Names, NEW w \in WorkloadRows(f, m), NEW zone
    PROVE  LegIf(w) \notin ZoneIfs(f, m, zone)
<1>1. w \in Loads(f)
  BY DEF WorkloadRows
<1>2. \A r \in ClassRows(f, m) \cup FallbackRows(f, m) \cup GwRows(f, m) : r.ifname # LegIf(w)
  BY <1>1, LegUnlike
<1> QED BY <1>2 DEF ZoneIfs, ZoneRows

\* mark.rs, chain forward: a rule is a row's, for a zone it may reach or for an
\* ingress leg, and sets that zone's mark.
LEMMA ForwardRule ==
    ASSUME NEW f, NEW m
    PROVE  /\ \A r \in ForwardChain(f, m) : \A o \in r.on :
                 \E zone : o \in ZoneIfs(f, m, zone) /\ r.dscp = ZoneOf(f, zone).dscp
           /\ \A w \in WorkloadRows(f, m) : \A o :
                 (\E z \in w.allow : o \in ZoneIfs(f, m, z)) \/ (\E g \in GwRows(f, m) : o = g.ifname) =>
                     \E r \in ForwardChain(f, m) : r.in = LegIf(w) /\ o \in r.on
<1> DEFINE Z(w) == {Overwrite(w, ZoneIfs(f, m, z), ZoneOf(f, z).dscp) : z \in w.allow}
           G(w) == {Overwrite(w, {g.ifname}, ZoneOf(f, g.zone).dscp) : g \in GwRows(f, m)}
<1>1. ForwardChain(f, m) = UNION {Z(w) \cup G(w) : w \in WorkloadRows(f, m)}
  BY Zenon DEF ForwardChain
<1>2. \A v, s, d : Overwrite(v, s, d).in = LegIf(v) /\ Overwrite(v, s, d).on = s /\ Overwrite(v, s, d).dscp = d
  BY DEF Overwrite
<1>3. ASSUME NEW w, NEW r \in Z(w)
      PROVE  \A o \in r.on : \E zone : o \in ZoneIfs(f, m, zone) /\ r.dscp = ZoneOf(f, zone).dscp
  BY <1>2
<1>4. ASSUME NEW w, NEW r \in G(w)
      PROVE  \A o \in r.on : \E zone : o \in ZoneIfs(f, m, zone) /\ r.dscp = ZoneOf(f, zone).dscp
  <2>1. PICK g \in GwRows(f, m) : r = Overwrite(w, {g.ifname}, ZoneOf(f, g.zone).dscp)
    OBVIOUS
  <2>2. r.on = {g.ifname} /\ r.dscp = ZoneOf(f, g.zone).dscp
    BY <1>2, <2>1
  <2>3. g.ifname \in ZoneIfs(f, m, g.zone)
    BY DEF ZoneIfs, ZoneRows
  <2> QED BY <2>2, <2>3
<1>5. ASSUME NEW w, NEW z \in w.allow, NEW o \in ZoneIfs(f, m, z)
      PROVE  \E r \in Z(w) : r.in = LegIf(w) /\ o \in r.on
  <2> DEFINE r == Overwrite(w, ZoneIfs(f, m, z), ZoneOf(f, z).dscp)
  <2>1. r \in Z(w)
    OBVIOUS
  <2>2. r.in = LegIf(w) /\ o \in r.on
    BY <1>2
  <2> QED BY <2>1, <2>2
<1>6. ASSUME NEW w, NEW g \in GwRows(f, m)
      PROVE  \E r \in G(w) : r.in = LegIf(w) /\ g.ifname \in r.on
  <2> DEFINE r == Overwrite(w, {g.ifname}, ZoneOf(f, g.zone).dscp)
  <2>1. r \in G(w)
    OBVIOUS
  <2>2. r.in = LegIf(w) /\ g.ifname \in r.on
    BY <1>2
  <2> QED BY <2>1, <2>2
<1> HIDE DEF Z, G
<1>7. \A r : r \in ForwardChain(f, m) <=> \E w \in WorkloadRows(f, m) : r \in Z(w) \/ r \in G(w)
  BY <1>1
<1> QED BY <1>3, <1>4, <1>5, <1>6, <1>7

\* "VM egress ... queues the way it queues that zone's bulk": what a virtual machine may
\* send out by an interface of a zone leaves with the zone's mark and no other.
LEMMA MarkedAsZone ==
    ASSUME NEW f, Accepts(f), NamesApart(f), NEW m \in Names, NEW w \in WorkloadRows(f, m), NEW z \in Zones(f),
           NEW o \in ZoneIfs(f, m, z.name), Permitted(f, m, LegIf(w), o)
    PROVE  {r.dscp : r \in {x \in ForwardChain(f, m) : x.in = LegIf(w) /\ o \in x.on}} = {z.dscp}
<1>1. ASSUME NEW r \in ForwardChain(f, m), o \in r.on PROVE r.dscp = z.dscp
  <2>1. PICK zone : o \in ZoneIfs(f, m, zone) /\ r.dscp = ZoneOf(f, zone).dscp
    BY <1>1, ForwardRule
  <2>2. zone = z.name
    BY <2>1, ZonesApart
  <2> QED BY <2>1, <2>2, ZoneFound
<1>2. \E r \in ForwardChain(f, m) : r.in = LegIf(w) /\ o \in r.on
  <2>1. w \in Loads(f) /\ LegIf(w) \in Owned(f, m)
    BY DEF WorkloadRows, Owned, TransitIfs, LegIfs
  <2>2. \A p \in f.allow : LegIf(w) \notin ZoneIfs(f, m, p[1])
    BY LegInNoZone
  <2>3. ~LegReaches(f, m, {}, o, LegIf(w))
    BY LegInNoZone DEF LegReaches
  <2>4. LegReaches(f, m, {}, LegIf(w), o)
    BY <2>1, <2>2, <2>3, PermittedIs
  <2>5. PICK v \in WorkloadRows(f, m) :
           LegIf(w) = LegIf(v) /\ ((\E g \in GwRows(f, m) : o = g.ifname) \/ \E y \in v.allow : o \in ZoneIfs(f, m, y))
    BY <2>4, NothingSpliced DEF LegReaches
  <2> QED BY <2>5, ForwardRule
<1> QED BY <1>1, <1>2

\* A ceiling's rate is its zone's.
LEMMA RateOfZone ==
    ASSUME NEW f, NEW m, NEW c \in Ceilings(f, m)
    PROVE  c.rate = Rate(f, c.zone)
BY DEF Ceilings

\* What polices an interface after an apply, by the tool that is on record.
LEMMA PolicedOnce ==
    ASSUME PolInv, life = "whole", NEW i
    PROVE  Police(i) = {<<record, c.rate>> : c \in {x \in Ceilings(ruled, Local) : x.ifname = i}}
<1> DEFINE mine == {x \in Ceilings(ruled, Local) : x.ifname = i}
<1>0. ruled \in Policies /\ Accepts(ruled) /\ Nil # MarkTable(ruled, Local)
  BY PolicyAssumption DEF PolInv
<1>1. CASE record = "nft" /\ mark = MarkTable(ruled, Local) /\ ipt = NoIpt
  <2>1. mark # Nil /\ mark.out = OutChain(ruled, Local) /\ ipt.hook = "none"
    BY <1>0, <1>1 DEF MarkTable, NoIpt
  <2>2. Police(i) = {<<"nft", r.rate>> : r \in {x \in Walk(OutChain(ruled, Local), i, "ospf") : x.to = "limit"}}
    BY <2>1 DEF Police
  <2>3. Police(i) = {<<"nft", r.rate>> : r \in {Limit(c) : c \in mine}}
    BY <1>0, <2>2, CeilingsMeet
  <2>4. \A c : Limit(c).rate = c.rate
    BY DEF Limit
  <2> HIDE DEF mine
  <2>5. Police(i) = {<<"nft", c.rate>> : c \in mine}
    BY <2>3, <2>4
  <2> QED BY <1>1, <2>5 DEF mine
<1>2. CASE record = "ipt" /\ mark = Nil /\ Laid(ruled, ipt) /\ ipt.hook = "cfab-out"
  <2> DEFINE jumps == {x \in CeilingJumps(ruled) : x.ifname = i}
  <2>1. ipt.out = CeilingJumps(ruled) /\ \A z \in CeilingZones(ruled) : ipt.chains[z] = RatesOf(ruled, z)
    BY <1>2 DEF Laid
  <2>2. Police(i) = UNION {{<<"ipt", r>> : r \in ipt.chains[j.zone]} : j \in jumps}
    BY <1>2, <2>1 DEF Police
  <2>3. ASSUME NEW c \in mine PROVE RatesOf(ruled, c.zone) = {c.rate} /\ c.zone \in CeilingZones(ruled)
    <3>1. \A x \in Ceilings(ruled, Local) : x.rate = Rate(ruled, x.zone)
      BY RateOfZone
    <3> QED BY <3>1 DEF RatesOf, CeilingZones
  <2>4. jumps = {[ifname |-> c.ifname, zone |-> c.zone] : c \in mine}
    BY DEF CeilingJumps
  <2> HIDE DEF jumps, mine
  <2>5. ASSUME NEW t \in Police(i) PROVE \E c \in mine : t = <<"ipt", c.rate>>
    <3>1. PICK j \in jumps : \E r \in ipt.chains[j.zone] : t = <<"ipt", r>>
      BY <2>2, <2>5
    <3>2. PICK c \in mine : j.zone = c.zone
      BY <2>4
    <3> QED BY <2>1, <2>3, <3>1, <3>2
  <2>6. ASSUME NEW c \in mine PROVE <<"ipt", c.rate>> \in Police(i)
    <3> DEFINE j == [ifname |-> c.ifname, zone |-> c.zone]
    <3>1. j \in jumps /\ j.zone = c.zone
      BY <2>4
    <3> HIDE DEF j
    <3>2. c.rate \in ipt.chains[j.zone]
      BY <2>1, <2>3, <3>1
    <3>3. <<"ipt", c.rate>> \in {<<"ipt", r>> : r \in ipt.chains[j.zone]}
      BY <3>2
    <3> QED BY <2>2, <3>1, <3>3
  <2>7. Police(i) = {<<"ipt", c.rate>> : c \in mine}
    BY <2>5, <2>6
  <2> QED BY <1>2, <2>7 DEF mine
<1> QED BY <1>1, <1>2 DEF PolInv, LifeFacts, Installed

\* What an apply that met no failure leaves is what MarkedOnce says, where the names
\* are apart.
LEMMA MarksRight ==
    ASSUME PolInv, \A f \in Policies : NamesApart(f)
    PROVE  MarkedOnce
<1>0. /\ ruled \in Policies /\ Accepts(ruled) /\ NamesApart(ruled) /\ Nil # MarkTable(ruled, Local)
      /\ Local \in Names
  BY PolicyAssumption DEF PolInv
<1>1. ASSUME life = "whole"
      PROVE  /\ \A i \in Ifs(ruled) :
                   Police(i) = {<<record, c.rate>> : c \in {x \in Ceilings(ruled, Local) : x.ifname = i}}
             /\ DOMAIN ipt.chains \subseteq {c.zone : c \in Ceilings(ruled, Local)}
  <2>1. CASE ipt = NoIpt
    <3>1. DOMAIN ipt.chains = {}
      BY <2>1 DEF NoIpt
    <3> QED BY <1>1, <3>1, PolicedOnce
  <2>2. CASE DOMAIN ipt.chains = CeilingZones(ruled)
    BY <1>1, <2>2, PolicedOnce DEF CeilingZones
  <2> QED BY <1>1, <2>1, <2>2 DEF PolInv, LifeFacts, Installed
<1>2. ASSUME life = "whole", record = "nft"
      PROVE  /\ \A i \in Ifs(ruled), p \in {"ospf", "bfd"} : \A r \in Walk(mark.out, i, p) : r.to # "set"
             /\ \A w \in WorkloadRows(ruled, Local), z \in Zones(ruled) : \A o \in ZoneIfs(ruled, Local, z.name) :
                   Permitted(ruled, Local, LegIf(w), o) =>
                       {r.dscp : r \in {x \in mark.forward : x.in = LegIf(w) /\ o \in x.on}} = {z.dscp}
  <2>1. mark = MarkTable(ruled, Local)
    BY <1>2 DEF PolInv, LifeFacts, Installed
  <2>2. mark.out = OutChain(ruled, Local) /\ mark.forward = ForwardChain(ruled, Local)
    BY <2>1 DEF MarkTable
  <2>3. ASSUME NEW i, NEW p \in {"ospf", "bfd"}, NEW r \in Walk(mark.out, i, p) PROVE r.to # "set"
    BY <1>0, <2>2, <2>3, ControlUnmarked
  <2>4. ASSUME NEW w \in WorkloadRows(ruled, Local), NEW z \in Zones(ruled), NEW o \in ZoneIfs(ruled, Local, z.name),
               Permitted(ruled, Local, LegIf(w), o)
        PROVE  {r.dscp : r \in {x \in mark.forward : x.in = LegIf(w) /\ o \in x.on}} = {z.dscp}
    BY <1>0, <2>2, <2>4, MarkedAsZone
  <2> QED BY <2>3, <2>4
<1>3. life = "stopped" => mark = Nil /\ ipt = NoIpt
  BY DEF PolInv, LifeFacts
<1> QED BY <1>1, <1>2, <1>3 DEF MarkedOnce

-----------------------------------------------------------------------------
(* policy-teeth: what each of its tests finds.                             *)

\* The command is at a test, with what the tests before it found.
TeethInv ==
    \/ teeth = [at |-> 0]
    \/ \E a \in 1..7, f \in Policies :
          /\ teeth = [at |-> a, of |-> f, red |-> {n \in 1..5 : n < a /\ ~Result(f, n)}]
          /\ a > 1 => CanTest(f)

\* Every step keeps it.
LEMMA TeethKept == TeethInv /\ [PolNext]_polVars => TeethInv'
<1> SUFFICES ASSUME TeethInv, [PolNext]_polVars PROVE TeethInv'
  OBVIOUS
<1>1. ASSUME NEW f \in Policies, StartApply(f) \/ TeethStart(f) PROVE TeethInv'
  <2>1. {n \in 1..5 : n < 1 /\ ~Result(f, n)} = {}
    OBVIOUS
  <2>2. CASE StartApply(f)
    BY <2>2 DEF StartApply, TeethInv
  <2>3. CASE TeethStart(f)
    <3>1. teeth' = [at |-> 1, of |-> f, red |-> {n \in 1..5 : n < 1 /\ ~Result(f, n)}]
      BY <2>1, <2>3 DEF TeethStart
    <3>2. 1 \in 1..7 /\ ~(1 > 1)
      OBVIOUS
    <3> QED BY <3>1, <3>2, Zenon DEF TeethInv
  <2> QED BY <1>1, <2>2, <2>3
<1>2. CASE LoadPolicy \/ RecordBackend \/ RemoveOther \/ LoadMark \/ RestoreIpt \/ JumpIpt \/ SweepIpt
           \/ Interrupted \/ KeepsOther \/ Stop \/ Gains \/ Connects \/ UNCHANGED polVars
  <2>1. teeth' = teeth
    BY <1>2 DEF LoadPolicy, RecordBackend, RemoveOther, LoadMark, RestoreIpt, JumpIpt, SweepIpt, Interrupted,
                KeepsOther, Stop, Gains, Connects, polVars
  <2> QED BY <2>1 DEF TeethInv
<1>3. CASE Reboot \/ TeethFails \/ TeethErrs
  BY <1>3 DEF Reboot, TeethFails, TeethErrs, TeethInv
<1>4. CASE TeethStep
  <2>1. teeth # [at |-> 0]
    BY <1>4 DEF TeethStep
  <2>2. PICK a \in 1..7, f \in Policies :
          teeth = [at |-> a, of |-> f, red |-> {n \in 1..5 : n < a /\ ~Result(f, n)}]
    BY <2>1 DEF TeethInv
  <2> DEFINE before == {n \in 1..5 : n < a /\ ~Result(f, n)}
             after == {n \in 1..5 : n < a + 1 /\ ~Result(f, n)}
  <2>3. teeth.at = a /\ teeth.of = f /\ teeth.red = before
    BY <2>2
  <2>4. a \in 1..5 /\ CanTest(f)
        /\ teeth' = [at |-> a + 1, of |-> f, red |-> before \cup (IF Result(f, a) THEN {} ELSE {a})]
    BY <1>4, <2>3 DEF TeethStep
  <2>5. before \cup (IF Result(f, a) THEN {} ELSE {a}) = after
    BY <2>4
  <2>6. a + 1 \in 1..7 /\ teeth' = [at |-> a + 1, of |-> f, red |-> after]
    BY <2>4, <2>5
  <2> QED BY <2>4, <2>6 DEF TeethInv
<1>5. CASE TeethSays
  <2>1. teeth # [at |-> 0]
    BY <1>5 DEF TeethSays
  <2>2. PICK a \in 1..7, f \in Policies :
          /\ teeth = [at |-> a, of |-> f, red |-> {n \in 1..5 : n < a /\ ~Result(f, n)}]
          /\ a > 1 => CanTest(f)
    BY <2>1 DEF TeethInv
  <2>3. a = 6
    BY <1>5, <2>2 DEF TeethSays
  <2>4. {n \in 1..5 : n < 7 /\ ~Result(f, n)} = {n \in 1..5 : n < a /\ ~Result(f, n)}
    BY <2>3
  <2>5. teeth' = [at |-> 7, of |-> f, red |-> {n \in 1..5 : n < a /\ ~Result(f, n)}]
    BY <1>5, <2>2 DEF TeethSays
  <2>6. 7 \in 1..7 /\ CanTest(f) /\ teeth' = [at |-> 7, of |-> f, red |-> {n \in 1..5 : n < 7 /\ ~Result(f, n)}]
    BY <2>2, <2>3, <2>4, <2>5
  <2> QED BY <2>6, Zenon DEF TeethInv
<1> QED BY <1>1, <1>2, <1>3, <1>4, <1>5 DEF PolNext

\* Every zone has a first segment: its primary domain has one.
LEMMA FirstSegment ==
    ASSUME NEW f, Accepts(f), NEW z \in Zones(f)
    PROVE  z.segs \in Seq(Range(z.segs)) /\ 1 \in DOMAIN z.segs
<1>1. z.segs \in Seq(Range(z.segs))
  BY DEF Accepts, Resolves, Typed
<1>2. z.primary \in {z.segs[k].domain : k \in DOMAIN z.segs}
  BY DEF Accepts, ZonesSound, PrimaryHasSegment, InZone
<1>3. PICK k \in DOMAIN z.segs : z.segs[k].domain = z.primary
  BY <1>2
<1> QED BY <1>1, <1>3

\* An interface the fixture has for a zone is the zone's on this member, and nothing
\* else there.
LEMMA FixtureIf ==
    ASSUME NEW f, Accepts(f), NamesApart(f), CanTest(f), NEW z \in Zones(f), NEW n \in DOMAIN z.segs, n <= 2
    PROVE  NthIf(f, z.name, n) \in ZoneIfs(f, Local, z.name) \ AdminIfs(f, Local)
<1> DEFINE i == z.segs[n].ifname
<1>0. Typed(f) /\ SegmentsDistinct(f)
  BY DEF Accepts, Resolves
<1>1. NthIf(f, z.name, n) = i /\ z.name \in ZoneNames(f) /\ ZoneOf(f, z.name) = z
  BY ZoneFound DEF NthIf, ZoneNames
<1>2. PICK k \in DOMAIN f.zones : f.zones[k] = z
  BY DEF Zones, Range
<1>3. n \in Nat \ {0}
  BY FirstSegment
<1> DEFINE key == <<k, n>>
<1>4. key \in SegKeys(f)
  <2>1. n \in DOMAIN f.zones[k].segs \cup {0 : u \in f.zones[k].universal}
    BY <1>2
  <2> HIDE DEF i
  <2> QED BY <2>1 DEF SegKeys
<1>5. SegAt(f, key) = z.segs[n] /\ f.zones[key[1]] = z
  BY <1>2, <1>3 DEF SegAt
<1> HIDE DEF key
<1>6. i \notin NicIfs(f, Local) /\ i # Foreign0 /\ i # Foreign1
  BY <1>4, <1>5 DEF NamesApart
<1>7. i \notin AdminIfs(f, Local)
  BY <1>6 DEF AdminIfs
<1>8. i \in Fixture(f)
  BY <1>1 DEF CanTest
<1>9. PICK r \in ClassRows(f, Local) \cup FallbackRows(f, Local) : r.ifname = i
  BY <1>6, <1>7, <1>8 DEF Fixture, TestedIfs
<1>10. PICK l \in SegKeys(f) : r.zone = f.zones[l[1]].name /\ r.ifname = SegAt(f, l).ifname
  BY <1>0, RowKey
<1>11. l = key
  BY <1>0, <1>4, <1>5, <1>9, <1>10 DEF SegmentsDistinct, IsInjective
<1>12. r.zone = z.name
  BY <1>5, <1>10, <1>11
<1>13. i \in ZoneIfs(f, Local, z.name)
  BY <1>9, <1>12 DEF ZoneIfs, ZoneRows
<1> QED BY <1>1, <1>7, <1>13

\* An interface of a zone is cfab's.
LEMMA ZoneIfOwned ==
    ASSUME NEW f, NEW m, NEW zone, NEW i \in ZoneIfs(f, m, zone)
    PROVE  i \in Owned(f, m)
BY DEF ZoneIfs, Owned, TransitIfs, RowIfs

\* The fixture's other stack is none of cfab's interfaces, and has no name like a
\* wire's or a leg's.
LEMMA StackForeign ==
    ASSUME NEW f, Accepts(f), CanTest(f), NEW i \in {Foreign0, Foreign1}
    PROVE  i \notin Owned(f, Local) /\ i \notin AdminIfs(f, Local)
<1>1. i[1] = "foreign"
  BY DEF Foreign0, Foreign1
<1>2. /\ \A z : GwIf(z)[1] = "gw" /\ \A j \in IdentityIfs(z) : j[1] \in {"id", "peer"}
      /\ \A w : LegIf(w)[1] = "work" /\ NicIf(w)[1] = "nic"
      /\ \A b, d : PortIf(b, d)[1] \in {"work", "port"}
  BY DEF GwIf, IdentityIfs, LegIf, NicIf, PortIf
<1>3. i \notin NicIfs(f, Local) /\ i \notin AllIdentityIfs(f) /\ i \notin LegIfs(f, Local)
  BY <1>1, <1>2 DEF NicIfs, AllIdentityIfs, LegIfs
<1>4. i \notin AdminIfs(f, Local)
  BY <1>3 DEF AdminIfs
<1>5. \A r \in ClassRows(f, Local) \cup FallbackRows(f, Local) : r.ifname # i
  BY DEF CanTest, TestedIfs
<1>6. \A r \in GwRows(f, Local) : r.ifname # i
  BY <1>1, <1>2, GwRowOf
<1>7. ASSUME NEW r \in FallbackRows(f, Local) \cup GwRows(f, Local), NEW p \in r.ports PROVE p # i
  <2>1. \E b : r.ports = Ports(f, Local, b)
    <3>1. CASE r \in FallbackRows(f, Local)
      BY <3>1, FallbackRowOf
    <3>2. CASE r \in GwRows(f, Local)
      BY <1>7, <3>2, GwRowOf
    <3> QED BY <3>1, <3>2
  <2>2. \E b, d : p = PortIf(b, d)
    BY <2>1 DEF Ports
  <2> QED BY <1>1, <1>2, <2>2
<1>8. i \notin RowIfs(f, Local) /\ i \notin PortIfs(f, Local)
  BY <1>5, <1>6, <1>7 DEF RowIfs, ZoneRows, PortIfs
<1> QED BY <1>3, <1>4, <1>8 DEF Owned, NeverForward, TransitIfs

\* An interface of the admin plane is cfab's, and neither a leg's nor in a zone.
LEMMA AdminAlone ==
    ASSUME NEW f, Accepts(f), CanTest(f), NEW i \in AdminIfs(f, Local)
    PROVE  /\ i \in Owned(f, Local)
           /\ \A w \in WorkloadRows(f, Local) : LegIf(w) # i
           /\ \A zone : i \notin ZoneIfs(f, Local, zone)
<1>1. i \in NicIfs(f, Local) /\ i[1] = "nic"
  BY DEF AdminIfs, NicIfs, NicIf
<1>2. \A z : GwIf(z)[1] = "gw" /\ \A w : LegIf(w)[1] = "work"
  BY DEF GwIf, LegIf
<1>3. \A r \in GwRows(f, Local) : r.ifname # i
  BY <1>1, <1>2, GwRowOf
<1>4. \A r \in ClassRows(f, Local) \cup FallbackRows(f, Local) : r.ifname # i
  BY DEF CanTest, TestedIfs
<1>5. \A zone : i \notin ZoneIfs(f, Local, zone)
  BY <1>3, <1>4 DEF ZoneIfs, ZoneRows
<1>6. i \in Owned(f, Local)
  BY <1>1 DEF Owned, NeverForward
<1> QED BY <1>1, <1>2, <1>5, <1>6

\* No packet between interfaces of two zones is a row's.
LEMMA ZonesNoLeg ==
    ASSUME NEW f, Accepts(f), NEW a, NEW i \in ZoneIfs(f, Local, a), NEW spliced, NEW o
    PROVE  ~LegReaches(f, Local, spliced, i, o)
BY PolicyAssumption, LegInNoZone DEF LegReaches

\* Whether interfaces of two zones reach each other is whether the pair is allowed.
LEMMA ZonePing ==
    ASSUME NEW f, Accepts(f), NamesApart(f), NEW allow, allow \subseteq ZoneNames(f) \X ZoneNames(f),
           NEW a, NEW b,
           NEW i \in ZoneIfs(f, Local, a) \ AdminIfs(f, Local), NEW o \in ZoneIfs(f, Local, b) \ AdminIfs(f, Local)
    PROVE  Ping(Chain(AdminPlane(f, Local), ForeignTransit(f, Local), Allowed(f, Local, allow, {})), i, o)
              <=> <<a, b>> \in allow
<1> DEFINE chain == Chain(AdminPlane(f, Local), ForeignTransit(f, Local), Allowed(f, Local, allow, {}))
<1>1. i \in Owned(f, Local) /\ ~LegReaches(f, Local, {}, i, o) /\ ~LegReaches(f, Local, {}, o, i)
  BY ZoneIfOwned, ZonesNoLeg
<1>2. Verdict(chain, o, i, "established") = "accept"
  BY PolicyVerdict
<1>3. Verdict(chain, i, o, "new") = "accept" <=>
        \E p \in allow : i \in ZoneIfs(f, Local, p[1]) /\ o \in ZoneIfs(f, Local, p[2])
  BY <1>1, PolicyVerdict
<1>4. ASSUME NEW p \in allow, i \in ZoneIfs(f, Local, p[1]), o \in ZoneIfs(f, Local, p[2])
      PROVE  <<a, b>> \in allow
  <2>1. p[1] = a /\ p[2] = b
    BY <1>4, ZonesApart
  <2>2. p = <<p[1], p[2]>>
    BY <1>4
  <2> QED BY <2>1, <2>2
<1>5. ASSUME <<a, b>> \in allow
      PROVE  \E p \in allow : i \in ZoneIfs(f, Local, p[1]) /\ o \in ZoneIfs(f, Local, p[2])
  <2>1. <<a, b>>[1] = a /\ <<a, b>>[2] = b
    OBVIOUS
  <2> QED BY <1>5, <2>1
<1> QED BY <1>2, <1>3, <1>4, <1>5 DEF Ping

\* Nothing reaches the admin plane, and it reaches nothing.
LEMMA AdminPing ==
    ASSUME NEW f, NEW i, NEW o, i \in AdminIfs(f, Local) \/ o \in AdminIfs(f, Local)
    PROVE  ~Ping(Policy(f, Local), i, o)
BY PolicyVerdict DEF Ping, Policy

\* policy-teeth, the matrix: it finds the policy of an accepted declaration right.
LEMMA MatrixGreen ==
    ASSUME NEW f, Accepts(f), NamesApart(f), CanTest(f)
    PROVE  Matrix(f, Policy(f, Local))
<1> DEFINE storage == FirstIf(f, "storage")
           second(a, b) == IF a = b THEN NthIf(f, b, 2) ELSE FirstIf(f, b)
           A == AdminIfs(f, Local)
           P == Policy(f, Local)
<1>0. f.allow \subseteq ZoneNames(f) \X ZoneNames(f) /\ "storage" \in ZoneNames(f)
  BY DEF Accepts, AllowKnown, CanTest
<1>1. ASSUME NEW z \in ZoneNames(f) PROVE FirstIf(f, z) \in ZoneIfs(f, Local, z) \ A
  <2>1. ZoneOf(f, z) \in Zones(f) /\ ZoneOf(f, z).name = z
    BY ZoneOfName
  <2> QED BY <2>1, FirstSegment, FixtureIf DEF FirstIf
<1>2. ASSUME NEW z \in ZoneNames(f), Len(ZoneOf(f, z).segs) > 1 PROVE NthIf(f, z, 2) \in ZoneIfs(f, Local, z) \ A
  <2>1. ZoneOf(f, z) \in Zones(f) /\ ZoneOf(f, z).name = z
    BY ZoneOfName
  <2>2. ZoneOf(f, z).segs \in Seq(Range(ZoneOf(f, z).segs))
    BY <2>1, FirstSegment
  <2>3. 2 \in DOMAIN ZoneOf(f, z).segs
    BY <1>2, <2>2
  <2> QED BY <2>1, <2>3, FixtureIf
<1>3. ASSUME NEW a \in ZoneNames(f), NEW b \in ZoneNames(f), a # b \/ Len(ZoneOf(f, b).segs) > 1
      PROVE  Ping(P, FirstIf(f, a), second(a, b)) <=> <<a, b>> \in f.allow
  <2>1. second(a, b) \in ZoneIfs(f, Local, b) \ A
    BY <1>1, <1>2, <1>3
  <2> HIDE DEF second
  <2> QED BY <1>0, <1>1, <2>1, ZonePing DEF Policy
<1>4. ASSUME NEW i \in A PROVE ~Ping(P, i, storage) /\ ~Ping(P, storage, i) /\ ~Ping(P, i, Foreign0)
  BY AdminPing
<1>5. /\ Foreign0 \notin Owned(f, Local) /\ Foreign0 \notin A
      /\ Foreign1 \notin Owned(f, Local) /\ Foreign1 \notin A
  BY StackForeign
<1>6. Ping(P, Foreign0, Foreign1)
  BY <1>5, PolicyVerdict DEF Ping, Policy
<1>7. storage \in ZoneIfs(f, Local, "storage")
  BY <1>0, <1>1
<1> HIDE DEF storage
<1>8. /\ storage \in Owned(f, Local) /\ \A zone : Foreign0 \notin ZoneIfs(f, Local, zone)
      /\ ~LegReaches(f, Local, {}, storage, Foreign0)
  BY <1>5, <1>7, ZoneIfOwned, ZonesNoLeg
<1>9. ~LegReaches(f, Local, {}, Foreign0, storage)
  BY <1>5 DEF LegReaches, Owned, TransitIfs, LegIfs
<1>10. ~Ping(P, Foreign0, storage) /\ ~Ping(P, storage, Foreign0)
  BY <1>8, <1>9, PolicyVerdict DEF Ping, Policy
<1> QED BY <1>3, <1>4, <1>6, <1>10 DEF Matrix, storage

\* ... its tests: the second and the fourth are green, and the third is where storage
\* may reach storage.
LEMMA TestsBite ==
    ASSUME NEW f, Accepts(f), NamesApart(f), CanTest(f)
    PROVE  /\ Ping(Regressed(f), FirstIf(f, "storage"), FirstIf(f, "cluster"))
           /\ ~Ping(Unscoped(f), Foreign0, Foreign1)
           /\ (\A i \in AdminIfs(f, Local) : Ping(Spliced(f), i, FirstIf(f, "storage")))
                 <=> <<"storage", "storage">> \in f.allow
<1> DEFINE storage == FirstIf(f, "storage")
           A == AdminIfs(f, Local)
<1>0. /\ f.allow \subseteq ZoneNames(f) \X ZoneNames(f) /\ A # {}
      /\ "storage" \in ZoneNames(f) /\ "cluster" \in ZoneNames(f)
  BY DEF Accepts, AllowKnown, CanTest
<1>1. ASSUME NEW z \in ZoneNames(f) PROVE FirstIf(f, z) \in ZoneIfs(f, Local, z) \ A
  <2>1. ZoneOf(f, z) \in Zones(f) /\ ZoneOf(f, z).name = z
    BY ZoneOfName
  <2> QED BY <2>1, FirstSegment, FixtureIf DEF FirstIf
<1>2. Ping(Regressed(f), FirstIf(f, "storage"), FirstIf(f, "cluster"))
  <2> DEFINE more == f.allow \cup {<<"storage", "cluster">>}
  <2>1. more \subseteq ZoneNames(f) \X ZoneNames(f) /\ <<"storage", "cluster">> \in more
    BY <1>0
  <2> HIDE DEF more
  <2>2. Ping(Chain(AdminPlane(f, Local), ForeignTransit(f, Local), Allowed(f, Local, more, {})),
             FirstIf(f, "storage"), FirstIf(f, "cluster"))
    BY <1>0, <1>1, <2>1, ZonePing
  <2> QED BY <2>2 DEF Regressed, more
<1>3. ~Ping(Unscoped(f), Foreign0, Foreign1)
  <2>1. Foreign0 \notin Owned(f, Local) /\ Foreign1 \notin Owned(f, Local)
    BY StackForeign
  <2>2. \A zone : Foreign0 \notin ZoneIfs(f, Local, zone)
    BY <2>1, ZoneIfOwned
  <2>3. ~LegReaches(f, Local, {}, Foreign0, Foreign1) /\ ~LegReaches(f, Local, {}, Foreign1, Foreign0)
    BY <2>1 DEF LegReaches, Owned, TransitIfs, LegIfs
  <2>4. ~Takes(Allowed(f, Local, f.allow, {}), Foreign0, Foreign1, "new")
    BY <2>2, <2>3, AllowedTakes, NothingSpliced
  <2>5. ~Takes({}, Foreign0, Foreign1, "new")
    BY DEF Takes
  <2>6. Verdict(Unscoped(f), Foreign0, Foreign1, "new") # "accept"
    BY <2>4, <2>5, ChainVerdict DEF Unscoped
  <2> QED BY <2>6 DEF Ping
<1>4. ASSUME NEW i \in A PROVE Ping(Spliced(f), i, storage) <=> <<"storage", "storage">> \in f.allow
  <2>1. storage \in ZoneIfs(f, Local, "storage")
    BY <1>0, <1>1
  <2>2. /\ i \in Owned(f, Local) /\ \A zone : i \notin ZoneIfs(f, Local, zone)
        /\ ~LegReaches(f, Local, A, i, storage) /\ ~LegReaches(f, Local, A, storage, i)
    BY <2>1, AdminAlone, ZonesNoLeg DEF LegReaches
  <2>3. \A ct \in {"new", "established"} : ~Takes({}, i, storage, ct) /\ ~Takes({}, storage, i, ct)
    BY DEF Takes
  <2>4. Verdict(Spliced(f), storage, i, "established") = "accept"
    BY <2>3, ChainVerdict DEF Spliced
  <2>5. ~Takes(ForeignTransit(f, Local), i, storage, "new")
    BY <2>2, ForeignTakes
  <2> HIDE DEF storage, A
  <2>6. Verdict(Spliced(f), i, storage, "new") = "accept" <=>
          \E p \in f.allow : i \in SetOf(f, Local, p[1], A) /\ storage \in SetOf(f, Local, p[2], A)
    BY <2>2, <2>3, <2>5, ChainVerdict, AllowedTakes DEF Spliced, A
  <2>7. ASSUME NEW p \in f.allow, i \in SetOf(f, Local, p[1], A), storage \in SetOf(f, Local, p[2], A)
        PROVE  <<"storage", "storage">> \in f.allow
    <3>1. p[1] = "storage"
      BY <2>2, <2>7 DEF SetOf
    <3>2. p[2] = "storage"
      <4>1. CASE storage \in ZoneIfs(f, Local, p[2])
        BY <2>1, <4>1, ZonesApart
      <4>2. CASE storage \notin ZoneIfs(f, Local, p[2])
        BY <2>7, <4>2 DEF SetOf
      <4> QED BY <4>1, <4>2
    <3>3. p = <<p[1], p[2]>>
      BY <1>0, <2>7
    <3> QED BY <3>1, <3>2, <3>3
  <2>8. ASSUME <<"storage", "storage">> \in f.allow
        PROVE  \E p \in f.allow : i \in SetOf(f, Local, p[1], A) /\ storage \in SetOf(f, Local, p[2], A)
    <3>1. i \in SetOf(f, Local, "storage", A) /\ storage \in SetOf(f, Local, "storage", A)
      BY <1>4, <2>1 DEF SetOf
    <3>2. <<"storage", "storage">>[1] = "storage" /\ <<"storage", "storage">>[2] = "storage"
      OBVIOUS
    <3> QED BY <2>8, <3>1, <3>2
  <2> QED BY <2>4, <2>6, <2>7, <2>8 DEF Ping
<1> QED BY <1>0, <1>2, <1>3, <1>4

\* What the command says at its end.
LEMMA TeethRight ==
    ASSUME TeethInv, \A f \in Policies : NamesApart(f)
    PROVE  TeethFair
<1> SUFFICES ASSUME teeth.at = 7 PROVE teeth.red = {} <=> <<"storage", "storage">> \in teeth.of.allow
  BY DEF TeethFair
<1>1. teeth # [at |-> 0]
  OBVIOUS
<1>2. PICK a \in 1..7, f \in Policies :
        /\ teeth = [at |-> a, of |-> f, red |-> {n \in 1..5 : n < a /\ ~Result(f, n)}]
        /\ a > 1 => CanTest(f)
  BY <1>1 DEF TeethInv
<1>3. a = 7 /\ teeth.of = f /\ teeth.red = {n \in 1..5 : n < a /\ ~Result(f, n)} /\ CanTest(f)
  BY <1>2
<1>4. Accepts(f) /\ NamesApart(f)
  BY PolicyAssumption
<1>5. Result(f, 1) /\ Result(f, 2) /\ Result(f, 4) /\ Result(f, 5)
  BY <1>3, <1>4, MatrixGreen, TestsBite DEF Result
<1>6. Result(f, 3) <=> <<"storage", "storage">> \in f.allow
  BY <1>3, <1>4, TestsBite DEF Result
<1>7. teeth.red = {} <=> Result(f, 3)
  BY <1>3, <1>5
<1> QED BY <1>3, <1>6, <1>7

\* The policy, the marks and ceilings, and the command that tests the policy are as
\* PolicyHolds says after every sequence of applies, failures, teardowns, restarts and
\* tests, of any declarations that validate accepts and whose names are apart.
THEOREM PolicyKept ==
    ASSUME \A f \in Policies : NamesApart(f)
    PROVE  PolSpec => []PolicyHolds
<1>1. PolInit => PolInv /\ TeethInv
  BY PolStart DEF PolInit, TeethInv
<1>2. PolInv /\ TeethInv /\ [PolNext]_polVars => (PolInv /\ TeethInv)'
  BY PolStep, TeethKept
<1>3. PolInv /\ TeethInv => MarkedOnce /\ TeethFair
  BY MarksRight, TeethRight
<1>4. MarkedOnce /\ TeethFair /\ OnlyDeclared => PolicyHolds
  BY DEF PolicyHolds
<1> QED BY <1>1, <1>2, <1>3, <1>4, OnlyDeclaredForwards, PTL DEF PolSpec
=============================================================================
