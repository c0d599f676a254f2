-------------------------- MODULE SupervisorProofs --------------------------
(***************************************************************************)
(* What the supervisor guarantees for every set of children and every      *)
(* number of deaths, failed spawns and re-applies.  That it loses no child *)
(* needs nothing of the children.  That a child has one process, that a    *)
(* stop reaches it and that a clean exit is clean need that the children a *)
(* re-apply restarts, and the engine, obey SIGTERM within their grace.     *)
(***************************************************************************)
EXTENDS Supervisor, SequenceTheorems, FiniteSetTheorems, TLAPS

\* A re-apply that is under way has a child to restart.
HasTodo == mode \in {"restart", "drain", "relaunch"} => todo # <<>>

TypeInv == TypeOK /\ HasTodo

\* The two halves of TypeOK: the children, and everything else.
ChildrenOK ==
    /\ state \in [Names -> {"stopped", "starting", "running", "restarting"}]
    /\ \A n \in Names : state[n] = "starting" => n = Engine
    /\ want \in [Names -> BOOLEAN] /\ pid \in [Names -> 0..MaxSpawn]
    /\ pending \subseteq Names
    /\ proc \in [Names -> [Pids -> {"none", "live", "term", "kill", "gone"}]]
MainOK ==
    /\ mode \in Modes /\ exits \in Seq(Names)
    /\ todo \in Seq(Names) /\ alive \subseteq Names
    /\ reload \in BOOLEAN /\ fabric \in BOOLEAN /\ refused \in BOOLEAN
    /\ code \in {"none", "ok", "refused", "reload"}
    /\ deaths \in 0..MaxDeath /\ fails \in 0..MaxFail /\ cmds \in 0..MaxCmd

\* The exit of a child is in the channel.
Posted(n) == \E i \in DOMAIN exits : exits[i] = n

\* The supervisor knows what has become of a child.
Tracked(n) ==
    /\ want[n]
    /\ pid[n] = 0 <=> n \in pending
    /\ pid[n] = 0 <=> state[n] = "restarting"
    /\ pid[n] # 0 => proc[n][pid[n]] = "live" \/ Posted(n)

\* The child restart_child() is busy with.
Moving(n) == mode \in {"drain", "relaunch"} /\ n = Head(todo)

\* While it supervises, every child but the one that is being restarted is
\* tracked; during the start, the engine is.
TrackInv ==
    /\ mode \in {"ready", "launch"} => Tracked(Engine)
    /\ mode \in {"loop", "restart", "drain", "relaunch"} =>
          \A n \in Names : ~Moving(n) => Tracked(n)

\* The children that are waited for exit on SIGTERM.
Obedient ==
    Engine \notin Unwilling /\ \A i \in DOMAIN Restarted : Restarted[i] \notin Unwilling

\* A process that has not ended is the one the table names, and the channel
\* holds the exit of a child, once, exactly when the named process has ended.
Agrees(n) ==
    /\ \A k \in Pids : k # pid[n] => proc[n][k] \in {"none", "gone"}
    /\ pid[n] # 0 => proc[n][pid[n]] # "none"
    /\ Posted(n) <=> pid[n] # 0 /\ proc[n][pid[n]] = "gone"

\* A child is launched when the table names no process of it.
Launchable ==
    /\ mode = "apply" => pid[Engine] = 0
    /\ mode \in {"apply", "ready", "launch"} => \A n \in Names \ {Engine} : pid[n] = 0
    /\ mode = "relaunch" => pid[Head(todo)] = 0
    /\ \A i \in DOMAIN todo : todo[i] \notin Unwilling

\* What the stop sequence has reached.
StopInv ==
    /\ mode = "reap" => alive = {n \in Names : pid[n] # 0}
    /\ mode \in {"reap", "teardown"} \/ (mode = "exit" /\ code # "refused")
          => \A n \in Names : Live(n) = {}
    /\ mode = "teardown" => ~LockHeld
    /\ code # "none" => mode = "exit"
    /\ code = "ok" => ~fabric

PostedOnce == \A i, j \in DOMAIN exits : exits[i] = exits[j] => i = j

AgreeInv == PostedOnce /\ \A n \in Names : Agrees(n)

-----------------------------------------------------------------------------
(* The operations on the table of children.                                *)

\* What launch() of a set of children does to each of them, and to the others.
LaunchEffect(S, F) ==
    /\ \A n \in S : want'[n]
    /\ \A n \in F : /\ pid'[n] = 0 /\ proc'[n] = proc[n] /\ n \in pending'
                    /\ state'[n] = "restarting"
    /\ \A n \in S \ F : /\ pid'[n] \in Unused(n) /\ n \notin pending'
                        /\ state'[n] = Spawned(n)
                        /\ proc'[n] = [proc[n] EXCEPT ![pid'[n]] = "live"]
    /\ \A n \in Names \ S : /\ want'[n] = want[n] /\ state'[n] = state[n]
                            /\ pid'[n] = pid[n] /\ proc'[n] = proc[n]
                            /\ n \in pending' <=> n \in pending

\* launch() starts what it can, schedules what it cannot, and leaves every other
\* child alone.
LEMMA LaunchDoes ==
    ASSUME TypeOK, NEW S \in SUBSET Names, NEW F \in SUBSET S, Launch(S, F)
    PROVE  LaunchEffect(S, F)
  <1> DEFINE next == [n \in S \ F |-> CHOOSE k \in Unused(n) : TRUE]
  <1>1. \A n \in S \ F : next[n] \in Unused(n)
    BY DEF Launch
  <1>2. /\ pid' = [n \in Names |-> IF n \in F THEN 0
                                   ELSE IF n \in S THEN next[n] ELSE pid[n]]
        /\ proc' = [n \in Names |-> IF n \in S \ F
                                    THEN [proc[n] EXCEPT ![next[n]] = "live"]
                                    ELSE proc[n]]
        /\ want' = [n \in Names |-> n \in S \/ want[n]]
        /\ state' = [n \in Names |-> IF n \in F THEN "restarting"
                                     ELSE IF n \in S THEN Spawned(n) ELSE state[n]]
        /\ pending' = (pending \ S) \union F
    BY DEF Launch, Backoff
  <1> HIDE DEF next
  <1>3. \A n \in S : want'[n]
    BY <1>2
  <1>4. \A n \in F : /\ pid'[n] = 0 /\ proc'[n] = proc[n] /\ n \in pending'
                    /\ state'[n] = "restarting"
    BY <1>2
  <1>5. \A n \in S \ F : /\ pid'[n] \in Unused(n) /\ n \notin pending'
                         /\ state'[n] = Spawned(n)
                         /\ proc'[n] = [proc[n] EXCEPT ![pid'[n]] = "live"]
    BY <1>1, <1>2
  <1>6. \A n \in Names \ S : /\ want'[n] = want[n] /\ state'[n] = state[n]
                             /\ pid'[n] = pid[n] /\ proc'[n] = proc[n]
                             /\ n \in pending' <=> n \in pending
    BY <1>2 DEF TypeOK
  <1> QED
    BY <1>3, <1>4, <1>5, <1>6 DEF LaunchEffect

\* launch() keeps the types of what it changes.
LEMMA LaunchTyped ==
    ASSUME TypeOK, NEW S \in SUBSET Names, NEW F \in SUBSET S, Launch(S, F)
    PROVE  ChildrenOK' /\ fails' \in 0..MaxFail
  <1> USE SupervisorAssumption
  <1>0. LaunchEffect(S, F)
    BY LaunchDoes
  <1>1. /\ \A n \in F : pid'[n] = 0 /\ proc'[n] = proc[n]
        /\ \A n \in S \ F : /\ pid'[n] \in Unused(n)
                            /\ proc'[n] = [proc[n] EXCEPT ![pid'[n]] = "live"]
        /\ \A n \in Names \ S : pid'[n] = pid[n] /\ proc'[n] = proc[n]
    BY <1>0 DEF LaunchEffect
  <1>2. /\ want' = [n \in Names |-> n \in S \/ want[n]]
        /\ state' = [n \in Names |-> IF n \in F THEN "restarting"
                                     ELSE IF n \in S THEN Spawned(n) ELSE state[n]]
        /\ pending' = (pending \ S) \union F
        /\ fails' = fails + Cardinality(F) /\ fails + Cardinality(F) <= MaxFail
        /\ pid' = [n \in Names |-> pid'[n]] /\ proc' = [n \in Names |-> proc'[n]]
    BY DEF Launch, Backoff
  <1>3. /\ state' \in [Names -> {"stopped", "starting", "running", "restarting"}]
        /\ \A n \in Names : state'[n] = "starting" => n = Engine
    BY <1>2 DEF Spawned, TypeOK
  <1>4. want' \in [Names -> BOOLEAN]
    BY <1>2, Zenon DEF TypeOK
  <1>5. pending' \subseteq Names
    BY <1>2 DEF TypeOK
  <1>6. fails' \in 0..MaxFail
    <2>1. IsFiniteSet(F)
      BY FS_Subset
    <2>2. Cardinality(F) \in Nat
      BY <2>1, FS_CardinalityType
    <2> QED
      BY <1>2, <2>2 DEF TypeOK
  <1>7. pid' \in [Names -> 0..MaxSpawn]
    <2>1. MaxSpawn \in Nat /\ pid \in [Names -> 0..MaxSpawn]
      BY DEF MaxSpawn, TypeOK
    <2>2. \A n \in Names : Unused(n) \subseteq 0..MaxSpawn
      BY <2>1 DEF Unused, Pids
    <2>3. ASSUME NEW n \in Names PROVE pid'[n] \in 0..MaxSpawn
      <3>1. CASE n \in F
        BY <1>1, <2>1, <3>1
      <3>2. CASE n \in S \ F
        BY <1>1, <2>2, <3>2
      <3>3. CASE n \notin S
        BY <1>1, <2>1, <3>3
      <3> QED
        BY <3>1, <3>2, <3>3
    <2> QED
      BY <1>2, <2>3
  <1>8. proc' \in [Names -> [Pids -> {"none", "live", "term", "kill", "gone"}]]
    <2>1. \A n \in Names : proc'[n] \in [Pids -> {"none", "live", "term", "kill", "gone"}]
      BY <1>1, ZenonT(60) DEF TypeOK
    <2> QED
      BY <1>2, <2>1
  <1> QED
    BY <1>3, <1>4, <1>5, <1>6, <1>7, <1>8 DEF ChildrenOK

\* Taking an exit keeps the types of what it changes.
LEMMA TakeExitTyped ==
    ASSUME TypeOK, NEW n \in Names, TakeExit(n), proc' = proc, pending' \subseteq Names
    PROVE  ChildrenOK' /\ exits' \in Seq(Names)
  <1> USE SupervisorAssumption DEF TakeExit, Exited, TypeOK
  <1>1. exits' \in Seq(Names)
    BY HeadTailProperties
  <1>2. pid' \in [Names -> 0..MaxSpawn] /\ want' = want
    BY DEF MaxSpawn
  <1>3. state' \in [Names -> {"stopped", "starting", "running", "restarting"}]
    OBVIOUS
  <1>4. \A k \in Names : state'[k] = "starting" => k = Engine
    OBVIOUS
  <1> QED
    BY <1>1, <1>2, <1>3, <1>4 DEF ChildrenOK

\* A signal keeps the type of the table of processes.
LEMMA SignalTyped ==
    ASSUME TypeOK, NEW n, NEW k, NEW s \in {"term", "kill"}, Signal(n, k, s)
    PROVE  proc' \in [Names -> [Pids -> {"none", "live", "term", "kill", "gone"}]]
  BY DEF TypeOK, Signal

-----------------------------------------------------------------------------
(* Types.                                                                  *)

\* Both halves together are the type invariant.
LEMMA TypeHalves == TypeOK <=> ChildrenOK /\ MainOK
  BY DEF TypeOK, ChildrenOK, MainOK

\* The types hold at first.
LEMMA InitTypes == Init => TypeInv
  <1> SUFFICES ASSUME Init PROVE TypeInv
    OBVIOUS
  <1> USE SupervisorAssumption DEF Init
  <1>1. /\ mode \in Modes /\ HasTodo
        /\ state \in [Names -> {"stopped", "starting", "running", "restarting"}]
        /\ \A n \in Names : state[n] = "starting" => n = Engine
        /\ pending \subseteq Names /\ alive \subseteq Names
    BY DEF Modes, HasTodo
  <1>2. pid \in [Names -> 0..MaxSpawn]
    BY DEF MaxSpawn
  <1>3. want \in [Names -> BOOLEAN] /\ reload \in BOOLEAN /\ fabric \in BOOLEAN
        /\ refused \in BOOLEAN
    BY Zenon
  <1>4. proc \in [Names -> [Pids -> {"none", "live", "term", "kill", "gone"}]]
    OBVIOUS
  <1>5. exits \in Seq(Names) /\ todo \in Seq(Names)
    BY EmptySeq
  <1>6. /\ code \in {"none", "ok", "refused", "reload"}
        /\ deaths \in 0..MaxDeath /\ fails \in 0..MaxFail /\ cmds \in 0..MaxCmd
    OBVIOUS
  <1> QED
    BY <1>1, <1>2, <1>3, <1>4, <1>5, <1>6 DEF TypeInv, TypeOK

\* Every step keeps the types, and restart_child() is never run without a child.
LEMMA StepTypes == TypeInv /\ [Next]_vars => TypeInv'
  <1> SUFFICES ASSUME TypeOK, HasTodo, [Next]_vars PROVE ChildrenOK' /\ MainOK' /\ HasTodo'
    BY TypeHalves DEF TypeInv, TypeOK, ChildrenOK, MainOK
  <1>0. ChildrenOK /\ MainOK
    BY TypeHalves
  <1> DEFINE Goal == ChildrenOK' /\ MainOK' /\ HasTodo'
  <1> USE SupervisorAssumption
  <1>1. CASE UNCHANGED vars
    BY <1>0, <1>1 DEF vars, table, bounds, ChildrenOK, MainOK, HasTodo
  <1>2. ASSUME NEW n \in Names, NEW k \in Pids, Dies(n, k) \/ Obeys(n, k) PROVE Goal
    <2>1. /\ proc' = [proc EXCEPT ![n][k] = "gone"] /\ exits' = Append(exits, n)
          /\ UNCHANGED <<mode, table, pending, todo, alive, reload, fabric, refused, code,
                         fails, cmds>>
      BY <1>2 DEF Dies, Obeys, Reaped
    <2>2. deaths' \in 0..MaxDeath
      BY <1>0, <1>2 DEF Dies, Obeys, MainOK
    <2>3. exits' \in Seq(Names)
      BY <1>0, <2>1, AppendProperties DEF MainOK
    <2>4. proc' \in [Names -> [Pids -> {"none", "live", "term", "kill", "gone"}]]
      BY <1>0, <2>1 DEF ChildrenOK
    <2> QED
      BY <1>0, <2>1, <2>2, <2>3, <2>4 DEF ChildrenOK, MainOK, HasTodo, table
  <1>3. CASE ApplyRefused
    BY <1>0, <1>3 DEF ApplyRefused, Exit, ChildrenOK, MainOK, HasTodo, Modes, table, bounds
  <1>4. CASE ApplyAndLaunchEngine
    <2>1. PICK F \in SUBSET {Engine} : Launch({Engine}, F)
      BY <1>4 DEF ApplyAndLaunchEngine
    <2>2. ChildrenOK' /\ fails' \in 0..MaxFail
      BY <2>1, LaunchTyped
    <2> QED
      BY <1>0, <1>4, <2>2 DEF ApplyAndLaunchEngine, MainOK, HasTodo, Modes
  <1>5. CASE EngineAnswers \/ EngineSilent \/ ReadyTick
    BY <1>0, <1>5 DEF EngineAnswers, EngineSilent, ReadyTick, ChildrenOK, MainOK, HasTodo,
                      Modes, table, bounds
  <1>6. CASE ReadbackFails
    <2>1. proc' \in [Names -> [Pids -> {"none", "live", "term", "kill", "gone"}]]
      BY <1>6, SignalTyped DEF ReadbackFails
    <2> QED
      BY <1>0, <1>6, <2>1 DEF ReadbackFails, Exit, ChildrenOK, MainOK, HasTodo, Modes, bounds
  <1>7. CASE LaunchOthers
    <2>1. PICK F \in SUBSET (Names \ {Engine}) : Launch(Names \ {Engine}, F)
      BY <1>7 DEF LaunchOthers
    <2>2. ChildrenOK' /\ fails' \in 0..MaxFail
      BY <2>1, LaunchTyped
    <2> QED
      BY <1>0, <1>7, <2>2 DEF LaunchOthers, MainOK, HasTodo, Modes
  <1>8. ASSUME NEW n \in Names, HandleExit(n) PROVE Goal
    <2>1. TakeExit(n) /\ proc' = proc /\ pending' \subseteq Names
      BY <1>0, <1>8 DEF HandleExit, Reschedule, ChildrenOK
    <2>2. ChildrenOK' /\ exits' \in Seq(Names)
      BY <2>1, TakeExitTyped
    <2> QED
      BY <1>0, <1>8, <2>2 DEF HandleExit, MainOK, HasTodo, bounds
  <1>9. ASSUME NEW n \in Names, Respawn(n) PROVE Goal
    <2>1. PICK F \in SUBSET {n} : Launch({n}, F)
      BY <1>9 DEF Respawn
    <2>2. ChildrenOK' /\ fails' \in 0..MaxFail
      BY <2>1, LaunchTyped
    <2> QED
      BY <1>0, <1>9, <2>2 DEF Respawn, MainOK, HasTodo
  <1>10. CASE Command
    <2>1. ChildrenOK'
      BY <1>0, <1>10 DEF Command, Terminate, ReloadRefused, ReloadChanged, ReloadIdentical,
                         ChildrenOK, table
    <2>2. CASE Terminate \/ ReloadChanged
      BY <1>0, <2>1, <2>2 DEF Terminate, ReloadChanged, MainOK, HasTodo, Modes, bounds
    <2>3. CASE ReloadRefused
      BY <1>0, <2>1, <2>3 DEF ReloadRefused, MainOK, HasTodo
    <2>4. CASE ReloadIdentical
      BY <1>0, <2>1, <2>4 DEF ReloadIdentical, MainOK, HasTodo, Modes
    <2> QED
      BY <1>10, <2>2, <2>3, <2>4 DEF Command
  <1>11. CASE RestartSignal
    <2>1. proc' \in [Names -> [Pids -> {"none", "live", "term", "kill", "gone"}]]
      BY <1>0, <1>11, SignalTyped DEF RestartSignal, ChildrenOK
    <2> QED
      BY <1>0, <1>11, <2>1 DEF RestartSignal, ChildrenOK, MainOK, HasTodo, Modes, table, bounds
  <1>12. ASSUME NEW n \in Names, DrainExit(n) PROVE Goal
    <2>1. TakeExit(n) /\ proc' = proc /\ pending' \subseteq Names
      BY <1>0, <1>12 DEF DrainExit, OtherExit, Reschedule, ChildrenOK
    <2>2. ChildrenOK' /\ exits' \in Seq(Names)
      BY <2>1, TakeExitTyped
    <2> QED
      BY <1>0, <1>12, <2>2 DEF DrainExit, OtherExit, MainOK, HasTodo, Modes, bounds
  <1>13. CASE DrainTimeout
    <2>1. proc' \in [Names -> [Pids -> {"none", "live", "term", "kill", "gone"}]]
      BY <1>0, <1>13, SignalTyped DEF DrainTimeout, ChildrenOK
    <2> QED
      BY <1>0, <1>13, <2>1 DEF DrainTimeout, ChildrenOK, MainOK, HasTodo, Modes, table, bounds
  <1>14. CASE Relaunch
    <2>1. todo # <<>> /\ Head(todo) \in Names /\ Tail(todo) \in Seq(Names)
      BY <1>0, <1>14, HeadTailProperties DEF Relaunch, HasTodo, MainOK
    <2>2. PICK F \in SUBSET {Head(todo)} : Launch({Head(todo)}, F)
      BY <1>14 DEF Relaunch
    <2>3. ChildrenOK' /\ fails' \in 0..MaxFail
      BY <2>1, <2>2, LaunchTyped
    <2> QED
      BY <1>0, <1>14, <2>1, <2>3 DEF Relaunch, MainOK, HasTodo, Modes
  <1>15. CASE StopWanting
    <2>1. want' \in [Names -> BOOLEAN]
      BY <1>15, Zenon DEF StopWanting
    <2> QED
      BY <1>0, <1>15, <2>1 DEF StopWanting, ChildrenOK, MainOK, HasTodo, Modes, bounds
  <1>16. CASE TermAll
    BY <1>0, <1>16 DEF TermAll, Targets, ChildrenOK, MainOK, HasTodo, Modes, table, bounds
  <1>17. ASSUME NEW n \in Names, ReapExit(n) PROVE Goal
    <2>1. TakeExit(n) /\ proc' = proc /\ pending' \subseteq Names
      BY <1>0, <1>17 DEF ReapExit, ChildrenOK
    <2>2. ChildrenOK' /\ exits' \in Seq(Names)
      BY <2>1, TakeExitTyped
    <2> QED
      BY <1>0, <1>17, <2>2 DEF ReapExit, MainOK, HasTodo, bounds
  <1>18. CASE KillRest
    BY <1>0, <1>18 DEF KillRest, ChildrenOK, MainOK, HasTodo, Modes, table, bounds
  <1>19. CASE TeardownAndExit
    <2>1. fabric' \in BOOLEAN
      BY <1>0, <1>19, Zenon DEF TeardownAndExit, MainOK
    <2> QED
      BY <1>0, <1>19, <2>1 DEF TeardownAndExit, Exit, ChildrenOK, MainOK, HasTodo, Modes,
                               table, bounds
  <1> QED
    BY <1>1, <1>2, <1>3, <1>4, <1>5, <1>6, <1>7, <1>8, <1>9, <1>10, <1>11, <1>12, <1>13,
       <1>14, <1>15, <1>16, <1>17, <1>18, <1>19 DEF Next, Start, Reapply, Stop, Done

\* Every reachable state of the supervisor is well typed, whatever its children
\* do; in particular only the engine is ever waited for to become ready.
THEOREM TypeCorrect == Spec => []TypeOK
  <1>1. TypeInv => TypeOK
    BY DEF TypeInv
  <1> QED
    BY InitTypes, StepTypes, <1>1, PTL DEF Spec

-----------------------------------------------------------------------------
(* No child is lost.                                                       *)

\* Taking one child's exit leaves the others' in the channel.
LEMMA TakeKeepsPosted ==
    ASSUME exits \in Seq(Names), exits # <<>>, exits' = Tail(exits), NEW c, c # Head(exits)
    PROVE  Posted(c)' <=> Posted(c)
  <1>1. /\ Len(exits) \in Nat \ {0} /\ DOMAIN exits = 1..Len(exits)
        /\ DOMAIN Tail(exits) = 1..(Len(exits) - 1)
        /\ \A i \in 1..(Len(exits) - 1) : Tail(exits)[i] = exits[i + 1]
        /\ Head(exits) = exits[1]
    BY HeadTailProperties, EmptySeq, LenProperties
  <1>2. ASSUME NEW i \in DOMAIN exits, exits[i] = c PROVE Posted(c)'
    <2>1. i # 1 /\ i - 1 \in 1..(Len(exits) - 1) /\ (i - 1) + 1 = i
      BY <1>1, <1>2
    <2>2. Tail(exits)[i - 1] = c
      BY <1>1, <1>2, <2>1
    <2> QED
      BY <1>1, <2>1, <2>2 DEF Posted
  <1>3. ASSUME NEW i \in DOMAIN Tail(exits), Tail(exits)[i] = c PROVE Posted(c)
    <2>1. i + 1 \in DOMAIN exits /\ exits[i + 1] = c
      BY <1>1, <1>3
    <2> QED
      BY <2>1 DEF Posted
  <1> QED
    BY <1>2, <1>3 DEF Posted

\* An exit that is posted stays in the channel behind the ones before it.
LEMMA PostKeepsPosted ==
    ASSUME exits \in Seq(Names), NEW n \in Names, exits' = Append(exits, n), NEW c
    PROVE  Posted(c)' <=> Posted(c) \/ c = n
  <1>1. /\ Len(exits) \in Nat /\ DOMAIN exits = 1..Len(exits)
        /\ DOMAIN exits' = 1..(Len(exits) + 1)
        /\ \A i \in 1..Len(exits) : exits'[i] = exits[i]
        /\ exits'[Len(exits) + 1] = n
    BY AppendProperties, LenProperties
  <1>2. Posted(c) => Posted(c)'
    BY <1>1 DEF Posted
  <1>3. c = n => Posted(c)'
    BY <1>1 DEF Posted
  <1>4. Posted(c)' => Posted(c) \/ c = n
    <2>1. ASSUME NEW i \in DOMAIN exits', exits'[i] = c PROVE Posted(c) \/ c = n
      BY <1>1, <2>1 DEF Posted
    <2> QED
      BY <2>1 DEF Posted
  <1> QED
    BY <1>2, <1>3, <1>4

\* launch() tracks what it launches, started or not, and nothing else changes.
LEMMA LaunchTracks ==
    ASSUME TypeOK, NEW S \in SUBSET Names, NEW F \in SUBSET S, Launch(S, F), exits' = exits
    PROVE  /\ \A c \in S : Tracked(c)'
           /\ \A c \in Names \ S : Tracked(c) => Tracked(c)'
  <1>0. LaunchEffect(S, F)
    BY LaunchDoes
  <1>1. ASSUME NEW c \in F PROVE Tracked(c)'
    BY <1>0 DEF LaunchEffect, Tracked
  <1>2. ASSUME NEW c \in S \ F PROVE Tracked(c)'
    <2>1. /\ want'[c] /\ state'[c] = Spawned(c) /\ pid'[c] \in Unused(c) /\ c \notin pending'
          /\ proc'[c] = [proc[c] EXCEPT ![pid'[c]] = "live"]
      BY <1>0 DEF LaunchEffect
    <2>2. pid'[c] \in Pids /\ pid'[c] # 0
      BY <2>1, SupervisorAssumption DEF Unused, Pids, MaxSpawn
    <2>3. proc'[c][pid'[c]] = "live"
      BY <2>1, <2>2 DEF TypeOK
    <2>4. state'[c] # "restarting"
      BY <2>1 DEF Spawned
    <2> QED
      BY <2>1, <2>2, <2>3, <2>4 DEF Tracked
  <1>3. ASSUME NEW c \in Names \ S, Tracked(c) PROVE Tracked(c)'
    <2>1. /\ want'[c] = want[c] /\ state'[c] = state[c] /\ pid'[c] = pid[c]
          /\ proc'[c] = proc[c] /\ (c \in pending' <=> c \in pending)
      BY <1>0 DEF LaunchEffect
    <2>2. Posted(c)' <=> Posted(c)
      BY DEF Posted
    <2> QED
      BY <1>3, <2>1, <2>2 DEF Tracked
  <1> QED
    BY <1>1, <1>2, <1>3

\* Handling a wanted child's exit as the loop does tracks it; the other
\* children's exits stay where they are.
LEMMA ExitTracks ==
    ASSUME TypeOK, NEW n \in Names, TakeExit(n), proc' = proc, NEW c \in Names, Tracked(c),
           c # n => (c \in pending' <=> c \in pending),
           c = n => n \in pending'
    PROVE  Tracked(c)'
  <1>1. /\ exits # <<>> /\ n = Head(exits) /\ exits' = Tail(exits) /\ want' = want
        /\ pid' = [pid EXCEPT ![n] = 0]
        /\ state' = [state EXCEPT ![n] = IF want[n] THEN "restarting" ELSE "stopped"]
    BY DEF TakeExit, Exited
  <1>2. CASE c = n
    BY <1>1, <1>2 DEF Tracked, TypeOK
  <1>3. CASE c # n
    <2>1. Posted(c)' <=> Posted(c)
      BY <1>1, <1>3, TakeKeepsPosted DEF TypeOK
    <2> QED
      BY <1>1, <1>3, <2>1 DEF Tracked, TypeOK
  <1> QED
    BY <1>2, <1>3

\* A process that ends leaves its child tracked: the exit is in the channel.
LEMMA ReapedTracks ==
    ASSUME TypeOK, NEW n \in Names, NEW k \in Pids, Reaped(n, k), NEW c \in Names, Tracked(c)
    PROVE  Tracked(c)'
  <1>1. /\ proc' = [proc EXCEPT ![n][k] = "gone"] /\ exits' = Append(exits, n)
        /\ UNCHANGED <<table, pending>>
    BY DEF Reaped
  <1>2. Posted(c)' <=> Posted(c) \/ c = n
    BY <1>1, PostKeepsPosted DEF TypeOK
  <1>3. c # n => proc'[c] = proc[c]
    BY <1>1 DEF TypeOK
  <1> QED
    BY <1>1, <1>2, <1>3 DEF Tracked, table

\* Before the engine is launched nothing is claimed of any child.
LEMMA InitTracks == Init => TrackInv
  BY DEF Init, TrackInv

\* What a step that touches no child has to show.
LEMMA IdleTracks ==
    ASSUME TrackInv, UNCHANGED <<table, pending, exits, proc, todo>>,
           mode' \in {"ready", "launch"} => mode \in {"ready", "launch"},
           mode' \in {"loop", "restart"} => mode \in {"loop", "restart"},
           mode' \notin {"drain", "relaunch"} \/ mode' = mode
    PROVE  TrackInv'
  BY DEF TrackInv, Tracked, Moving, Posted, table

\* Every step leaves each child tracked, or is a restart of that very child.
LEMMA StepTracks == TypeInv /\ TrackInv /\ [Next]_vars => TrackInv'
  <1> SUFFICES ASSUME TypeOK, HasTodo, TrackInv, [Next]_vars PROVE TrackInv'
    BY DEF TypeInv
  <1>1. CASE UNCHANGED vars
    BY <1>1, IdleTracks DEF vars
  <1>2. ASSUME NEW n \in Names, NEW k \in Pids, Dies(n, k) \/ Obeys(n, k) PROVE TrackInv'
    <2>1. Reaped(n, k) /\ mode' = mode /\ todo' = todo
      BY <1>2 DEF Dies, Obeys, Reaped
    <2>2. \A c \in Names : Tracked(c) => Tracked(c)'
      BY <2>1, ReapedTracks
    <2> QED
      BY <2>1, <2>2, SupervisorAssumption DEF TrackInv, Moving
  <1>3. CASE ApplyRefused \/ ReadbackFails \/ Stop \/ Terminate \/ ReloadChanged
    <2>1. mode' \in {"exit", "term", "reap", "teardown", "off"}
      BY <1>3 DEF ApplyRefused, ReadbackFails, Exit, Stop, StopWanting, TermAll, ReapExit,
                  KillRest, TeardownAndExit, Terminate, ReloadChanged
    <2> QED
      BY <2>1 DEF TrackInv
  <1>4. CASE ApplyAndLaunchEngine
    <2>1. PICK F \in SUBSET {Engine} : Launch({Engine}, F)
      BY <1>4 DEF ApplyAndLaunchEngine
    <2>2. exits' = exits /\ mode' = "ready"
      BY <1>4 DEF ApplyAndLaunchEngine
    <2>3. Tracked(Engine)'
      BY <2>1, <2>2, LaunchTracks, SupervisorAssumption
    <2> QED
      BY <2>2, <2>3 DEF TrackInv
  <1>5. CASE EngineSilent
    BY <1>5, IdleTracks DEF EngineSilent
  <1>6. CASE EngineAnswers \/ ReadyTick
    <2>1. /\ UNCHANGED <<want, pid, pending, exits, proc, todo>>
          /\ \/ mode = "ready" /\ mode' = "launch"
             \/ mode = "loop" /\ mode' = "loop"
          /\ state' \in {state, [state EXCEPT ![Engine] = "running"]}
          /\ state' # state => state[Engine] = "starting"
      BY <1>6, SupervisorAssumption DEF EngineAnswers, ReadyTick, TypeOK
    <2>2. \A c \in Names : state'[c] = "restarting" <=> state[c] = "restarting"
      BY <2>1, SupervisorAssumption DEF TypeOK
    <2>3. \A c \in Names : Tracked(c) => Tracked(c)'
      BY <2>1, <2>2 DEF Tracked, Posted
    <2> QED
      BY <2>1, <2>3, SupervisorAssumption DEF TrackInv, Moving
  <1>7. CASE LaunchOthers
    <2>1. PICK F \in SUBSET (Names \ {Engine}) : Launch(Names \ {Engine}, F)
      BY <1>7 DEF LaunchOthers
    <2>2. exits' = exits /\ mode = "launch" /\ mode' = "loop"
      BY <1>7 DEF LaunchOthers
    <2>3. \A c \in Names : Tracked(c)'
      BY <2>1, <2>2, LaunchTracks, SupervisorAssumption DEF TrackInv
    <2> QED
      BY <2>2, <2>3 DEF TrackInv
  <1>8. ASSUME NEW n \in Names, HandleExit(n) PROVE TrackInv'
    <2>1. /\ mode = "loop" /\ mode' = "loop" /\ TakeExit(n) /\ proc' = proc
          /\ Reschedule(n)
      BY <1>8 DEF HandleExit
    <2>2. \A c \in Names : Tracked(c)
      BY <2>1 DEF TrackInv, Moving
    <2>3. pending' = pending \union {n}
      BY <2>1, <2>2 DEF Reschedule, Tracked
    <2>4. \A c \in Names : Tracked(c)'
      BY <2>1, <2>2, <2>3, ExitTracks
    <2> QED
      BY <2>1, <2>4 DEF TrackInv
  <1>9. ASSUME NEW n \in Names, Respawn(n) PROVE TrackInv'
    <2>1. PICK F \in SUBSET {n} : Launch({n}, F)
      BY <1>9 DEF Respawn
    <2>2. exits' = exits /\ mode = "loop" /\ mode' = "loop"
      BY <1>9 DEF Respawn
    <2>3. \A c \in Names : Tracked(c)
      BY <2>2 DEF TrackInv, Moving
    <2>4. \A c \in Names : Tracked(c)'
      BY <2>1, <2>2, <2>3, LaunchTracks
    <2> QED
      BY <2>2, <2>4 DEF TrackInv
  <1>10. CASE ReloadRefused
    BY <1>10, IdleTracks DEF ReloadRefused
  <1>11. CASE ReloadIdentical
    <2>1. mode = "loop" /\ mode' = "restart" /\ UNCHANGED <<table, pending, exits, proc>>
      BY <1>11 DEF ReloadIdentical
    <2>2. \A c \in Names : Tracked(c)
      BY <2>1 DEF TrackInv, Moving
    <2> QED
      BY <2>1, <2>2 DEF TrackInv, Tracked, Posted, table
  <1>12. CASE RestartSignal \/ DrainTimeout
    <2>1. /\ mode \in {"restart", "drain"} /\ mode' \in {"drain", "relaunch"}
          /\ UNCHANGED <<table, pending, exits, todo>>
          /\ \A c \in Names \ {Head(todo)} : proc'[c] = proc[c]
      BY <1>12 DEF RestartSignal, DrainTimeout, Signal, TypeOK
    <2>2. \A c \in Names \ {Head(todo)} : Tracked(c)
      BY <2>1 DEF TrackInv, Moving
    <2>3. \A c \in Names \ {Head(todo)} : Tracked(c)'
      BY <2>1, <2>2 DEF Tracked, Posted, table
    <2> QED
      BY <2>1, <2>3 DEF TrackInv, Moving
  <1>13. ASSUME NEW n \in Names, DrainExit(n) PROVE TrackInv'
    <2>1. /\ mode = "drain" /\ TakeExit(n) /\ proc' = proc /\ todo' = todo
          /\ mode' \in {"drain", "relaunch"}
          /\ IF n = Head(todo) THEN pending' = pending
             ELSE pending' = IF want[n] THEN pending \union {n} ELSE pending
      BY <1>13 DEF DrainExit, Answers, OtherExit, Reschedule
    <2>2. \A c \in Names \ {Head(todo)} : Tracked(c)
      BY <2>1 DEF TrackInv, Moving
    <2>3. ASSUME NEW c \in Names \ {Head(todo)} PROVE Tracked(c)'
      <3>1. /\ c # n => (c \in pending' <=> c \in pending)
            /\ c = n => n \in pending'
        BY <2>1, <2>2 DEF Tracked
      <3> QED
        BY <2>1, <2>2, <3>1, ExitTracks
    <2> QED
      BY <2>1, <2>3 DEF TrackInv, Moving
  <1>14. CASE Relaunch
    <2>1. Head(todo) \in Names
      BY <1>14, HeadTailProperties DEF Relaunch, HasTodo, TypeOK
    <2>2. PICK F \in SUBSET {Head(todo)} : Launch({Head(todo)}, F)
      BY <1>14 DEF Relaunch
    <2>3. exits' = exits /\ mode = "relaunch" /\ mode' \in {"loop", "restart"}
      BY <1>14 DEF Relaunch
    <2>4. \A c \in Names \ {Head(todo)} : Tracked(c)
      BY <2>3 DEF TrackInv, Moving
    <2>5. \A c \in Names : Tracked(c)'
      BY <2>1, <2>2, <2>3, <2>4, LaunchTracks
    <2> QED
      BY <2>3, <2>5 DEF TrackInv
  <1> QED
    BY <1>1, <1>2, <1>3, <1>4, <1>5, <1>6, <1>7, <1>8, <1>9, <1>10, <1>11, <1>12, <1>13,
       <1>14 DEF Next, Start, Command, Reapply, Done

\* While it supervises, the supervisor loses no child: each is running, has its
\* exit in the channel or waits out a backoff, even when children ignore SIGTERM
\* and the exit of an old process is taken for that of its successor.
THEOREM ChildrenKept == Spec => []NoChildLost
  <1>1. TrackInv => NoChildLost
    BY DEF TrackInv, Moving, Tracked, Posted, NoChildLost
  <1>2. Init => TypeInv /\ TrackInv
    BY InitTypes, InitTracks
  <1>3. TypeInv /\ TrackInv /\ [Next]_vars => (TypeInv /\ TrackInv)'
    BY StepTypes, StepTracks
  <1> QED
    BY <1>1, <1>2, <1>3, PTL DEF Spec

-----------------------------------------------------------------------------
(* The table of children and the processes agree.                          *)

\* The exit that is taken was the only one of its child.
LEMMA TakeOnce ==
    ASSUME exits \in Seq(Names), exits # <<>>, exits' = Tail(exits), PostedOnce,
           NEW n, n = Head(exits)
    PROVE  PostedOnce' /\ Posted(n) /\ ~Posted(n)'
  <1>1. /\ Len(exits) \in Nat \ {0} /\ DOMAIN exits = 1..Len(exits)
        /\ DOMAIN exits' = 1..(Len(exits) - 1)
        /\ \A i \in 1..(Len(exits) - 1) : exits'[i] = exits[i + 1]
        /\ n = exits[1]
    BY HeadTailProperties, EmptySeq, LenProperties
  <1>2. Posted(n)
    BY <1>1 DEF Posted
  <1>3. PostedOnce'
    <2>1. ASSUME NEW i \in DOMAIN exits', NEW j \in DOMAIN exits', exits'[i] = exits'[j]
          PROVE  i = j
      <3>1. i + 1 \in DOMAIN exits /\ j + 1 \in DOMAIN exits /\ exits[i + 1] = exits[j + 1]
        BY <1>1, <2>1
      <3>2. i + 1 = j + 1
        BY <3>1 DEF PostedOnce
      <3> QED
        BY <1>1, <3>2
    <2> QED
      BY <2>1 DEF PostedOnce
  <1>4. ASSUME NEW i \in DOMAIN exits', exits'[i] = n PROVE FALSE
    <2>1. i + 1 \in DOMAIN exits /\ exits[i + 1] = exits[1] /\ 1 \in DOMAIN exits /\ i + 1 # 1
      BY <1>1, <1>4
    <2> QED
      BY <2>1 DEF PostedOnce
  <1> QED
    BY <1>1, <1>2, <1>3, <1>4 DEF Posted

\* Taking an exit leaves the child without a process.
LEMMA ExitAgrees ==
    ASSUME TypeOK, AgreeInv, NEW n \in Names, TakeExit(n), proc' = proc
    PROVE  AgreeInv'
  <1>1. /\ exits \in Seq(Names) /\ exits # <<>> /\ n = Head(exits) /\ exits' = Tail(exits)
        /\ pid' = [pid EXCEPT ![n] = 0] /\ pid \in [Names -> 0..MaxSpawn]
    BY DEF TakeExit, Exited, TypeOK
  <1>2. PostedOnce' /\ Posted(n) /\ ~Posted(n)'
    BY <1>1, TakeOnce DEF AgreeInv
  <1>3. ASSUME NEW c \in Names, c # n PROVE Agrees(c)'
    <2>1. Posted(c)' <=> Posted(c)
      BY <1>1, <1>3, TakeKeepsPosted
    <2> QED
      BY <1>1, <1>3, <2>1 DEF AgreeInv, Agrees
  <1>4. Agrees(n)'
    BY <1>1, <1>2 DEF AgreeInv, Agrees
  <1> QED
    BY <1>2, <1>3, <1>4 DEF AgreeInv

\* A process that ends is the one the table names; its exit is posted once.
LEMMA ReapedAgrees ==
    ASSUME TypeOK, AgreeInv, NEW n \in Names, NEW k \in Pids,
           proc[n][k] \in {"live", "term", "kill"}, Reaped(n, k)
    PROVE  AgreeInv'
  <1>1. /\ proc' = [proc EXCEPT ![n][k] = "gone"] /\ exits' = Append(exits, n)
        /\ pid' = pid /\ exits \in Seq(Names)
        /\ proc \in [Names -> [Pids -> {"none", "live", "term", "kill", "gone"}]]
    BY DEF Reaped, TypeOK, table
  <1>2. k = pid[n] /\ k # 0 /\ ~Posted(n)
    <2>1. Agrees(n)
      BY DEF AgreeInv
    <2>2. k = pid[n]
      BY <2>1 DEF Agrees
    <2>3. k # 0
      BY SupervisorAssumption DEF Pids, MaxSpawn
    <2> QED
      BY <2>1, <2>2, <2>3 DEF Agrees
  <1>3. \A c : Posted(c)' <=> Posted(c) \/ c = n
    BY <1>1, PostKeepsPosted
  <1>4. PostedOnce'
    <2>1. /\ Len(exits) \in Nat /\ DOMAIN exits = 1..Len(exits)
          /\ DOMAIN exits' = 1..(Len(exits) + 1)
          /\ \A i \in 1..Len(exits) : exits'[i] = exits[i]
          /\ exits'[Len(exits) + 1] = n
      BY <1>1, AppendProperties, LenProperties
    <2>2. \A i \in 1..Len(exits) : exits[i] # n
      BY <1>2, <2>1 DEF Posted
    <2>3. \A i, j \in 1..Len(exits) : exits[i] = exits[j] => i = j
      BY <2>1 DEF AgreeInv, PostedOnce
    <2> QED
      BY <2>1, <2>2, <2>3 DEF PostedOnce
  <1>5. ASSUME NEW c \in Names PROVE Agrees(c)'
    <2>1. CASE c = n
      BY <1>1, <1>2, <1>3, <2>1 DEF AgreeInv, Agrees
    <2>2. CASE c # n
      BY <1>1, <1>3, <2>2 DEF AgreeInv, Agrees
    <2> QED
      BY <2>1, <2>2
  <1> QED
    BY <1>4, <1>5 DEF AgreeInv

\* A child is launched beside no other process of the same child, if the table
\* names none.
LEMMA LaunchAgrees ==
    ASSUME TypeOK, AgreeInv, NEW S \in SUBSET Names, NEW F \in SUBSET S, Launch(S, F),
           exits' = exits, \A n \in S : pid[n] = 0
    PROVE  AgreeInv'
  <1>0. LaunchEffect(S, F)
    BY LaunchDoes
  <1>1. \A c : Posted(c)' <=> Posted(c)
    BY DEF Posted
  <1>2. ASSUME NEW c \in Names, c \in F \/ c \notin S PROVE Agrees(c)'
    <2>1. pid'[c] = pid[c] /\ proc'[c] = proc[c] /\ Agrees(c)
      BY <1>0, <1>2 DEF LaunchEffect, AgreeInv
    <2> QED
      BY <1>1, <2>1 DEF Agrees
  <1>3. ASSUME NEW c \in S \ F PROVE Agrees(c)'
    <2>1. /\ pid'[c] \in Unused(c) /\ proc'[c] = [proc[c] EXCEPT ![pid'[c]] = "live"]
          /\ pid[c] = 0 /\ Agrees(c) /\ DOMAIN proc[c] = Pids
      BY <1>0 DEF LaunchEffect, AgreeInv, TypeOK
    <2>2. pid'[c] \in Pids /\ pid'[c] # 0
      BY <2>1, SupervisorAssumption DEF Unused, Pids, MaxSpawn
    <2>3. proc'[c][pid'[c]] = "live" /\ \A k \in Pids : k # pid'[c] => proc'[c][k] = proc[c][k]
      BY <2>1, <2>2
    <2>4. \A k \in Pids : proc[c][k] \in {"none", "gone"}
      BY <2>1, SupervisorAssumption DEF Agrees, Pids, MaxSpawn
    <2> QED
      BY <1>1, <2>1, <2>2, <2>3, <2>4 DEF Agrees
  <1>4. PostedOnce'
    BY DEF AgreeInv, PostedOnce
  <1> QED
    BY <1>2, <1>3, <1>4 DEF AgreeInv

\* A signal only changes processes that have not ended.
Signals ==
    /\ UNCHANGED <<pid, exits>>
    /\ \A n \in Names : \A k \in Pids :
          proc'[n][k] = proc[n][k]
          \/ (proc[n][k] \in {"live", "term"} /\ proc'[n][k] \in {"term", "kill"})

\* Signals leave the table in agreement with the processes.
LEMMA SignalsAgree ==
    ASSUME TypeOK, AgreeInv, Signals
    PROVE  AgreeInv'
  <1>1. \A c : Posted(c)' <=> Posted(c)
    BY DEF Posted, Signals
  <1>2. ASSUME NEW c \in Names PROVE Agrees(c)'
    <2>1. /\ pid'[c] = pid[c] /\ pid[c] # 0 => pid[c] \in Pids
      BY SupervisorAssumption DEF Signals, TypeOK, Pids, MaxSpawn
    <2> QED
      BY <1>1, <2>1 DEF Signals, AgreeInv, Agrees
  <1> QED
    BY <1>2 DEF AgreeInv, PostedOnce, Signals

\* At the start there are no processes.
LEMMA InitAgrees == Init => AgreeInv /\ Launchable /\ StopInv
  <1> SUFFICES ASSUME Init PROVE AgreeInv /\ Launchable /\ StopInv
    OBVIOUS
  <1>1. AgreeInv
    BY DEF Init, AgreeInv, PostedOnce, Agrees, Posted
  <1>2. Launchable
    BY SupervisorAssumption DEF Init, Launchable
  <1>3. StopInv
    BY DEF Init, StopInv
  <1> QED
    BY <1>1, <1>2, <1>3

\* Steps that change no child and no process.
LEMMA StillAgrees ==
    ASSUME AgreeInv, UNCHANGED <<pid, exits, proc>>
    PROVE  AgreeInv'
  BY DEF AgreeInv, PostedOnce, Agrees, Posted

\* Every step keeps the table in agreement with the processes: a child is
\* launched only after the exit of its predecessor was taken.
LEMMA StepAgrees ==
    ASSUME TypeInv, TrackInv, AgreeInv, Launchable, [Next]_vars
    PROVE  AgreeInv'
  <1>0. TypeOK /\ HasTodo
    BY DEF TypeInv
  <1> USE <1>0, SupervisorAssumption
  <1>1. CASE UNCHANGED vars
    BY <1>1, StillAgrees DEF vars, table
  <1>2. ASSUME NEW n \in Names, NEW k \in Pids, Dies(n, k) \/ Obeys(n, k) PROVE AgreeInv'
    <2>1. Reaped(n, k) /\ proc[n][k] \in {"live", "term", "kill"}
      BY <1>2 DEF Dies, Obeys
    <2> QED
      BY <2>1, ReapedAgrees
  <1>3. CASE ApplyRefused \/ EngineAnswers \/ EngineSilent \/ ReadyTick \/ Command
             \/ StopWanting \/ TeardownAndExit
    <2>1. UNCHANGED <<pid, exits, proc>>
      BY <1>3 DEF ApplyRefused, EngineAnswers, EngineSilent, ReadyTick, Command, Terminate,
                  ReloadRefused, ReloadChanged, ReloadIdentical, StopWanting, TeardownAndExit,
                  table
    <2> QED
      BY <2>1, StillAgrees
  <1>4. CASE ApplyAndLaunchEngine
    <2>1. PICK F \in SUBSET {Engine} : Launch({Engine}, F)
      BY <1>4 DEF ApplyAndLaunchEngine
    <2>2. exits' = exits /\ pid[Engine] = 0
      BY <1>4 DEF ApplyAndLaunchEngine, Launchable
    <2> QED
      BY <2>1, <2>2, LaunchAgrees
  <1>5. CASE LaunchOthers
    <2>1. PICK F \in SUBSET (Names \ {Engine}) : Launch(Names \ {Engine}, F)
      BY <1>5 DEF LaunchOthers
    <2>2. exits' = exits /\ \A n \in Names \ {Engine} : pid[n] = 0
      BY <1>5 DEF LaunchOthers, Launchable
    <2> QED
      BY <2>1, <2>2, LaunchAgrees
  <1>6. CASE ReadbackFails \/ RestartSignal \/ DrainTimeout \/ TermAll \/ KillRest
    <2>1. UNCHANGED <<pid, exits>>
      BY <1>6 DEF ReadbackFails, RestartSignal, DrainTimeout, TermAll, KillRest, table
    <2>2. CASE ReadbackFails \/ RestartSignal \/ DrainTimeout
      <3>1. proc' = proc \/ \E n \in Names, k \in Nat, s \in {"term", "kill"} : Signal(n, k, s)
        <4>1. mode \in {"restart", "drain"} => Head(todo) \in Names
          BY HeadTailProperties DEF HasTodo, TypeOK
        <4>2. \A n \in Names : pid[n] \in Nat
          BY DEF TypeOK
        <4> QED
          BY <2>2, <4>1, <4>2 DEF ReadbackFails, RestartSignal, DrainTimeout
      <3>2. ASSUME NEW n \in Names, NEW k \in Nat, NEW s \in {"term", "kill"}, Signal(n, k, s)
            PROVE  Signals
        <4>1. proc' = [proc EXCEPT ![n] = [proc[n] EXCEPT ![k] =
                          IF proc[n][k] \in {"live", "term"} THEN s ELSE proc[n][k]]]
          BY <3>2 DEF Signal, TypeOK
        <4>2. ASSUME NEW c \in Names, NEW l \in Pids
              PROVE  proc'[c][l] = proc[c][l]
                     \/ (proc[c][l] \in {"live", "term"} /\ proc'[c][l] \in {"term", "kill"})
          BY <4>1 DEF TypeOK
        <4> QED
          BY <2>1, <4>2 DEF Signals
      <3>3. proc' = proc => Signals
        BY <2>1 DEF Signals
      <3> QED
        BY <3>1, <3>2, <3>3, SignalsAgree
    <2>3. CASE TermAll \/ KillRest
      <3>1. ASSUME NEW c \in Names, NEW l \in Pids
            PROVE  proc'[c][l] = proc[c][l]
                   \/ (proc[c][l] \in {"live", "term"} /\ proc'[c][l] \in {"term", "kill"})
        BY <2>3 DEF TermAll, KillRest
      <3>2. Signals
        BY <2>1, <3>1 DEF Signals
      <3> QED
        BY <3>2, SignalsAgree
    <2> QED
      BY <1>6, <2>2, <2>3
  <1>7. ASSUME NEW n \in Names, HandleExit(n) \/ DrainExit(n) \/ ReapExit(n) PROVE AgreeInv'
    <2>1. TakeExit(n) /\ proc' = proc
      BY <1>7 DEF HandleExit, DrainExit, ReapExit
    <2> QED
      BY <2>1, ExitAgrees
  <1>8. ASSUME NEW n \in Names, Respawn(n) PROVE AgreeInv'
    <2>1. PICK F \in SUBSET {n} : Launch({n}, F)
      BY <1>8 DEF Respawn
    <2>2. exits' = exits /\ pid[n] = 0
      BY <1>8 DEF Respawn, TrackInv, Moving, Tracked
    <2> QED
      BY <2>1, <2>2, LaunchAgrees
  <1>9. CASE Relaunch
    <2>1. Head(todo) \in Names
      BY <1>9, HeadTailProperties DEF Relaunch, HasTodo, TypeOK
    <2>2. PICK F \in SUBSET {Head(todo)} : Launch({Head(todo)}, F)
      BY <1>9 DEF Relaunch
    <2>3. exits' = exits /\ pid[Head(todo)] = 0
      BY <1>9 DEF Relaunch, Launchable
    <2> QED
      BY <2>1, <2>2, <2>3, LaunchAgrees
  <1> QED
    BY <1>1, <1>2, <1>3, <1>4, <1>5, <1>6, <1>7, <1>8, <1>9
    DEF Next, Start, Reapply, Stop, Done

\* With obedient children, every step leaves the next launch its precondition: a
\* restart goes on only when the exit of the old process was taken.
LEMMA StepLaunchable ==
    ASSUME Obedient, TypeInv, Launchable, [Next]_vars
    PROVE  Launchable'
  <1>0. TypeOK /\ HasTodo
    BY DEF TypeInv
  <1> USE <1>0, SupervisorAssumption
  <1>1. CASE UNCHANGED vars
    BY <1>1 DEF vars, table, Launchable
  <1>2. ASSUME NEW n \in Names, NEW k \in Pids, Dies(n, k) \/ Obeys(n, k) PROVE Launchable'
    BY <1>2 DEF Dies, Obeys, Reaped, table, Launchable
  <1>3. CASE ApplyRefused \/ ReadbackFails \/ Terminate \/ ReloadChanged \/ ReloadRefused
             \/ StopWanting \/ TermAll \/ KillRest \/ TeardownAndExit
    <2>1. UNCHANGED <<pid, todo>> /\ mode' \in {"exit", "off", "loop", "term", "reap", "teardown"}
      BY <1>3 DEF ApplyRefused, ReadbackFails, Exit, Terminate, ReloadChanged, ReloadRefused,
                  StopWanting, TermAll, KillRest, TeardownAndExit, table
    <2> QED
      BY <2>1 DEF Launchable
  <1>4. CASE ApplyAndLaunchEngine
    <2>1. PICK F \in SUBSET {Engine} : Launch({Engine}, F)
      BY <1>4 DEF ApplyAndLaunchEngine
    <2>2. LaunchEffect({Engine}, F)
      BY <2>1, LaunchDoes
    <2>3. \A n \in Names \ {Engine} : pid'[n] = 0
      BY <1>4, <2>2 DEF LaunchEffect, ApplyAndLaunchEngine, Launchable
    <2> QED
      BY <1>4, <2>3 DEF ApplyAndLaunchEngine, Launchable
  <1>5. CASE EngineAnswers \/ EngineSilent \/ ReadyTick
    BY <1>5 DEF EngineAnswers, EngineSilent, ReadyTick, Launchable, table
  <1>6. CASE LaunchOthers \/ (\E n \in Names : Respawn(n) \/ HandleExit(n) \/ ReapExit(n))
    <2>1. mode' \in {"loop", "reap"} /\ todo' = todo
      BY <1>6 DEF LaunchOthers, Respawn, HandleExit, ReapExit
    <2> QED
      BY <2>1 DEF Launchable
  <1>7. CASE ReloadIdentical
    BY <1>7 DEF ReloadIdentical, Launchable, Obedient
  <1>8. CASE RestartSignal
    <2>1. /\ UNCHANGED <<pid, todo>> /\ mode' \in {"drain", "relaunch"}
          /\ mode' = "relaunch" => pid[Head(todo)] = 0
      BY <1>8 DEF RestartSignal, table
    <2> QED
      BY <2>1 DEF Launchable
  <1>9. ASSUME NEW n \in Names, DrainExit(n) PROVE Launchable'
    <2>1. /\ mode = "drain" /\ mode' \in {"drain", "relaunch"} /\ todo' = todo
          /\ mode' = "relaunch" => n = Head(todo)
          /\ pid' = [pid EXCEPT ![n] = 0]
      BY <1>9 DEF DrainExit, TakeExit, Exited, Answers, OtherExit
    <2> QED
      BY <2>1 DEF Launchable, TypeOK
  <1>10. CASE DrainTimeout
    <2>1. todo # <<>> /\ Head(todo) = todo[1] /\ 1 \in DOMAIN todo
      BY <1>10, HeadTailProperties, EmptySeq, LenProperties DEF DrainTimeout, HasTodo, TypeOK
    <2> QED
      BY <1>10, <2>1 DEF DrainTimeout, Launchable
  <1>11. CASE Relaunch
    <2>1. /\ todo # <<>> /\ todo \in Seq(Names) /\ todo' = Tail(todo)
          /\ mode' \in {"loop", "restart"}
      BY <1>11 DEF Relaunch, HasTodo, TypeOK
    <2>2. \A i \in DOMAIN todo' : i + 1 \in DOMAIN todo /\ todo'[i] = todo[i + 1]
      BY <2>1, HeadTailProperties, LenProperties
    <2> QED
      BY <2>1, <2>2 DEF Launchable
  <1> QED
    BY <1>1, <1>2, <1>3, <1>4, <1>5, <1>6, <1>7, <1>8, <1>9, <1>10, <1>11
    DEF Next, Start, Command, Reapply, Stop, Done

-----------------------------------------------------------------------------
(* The stop.                                                               *)

\* The stop sequence waits for exactly the children that have a process, and
\* when it tears down nothing that obeys is left.
LEMMA StepStops ==
    ASSUME Obedient, TypeInv, AgreeInv, StopInv, [Next]_vars
    PROVE  StopInv'
  <1>0. TypeOK /\ HasTodo
    BY DEF TypeInv
  <1> USE <1>0, SupervisorAssumption
  <1>1. CASE UNCHANGED vars
    BY <1>1 DEF vars, table, StopInv, Live, LockHeld
  <1>2. ASSUME NEW n \in Names, NEW k \in Pids, Dies(n, k) \/ Obeys(n, k) PROVE StopInv'
    <2>1. /\ UNCHANGED <<mode, pid, alive, code, fabric>> /\ mode # "exit"
          /\ proc' = [proc EXCEPT ![n][k] = "gone"]
      BY <1>2 DEF Dies, Obeys, Reaped, table
    <2>2. \A c \in Names : Live(c)' \subseteq Live(c)
      BY <2>1 DEF Live, TypeOK
    <2>3. LockHeld' => LockHeld
      BY <2>1 DEF LockHeld, TypeOK
    <2> QED
      BY <2>1, <2>2, <2>3 DEF StopInv
  <1>3. CASE \/ ApplyAndLaunchEngine \/ EngineAnswers \/ EngineSilent \/ LaunchOthers
             \/ Command \/ Reapply \/ ReadyTick \/ StopWanting
             \/ \E n \in Names : HandleExit(n) \/ Respawn(n)
    <2>1. mode' \in {"ready", "launch", "loop", "off", "restart", "drain", "relaunch", "term"}
          /\ mode # "exit" /\ code' = code
      BY <1>3 DEF ApplyAndLaunchEngine, EngineAnswers, EngineSilent, LaunchOthers, Command,
                  Terminate, ReloadRefused, ReloadChanged, ReloadIdentical, Reapply,
                  RestartSignal, DrainExit, OtherExit, DrainTimeout, Relaunch, ReadyTick,
                  StopWanting, HandleExit, Respawn
    <2> QED
      BY <2>1 DEF StopInv
  <1>4. CASE ApplyRefused \/ ReadbackFails
    <2>1. mode' = "exit" /\ code' = "refused"
      BY <1>4 DEF ApplyRefused, ReadbackFails, Exit
    <2> QED
      BY <2>1 DEF StopInv
  <1>5. CASE TermAll
    <2>1. /\ mode = "term" /\ mode' = "reap" /\ code' = code /\ pid' = pid
          /\ alive' = {n \in Names : pid[n] # 0}
      BY <1>5 DEF TermAll, Targets, table
    <2>2. ASSUME NEW c \in Names, NEW k \in Pids PROVE proc'[c][k] # "live"
      <3>1. proc'[c][k] = IF pid[c] # 0 /\ k = pid[c] /\ proc[c][k] = "live" THEN "term"
                          ELSE proc[c][k]
        BY <1>5 DEF TermAll, Targets
      <3>2. Agrees(c) /\ k # 0
        BY DEF AgreeInv, Pids, MaxSpawn
      <3> QED
        BY <3>1, <3>2 DEF Agrees
    <2> QED
      BY <2>1, <2>2 DEF StopInv, Live
  <1>6. ASSUME NEW n \in Names, ReapExit(n) PROVE StopInv'
    <2>1. /\ mode = "reap" /\ mode' = "reap" /\ code' = code /\ proc' = proc
          /\ alive' = alive \ {n} /\ pid' = [pid EXCEPT ![n] = 0]
      BY <1>6 DEF ReapExit, TakeExit, Exited
    <2> QED
      BY <2>1 DEF StopInv, Live, TypeOK
  <1>7. CASE KillRest
    <2>0. ASSUME NEW c \in Names, NEW k \in Pids
          PROVE  proc'[c][k] = proc[c][k] \/ (proc[c][k] = "term" /\ proc'[c][k] = "kill")
      BY <1>7 DEF KillRest
    <2>1. /\ mode = "reap" /\ mode' = "teardown" /\ code' = code
          /\ alive = {c \in Names : pid[c] # 0}
      BY <1>7 DEF KillRest, StopInv
    <2>2. \A c \in Names : Live(c)' = {}
      BY <2>0, <2>1 DEF StopInv, Live
    <2>3. \A k \in Pids : proc[Engine][k] \in {"none", "gone"}
      <3>1. Agrees(Engine)
        BY DEF AgreeInv
      <3>2. pid[Engine] # 0 => proc[Engine][pid[Engine]] = "gone"
        BY <1>7, <2>1 DEF KillRest, GraceOver, Obedient
      <3>3. 0 \notin Pids
        BY DEF Pids
      <3> QED
        BY <3>1, <3>2, <3>3 DEF Agrees
    <2>4. ~LockHeld'
      BY <2>0, <2>3 DEF LockHeld
    <2> QED
      BY <2>1, <2>2, <2>4 DEF StopInv
  <1>8. CASE TeardownAndExit
    <2>1. /\ mode = "teardown" /\ mode' = "exit" /\ proc' = proc
          /\ fabric' = (fabric /\ LockHeld)
      BY <1>8 DEF TeardownAndExit, Exit
    <2>2. ~fabric' /\ \A c \in Names : Live(c)' = {}
      BY <2>1 DEF StopInv, Live
    <2> QED
      BY <2>1, <2>2 DEF StopInv
  <1> QED
    BY <1>1, <1>2, <1>3, <1>4, <1>5, <1>6, <1>7, <1>8 DEF Next, Start, Stop, Done

SafeInv == TypeInv /\ TrackInv /\ AgreeInv /\ Launchable /\ StopInv

\* The whole invariant holds of every supervisor with obedient children.
LEMMA AllSafe ==
    ASSUME Obedient
    PROVE  Spec => []SafeInv
  <1>1. Init => SafeInv
    BY InitTypes, InitTracks, InitAgrees DEF SafeInv
  <1>2. SafeInv /\ [Next]_vars => SafeInv'
    BY StepTypes, StepTracks, StepAgrees, StepLaunchable, StepStops DEF SafeInv
  <1> QED
    BY <1>1, <1>2, PTL DEF Spec

\* restart_child() with children that obey SIGTERM: no child ever has two
\* processes that both believe they are wanted, however deaths, failed spawns and
\* re-applies interleave.
THEOREM SingleProcess ==
    ASSUME Obedient
    PROVE  Spec => []OneProcess
  <1>1. SafeInv => OneProcess
    <2> SUFFICES ASSUME SafeInv, NEW n \in Names PROVE Cardinality(Live(n)) <= 1
      BY DEF OneProcess
    <2>1. Live(n) \subseteq {pid[n]}
      BY DEF SafeInv, AgreeInv, Agrees, Live
    <2>2. IsFiniteSet({pid[n]}) /\ Cardinality({pid[n]}) = 1
      BY FS_Singleton
    <2>3. Cardinality(Live(n)) <= Cardinality({pid[n]})
      BY <2>1, <2>2, FS_Subset
    <2> QED
      BY <2>2, <2>3
  <1> QED
    BY <1>1, AllSafe, PTL

\* The stop sequence with children that obey SIGTERM: nothing is taken down under
\* a child that was not told to stop, whatever it was doing when the stop began.
THEOREM StopsAll ==
    ASSUME Obedient
    PROVE  Spec => []StopReachesAll
  <1>1. SafeInv => StopReachesAll
    BY DEF SafeInv, StopInv, StopReachesAll
  <1> QED
    BY <1>1, AllSafe, PTL

\* With children that obey SIGTERM, no process strays: there is one for each child,
\* and none is left when the stop sequence goes on to the teardown.
THEOREM NoneStrays ==
    ASSUME Obedient
    PROVE  Spec => []NoStray
  BY SingleProcess, StopsAll, PTL DEF NoStray

\* With an engine that obeys SIGTERM, exit status 0 means that the teardown
\* found engine.lock free and completed.
THEOREM ExitsClean ==
    ASSUME Obedient
    PROVE  Spec => []CleanExit
  <1>1. SafeInv => CleanExit
    BY DEF SafeInv, StopInv, CleanExit
  <1> QED
    BY <1>1, AllSafe, PTL
=============================================================================
