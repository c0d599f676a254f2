----------------------------- MODULE Supervisor -----------------------------
(***************************************************************************)
(* `cfab run`: one process that applies the fabric, starts the children    *)
(* this member needs, respawns whatever dies, re-applies or restarts on a  *)
(* reload, and takes everything down again.  Its main task is one select!  *)
(* loop; what runs beside it are the children and the task that waits for  *)
(* each, which posts the child's NAME on the exit channel when it is gone. *)
(* A message of an earlier process and one of the present process look the *)
(* same, so the properties are about processes and the supervisor's table  *)
(* of children agreeing.                                                   *)
(***************************************************************************)
EXTENDS Naturals, Sequences, FiniteSets

CONSTANTS
    Names,       \* the children this member runs
    Engine,      \* the one with a readiness protocol
    Restarted,   \* the children a re-apply restarts, in order
    Unwilling,   \* children that may outlast the 10 s after SIGTERM
    MaxDeath,    \* bound: children that die of themselves
    MaxFail,     \* bound: spawns that fail
    MaxCmd       \* bound: reloads handled in place

ASSUME SupervisorAssumption ==
    /\ IsFiniteSet(Names) /\ Engine \in Names /\ Unwilling \subseteq Names
    /\ Restarted \in Seq(Names) /\ Restarted # <<>>
    /\ MaxDeath \in Nat /\ MaxFail \in Nat /\ MaxCmd \in Nat

\* The k-th process of a child; 0 is no process. A child is started once, and
\* again for every death and at most twice for every re-apply.
MaxSpawn == 1 + MaxDeath + 2 * MaxCmd
Pids == 1..MaxSpawn

VARIABLES
    mode,        \* where the main task is
    state, want, pid,  \* the table of children
    pending,     \* children waiting out their backoff
    exits,       \* the exit channel
    proc,        \* every process: none, live, term, kill (signalled) or gone
    todo,        \* children restart_child still has to do in this re-apply
    alive,       \* children the stop sequence waits for
    reload,      \* the stop is half a restart
    fabric,      \* netdevs, rules and run directory are in place
    refused,     \* last_apply_error is set
    code,        \* exit status: EXIT_OK, EXIT_APPLY_REFUSED or EXIT_RELOAD
    deaths, fails, cmds

table == <<state, want, pid>>
bounds == <<deaths, fails, cmds>>
vars == <<mode, table, pending, exits, proc, todo, alive, reload, fabric, refused, code,
          bounds>>

Init ==
    /\ mode = "apply"
    /\ state = [n \in Names |-> "stopped"] /\ want = [n \in Names |-> FALSE]
    /\ pid = [n \in Names |-> 0]
    /\ pending = {} /\ exits = <<>>
    /\ proc = [n \in Names |-> [k \in Pids |-> "none"]]
    /\ todo = <<>> /\ alive = {} /\ reload = FALSE
    /\ fabric = FALSE /\ refused = FALSE /\ code = "none"
    /\ deaths = 0 /\ fails = 0 /\ cmds = 0

-----------------------------------------------------------------------------
(* The table of children (child.rs) and launch().                          *)

Live(n) == {k \in Pids : proc[n][k] = "live"}
Unused(n) == {k \in Pids : proc[n][k] = "none"}

\* spawned(): only the engine's socket can say that it is ready.
Spawned(n) == IF n = Engine THEN "starting" ELSE "running"

\* Mutant: a child that cannot be spawned is not scheduled again.
BackoffForgotten(S, F) == pending' = pending \ (S \union F)

\* A child that cannot be spawned waits out a backoff like one that died.
Backoff(S, F) == pending' = (pending \ S) \union F

\* launch() of every child of S, in one go; those of F cannot be spawned.
Launch(S, F) ==
    /\ F \subseteq S /\ fails + Cardinality(F) <= MaxFail
    /\ \A n \in S \ F : Unused(n) # {}
    /\ LET next == [n \in S \ F |-> CHOOSE k \in Unused(n) : TRUE]
       IN  /\ pid' = [n \in Names |-> IF n \in F THEN 0
                                      ELSE IF n \in S THEN next[n] ELSE pid[n]]
           /\ proc' = [n \in Names |-> IF n \in S \ F
                                       THEN [proc[n] EXCEPT ![next[n]] = "live"]
                                       ELSE proc[n]]
    /\ want' = [n \in Names |-> n \in S \/ want[n]]
    /\ state' = [n \in Names |-> IF n \in F THEN "restarting"
                                 ELSE IF n \in S THEN Spawned(n) ELSE state[n]]
    /\ Backoff(S, F)
    /\ fails' = fails + Cardinality(F)

\* exited(): the table forgets the process; a wanted child is to come back.
Exited(n) ==
    /\ pid' = [pid EXCEPT ![n] = 0]
    /\ state' = [state EXCEPT ![n] = IF want[n] THEN "restarting" ELSE "stopped"]
    /\ UNCHANGED want

\* A message from the exit channel, taken by whoever reads it.
TakeExit(n) == exits # <<>> /\ n = Head(exits) /\ exits' = Tail(exits) /\ Exited(n)

Signal(n, k, s) ==
    proc' = [proc EXCEPT ![n][k] = IF @ \in {"live", "term"} THEN s ELSE @]

-----------------------------------------------------------------------------
(* The children, and the tasks that wait for them.                         *)

\* The process is reaped and its task posts the name.
Reaped(n, k) ==
    /\ mode # "exit"
    /\ proc' = [proc EXCEPT ![n][k] = "gone"]
    /\ exits' = Append(exits, n)
    /\ UNCHANGED <<mode, table, pending, todo, alive, reload, fabric, refused, code, fails, cmds>>

Dies(n, k) ==
    /\ proc[n][k] = "live" /\ deaths < MaxDeath
    /\ deaths' = deaths + 1
    /\ Reaped(n, k)

Obeys(n, k) ==
    /\ proc[n][k] \in {"term", "kill"}
    /\ Reaped(n, k) /\ UNCHANGED deaths

-----------------------------------------------------------------------------
(* Start: apply, engine, readiness, the other children.                    *)

Exit(status) ==
    /\ mode' = "exit" /\ code' = status

ApplyRefused ==
    /\ mode = "apply"
    /\ fabric' \in BOOLEAN          \* a refusal leaves what was already applied
    /\ Exit("refused")
    /\ UNCHANGED <<table, pending, exits, proc, todo, alive, reload, refused, bounds>>

ApplyAndLaunchEngine ==
    /\ mode = "apply"
    /\ fabric' = TRUE
    /\ \E F \in SUBSET {Engine} : Launch({Engine}, F)
    /\ mode' = "ready"
    /\ UNCHANGED <<exits, todo, alive, reload, refused, code, deaths, cmds>>

\* wait_ready(): the socket answered, or 30 s passed and the loop takes over.
EngineAnswers ==
    /\ mode = "ready" /\ Live(Engine) # {}
    /\ state' = [state EXCEPT ![Engine] = IF @ = "starting" THEN "running" ELSE @]
    /\ mode' = "launch"
    /\ UNCHANGED <<want, pid, pending, exits, proc, todo, alive, reload, fabric, refused,
                   code, bounds>>

EngineSilent ==
    /\ mode = "ready"
    /\ mode' = "launch"
    /\ UNCHANGED <<table, pending, exits, proc, todo, alive, reload, fabric, refused,
                   code, bounds>>

\* The readback of the engine's document failed: the engine is signalled, the
\* applied netdevs stay.
ReadbackFails ==
    /\ mode = "ready" /\ Live(Engine) # {}
    /\ Signal(Engine, pid[Engine], "term")
    /\ state' = [state EXCEPT ![Engine] = IF @ = "starting" THEN "running" ELSE @]
    /\ Exit("refused")
    /\ UNCHANGED <<want, pid, pending, exits, todo, alive, reload, fabric, refused, bounds>>

LaunchOthers ==
    /\ mode = "launch"
    /\ \E F \in SUBSET (Names \ {Engine}) : Launch(Names \ {Engine}, F)
    /\ mode' = "loop"
    /\ UNCHANGED <<exits, todo, alive, reload, fabric, refused, code, deaths, cmds>>

-----------------------------------------------------------------------------
(* The arms of the loop.                                                   *)

Reschedule(n) == pending' = IF want[n] THEN pending \union {n} ELSE pending

HandleExit(n) ==
    /\ mode = "loop"
    /\ TakeExit(n)
    /\ Reschedule(n)
    /\ UNCHANGED <<mode, proc, todo, alive, reload, fabric, refused, code, bounds>>

Respawn(n) ==
    /\ mode = "loop" /\ n \in pending
    /\ \E F \in SUBSET {n} : Launch({n}, F)
    /\ UNCHANGED <<mode, exits, todo, alive, reload, fabric, refused, code, deaths, cmds>>

\* ready_tick: any process that owns the engine's socket may answer.
ReadyTick ==
    /\ mode = "loop" /\ state[Engine] = "starting" /\ Live(Engine) # {}
    /\ state' = [state EXCEPT ![Engine] = "running"]
    /\ UNCHANGED <<mode, want, pid, pending, exits, proc, todo, alive, reload, fabric,
                   refused, code, bounds>>

Terminate ==
    /\ mode = "loop"
    /\ mode' = "off"
    /\ UNCHANGED <<table, pending, exits, proc, todo, alive, reload, fabric, refused,
                   code, bounds>>

\* A reload whose file cannot be used, or whose re-apply fails: the running
\* fabric and every child are kept.
ReloadRefused ==
    /\ mode = "loop" /\ cmds < MaxCmd
    /\ cmds' = cmds + 1
    /\ refused' = TRUE
    /\ UNCHANGED <<mode, table, pending, exits, proc, todo, alive, reload, fabric, code,
                   deaths, fails>>

ReloadChanged ==
    /\ mode = "loop"
    /\ reload' = TRUE
    /\ mode' = "off"
    /\ UNCHANGED <<table, pending, exits, proc, todo, alive, fabric, refused, code, bounds>>

ReloadIdentical ==
    /\ mode = "loop" /\ cmds < MaxCmd
    /\ cmds' = cmds + 1
    /\ todo' = Restarted
    /\ mode' = "restart"
    /\ UNCHANGED <<table, pending, exits, proc, alive, reload, fabric, refused, code, deaths,
                   fails>>

-----------------------------------------------------------------------------
(* restart_child(), once per child of todo.                                *)

RestartSignal ==
    /\ mode = "restart"
    /\ LET n == Head(todo)
       IN  IF pid[n] # 0
           THEN Signal(n, pid[n], "term") /\ mode' = "drain"
           ELSE mode' = "relaunch" /\ UNCHANGED proc
    /\ UNCHANGED <<table, pending, exits, todo, alive, reload, fabric, refused, code, bounds>>

\* Mutant: any exit ends the wait.
AnswersAny(n) == n \in Names

\* Only the exit of the child that is restarted ends the wait.
Answers(n) == n = Head(todo)

\* Mutant: an exit that arrives meanwhile is dropped.
OtherExitDropped(n) == UNCHANGED <<mode, pending>> /\ n # Head(todo)

\* Exits that arrive meanwhile are handled as in the loop.
OtherExit(n) == Reschedule(n) /\ UNCHANGED mode

DrainExit(n) ==
    /\ mode = "drain"
    /\ TakeExit(n)
    /\ IF Answers(n) THEN mode' = "relaunch" /\ UNCHANGED pending ELSE OtherExit(n)
    /\ UNCHANGED <<proc, todo, alive, reload, fabric, refused, code, bounds>>

\* The 10 s are over: SIGKILL, and the loop leaves at its deadline check, or it
\* leaves there at once when another child's exit came in last.
DrainTimeout ==
    /\ mode = "drain" /\ Head(todo) \in Unwilling
    /\ \/ exits = <<>> /\ Signal(Head(todo), pid[Head(todo)], "kill")
       \/ UNCHANGED proc
    /\ mode' = "relaunch"
    /\ UNCHANGED <<table, pending, exits, todo, alive, reload, fabric, refused, code, bounds>>

Relaunch ==
    /\ mode = "relaunch"
    /\ \E F \in SUBSET {Head(todo)} : Launch({Head(todo)}, F)
    /\ todo' = Tail(todo)
    /\ mode' = IF Tail(todo) = <<>> THEN "loop" ELSE "restart"
    /\ refused' = IF Tail(todo) = <<>> THEN FALSE ELSE refused
    /\ UNCHANGED <<exits, alive, reload, fabric, code, deaths, cmds>>

-----------------------------------------------------------------------------
(* The stop sequence.                                                      *)

\* No child is wanted any more (and forwarding goes off).
StopWanting ==
    /\ mode = "off"
    /\ want' = [n \in Names |-> FALSE]
    /\ mode' = "term"
    /\ UNCHANGED <<state, pid, pending, exits, proc, todo, alive, reload, fabric, refused, code,
                   bounds>>

\* Mutant: only children in state `running` are signalled.
TargetsRunning == {n \in Names : state[n] = "running"}

Targets == {n \in Names : pid[n] # 0}

TermAll ==
    /\ mode = "term"
    /\ alive' = Targets
    /\ proc' = [n \in Names |-> [k \in Pids |->
                   IF n \in Targets /\ k = pid[n] /\ proc[n][k] = "live" THEN "term"
                   ELSE proc[n][k]]]
    /\ mode' = "reap"
    /\ UNCHANGED <<table, pending, exits, todo, reload, fabric, refused, code, bounds>>

ReapExit(n) ==
    /\ mode = "reap" /\ alive # {}
    /\ TakeExit(n)
    /\ alive' = alive \ {n}
    /\ UNCHANGED <<mode, pending, proc, todo, reload, fabric, refused, code, bounds>>

\* Everybody is gone, or the grace is over and the rest is killed. A willing
\* child needs less than the grace.
GraceOver == \A n \in alive : n \in Unwilling \/ proc[n][pid[n]] = "gone"

KillRest ==
    /\ mode = "reap"
    /\ GraceOver
    /\ proc' = [n \in Names |-> [k \in Pids |->
                   IF n \in alive /\ k = pid[n] /\ proc[n][k] = "term" THEN "kill"
                   ELSE proc[n][k]]]
    /\ mode' = "teardown"
    /\ UNCHANGED <<table, pending, exits, todo, alive, reload, fabric, refused, code, bounds>>

\* teardown refuses to take the run directory from under a live engine; the
\* error is printed and the exit status is the same.
LockHeld == \E k \in Pids : proc[Engine][k] \in {"live", "term", "kill"}

TeardownAndExit ==
    /\ mode = "teardown"
    /\ fabric' = (fabric /\ LockHeld)
    /\ Exit(IF reload THEN "reload" ELSE "ok")
    /\ UNCHANGED <<table, pending, exits, proc, todo, alive, reload, refused, bounds>>

-----------------------------------------------------------------------------
Start ==
    \/ ApplyRefused \/ ApplyAndLaunchEngine \/ EngineAnswers \/ EngineSilent
    \/ ReadbackFails \/ LaunchOthers
Command == Terminate \/ ReloadRefused \/ ReloadChanged \/ ReloadIdentical
Reapply == RestartSignal \/ (\E n \in Names : DrainExit(n)) \/ DrainTimeout \/ Relaunch
Stop ==
    \/ StopWanting \/ TermAll \/ (\E n \in Names : ReapExit(n)) \/ KillRest
    \/ TeardownAndExit

\* The process has exited; nothing is left to do.
Done == mode = "exit" /\ UNCHANGED vars

Next ==
    \/ Start \/ Command \/ Reapply \/ Stop \/ ReadyTick \/ Done
    \/ \E n \in Names : HandleExit(n) \/ Respawn(n)
    \/ \E n \in Names, k \in Pids : Dies(n, k) \/ Obeys(n, k)

\* tokio::select! picks among the ready arms at random, so an arm that stays
\* ready is taken; a signalled child exits (one that ignores SIGTERM does so
\* when killed).
Fairness ==
    /\ WF_vars(Start) /\ WF_vars(Reapply) /\ WF_vars(Stop)
    /\ \A n \in Names : WF_vars(HandleExit(n)) /\ WF_vars(Respawn(n))
    /\ \A n \in Names, k \in Pids :
          WF_vars((n \in Unwilling => proc[n][k] = "kill") /\ Obeys(n, k))

Spec == Init /\ [][Next]_vars /\ Fairness

-----------------------------------------------------------------------------
Modes == {"apply", "ready", "launch", "loop", "restart", "drain", "relaunch", "off", "term",
          "reap", "teardown", "exit"}

\* Every variable keeps its type; only the engine, whose socket the ready tick
\* asks, is ever `starting` (nothing would move another child on).
TypeOK ==
    /\ mode \in Modes
    /\ state \in [Names -> {"stopped", "starting", "running", "restarting"}]
    /\ \A n \in Names : state[n] = "starting" => n = Engine
    /\ want \in [Names -> BOOLEAN] /\ pid \in [Names -> 0..MaxSpawn]
    /\ pending \subseteq Names /\ exits \in Seq(Names)
    /\ proc \in [Names -> [Pids -> {"none", "live", "term", "kill", "gone"}]]
    /\ todo \in Seq(Names) /\ alive \subseteq Names
    /\ reload \in BOOLEAN /\ fabric \in BOOLEAN /\ refused \in BOOLEAN
    /\ code \in {"none", "ok", "refused", "reload"}
    /\ deaths \in 0..MaxDeath /\ fails \in 0..MaxFail /\ cmds \in 0..MaxCmd

\* The children a re-apply may start again before their old process is gone.
Overtaken == {n \in Unwilling : \E i \in DOMAIN Restarted : Restarted[i] = n}

\* restart_child() waits for the old process: whatever the other children do, a
\* child that goes when it is told never has two processes that both believe
\* they are wanted.
OneProcess == \A n \in Names \ Overtaken : Cardinality(Live(n)) <= 1

\* supervisor/mod.rs: "waiting for the old one to die first keeps the engine's
\* single-instance `flock` uncontended".
OneEngine == Cardinality(Live(Engine)) <= 1

\* exited(), pending and launch(): while it supervises, the supervisor loses no
\* wanted child. Either the table names its process, which is there or whose
\* exit is in the channel, or it waits out a backoff.
NoChildLost ==
    mode = "loop" => \A n \in Names :
        /\ want[n]
        /\ pid[n] = 0 <=> n \in pending
        /\ pid[n] = 0 <=> state[n] = "restarting"
        /\ pid[n] # 0 => \/ proc[n][pid[n]] = "live"
                         \/ \E i \in DOMAIN exits : exits[i] = n

\* The stop sequence takes nothing down under a child it has not told to stop.
StopReachesAll ==
    mode \in {"teardown", "exit"} /\ code # "refused" =>
        \A n \in Names \ Overtaken : Live(n) = {}

\* launch(), restart_child() and the stop sequence: no process of a child goes
\* its own way beside the one the table names, nor outlives the stop.
NoStray == OneProcess /\ StopReachesAll

\* A clean exit means the teardown completed.
CleanExit == code = "ok" => ~fabric

\* A start, a re-apply and a stop all come to an end: children that ignore
\* SIGTERM or die meanwhile cannot keep the supervisor from its loop.
Returns == mode \notin {"loop", "exit"} ~> mode \in {"loop", "exit"}

\* A child that died comes back, unless a stop begins first.
ComesBack ==
    \A n \in Names : (mode = "loop" /\ n \in pending) ~> (Live(n) # {} \/ code # "none")

\* Nothing the children do keeps the supervisor from its loop, and no child of
\* the loop is given up (what restart_child, the respawn arm and the stop promise).
KeepsGoing == Returns /\ ComesBack
=============================================================================
