------------------------------ MODULE Instance ------------------------------
(* Who owns a member: the `cfab run`s and `cfab down`s an operator, systemd   *)
(* or a container may start side by side, and what keeps them apart -- the    *)
(* flock on cfab.lock, the probe and the path of cfab.sock, the flock on      *)
(* engine.lock and the run directory that holds all three.                    *)
(* A flock is on an inode, so a lock file of a removed directory is another   *)
(* lock than the one of the same name made later: every directory ever made   *)
(* has its number, and a process holds a lock OF one of them.                 *)
EXTENDS Naturals, FiniteSets

CONSTANTS
    Runs,       \* the `cfab run` processes
    NoRun,      \* no process
    MaxStarts,  \* bound: how often a run is started
    MaxDowns,   \* bound: how often `cfab down` is typed
    MaxKills    \* bound: SIGKILLs

ASSUME InstanceAssumption ==
    /\ NoRun \notin Runs
    /\ MaxStarts \in Nat /\ MaxDowns \in Nat /\ MaxKills \in Nat

VARIABLES
    stage,     \* where a run is
    lockDir,  \* the directory whose cfab.lock a run holds, 0 none
    downAt,   \* where `cfab down` is
    runDir,   \* the run directory there is, 0 none
    dirs,     \* directories made so far
    sockOf,   \* who bound the path cfab.sock
    copyOf,   \* whose declaration fabric.toml.applied is
    netdevs,  \* whose apply built the netdevs there are
    engineAt, \* a run's engine: "none", "starting", "holds"
    engDir,   \* the directory whose engine.lock that engine holds
    unread,   \* runs whose copy of the declaration could not be written
    exit,     \* the last exit status of a run
    beside,   \* runs that had another cfab process for company while starting
    crossed,  \* runs whose start and a teardown have passed each other unnoticed
    spent     \* starts, downs and kills so far

instVars == <<stage, lockDir, downAt, runDir, dirs, sockOf, copyOf, netdevs, engineAt,
              engDir, unread, exit, beside, crossed, spent>>

InstInit ==
    /\ stage = [r \in Runs |-> "gone"] /\ lockDir = [r \in Runs |-> 0]
    /\ downAt = "gone" /\ runDir = 0 /\ dirs = 0
    /\ sockOf = NoRun /\ copyOf = NoRun /\ netdevs = NoRun
    /\ engineAt = [r \in Runs |-> "none"] /\ engDir = [r \in Runs |-> 0]
    /\ unread = {} /\ exit = [r \in Runs |-> "none"]
    /\ beside = {} /\ crossed = {}
    /\ spent = [start |-> 0, down |-> 0, kill |-> 0]

Alive(r) == stage[r] # "gone"

\* Nothing of cfab but this process, engines included.
Alone(r) ==
    /\ downAt = "gone"
    /\ \A q \in Runs : (q # r => ~Alive(q)) /\ engineAt[q] = "none"

\* create_dir_all: a directory that is there stays the one it is.
MkDir ==
    \/ runDir # 0 /\ UNCHANGED <<runDir, dirs>>
    \/ runDir = 0 /\ dirs' = dirs + 1 /\ runDir' = dirs + 1

LockHeld(d)   == \E r \in Runs : lockDir[r] = d
EngineHeld(d) == \E r \in Runs : engineAt[r] = "holds" /\ engDir[r] = d

\* An exit or a death: the kernel releases the flock; paths stay.
Leave(r, code) ==
    /\ stage' = [stage EXCEPT ![r] = "gone"]
    /\ lockDir' = [lockDir EXCEPT ![r] = 0]
    /\ exit' = [exit EXCEPT ![r] = code]

GoTo(r, step) == stage' = [stage EXCEPT ![r] = step]

\* A process that begins is company to every start under way, and has it.
Company(r) ==
    beside' = (beside \ {r})
              \cup {q \in Runs \ {r} : Alive(q)}
              \cup (IF Alone(r) THEN {} ELSE {r})

-----------------------------------------------------------------------------
(* `cfab run`, up to the main loop. *)

\* load_fabric_text; create_dir_all(run_dir).
Start(r) ==
    /\ stage[r] = "gone" /\ spent.start < MaxStarts
    /\ spent' = [spent EXCEPT !.start = @ + 1]
    /\ MkDir /\ Company(r)
    /\ GoTo(r, "lock") /\ exit' = [exit EXCEPT ![r] = "none"]
    /\ unread' = unread \ {r}
    /\ UNCHANGED <<lockDir, downAt, sockOf, copyOf, netdevs, engineAt, engDir, crossed>>

\* A teardown that no lock and no socket shows to a start.
Hidden(r) ==
    \/ downAt # "gone"
    \/ \E q \in Runs \ {r} : stage[q] = "netdevs"

\* lock::hold: no directory to open the file in is a panic, a held lock exit 4.
TakeLock(r) ==
    /\ stage[r] = "lock"
    /\ \/ runDir = 0 /\ Leave(r, "panic") /\ UNCHANGED crossed
       \/ runDir # 0 /\ LockHeld(runDir) /\ Leave(r, "held") /\ UNCHANGED crossed
       \/ /\ runDir # 0 /\ ~LockHeld(runDir)
          /\ lockDir' = [lockDir EXCEPT ![r] = runDir] /\ GoTo(r, "probe")
          /\ crossed' = crossed \cup (IF Hidden(r) THEN {r} ELSE {})
          /\ UNCHANGED exit
    /\ UNCHANGED <<downAt, runDir, dirs, sockOf, copyOf, netdevs, engineAt, engDir,
                   unread, beside, spent>>

\* A supervisor answers `components` from its main loop on; between bind and loop
\* a client connects and reads nothing.
Serves(r) == Alive(r) /\ stage[r] \in {"serve", "stop", "check", "rmdir"}
Answered  == sockOf # NoRun /\ Serves(sockOf)

\* sock_frame::answers, and bind_reclaiming's unlink of a path nobody answers on.
Probe(r) ==
    /\ stage[r] = "probe"
    /\ \/ Answered /\ Leave(r, "held") /\ UNCHANGED sockOf
       \/ ~Answered /\ sockOf' = NoRun /\ GoTo(r, "bind") /\ UNCHANGED <<lockDir, exit>>
    /\ UNCHANGED <<downAt, runDir, dirs, copyOf, netdevs, engineAt, engDir, unread,
                   beside, crossed, spent>>

\* bind: the directory again, then EADDRINUSE if somebody was faster.
BindSock(r) ==
    /\ stage[r] = "bind" /\ MkDir
    /\ \/ sockOf # NoRun /\ Leave(r, "internal") /\ UNCHANGED sockOf
       \/ sockOf = NoRun /\ sockOf' = r /\ GoTo(r, "copy") /\ UNCHANGED <<lockDir, exit>>
    /\ UNCHANGED <<downAt, copyOf, netdevs, engineAt, engDir, unread, beside, crossed,
                   spent>>

\* The applied copy; a failed write is a warning.
WriteCopy(r) ==
    /\ stage[r] = "copy" /\ GoTo(r, "apply")
    /\ \/ runDir # 0 /\ copyOf' = r /\ UNCHANGED unread
       \/ unread' = unread \cup {r} /\ UNCHANGED copyOf
    /\ UNCHANGED <<lockDir, downAt, runDir, dirs, sockOf, netdevs, engineAt, engDir,
                   exit, beside, crossed, spent>>

\* The first apply; a refusal is exit 3 and leaves the socket's path.
FirstApply(r) ==
    /\ stage[r] = "apply" /\ MkDir
    /\ \/ netdevs' = r /\ GoTo(r, "launch") /\ UNCHANGED <<lockDir, exit>>
       \/ netdevs' \in {netdevs, r} /\ Leave(r, "refused")
    /\ UNCHANGED <<downAt, sockOf, copyOf, engineAt, engDir, unread, beside, crossed,
                   spent>>

\* sweep_routes and the engine's spawn.
SpawnEngine(r) ==
    /\ engineAt[r] = "none" /\ engineAt' = [engineAt EXCEPT ![r] = "starting"]
    /\ UNCHANGED engDir

Launch(r) ==
    /\ stage[r] = "launch"
    /\ IF engineAt[r] = "none" THEN SpawnEngine(r) ELSE UNCHANGED <<engineAt, engDir>>
    /\ GoTo(r, "ready")
    /\ UNCHANGED <<lockDir, downAt, runDir, dirs, sockOf, copyOf, netdevs, unread, exit,
                   beside, crossed, spent>>

\* wait_ready and readback; an engine that runs another configuration is told to
\* go and the start refused, one that is not ready in time goes on being supervised.
Ready(r) ==
    /\ stage[r] = "ready"
    /\ \/ GoTo(r, "serve") /\ UNCHANGED <<lockDir, exit>>
       \/ engineAt[r] = "holds" /\ Leave(r, "refused")
    /\ UNCHANGED <<downAt, runDir, dirs, sockOf, copyOf, netdevs, engineAt, engDir,
                   unread, beside, crossed, spent>>

\* Whose fabric `cfab status` describes: the copy's, before the file on disk.
Described == IF runDir = 0 THEN NoRun ELSE copyOf

-----------------------------------------------------------------------------
(* The engine, a child of its run that its parent's death tells to go. *)

\* create_dir_all and hold(engine.lock); held means another engine: exit.
EngineLocks(r) ==
    /\ engineAt[r] = "starting" /\ MkDir
    /\ IF EngineHeld(runDir')
       THEN engineAt' = [engineAt EXCEPT ![r] = "none"] /\ UNCHANGED engDir
       ELSE /\ engineAt' = [engineAt EXCEPT ![r] = "holds"]
            /\ engDir' = [engDir EXCEPT ![r] = runDir']
    /\ UNCHANGED <<stage, lockDir, downAt, sockOf, copyOf, netdevs, unread, exit, beside,
                   crossed, spent>>

\* It ends: by itself, told to by its parent, or after its parent's death.
EngineDies(r) ==
    /\ engineAt[r] = "holds"
    /\ engineAt' = [engineAt EXCEPT ![r] = "none"] /\ engDir' = [engDir EXCEPT ![r] = 0]
    /\ UNCHANGED <<stage, lockDir, downAt, runDir, dirs, sockOf, copyOf, netdevs, unread,
                   exit, beside, crossed, spent>>

\* The main loop respawns it.
Respawn(r) ==
    /\ stage[r] = "serve" /\ SpawnEngine(r)
    /\ UNCHANGED <<stage, lockDir, downAt, runDir, dirs, sockOf, copyOf, netdevs, unread,
                   exit, beside, crossed, spent>>

-----------------------------------------------------------------------------
(* The stop sequence, and `cfab down`, which runs the same teardown. *)

\* SIGTERM: forwarding off, children told to go.
Stop(r) ==
    /\ stage[r] = "serve" /\ GoTo(r, "stop")
    /\ UNCHANGED <<lockDir, downAt, runDir, dirs, sockOf, copyOf, netdevs, engineAt,
                   engDir, unread, exit, beside, crossed, spent>>

\* The grace is over: a child still there has been sent SIGKILL and starts nothing
\* any more, but its locks are released only when the kernel gets to it.
GraceEnds(r) ==
    /\ stage[r] = "stop" /\ GoTo(r, "check")
    /\ engineAt' = [engineAt EXCEPT ![r] = IF @ = "starting" THEN "none" ELSE @]
    /\ UNCHANGED <<lockDir, downAt, runDir, dirs, sockOf, copyOf, netdevs, engDir, unread,
                   exit, beside, crossed, spent>>

\* The run directory is left alone while an engine holds its lock.
TeardownAllowed == runDir = 0 \/ ~EngineHeld(runDir)

StopCheck(r) ==
    /\ stage[r] = "check"
    /\ IF TeardownAllowed THEN GoTo(r, "rmdir") /\ UNCHANGED <<lockDir, exit>>
                          ELSE Leave(r, "ok")
    /\ UNCHANGED <<downAt, runDir, dirs, sockOf, copyOf, netdevs, engineAt, engDir,
                   unread, beside, crossed, spent>>

\* sys.remove(run_dir): the lock files, the socket path and the copy go with it.
RmDir == runDir' = 0 /\ sockOf' = NoRun /\ copyOf' = NoRun

StopRmDir(r) ==
    /\ stage[r] = "rmdir" /\ RmDir /\ GoTo(r, "netdevs")
    /\ UNCHANGED <<lockDir, downAt, dirs, netdevs, engineAt, engDir, unread, exit, beside,
                   crossed, spent>>

\* Every netdev of the derived names, whoever built it; then exit.
StopNetdevs(r) ==
    /\ stage[r] = "netdevs" /\ netdevs' = NoRun /\ Leave(r, "ok")
    /\ UNCHANGED <<downAt, runDir, dirs, sockOf, copyOf, engineAt, engDir, unread, beside,
                   crossed, spent>>

\* Mutant: a supervisor that does not answer is taken for none.
SilenceIsAbsence == sockOf = NoRun \/ ~Serves(sockOf)

\* unix_probe: only a path that is not there, or that nobody listens on any more,
\* proves that nobody is home; silence does not.
NotListening == sockOf = NoRun \/ ~Alive(sockOf)

\* Runs that hold the lock and have no socket path to show for it.
Unseen == {r \in Runs : lockDir[r] # 0 /\ sockOf # r}

DownProbe ==
    /\ downAt = "gone" /\ spent.down < MaxDowns
    /\ spent' = [spent EXCEPT !.down = @ + 1]
    /\ beside' = beside \cup {r \in Runs : Alive(r)}
    /\ IF NotListening
       THEN downAt' = "check" /\ crossed' = crossed \cup Unseen
       ELSE UNCHANGED <<downAt, crossed>>
    /\ UNCHANGED <<stage, lockDir, runDir, dirs, sockOf, copyOf, netdevs, engineAt, engDir,
                   unread, exit>>

DownCheck ==
    /\ downAt = "check" /\ downAt' = (IF TeardownAllowed THEN "rmdir" ELSE "gone")
    /\ UNCHANGED <<stage, lockDir, runDir, dirs, sockOf, copyOf, netdevs, engineAt, engDir,
                   unread, exit, beside, crossed, spent>>

DownRmDir ==
    /\ downAt = "rmdir" /\ RmDir /\ downAt' = "netdevs"
    /\ UNCHANGED <<stage, lockDir, dirs, netdevs, engineAt, engDir, unread, exit, beside,
                   crossed, spent>>

DownNetdevs ==
    /\ downAt = "netdevs" /\ netdevs' = NoRun /\ downAt' = "gone"
    /\ UNCHANGED <<stage, lockDir, runDir, dirs, sockOf, copyOf, engineAt, engDir, unread,
                   exit, beside, crossed, spent>>

\* SIGKILL, OOM: the parent-death signal ends an engine that is only starting.
KillRun(r) ==
    /\ Alive(r) /\ spent.kill < MaxKills
    /\ spent' = [spent EXCEPT !.kill = @ + 1]
    /\ Leave(r, "killed")
    /\ engineAt' = [engineAt EXCEPT ![r] = IF @ = "starting" THEN "none" ELSE @]
    /\ UNCHANGED <<downAt, runDir, dirs, sockOf, copyOf, netdevs, engDir, unread, beside,
                   crossed>>

KillDown ==
    /\ downAt # "gone" /\ spent.kill < MaxKills
    /\ spent' = [spent EXCEPT !.kill = @ + 1] /\ downAt' = "gone"
    /\ UNCHANGED <<stage, lockDir, runDir, dirs, sockOf, copyOf, netdevs, engineAt, engDir,
                   unread, exit, beside, crossed>>

\* Nothing of cfab is left but what it left behind: the next episode begins, and
\* the directory there is becomes the first.
Quiet ==
    /\ downAt = "gone" /\ \A r \in Runs : ~Alive(r) /\ engineAt[r] = "none"
    /\ spent' = [start |-> 0, down |-> 0, kill |-> 0]
    /\ exit' = [r \in Runs |-> "none"] /\ beside' = {} /\ unread' = {} /\ crossed' = {}
    /\ runDir' = (IF runDir = 0 THEN 0 ELSE 1) /\ dirs' = runDir'
    /\ UNCHANGED <<stage, lockDir, downAt, sockOf, copyOf, netdevs, engineAt, engDir>>

InstNext ==
    \/ \E r \in Runs :
          \/ Start(r) \/ TakeLock(r) \/ Probe(r) \/ BindSock(r) \/ WriteCopy(r)
          \/ FirstApply(r) \/ Launch(r) \/ Ready(r)
          \/ EngineLocks(r) \/ EngineDies(r) \/ Respawn(r)
          \/ Stop(r) \/ GraceEnds(r) \/ StopCheck(r) \/ StopRmDir(r) \/ StopNetdevs(r)
          \/ KillRun(r)
    \/ DownProbe \/ DownCheck \/ DownRmDir \/ DownNetdevs \/ KillDown \/ Quiet

InstSpec == InstInit /\ [][InstNext]_instVars

-----------------------------------------------------------------------------
Stages == {"gone", "lock", "probe", "bind", "copy", "apply", "launch", "ready", "serve",
           "stop", "check", "rmdir", "netdevs"}

\* The type invariant.
InstTypeOK ==
    /\ stage \in [Runs -> Stages] /\ lockDir \in [Runs -> Nat]
    /\ downAt \in {"gone", "check", "rmdir", "netdevs"}
    /\ runDir \in Nat /\ dirs \in Nat
    /\ sockOf \in Runs \cup {NoRun} /\ copyOf \in Runs \cup {NoRun}
    /\ netdevs \in Runs \cup {NoRun}
    /\ engineAt \in [Runs -> {"none", "starting", "holds"}] /\ engDir \in [Runs -> Nat]
    /\ exit \in [Runs -> {"none", "ok", "held", "internal", "panic", "refused", "killed"}]
    /\ unread \subseteq Runs /\ beside \subseteq Runs /\ crossed \subseteq Runs
    /\ spent \in [start : 0..MaxStarts, down : 0..MaxDowns, kill : 0..MaxKills]

\* No two engines on one member: "exactly the state the flock exists to make
\* unrepresentable".
OneEngineAtATime ==
    \A p, q \in Runs : engineAt[p] = "holds" /\ engineAt[q] = "holds" => p = q

\* Whoever is in its main loop is the one every command sees and acts on.
OwnsMember(r) ==
    /\ lockDir[r] = runDir
    /\ sockOf = r
    /\ Described = r \/ r \in unread
    /\ netdevs = r
    /\ downAt = "gone"
    /\ \A q \in Runs \ {r} : stage[q] \in {"gone", "lock"}

(* A member has one owner.  Unless a start and a teardown have crossed where     *)
(* neither the lock nor the socket shows one to the other, the supervisor in     *)
(* its main loop holds the lock of the run directory there is, answers on the    *)
(* socket path, is the one `cfab status` describes, runs the netdevs it built,   *)
(* has no teardown beside it, and there is at most one engine; through SIGKILLs  *)
(* that leave lock file, socket path, copy and engine behind.  And what they     *)
(* leave never stops a successor: a start that had no other cfab process beside  *)
(* it is never refused as "held" or for its socket.                              *)
SoleOwner ==
    /\ crossed = {} => OneEngineAtATime /\ \A r \in Runs : stage[r] = "serve" => OwnsMember(r)
    /\ \A r \in Runs : exit[r] \in {"held", "internal", "panic"} => r \in beside
=============================================================================
