------------------------------ MODULE MainLoop ------------------------------
(* The supervisor's select! loop as systemd sees it: which arm is due, what it  *)
(* waits for and when WATCHDOG=1 is sent.  One unit of time is five seconds,    *)
(* the timeout of a read of engine.sock; what takes less takes none.            *)
EXTENDS Naturals

CONSTANTS
    WatchdogSec,  \* systemd kills a unit it has not heard of for so long (30 s)
    FeedPeriod,   \* WATCHDOG_USEC / 3 (10 s)
    ApplyBound,   \* START_WAIT_MS + SETTLE_MS + 30 s (63 s)
    StopGrace,    \* how long a restart waits for the old child (10 s)
    Refresh,      \* metrics::REFRESH (15 s)
    BindRetry,    \* metrics::BIND_RETRY (60 s)
    MaxLoopFaults \* bound: what goes wrong

ASSUME LoopAssumption ==
    /\ WatchdogSec \in Nat /\ ApplyBound \in Nat /\ StopGrace \in Nat /\ MaxLoopFaults \in Nat
    /\ FeedPeriod \in Nat \ {0} /\ Refresh \in Nat \ {0} /\ BindRetry \in Nat \ {0}
    /\ StopGrace < WatchdogSec

VARIABLES
    loopAt,         \* what the loop waits in
    waits,     \* for how long
    unfed,      \* time since systemd last heard of it
    feedIn, gatherIn, retryIn,  \* when these arms are due
    child,      \* the engine's state as the supervisor has it
    engine,     \* the engine: "absent" (no socket), "answers", "silent"
    sinceApply, \* since the re-apply under way began
    deaf,       \* since an engine taken for running does not answer
    inApply,    \* time inside apply::run since the last feed
    inReads,    \* and in reads of a silent engine
    lastFeed,   \* "given", or "withheld" since then
    port,       \* the metrics port: "ours", "taken" by another, "free"
    loopFaults

loopVars == <<loopAt, waits, unfed, feedIn, gatherIn, retryIn, child, engine, sinceApply, deaf,
              inApply, inReads, lastFeed, port, loopFaults>>

\* After READY=1: everything launched, the endpoint bound or its port taken.
LoopInit ==
    /\ loopAt = "select" /\ waits = 0 /\ unfed = 0
    /\ feedIn = FeedPeriod /\ gatherIn = Refresh /\ retryIn = BindRetry
    /\ child \in {"starting", "running"}
    /\ engine = (IF child = "running" THEN "answers" ELSE "absent")
    /\ sinceApply = 0 /\ deaf = 0 /\ inApply = 0 /\ inReads = 0
    /\ lastFeed = "given"
    /\ port \in {"ours", "taken"}
    /\ loopFaults = 0

Less(n)  == IF n = 0 THEN 0 ELSE n - 1
Idle     == loopAt = "select"
Reads    == {"feed-read", "ready-read", "gather-read"}
ChildStops == {"stop-engine", "stop-shape"}
GoOn(at) == loopAt' = at /\ waits' = 0

\* sd_notify WATCHDOG=1.
Feed     == unfed' = 0 /\ inApply' = 0 /\ inReads' = 0 /\ lastFeed' = "given"
Withhold == lastFeed' = "withheld" /\ UNCHANGED <<unfed, inApply, inReads>>
NotYet   == UNCHANGED <<unfed, inApply, inReads, lastFeed>>

\* should_feed: an apply within its bound vouches for itself, a running engine has
\* to have answered, a starting or restarting one is contained, a stopped one is not.
ShouldFeed(applying, since, state, ok) ==
    IF applying THEN since < ApplyBound
    ELSE \/ state = "running" /\ ok
         \/ state \in {"starting", "restarting"}

-----------------------------------------------------------------------------
(* The feed arm, the readiness arm and the metrics arm. *)

\* Only a running engine is read, and only a silent one is waited for.
FeedArm ==
    /\ Idle /\ feedIn = 0 /\ feedIn' = FeedPeriod
    /\ IF child = "running" /\ engine = "silent"
       THEN GoOn("feed-read") /\ NotYet
       ELSE /\ GoOn("select")
            /\ IF ShouldFeed(FALSE, 0, child, engine = "answers") THEN Feed ELSE Withhold
    /\ UNCHANGED <<gatherIn, retryIn, child, engine, sinceApply, deaf, port, loopFaults>>

\* Every 500 ms: due whenever it is asked.
ReadyArm ==
    /\ Idle /\ child = "starting"
    /\ \/ engine = "silent" /\ GoOn("ready-read") /\ UNCHANGED child
       \/ engine = "answers" /\ child' = "running" /\ UNCHANGED <<loopAt, waits>>
    /\ UNCHANGED <<unfed, feedIn, gatherIn, retryIn, engine, sinceApply, deaf, inApply,
                   inReads, lastFeed, port, loopFaults>>

\* refresh_snapshot asks the engine for its state too.
MetricsArm ==
    /\ Idle /\ gatherIn = 0 /\ gatherIn' = Refresh
    /\ GoOn(IF engine = "silent" THEN "gather-read" ELSE "select")
    /\ UNCHANGED <<unfed, feedIn, retryIn, child, engine, sinceApply, deaf, inApply, inReads,
                   lastFeed, port, loopFaults>>

\* A read ends with its answer or its timeout.
ReadEnds ==
    /\ loopAt \in Reads /\ (waits = 1 \/ engine # "silent") /\ GoOn("select")
    /\ IF loopAt # "feed-read" THEN NotYet
       ELSE IF ShouldFeed(FALSE, 0, child, engine = "answers") THEN Feed ELSE Withhold
    /\ child' = (IF loopAt = "ready-read" /\ engine = "answers" THEN "running" ELSE child)
    /\ UNCHANGED <<feedIn, gatherIn, retryIn, engine, sinceApply, deaf, port, loopFaults>>

-----------------------------------------------------------------------------
(* A re-apply: apply::run, then the engine and the shape daemon are restarted. *)

ReapplyArm ==
    /\ Idle /\ GoOn("apply") /\ sinceApply' = 0
    /\ UNCHANGED <<unfed, feedIn, gatherIn, retryIn, child, engine, deaf, inApply, inReads,
                   lastFeed, port, loopFaults>>

\* A failed re-apply keeps the fabric and feeds nobody.
ReapplyFails ==
    /\ loopAt = "apply" /\ GoOn("select")
    /\ UNCHANGED <<unfed, feedIn, gatherIn, retryIn, child, engine, sinceApply, deaf, inApply,
                   inReads, lastFeed, port, loopFaults>>

\* Mutant: the re-apply leaves the feeding to the loop's own arm.
FeedLeftToLoop == NotYet

\* feed_during_reapply: at each safe point, within the bound.
FeedDuringReapply ==
    IF ShouldFeed(TRUE, sinceApply, "starting", FALSE) THEN Feed ELSE Withhold

ApplyReturns ==
    /\ loopAt = "apply" /\ FeedDuringReapply /\ GoOn("stop-engine")
    /\ UNCHANGED <<feedIn, gatherIn, retryIn, child, engine, sinceApply, deaf, port,
                   loopFaults>>

\* The old engine is gone, or killed when its grace is over; the next is launched.
EngineRestarted ==
    /\ loopAt = "stop-engine" /\ child' = "starting" /\ engine' = "absent" /\ deaf' = 0
    /\ FeedDuringReapply /\ GoOn("stop-shape")
    /\ UNCHANGED <<feedIn, gatherIn, retryIn, sinceApply, port, loopFaults>>

\* And the page is gathered anew.
ShapeRestarted ==
    /\ loopAt = "stop-shape" /\ FeedDuringReapply
    /\ GoOn(IF engine = "silent" THEN "gather-read" ELSE "select")
    /\ UNCHANGED <<feedIn, gatherIn, retryIn, child, engine, sinceApply, deaf, port,
                   loopFaults>>

-----------------------------------------------------------------------------
(* The engine and its exits; the clock; systemd. *)

EngineAnswers ==
    /\ engine # "answers" /\ child # "restarting" /\ engine' = "answers" /\ deaf' = 0
    /\ UNCHANGED <<loopAt, waits, unfed, feedIn, gatherIn, retryIn, child, sinceApply, inApply,
                   inReads, lastFeed, port, loopFaults>>

EngineHangs ==
    /\ engine # "silent" /\ child # "restarting" /\ loopFaults < MaxLoopFaults
    /\ engine' = "silent" /\ loopFaults' = loopFaults + 1
    /\ UNCHANGED <<loopAt, waits, unfed, feedIn, gatherIn, retryIn, child, sinceApply, deaf,
                   inApply, inReads, lastFeed, port>>

\* The exit arm, and the respawn arm after its backoff.
EngineExits ==
    /\ Idle /\ child # "restarting" /\ loopFaults < MaxLoopFaults
    /\ child' = "restarting" /\ engine' = "absent" /\ deaf' = 0 /\ loopFaults' = loopFaults + 1
    /\ UNCHANGED <<loopAt, waits, unfed, feedIn, gatherIn, retryIn, sinceApply, inApply, inReads,
                   lastFeed, port>>

Respawned ==
    /\ Idle /\ child = "restarting" /\ child' = "starting"
    /\ UNCHANGED <<loopAt, waits, unfed, feedIn, gatherIn, retryIn, engine, sinceApply, deaf,
                   inApply, inReads, lastFeed, port, loopFaults>>

\* How long what the loop is in may take; an apply may hang.
MayLast ==
    CASE loopAt \in Reads    -> waits < 1
      [] loopAt \in ChildStops -> waits < StopGrace
      [] loopAt = "apply"     -> TRUE
      [] OTHER -> \* an idle loop lets no arm wait
           /\ feedIn > 0 /\ gatherIn > 0 /\ (port = "ours" \/ retryIn > 0)
           /\ ~(child = "starting" /\ engine # "absent")

Starved == loopAt # "killed" /\ unfed >= WatchdogSec

Tick ==
    /\ loopAt # "killed" /\ ~Starved /\ MayLast
    /\ waits' = (IF loopAt \in Reads \cup ChildStops THEN waits + 1 ELSE 0)
    /\ unfed' = unfed + 1
    /\ feedIn' = Less(feedIn) /\ gatherIn' = Less(gatherIn) /\ retryIn' = Less(retryIn)
    /\ sinceApply' = (IF loopAt \in {"apply"} \cup ChildStops THEN sinceApply + 1 ELSE 0)
    /\ deaf' = (IF child = "running" /\ engine = "silent" THEN deaf + 1 ELSE deaf)
    /\ inApply' = (IF loopAt = "apply" THEN inApply + 1 ELSE inApply)
    /\ inReads' = (IF loopAt \in Reads THEN inReads + 1 ELSE inReads)
    /\ UNCHANGED <<loopAt, child, engine, lastFeed, port, loopFaults>>

\* WatchdogSec is over: SIGABRT, and Restart=on-failure starts the unit afresh.
WatchdogKill ==
    /\ Starved /\ GoOn("killed")
    /\ UNCHANGED <<unfed, feedIn, gatherIn, retryIn, child, engine, sinceApply, deaf, inApply,
                   inReads, lastFeed, port, loopFaults>>

Restart ==
    /\ loopAt = "killed" /\ GoOn("select") /\ Feed
    /\ feedIn' = FeedPeriod /\ gatherIn' = Refresh /\ retryIn' = BindRetry
    /\ child' = "starting" /\ engine' = "absent" /\ deaf' = 0 /\ sinceApply' = 0
    /\ port' = (IF port = "taken" THEN "taken" ELSE "ours")
    /\ UNCHANGED loopFaults

\* The bind retry, which only a failed bind asks for; whoever had the port leaves.
RetryBind ==
    /\ Idle /\ port # "ours" /\ retryIn = 0 /\ retryIn' = BindRetry
    /\ port' = (IF port = "free" THEN "ours" ELSE port)
    /\ UNCHANGED <<loopAt, waits, unfed, feedIn, gatherIn, child, engine, sinceApply, deaf,
                   inApply, inReads, lastFeed, loopFaults>>

PortLeft ==
    /\ port = "taken" /\ port' = "free"
    /\ UNCHANGED <<loopAt, waits, unfed, feedIn, gatherIn, retryIn, child, engine, sinceApply,
                   deaf, inApply, inReads, lastFeed, loopFaults>>

LoopNext ==
    \/ FeedArm \/ ReadyArm \/ MetricsArm \/ ReadEnds \/ RetryBind \/ PortLeft
    \/ ReapplyArm \/ ReapplyFails \/ ApplyReturns \/ EngineRestarted \/ ShapeRestarted
    \/ EngineAnswers \/ EngineHangs \/ EngineExits \/ Respawned
    \/ Tick \/ WatchdogKill \/ Restart

LoopSpec == LoopInit /\ [][LoopNext]_loopVars

-----------------------------------------------------------------------------
(* The type invariant. *)
LoopTypeOK ==
    /\ loopAt \in {"select", "feed-read", "ready-read", "gather-read", "apply", "stop-engine",
                   "stop-shape", "killed"}
    /\ waits \in Nat /\ unfed \in 0..WatchdogSec
    /\ feedIn \in 0..FeedPeriod /\ gatherIn \in 0..Refresh /\ retryIn \in 0..BindRetry
    /\ child \in {"starting", "running", "restarting"}
    /\ engine \in {"absent", "answers", "silent"}
    /\ sinceApply \in Nat /\ deaf \in Nat /\ inApply \in Nat /\ inReads \in Nat
    /\ lastFeed \in {"given", "withheld"} /\ port \in {"ours", "taken", "free"}
    /\ loopFaults \in 0..MaxLoopFaults

(* The systemd watchdog tells the truth.  It kills the unit only when, since     *)
(* the last feed, a running engine has not answered, or the supervisor has been  *)
(* inside apply::run or waiting for a starting engine for all of WatchdogSec but *)
(* one feed period: never for restarting two stubborn children after a good      *)
(* apply, nor for a crash-looping engine.  And an engine that is taken for       *)
(* running and does not answer is not kept alive by the feed: it is replaced     *)
(* within WatchdogSec and the grace of a restart.                                *)
WatchdogTrue ==
    /\ Starved => lastFeed = "withheld" \/ inApply + inReads + FeedPeriod >= WatchdogSec
    /\ deaf <= WatchdogSec + StopGrace
=============================================================================
