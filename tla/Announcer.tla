----------------------------- MODULE Announcer -----------------------------
(***************************************************************************)
(* The gateway announcer of one workload row: the beacon and burst         *)
(* schedule (src/workload/announce.rs), the triggers that arm a burst      *)
(* (src/workload/neigh.rs: the neighbor watch, or the FDB poll when it is  *)
(* gone) and the supervisor's loop that drives them                        *)
(* (src/supervisor/workload.rs, src/supervisor/mod.rs).                    *)
(*                                                                         *)
(* Time is counted in the schedule's unit.  Deadlines are relative to now; *)
(* one that is negative was missed by a loop that was busy.                *)
(***************************************************************************)
EXTENDS Integers, Sequences

CONSTANTS Period,             \* PERIOD = BURST_MIN_GAP, in units of BURST_GAP
          BurstLen,           \* BURST_LEN
          TickEvery,          \* the workload tick, in units of BURST_GAP
          VmMacs,             \* MACs of VMs
          MaxAnnounceFaults   \* bound: failures, busy units and changes of the leg

ASSUME AnnouncerAssumption ==
    /\ Period \in Nat \ {0} /\ BurstLen \in 1..Period /\ TickEvery \in Nat \ {0}
    /\ MaxAnnounceFaults \in Nat

Never == Period + 1   \* a clock that has run out, or no deadline

VARIABLES
    inFile,    \* the row is in workload-deferred
    legMac,    \* the leg's MAC
    macs,      \* MACs the bridge has learned on the row's VM ports
    newUplink, \* a port became an uplink since the uplinks were last read
    watch,     \* the neighbor watch task is alive
    cmds,      \* its signals in the command channel
    started,   \* the row has an announcer
    trigger,   \* "events" or "poll"
    mac,       \* Row.mac
    beacon,    \* beacon_due
    burst,     \* [left |-> burst_left, due |-> burst_due]
    since,     \* time since last_burst, at most Never
    known,     \* Row.seen, the last poll's snapshot
    tickDue,   \* time to the workload tick
    sent,      \* frames sent, by age (observer)
    owed,      \* age of the oldest change no frame has told (observer)
    calm,      \* time since a busy loop or a failure (observer)
    flaws      \* failures, busy units and changes of the leg so far

annWorld == <<inFile, legMac, macs, newUplink, watch>>
annRow   == <<started, trigger, mac, beacon, burst, since, known>>
annObs   == <<sent, owed, calm>>
annVars  == <<annWorld, cmds, annRow, tickDue, annObs, flaws>>

NoBurst == [left |-> 0, due |-> Never]

AnnInit ==
    /\ inFile \in BOOLEAN /\ legMac = 1 /\ macs \in SUBSET VmMacs /\ newUplink = FALSE
    /\ watch \in BOOLEAN /\ cmds = <<>>
    /\ started = FALSE /\ trigger = (IF watch THEN "events" ELSE "poll")
    /\ mac = 1 /\ beacon = 0 /\ burst = NoBurst /\ since = Never /\ known = {}
    /\ tickDue = 0
    /\ sent = [a \in 0..(Period - 1) |-> 0] /\ owed = Never /\ calm = Never
    /\ flaws = 0

Flaw == flaws < MaxAnnounceFaults /\ flaws' = flaws + 1
Fine == flaws' = flaws

\* An ownership change that frames have to tell from now on.
Owe == owed' = IF owed = Never /\ started THEN 0 ELSE owed

-----------------------------------------------------------------------------
(* The schedule.                                                           *)

\* Mistake: no rate limit.
OnEventAlways(b, s) == b.left = 0

\* Announcer::on_event starts a burst unless one is running or is too recent.
OnEvent(b, s) == b.left = 0 /\ s >= Period

Armed(yes) ==
    IF yes /\ OnEvent(burst, since)
    THEN burst' = [left |-> BurstLen, due |-> 0] /\ since' = 0
    ELSE UNCHANGED <<burst, since>>

\* Announcer::fire: one frame of the burst, the next one a gap after this one's
\* deadline ...
Fired(b) ==
    IF b.due > 0 THEN b
    ELSE IF b.left = 1 THEN NoBurst
    ELSE [left |-> b.left - 1, due |-> b.due + 1]

\* ... and the beacon moves on by whole periods.
NextBeacon == IF beacon > 0 THEN beacon ELSE Period - ((-beacon) % Period)

\* refresh_mac: a read that fails keeps the last known MAC.
RefreshMac(seen) == IF seen THEN legMac ELSE mac

\* fire_due: refresh_mac, which bursts on a change, then announce_due.  "seen"
\* is whether the MAC could be read, "ok" whether the socket took the frame.  The
\* deadline that woke the loop may be another row's.
FireDue(seen, ok) ==
    LET m    == RefreshMac(seen)
        arm  == m # mac /\ OnEvent(burst, since)
        b    == IF arm THEN [left |-> BurstLen, due |-> 0] ELSE burst
        send == b.due <= 0 \/ beacon <= 0
    IN  /\ started
        /\ IF seen /\ ok THEN Fine /\ calm' = calm ELSE Flaw /\ calm' = 0
        /\ (~send => ok)
        /\ mac' = m
        /\ burst' = Fired(b) /\ beacon' = NextBeacon
        /\ since' = IF arm THEN 0 ELSE since
        /\ sent' = IF send /\ ok THEN [sent EXCEPT ![0] = @ + 1] ELSE sent
        /\ owed' = IF send /\ ok /\ m = legMac THEN Never ELSE owed
        /\ UNCHANGED <<annWorld, cmds, started, trigger, known, tickDue>>

-----------------------------------------------------------------------------
(* The triggers.                                                           *)

\* on_neigh: an add on a port that is no uplink, as far as the uplinks are
\* known, or a gap; "scan" is whether the bridge's ports could be read.
OnNeigh(scan) ==
    /\ cmds # <<>> /\ Head(cmds) \in {"add", "uplink", "overflow"}
    /\ IF scan THEN Fine ELSE Head(cmds) # "overflow" /\ Flaw
    /\ cmds' = Tail(cmds)
    /\ Armed(started /\ scan /\ (Head(cmds) = "uplink" => newUplink))
    /\ UNCHANGED <<annWorld, started, trigger, mac, beacon, known, tickDue, annObs>>

\* watch_died: the rows move to the poll.
WatchDied ==
    /\ cmds # <<>> /\ Head(cmds) = "died"
    /\ cmds' = Tail(cmds) /\ trigger' = "poll"
    /\ Fine
    /\ UNCHANGED <<annWorld, started, mac, beacon, burst, since, known, tickDue, annObs>>

\* fdb_poll_changed: a MAC that the previous poll's snapshot does not have.
PollChanged == ~(macs \subseteq known)

\* The tick before the row has an announcer: start_pending, unless the row is
\* deferred or its uplink or MAC cannot be read ("ok"), then, on the fallback,
\* the poll, unless it cannot run.
AnnTick(ok, polled) ==
    LET starts == ok /\ ~inFile
        polls  == starts /\ polled /\ trigger = "poll"
    IN  /\ tickDue <= 0 /\ ~started
        /\ IF ok /\ polled THEN Fine ELSE ~inFile /\ Flaw
        /\ tickDue' = TickEvery
        /\ started' = starts
        /\ mac' = IF starts THEN legMac ELSE mac
        /\ known' = IF polls THEN macs ELSE known
        /\ Armed(polls /\ PollChanged)
        /\ newUplink' = (newUplink /\ ~starts)
        /\ UNCHANGED <<inFile, legMac, macs, watch, cmds, trigger, beacon, annObs>>

\* The tick of a running announcer: refresh_uplinks, and on the fallback the
\* poll, which compares with the previous snapshot only.
TickPoll(ok, polled) ==
    LET polls == polled /\ trigger = "poll"
    IN  /\ tickDue <= 0 /\ started
        /\ IF ok /\ polled THEN Fine ELSE Flaw
        /\ tickDue' = TickEvery
        /\ newUplink' = (newUplink /\ ~ok)
        /\ known' = IF polls THEN macs ELSE known
        /\ Armed(polls /\ PollChanged)
        /\ UNCHANGED <<inFile, legMac, macs, watch, cmds, started, trigger, mac, beacon, annObs>>

-----------------------------------------------------------------------------
(* Time and the world.                                                     *)

\* Something the loop has to do now.
Due == tickDue <= 0 \/ cmds # <<>> \/ (started /\ (beacon <= 0 \/ burst.due <= 0))

Later(t) == IF t = Never THEN Never ELSE t + 1

\* A unit of time goes by; a loop that is busy with a re-apply misses deadlines.
Elapse(busy) ==
    /\ busy = Due
    /\ IF busy THEN Flaw /\ calm' = 0 ELSE Fine /\ calm' = Later(calm)
    /\ beacon' = IF started THEN beacon - 1 ELSE beacon
    /\ burst' = IF burst.left = 0 THEN burst ELSE [burst EXCEPT !.due = @ - 1]
    /\ since' = Later(since)
    /\ tickDue' = tickDue - 1
    /\ sent' = [a \in 0..(Period - 1) |-> IF a = 0 THEN 0 ELSE sent[a - 1]]
    /\ owed' = Later(owed)
    /\ UNCHANGED <<annWorld, cmds, started, trigger, mac, known>>

\* The channel holds what the watch task sent; the bound keeps it short.
Post(signal) == Len(cmds) < 2 /\ cmds' = IF watch THEN Append(cmds, signal) ELSE cmds

\* A VM's MAC is learned on its port; the watch hears of it, or of a gap.
Learn(v, lost) ==
    /\ v \notin macs
    /\ macs' = macs \cup {v}
    /\ Post(IF lost THEN "overflow" ELSE "add")
    /\ Owe /\ Fine
    /\ UNCHANGED <<inFile, legMac, newUplink, watch, annRow, tickDue, sent, calm>>

AgeOut(v) ==
    /\ v \in macs
    /\ macs' = macs \ {v}
    /\ Fine
    /\ UNCHANGED <<inFile, legMac, newUplink, watch, cmds, annRow, tickDue, annObs>>

\* A peer's MAC is learned on an uplink, possibly one that is new.
PeerLearned(new) ==
    /\ watch /\ Post("uplink")
    /\ newUplink' = (newUplink \/ new)
    /\ IF new THEN Flaw ELSE Fine
    /\ UNCHANGED <<inFile, legMac, macs, watch, annRow, tickDue, annObs>>

WatchDies ==
    /\ watch /\ Post("died") /\ watch' = FALSE
    /\ Fine
    /\ UNCHANGED <<inFile, legMac, macs, newUplink, annRow, tickDue, annObs>>

\* The bridge takes another MAC, and the leg follows it.
LegMacChanges ==
    /\ legMac' = 3 - legMac
    /\ Owe /\ Flaw
    /\ UNCHANGED <<inFile, macs, newUplink, watch, cmds, annRow, tickDue, sent, calm>>

\* The watchdog takes the row out of the file; a re-apply may put it back, which
\* an announcer that runs does not read.
FileChanges ==
    /\ inFile' = ~inFile
    /\ IF inFile THEN Fine ELSE Flaw
    /\ UNCHANGED <<legMac, macs, newUplink, watch, cmds, annRow, tickDue, annObs>>

AnnNext ==
    \/ \E ok \in BOOLEAN :
          OnNeigh(ok) \/ Elapse(ok) \/ PeerLearned(ok)
    \/ \E ok, polled \in BOOLEAN : AnnTick(ok, polled) \/ TickPoll(ok, polled)
    \/ \E seen, ok \in BOOLEAN : FireDue(seen, ok)
    \/ \E v \in VmMacs : AgeOut(v) \/ \E lost \in BOOLEAN : Learn(v, lost)
    \/ WatchDied \/ WatchDies \/ LegMacChanges \/ FileChanges

AnnSpec == AnnInit /\ [][AnnNext]_annVars

-----------------------------------------------------------------------------
(* Properties.                                                             *)

\* The frames of the last PERIOD.
SentLately ==
    LET younger[n \in 0..Period] == IF n = 0 THEN 0 ELSE younger[n - 1] + sent[n - 1]
    IN  younger[Period]

\* announce.rs: "at most BURST_LEN + 1 frames per PERIOD under MAC churn", and
\* the beacon is the floor: a VM's MAC that was learned, or the leg's that has
\* changed, is told within a PERIOD.  Both hold while the loop was on time and
\* nothing failed for a PERIOD, whatever the neighbors, the watch and the bridge
\* do.  (A loop that a re-apply kept busy owes the burst it missed, and may start
\* another beside it.)
FrameRate ==
    calm = Never =>
        /\ SentLately <= BurstLen + 1
        /\ owed \in 0..Period \cup {Never}
        /\ owed = Period => Due
=============================================================================
