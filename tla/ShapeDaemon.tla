---------------------------- MODULE ShapeDaemon ----------------------------
(***************************************************************************)
(* The shaping of one host's fabric wires: the shape daemon                *)
(* (src/commands/shape_daemon.rs), the tree it derives for a wire          *)
(* (src/emit/shape.rs) and the chain of caps it derives it from            *)
(* (src/caps.rs), with the wires, the supervisor and `cfab measure-cap`    *)
(* around it.                                                              *)
(*                                                                         *)
(* Every wire carries the control zone (band 0) and the one bulk zone.     *)
(***************************************************************************)
EXTENDS Integers, FiniteSets

CONSTANTS Nics,            \* the fabric wires
          NicCost,         \* [Nics -> Nat] the bulk zone's OSPF cost on each
          ControlFloor,    \* floor_mbps of the control zone
          BulkFloor,       \* floor_mbps of the bulk zone
          Declared,        \* the declared speed of a wire
          Measures,        \* what a flood may measure
          MaxShapeFaults   \* bound: failures, changes of the host and commands

ASSUME ShapeDaemonAssumption ==
    /\ NicCost \in [Nics -> Nat] /\ \A v, w \in Nics : NicCost[v] = NicCost[w] => v = w
    /\ ControlFloor \in Nat \ {0} /\ BulkFloor \in Nat \ {0} /\ Declared \in Nat \ {0}
    /\ Measures \subseteq Nat
    /\ MaxShapeFaults \in Nat

NoCap == -1   \* no cap file

VARIABLES
    carrier,   \* wires that have carrier
    tree,      \* [Nics -> Tree] what tc holds on a wire
    shaped,    \* shape.applied: {} when there is none, else {[Nics -> Tree]}
    capFile,   \* [Nics -> cap] the local cap files
    capShared, \* [Nics -> cap] this member's caps in the cluster
    sat,       \* the shape daemon's place
    sboot,     \* the reconverge under way is the initial one
    sup,       \* the up-set it read
    stodo,     \* wires it has still to shape
    noted,     \* [Nics -> Tree] the record it will write
    catching,  \* the signal handler is set
    asked,     \* the stop flag
    hearing,   \* `ip monitor link` runs
    news,      \* a line about a fabric wire is in the channel
    pending,   \* event_loop's flag
    unheard,   \* the trees are stale and nothing will tell (observer)
    slips      \* failures, changes and commands so far

shapeNet  == <<carrier, tree, shaped, capFile, capShared>>
daemonVars == <<sat, sboot, sup, stodo, noted, catching, asked, hearing, news, pending>>
shapeVars == <<shapeNet, daemonVars, unheard, slips>>

Slip == slips < MaxShapeFaults /\ slips' = slips + 1
Sound == slips' = slips

-----------------------------------------------------------------------------
(* emit::shape::derive and caps::read_cap.                                 *)

NoTree(kind) == [kind |-> kind, link |-> 0, control |-> 0, bulk |-> 0]
Skipped == [w \in Nics |-> NoTree("none")]   \* AppliedWire::NoCarrier

\* eff_primary_dev: the cheapest wire of those that are up.
EffPrimary(w, up) == w \in up /\ \A v \in up : NicCost[w] <= NicCost[v]

\* The floors of the bands, scaled to the link when they exceed it: the control
\* band's is protected as long as it fits alone.
Derive(cap, primary) ==
    LET link  == (cap * 97) \div 100
        full  == IF primary THEN BulkFloor ELSE 1
        total == ControlFloor + full
    IN  [kind |-> "htb", link |-> link,
         control |-> IF total > link /\ ControlFloor > link
                     THEN (ControlFloor * link) \div total ELSE ControlFloor,
         bulk    |-> IF total <= link THEN full
                     ELSE IF ControlFloor > link THEN (full * link) \div total
                     ELSE (full * (link - ControlFloor)) \div full]

Positive(cap) == cap # NoCap /\ cap > 0

\* A local file is the cap even when it holds none; the cluster's is asked only
\* when there is no file.
CapOf(w) ==
    LET cap == IF capFile[w] # NoCap THEN capFile[w] ELSE capShared[w]
    IN  IF Positive(cap) THEN cap ELSE Declared

\* The cluster's cap is written back.
Cached(w) == IF capFile[w] = NoCap /\ Positive(capShared[w]) THEN capShared[w] ELSE capFile[w]

-----------------------------------------------------------------------------
(* The shape daemon.                                                       *)

ShapeInit ==
    /\ carrier \in SUBSET Nics
    /\ tree = [w \in Nics |-> NoTree("none")] /\ shaped = {}
    /\ capFile = [w \in Nics |-> NoCap]
    /\ capShared \in [Nics -> {NoCap} \cup Measures]
    /\ sat = "stopped" /\ sboot = TRUE /\ sup = {} /\ stodo = {} /\ noted = Skipped
    /\ catching = FALSE /\ asked = FALSE /\ hearing = FALSE /\ news = FALSE /\ pending = FALSE
    /\ unheard = FALSE /\ slips = 0

\* The supervisor launches the child: run() begins with a reconverge ...
ShapeStart ==
    /\ sat = "off"
    /\ sat' = "read" /\ sboot' = TRUE
    /\ catching' = FALSE /\ asked' = FALSE /\ hearing' = FALSE /\ news' = FALSE /\ pending' = FALSE
    /\ Sound
    /\ UNCHANGED <<shapeNet, sup, stodo, noted, unheard>>

\* reconverge: one reading of the carriers is the up-set of every wire's tree ...
ReadUpSet ==
    /\ sat = "read"
    /\ sup' = carrier /\ stodo' = carrier /\ noted' = Skipped
    /\ sat' = "wire" /\ unheard' = FALSE
    /\ Sound
    /\ UNCHANGED <<shapeNet, sboot, catching, asked, hearing, news, pending>>

\* ... each up wire's tree is derived, noted and installed ("ok"), or what tc
\* took of it ...
ShapeWire(w, ok) ==
    LET t == Derive(CapOf(w), EffPrimary(w, sup))
    IN  /\ sat = "wire" /\ w \in stodo
        /\ capFile' = [capFile EXCEPT ![w] = Cached(w)]
        /\ noted' = [noted EXCEPT ![w] = t]
        /\ tree' = [tree EXCEPT ![w] = IF ok THEN t ELSE NoTree("part")]
        /\ stodo' = stodo \ {w}
        /\ IF ok THEN Sound /\ unheard' = unheard ELSE Slip /\ unheard' = TRUE
        /\ UNCHANGED <<carrier, shaped, capShared, sat, sboot, sup, catching, asked, hearing, news,
                       pending>>

\* Where run() goes after a reconverge, finished or given up.
AfterReconverge == sat' = IF sboot THEN "handler" ELSE "loop"

\* Mistake: the lines that came meanwhile are drained as this reconverge's own.
WriteRecordDrains(ok) ==
    /\ sat = "wire" /\ stodo = {} /\ ok
    /\ shaped' = {noted} /\ news' = FALSE
    /\ AfterReconverge
    /\ Sound
    /\ UNCHANGED <<carrier, tree, capFile, capShared, sboot, sup, stodo, noted, catching, asked,
                   hearing, pending, unheard>>

\* ... and the notes are published.
WriteRecord(ok) ==
    /\ sat = "wire" /\ stodo = {}
    /\ shaped' = IF ok THEN {noted} ELSE shaped
    /\ AfterReconverge
    /\ IF ok THEN Sound /\ unheard' = unheard ELSE Slip /\ unheard' = TRUE
    /\ UNCHANGED <<carrier, tree, capFile, capShared, sboot, sup, stodo, noted, catching, asked,
                   hearing, news, pending>>

\* A command that cannot be run at all ends the reconverge; nothing repeats it.
ReconvergeFails ==
    /\ sat = "wire" /\ stodo # {}
    /\ Slip /\ unheard' = TRUE
    /\ AfterReconverge /\ stodo' = {}
    /\ UNCHANGED <<shapeNet, sboot, sup, noted, catching, asked, hearing, news, pending>>

\* Only then the signal handler is set and the monitor started; a monitor that
\* cannot be started ends the daemon as it is.
SetHandler ==
    /\ sat = "handler"
    /\ catching' = TRUE /\ sat' = "monitor"
    /\ Sound
    /\ UNCHANGED <<shapeNet, sboot, sup, stodo, noted, asked, hearing, news, pending, unheard>>

StartMonitor(ok) ==
    /\ sat = "monitor"
    /\ hearing' = ok /\ sboot' = FALSE
    /\ sat' = IF ok THEN "loop" ELSE "off"
    /\ IF ok THEN Sound ELSE Slip
    /\ UNCHANGED <<shapeNet, sup, stodo, noted, catching, asked, news, pending, unheard>>

\* event_loop: a stop, or a monitor that died, ends it; a line about a fabric
\* wire makes a reconverge pending ...
LoopLine ==
    /\ sat = "loop" /\ news
    /\ pending' = TRUE /\ news' = FALSE
    /\ Sound
    /\ UNCHANGED <<shapeNet, sat, sboot, sup, stodo, noted, catching, asked, hearing, unheard>>

\* ... which a gap of the debounce time lets go.
LoopQuiet ==
    /\ sat = "loop" /\ hearing /\ ~news
    /\ pending' = FALSE /\ sat' = IF pending THEN "read" ELSE "loop"
    /\ Sound
    /\ UNCHANGED <<shapeNet, sboot, sup, stodo, noted, catching, asked, hearing, news, unheard>>

LoopEnds ==
    /\ sat = "loop" /\ (asked \/ (~hearing /\ ~news))
    /\ sat' = "restore" /\ stodo' = Nics
    /\ Sound
    /\ UNCHANGED <<shapeNet, sboot, sup, noted, catching, asked, hearing, news, pending, unheard>>

\* teardown: fq_codel on every wire, then the record goes.
Restore(w) ==
    /\ sat = "restore" /\ w \in stodo
    /\ tree' = [tree EXCEPT ![w] = NoTree("fq")]
    /\ stodo' = stodo \ {w}
    /\ Sound
    /\ UNCHANGED <<carrier, shaped, capFile, capShared, sat, sboot, sup, noted, catching, asked,
                   hearing, news, pending, unheard>>

RemoveRecord ==
    /\ sat = "restore" /\ stodo = {}
    /\ shaped' = {} /\ sat' = "off"
    /\ Sound
    /\ UNCHANGED <<carrier, tree, capFile, capShared, sboot, sup, stodo, noted, catching, asked,
                   hearing, news, pending, unheard>>

\* SIGTERM raises the flag once the handler is set and ends the process before;
\* a crash or SIGKILL ends it anywhere.  The trees stay as they are.
Term ==
    /\ asked' = catching
    /\ sat' = IF catching THEN sat ELSE "off"

ShapeSignal ==
    /\ sat \notin {"off", "stopped"} /\ Slip
    /\ Term
    /\ UNCHANGED <<shapeNet, sboot, sup, stodo, noted, catching, hearing, news, pending,
                   unheard>>

ShapeDies ==
    /\ sat \notin {"off", "stopped"} /\ Slip
    /\ sat' = "off"
    /\ UNCHANGED <<shapeNet, sboot, sup, stodo, noted, catching, asked, hearing, news, pending,
                   unheard>>

\* The monitor's process ends; what it wrote is still read.
MonitorDies ==
    /\ sat \notin {"off", "stopped"} /\ hearing /\ Slip
    /\ hearing' = FALSE
    /\ UNCHANGED <<shapeNet, sat, sboot, sup, stodo, noted, catching, asked, news, pending,
                   unheard>>

-----------------------------------------------------------------------------
(* The wires and the supervisor.                                           *)

\* A change the daemon has read before and cannot hear of stays unknown.
CarrierFlips(w) ==
    /\ Slip
    /\ carrier' = IF w \in carrier THEN carrier \ {w} ELSE carrier \cup {w}
    /\ news' = (news \/ hearing)
    /\ unheard' = (unheard \/ (sat \in {"wire", "handler", "monitor"} /\ ~hearing))
    /\ UNCHANGED <<tree, shaped, capFile, capShared, sat, sboot, sup, stodo, noted, catching, asked,
                   hearing, pending>>

\* A re-apply ends with fq_codel on every wire and restarts the daemon; one that
\* fails on its way there does not.
Reapply(done) ==
    /\ sat # "stopped" /\ Slip
    /\ done \in SUBSET Nics
    /\ tree' = [w \in Nics |-> IF w \in done THEN NoTree("fq") ELSE tree[w]]
    /\ IF done = Nics /\ sat # "off"
       THEN Term /\ unheard' = unheard
       ELSE unheard' = (unheard \/ done # {}) /\ UNCHANGED <<sat, asked>>
    /\ UNCHANGED <<carrier, shaped, capFile, capShared, sboot, sup, stodo, noted, catching, hearing,
                   news, pending>>

\* Once its children are gone a stop removes trees and run directory; the apply
\* of the next start puts fq_codel on every wire.
SupervisorStops ==
    /\ sat = "off" /\ Slip
    /\ sat' = "stopped"
    /\ tree' = [w \in Nics |-> NoTree("none")] /\ shaped' = {}
    /\ capFile' = [w \in Nics |-> NoCap]
    /\ UNCHANGED <<carrier, capShared, sboot, sup, stodo, noted, catching, asked, hearing, news,
                   pending, unheard>>

SupervisorStarts ==
    /\ sat = "stopped"
    /\ sat' = "off"
    /\ tree' = [w \in Nics |-> NoTree("fq")]
    /\ Sound
    /\ UNCHANGED <<carrier, shaped, capFile, capShared, sboot, sup, stodo, noted, catching, asked,
                   hearing, news, pending, unheard>>

\* measure-cap ends: the cap goes to the local file, which no running daemon
\* hears of, and to the cluster, or a warning is given.
Measured(w, v, ok) ==
    /\ Slip
    /\ capFile' = [capFile EXCEPT ![w] = v]
    /\ capShared' = IF ok THEN [capShared EXCEPT ![w] = v] ELSE capShared
    /\ unheard' = (unheard \/ sat \notin {"off", "stopped"})
    /\ UNCHANGED <<carrier, tree, shaped, daemonVars>>

DaemonNext ==
    \/ ShapeStart \/ ReadUpSet \/ ReconvergeFails \/ SetHandler \/ LoopLine \/ LoopQuiet
    \/ LoopEnds \/ RemoveRecord
    \/ \E ok \in BOOLEAN : WriteRecord(ok) \/ StartMonitor(ok)
    \/ \E w \in Nics : Restore(w) \/ \E ok \in BOOLEAN : ShapeWire(w, ok)

ShapeNext ==
    \/ DaemonNext
    \/ ShapeSignal \/ ShapeDies \/ MonitorDies \/ SupervisorStops \/ SupervisorStarts
    \/ \E w \in Nics :
          CarrierFlips(w) \/ \E v \in Measures, ok \in BOOLEAN : Measured(w, v, ok)
    \/ \E done \in SUBSET Nics : Reapply(done)

\* The supervisor respawns its child, which runs on.
ShapeFairness == WF_shapeVars(DaemonNext)

ShapeSpec == ShapeInit /\ [][ShapeNext]_shapeVars
ShapeLive == ShapeSpec /\ ShapeFairness

-----------------------------------------------------------------------------
(* Properties.                                                             *)

ShapeTypeOK ==
    /\ carrier \subseteq Nics /\ sup \subseteq Nics /\ stodo \subseteq Nics
    /\ \A w \in Nics : tree[w].kind \in {"none", "fq", "part", "htb"}
    /\ Cardinality(shaped) <= 1
    /\ sat \in {"stopped", "off", "read", "wire", "handler", "monitor", "loop", "restore"}
    /\ {sboot, catching, asked, hearing, news, pending, unheard} \subseteq BOOLEAN
    /\ slips \in 0..MaxShapeFaults

\* What a wire that is up has to carry: floors within 97 % of a cap that is known
\* for it, the control floor whole if it fits, and the bulk floor, as far as it
\* fits beside, on the cheapest wire only.
Fits(w) ==
    LET t == tree[w]
        cheapest == \A v \in carrier : NicCost[w] <= NicCost[v]
    IN  /\ t.kind = "htb" /\ t.link = (CapOf(w) * 97) \div 100
        /\ t.control + t.bulk <= t.link
        /\ ControlFloor <= t.link => t.control = ControlFloor
        /\ ~cheapest => t.bulk <= 1
        /\ cheapest /\ ControlFloor <= t.link =>
              t.bulk = BulkFloor \/ (t.bulk < BulkFloor /\ t.control + t.bulk = t.link)

FloorsHold ==
    /\ \A w \in carrier : Fits(w)
    /\ \E r \in shaped : \A w \in Nics : r[w] = IF w \in carrier THEN tree[w] ELSE NoTree("none")

\* shape_daemon.rs: "On a link down, a bulk zone's full floor re-derives onto its
\* next-preferred surviving wire": once the wires stand still, the trees and the
\* record of a running supervisor are those of the wires that are up, through
\* changes that come during a reconverge, dying monitors, signals and restarts.
\* (Not after what nothing tells the daemon: a change between its first reading
\* and the start of its monitor, a command that failed, a re-apply that failed
\* half way, a new cap.)
FloorsFollow == <>[](sat = "stopped" \/ (sat # "off" /\ (unheard \/ FloorsHold)))
=============================================================================
