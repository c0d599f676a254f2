---------------------------- MODULE StatusReport ----------------------------
(***************************************************************************)
(* `cfab status` on one member (src/commands/status.rs) and the gather the *)
(* supervisor renders as its metrics page (refresh_snapshot): what they    *)
(* read, in which order, what they say of it, and when `--wait` ends.  The *)
(* member changes while it is being read, and a command may fail.          *)
(*                                                                         *)
(* The member has one zone, one peer, a segment leg for every entry of     *)
(* Ladder (cheapest first) and a fallback bond on two wires; the ingress   *)
(* leg of a plain host migrates too.  What status only compares with what  *)
(* it should be is a named fault of `bad`; what it reasons about is a      *)
(* field of its own.                                                       *)
(***************************************************************************)
EXTENDS MetricsPage, Sequences

CONSTANTS Ladder,    \* the segment legs, cheapest first
          Scenes,    \* members status may find
          Wait,      \* what --wait gives, in polls
          MaxMoves   \* bound: changes of the member, and failed commands

ASSUME StatusAssumption == Ladder \in Seq(STRING) /\ Len(Ladder) > 0 /\ Wait \in Nat /\ MaxMoves \in Nat

VARIABLES
    host,      \* the member
    moves,     \* changes so far
    asker,     \* who gathers: "status" or "supervisor"
    stPc,      \* place in run()
    waited,     \* polls waited through
    comps,     \* the components document, or Silent
    engineDoc, \* the engine's state document, or Silent
    wireGone,  \* absent_ifs: the first wire was not there
    reasons,   \* the lines so far
    broken,    \* broken_workloads: the row is
    rowState,  \* the workload row's state
    through,   \* faults that stood since the gather began
    ever,      \* members seen since the gather began
    applied,   \* the run directory was there
    seen,      \* the other rows of the model: legs, session, counters, default
    report,    \* what status printed last
    page,      \* what the metrics endpoint serves
    failures   \* metrics_collect_failures

statusVars == <<host, moves, asker, stPc, waited, comps, engineDoc, wireGone, reasons, broken,
                rowState, through, ever, applied, seen, report, page, failures>>
kept == <<host, moves, asker, waited, through, ever, applied, report, page, failures>>
reading == <<kept, seen>>

\* The model before anything was read.
Nothing == [fallback |-> Silent, ingress |-> Silent, bgp |-> "unread", sent |-> -1, vms |-> -1,
            drops |-> -1, default |-> "unread", why |-> "none"]

SegLegs == {Ladder[i] : i \in DOMAIN Ladder}
First == Ladder[1]

\* Faults the supervisor's document tells of.
Told == {"watchdog", "announcer", "daemon", "metrics"}

\* Faults the fabric clears by itself, and those that stay (Class).
SelfClearing ==
    {"rp_filter", "forwarding", "leak-guard", "below-offset", "watchdog", "rule", "sibling",
     "no-default", "linkdown", "leg-address", "bgp", "nothing-sent", "deferred", "no-leg",
     "no-address", "proxy_arp", "no-guard", "announcer", "daemon", "no-record", "unshaped", "pin",
     "detached"}
Lasting ==
    {"declaration", "drift", "uplink", "marks", "shape-drift", "wire", "speed", "metrics",
     "foreign-port", "bind-line"}
Plain == SelfClearing \cup Lasting

Seated == [readable |-> TRUE, mii |-> "up", active |-> "home", carrier |-> TRUE]
Heard == [home |-> "heard", backup |-> "heard", quiet |-> FALSE]

Healthy(kind) ==
    [kind |-> kind, applied |-> TRUE, answers |-> TRUE, engine |-> "running", holders |-> {},
     down |-> {}, near |-> TRUE, route |-> First, bond |-> Seated, gw |-> Seated,
     probed |-> Heard, gwProbed |-> Heard, default |-> IF kind = "leaf" THEN "floor" ELSE "fabric",
     vms |-> 1, counts |-> 0, bad |-> {}]

\* What a member may be: a bond as it is, and what the prober says of its ports.
Bonds == [readable : BOOLEAN, mii : {"up", "down"}, active : {"home", "backup", "foreign", "none"}, carrier : BOOLEAN]
Probes(quiet) == [home : {"heard", "suspect", "dark"}, backup : {"heard", "dark"}, quiet : quiet]

Hosts ==
    [kind : {"transit", "plain", "leaf"}, applied : BOOLEAN, answers : BOOLEAN,
     engine : {"running", "restarting"}, holders : SUBSET {"bfdd", "other", "other-v6"},
     down : SUBSET SegLegs, near : BOOLEAN, route : SegLegs \cup {"bond", "none"}, bond : Bonds,
     gw : Bonds, probed : Probes(BOOLEAN), gwProbed : Probes({FALSE}),
     default : {"fabric", "floor", "none"}, vms : {0, 1}, counts : {0, 1}, bad : SUBSET Plain]

ASSUME SceneAssumption == Scenes \subseteq Hosts /\ SegLegs \cap {"bond", "none", "declaration"} = {}

When(cond, x) == IF cond THEN {x} ELSE {}

Toggled(S, x) == IF x \in S THEN S \ {x} ELSE S \cup {x}

\* The first wire, every leg's home, goes or comes back.
WireToggled(h) ==
    IF "wire" \in h.bad THEN [h EXCEPT !.bad = @ \ {"wire"}]
    ELSE [h EXCEPT !.bad = @ \cup {"wire"}, !.bond.active = "backup", !.gw.active = "backup"]

\* One thing changes.
Changes(h) ==
    {[h EXCEPT !.bad = Toggled(@, f)] : f \in Plain \ {"wire"}} \cup {WireToggled(h)}
    \cup {[h EXCEPT !.applied = ~@], [h EXCEPT !.answers = ~@], [h EXCEPT !.near = ~@]}
    \cup {[h EXCEPT !.engine = e] : e \in {"running", "restarting"}}
    \cup {[h EXCEPT !.holders = Toggled(@, x)] : x \in {"bfdd", "other", "other-v6"}}
    \cup {[h EXCEPT !.down = Toggled(@, l)] : l \in SegLegs}
    \cup {[h EXCEPT !.route = r] : r \in SegLegs \cup {"bond", "none"}}
    \cup {[h EXCEPT !.bond.readable = ~@], [h EXCEPT !.bond.carrier = ~@], [h EXCEPT !.gw.readable = ~@],
          [h EXCEPT !.vms = 1 - @], [h EXCEPT !.counts = 1]}
    \cup {[h EXCEPT !.gw.active = x] : x \in {"home", "backup", "none"}}
    \cup {[h EXCEPT !.gwProbed.home = x] : x \in {"heard", "suspect", "dark"}}
    \cup {[h EXCEPT !.gwProbed.home = "dark", !.gwProbed.backup = "dark"]}
    \cup {[h EXCEPT !.default = x] : x \in {"fabric", "floor", "none"} \ When(h.kind = "leaf", "fabric")}
    \cup {[h EXCEPT !.bond.mii = x] : x \in {"up", "down"}}
    \cup {[h EXCEPT !.bond.active = x] : x \in {"home", "backup", "foreign", "none"}}
    \cup {[h EXCEPT !.probed.home = x] : x \in {"heard", "suspect", "dark"}}
    \cup {[h EXCEPT !.probed.backup = x] : x \in {"heard", "dark"}}
    \cup {[h EXCEPT !.probed.quiet = ~@]}

\* Lines of the report: a class, what it is said of ("member", or the ingress leg "gw") and
\* the condition.
Settling(S) == {<<"settling", "member", x>> : x \in S}
Standing(S) == {<<"standing", "member", x>> : x \in S}

-----------------------------------------------------------------------------
(* The gather.                                                             *)

\* Nothing printed, nothing published.
Unprinted == [state |-> "none", of |-> {}, lines |-> {}, row |-> "none", default |-> <<"unread", "none">>]
Unserved  == [of |-> {}, series |-> {}]

StatusInit ==
    /\ host \in Scenes /\ moves \in 0..MaxMoves
    /\ waited = 0 /\ stPc = "run"
    /\ comps = Silent /\ engineDoc = Silent /\ wireGone = FALSE /\ reasons = {}
    /\ broken = FALSE /\ rowState = "none"
    /\ through = host.bad /\ ever = {host} /\ applied = FALSE
    /\ asker \in {"status", "supervisor"} /\ seen = Nothing
    /\ report = Unprinted /\ page = Unserved /\ failures = 0

\* run(): what the declared file says is read once.
DeclarationNote ==
    /\ stPc = "run" /\ asker = "status"
    /\ reasons' = Standing(host.bad \cap {"declaration"})
    /\ stPc' = "gather"
    /\ UNCHANGED <<reading, comps, engineDoc, wireGone, broken, rowState>>

\* Shared::components: the document of a member as it stands.
Components(h) ==
    [answers |-> TRUE, engine |-> h.engine, probed |-> h.probed, gw |-> h.gwProbed,
     bad |-> h.bad \cap Told, counts |-> h.counts, failures |-> failures]

\* gather_with: a fresh model.
Begin ==
    /\ stPc' = IF host.applied THEN "custody" ELSE "report"
    /\ engineDoc' = Silent /\ wireGone' = FALSE /\ broken' = FALSE /\ rowState' = "none"
    /\ seen' = Nothing
    /\ applied' = host.applied
    /\ through' = host.bad /\ ever' = {host}
    /\ UNCHANGED <<host, moves, asker, waited, report, page, failures>>

\* gather: is anything applied, and what does the supervisor say?
Gather ==
    /\ stPc = "gather"
    /\ comps' = IF host.applied /\ host.answers THEN Components(host) ELSE Silent
    /\ reasons' = reasons \cap Standing({"declaration"})
    /\ Begin

\* refresh_snapshot, snapshot_model: the supervisor has the document itself.
Snapshot ==
    /\ stPc = "run" /\ asker = "supervisor"
    /\ comps' = Components(host)
    /\ reasons' = {}
    /\ Begin

\* What a document says; one that was not read says nothing.
Says(doc, f) == doc.answers /\ f \in doc.bad

\* udp_inodes_on: a v6 holder counts until the engine is bound.
Bound(h, known) ==
    (h.holders \ (IF known THEN {"other-v6"} ELSE {})) \cup When(h.engine = "running", "engine")

\* port_custody: a bfdd is named; anybody else only while the supervisor says that the
\* engine is not running.
Accuses(bound, engine) == "bfdd" \in bound \/ (bound # {} /\ engine = "restarting")

EngineSaid(c) == IF c.answers THEN c.engine ELSE "unknown"

\* bfd_port: the bind error in the engine's ring says who held the port before.
CustodyReasons(h, c) ==
    Standing(IF Accuses(Bound(h, EngineSaid(c) = "running"), EngineSaid(c)) THEN {"port-held"}
             ELSE When("bind-line" \in h.bad /\ EngineSaid(c) = "restarting" /\ h.answers, "bind-line"))

BfdPort ==
    /\ stPc = "custody"
    /\ reasons' = reasons \cup CustodyReasons(host, comps)
    /\ stPc' = "doc"
    /\ UNCHANGED <<reading, comps, engineDoc, wireGone, broken, rowState>>

\* engine_ctl::state
EngineAnswer(h) ==
    IF h.engine = "running"
    THEN [answers |-> TRUE, up |-> SegLegs \ h.down, near |-> h.near,
          bad |-> h.bad \cap {"bgp", "nothing-sent", "below-offset"}]
    ELSE Silent

\* engine_down_reason
EngineDown(h) == Settling(When(h.engine # "running", "engine"))

EngineState ==
    /\ stPc = "doc"
    /\ engineDoc' = EngineAnswer(host)
    /\ reasons' = reasons \cup EngineDown(host)
    /\ stPc' = "absent"
    /\ UNCHANGED <<reading, comps, wireGone, broken, rowState>>

AbsentIfs ==
    /\ stPc = "absent"
    /\ wireGone' = ("wire" \in host.bad)
    /\ stPc' = "posture"
    /\ UNCHANGED <<reading, comps, engineDoc, reasons, broken, rowState>>

\* A file of a leg on the first wire: not read once the wire is known to be gone, and
\* unreadable when it goes later.
LegFile(h, gone, f) == ~gone /\ (f \in h.bad \/ "wire" \in h.bad)

\* posture on a leaf: nothing forwards, nothing leaks, nothing transits.
LeafPosture(h, d, gone) ==
    When(LegFile(h, gone, "forwarding"), "forwarding")
    \cup (h.bad \cap {"leak-guard"}) \cup When(Says(d, "below-offset"), "below-offset")

\* posture on a host that must not forward: only interfaces that are there are asked.
PlainPosture(h, gone) == When(LegFile(h, gone, "forwarding") /\ "wire" \notin h.bad, "forwarding")

\* posture on a member that forwards
TransitPosture(h, c, gone) == PlainPosture(h, gone) \cup When(Says(c, "watchdog"), "watchdog")

PostureReasons(h, c, d, gone) ==
    Settling(When(LegFile(h, gone, "rp_filter"), "rp_filter")
             \cup CASE h.kind = "leaf"    -> LeafPosture(h, d, gone)
                    [] h.kind = "transit" -> TransitPosture(h, c, gone)
                    [] h.kind = "plain"   -> PlainPosture(h, gone))
    \cup Standing(When(h.kind # "leaf" /\ "drift" \in h.bad, "drift"))

Posture ==
    /\ stPc = "posture"
    /\ reasons' = reasons \cup PostureReasons(host, comps, engineDoc, wireGone)
    /\ stPc' = "return-path"
    /\ UNCHANGED <<reading, comps, engineDoc, wireGone, broken, rowState>>

\* reach: the prober's verdict on a leg.
Reach(p) ==
    IF p.home = "dark" /\ p.backup = "dark" THEN "AllDark"
    ELSE IF p.quiet THEN "Quiet"
    ELSE CASE p.home = "dark"    -> "HomeDark"
           [] p.home = "suspect" -> "HomeSuspect"
           [] p.home = "heard"   -> "Home"

\* read_bond_leg: the home wire's carrier is read only where it decides anything.
LegRow(kind, b, reach, h, gone) ==
    [answers |-> TRUE, kind |-> kind, bond |-> b.readable, mii |-> b.mii, active |-> b.active,
     reach |-> reach, absent |-> When(gone, "home"),
     carrier |-> IF b.mii # "up" \/ reach \in {"AllDark", "Quiet"} \/ b.active # "backup" THEN "not-read"
                 ELSE IF "wire" \in h.bad THEN "unreadable"
                 ELSE IF b.carrier THEN "1" ELSE "0"]

\* leg_reasons on a bond that is up and heard: where it sits.
SeatReasons(leg) ==
    CASE leg.active = "home"                -> {}
      [] leg.active \in {"foreign", "none"} -> Settling({"nothing-of-ours-active"})
      [] leg.active = "backup"              -> IF leg.carrier = "1" /\ leg.reach = "HomeSuspect"
                                               THEN Settling({"home-suspect"})
                                               ELSE Standing({"via-backup"})

\* leg_reasons: the first that applies, and the ports.
LegReasons(leg, h) ==
    IF ~leg.bond THEN Settling({"not-a-bond"})
    ELSE (IF leg.mii # "up"
          THEN Settling({IF leg.active = "foreign" THEN "foreign-active" ELSE "no-carrier"})
          ELSE IF leg.reach \in {"AllDark", "Quiet"} THEN Settling({leg.reach})
          ELSE SeatReasons(leg))
         \cup Settling(When("home" \notin leg.absent /\ "detached" \in h.bad, "detached"))
         \cup Standing(h.bad \cap {"foreign-port"})

\* The ingress leg as a bond, on a member whose leg migrates.
IngressLeg(h, c, gone) ==
    IF h.kind = "plain"
    THEN LegRow("ingress", h.gw, IF c.answers THEN Reach(c.gw) ELSE "Unknown", h, gone)
    ELSE Silent

\* ingress_reasons: what the rest would only repeat is not said.
IngressReasons(h, d, leg) ==
    Settling((h.bad \cap {"no-default", "leg-address"})
             \cup When(h.kind = "transit" /\ "linkdown" \in h.bad /\ "no-default" \notin h.bad, "linkdown")
             \cup When(Says(d, "bgp"), "bgp")
             \cup When(Says(d, "nothing-sent") /\ ~Says(d, "bgp"), "nothing-sent"))
    \cup {<<r[1], "gw", r[3]>> : r \in IF leg.answers THEN LegReasons(leg, h) ELSE {}}

\* return_path_and_ingress: a leaf has no ingress.
ReturnReasons(h, c, d, gone) ==
    Settling(h.bad \cap {"rule", "sibling"})
    \cup IF h.kind = "leaf" THEN {} ELSE IngressReasons(h, d, IngressLeg(h, c, gone))

ReturnPath ==
    /\ stPc = "return-path"
    /\ reasons' = reasons \cup ReturnReasons(host, comps, engineDoc, wireGone)
    /\ broken' = ("sibling" \in host.bad)
    /\ seen' = IF host.kind = "leaf" THEN seen
               ELSE [seen EXCEPT !.ingress = IngressLeg(host, comps, wireGone),
                                 !.bgp  = IF ~engineDoc.answers THEN "unread"
                                          ELSE IF Says(engineDoc, "bgp") THEN "Idle" ELSE "Established",
                                 !.sent = Bit(~Says(engineDoc, "bgp") /\ ~Says(engineDoc, "nothing-sent"))]
    /\ stPc' = "workload"
    /\ UNCHANGED <<kept, comps, engineDoc, wireGone, rowState>>

\* workload_posture: a deferred row earns one line and no checks; a leaf has no row.
RowFaults(h) ==
    IF "no-leg" \in h.bad THEN h.bad \cap {"no-leg", "no-guard"}
    ELSE h.bad \cap {"no-address", "uplink", "proxy_arp", "no-guard"}

RowReasons(h, c) ==
    IF h.kind = "leaf" THEN {}
    ELSE IF "deferred" \in h.bad THEN Settling({"deferred"})
    ELSE Settling((RowFaults(h) \ {"uplink"}) \cup When(Says(c, "announcer"), "announcer"))
         \cup Standing(RowFaults(h) \cap {"uplink"})

RowNow(h, c, sibling) ==
    IF h.kind = "leaf" THEN "none"
    ELSE IF "deferred" \in h.bad THEN "Deferred"
    ELSE IF RowFaults(h) # {} \/ sibling THEN "Broken"
    ELSE IF Says(c, "announcer") THEN "AnnouncerNotStarted" ELSE "Up"

\* What is counted of a row: drops while the table and the uplink ports are known, VMs of
\* a row that is up.
RowCounts(state) ==
    IF state \in {"none", "Deferred"} THEN seen
    ELSE [seen EXCEPT !.drops = IF host.bad \cap {"no-guard", "no-leg", "uplink"} = {}
                                THEN host.counts ELSE -1,
                      !.vms   = IF state = "Up" THEN host.vms ELSE -1]

WorkloadPosture ==
    /\ stPc = "workload"
    /\ reasons' = reasons \cup RowReasons(host, comps)
    /\ rowState' = RowNow(host, comps, broken)
    /\ seen' = RowCounts(RowNow(host, comps, broken))
    /\ stPc' = "marks"
    /\ UNCHANGED <<kept, comps, engineDoc, wireGone, broken>>

\* mark_drift, ceiling_counters: the backend is always named.
MarkReasons(h) == Standing({"backend"} \cup (h.bad \cap {"marks"}))

MarkDrift ==
    /\ stPc = "marks"
    /\ reasons' = reasons \cup MarkReasons(host)
    /\ stPc' = "shape"
    /\ UNCHANGED <<reading, comps, engineDoc, wireGone, broken, rowState>>

\* shape_posture: a daemon that is not running, or has no record, is held to nothing.
ShapeReasons(h, c) ==
    IF h.kind = "leaf" THEN {}
    ELSE IF Says(c, "daemon") THEN Settling({"daemon"})
    ELSE IF "no-record" \in h.bad THEN Settling({"no-record"})
    ELSE Settling(h.bad \cap {"unshaped"}) \cup Standing(h.bad \cap {"shape-drift"})

ShapePosture ==
    /\ stPc = "shape"
    /\ reasons' = reasons \cup ShapeReasons(host, comps)
    /\ stPc' = "speeds"
    /\ UNCHANGED <<reading, comps, engineDoc, wireGone, broken, rowState>>

SpeedReasons(h, gone) == Standing(IF gone THEN {"wire"} ELSE h.bad \cap {"speed"})

LinkSpeeds ==
    /\ stPc = "speeds"
    /\ reasons' = reasons \cup SpeedReasons(host, wireGone)
    /\ stPc' = "links"
    /\ UNCHANGED <<reading, comps, engineDoc, wireGone, broken, rowState>>

UpLegs(d) == IF d.answers THEN d.up ELSE {}
TwoWay(d) == d.answers /\ d.near

\* The fallback leg, with the prober's word on it.
FallbackLeg(h, c, gone) ==
    LegRow("fallback", h.bond, IF c.answers THEN Reach(c.probed) ELSE "Unknown", h, gone)

\* The adjacencies: BFD sessions, and the neighbor on the bond (fallback).
LinkReasons(h, c, d, gone) ==
    Settling((SegLegs \ UpLegs(d)) \cup When(~TwoWay(d), "bond"))
    \cup LegReasons(FallbackLeg(h, c, gone), h)

Links ==
    /\ stPc = "links"
    /\ reasons' = reasons \cup LinkReasons(host, comps, engineDoc, wireGone)
    /\ seen' = [seen EXCEPT !.fallback = FallbackLeg(host, comps, wireGone)]
    /\ stPc' = "reach"
    /\ UNCHANGED <<kept, comps, engineDoc, wireGone, broken, rowState>>

\* Headline::state
HeadlineState ==
    IF UpLegs(engineDoc) = {} /\ ~TwoWay(engineDoc) THEN "FAILED"
    ELSE IF UpLegs(engineDoc) = SegLegs /\ TwoWay(engineDoc) THEN "UP" ELSE "UP-DEGRADED"

\* The cheapest leg that is up, else the bond.
CheapestLegs(up, near) ==
    IF up # {} THEN LET i == CHOOSE i \in DOMAIN Ladder :
                                 Ladder[i] \in up /\ \A j \in 1..i - 1 : Ladder[j] \notin up
                    IN  Ladder[i]
    ELSE IF near THEN "bond" ELSE "none"

RouteReasons(h, d) ==
    LET expect == CheapestLegs(UpLegs(d), TwoWay(d))
    IN  CASE expect = "none" -> {}
          [] expect # "none" /\ h.route = "none" -> Settling({"no-route"})
          [] OTHER -> Settling(When(h.route # expect, "route") \cup When("pin" \in h.bad, "pin"))
                      \cup Standing(When(h.route = "bond" /\ expect = "bond", "via-fallback"))

Reachability ==
    /\ stPc = "reach"
    /\ reasons' = reasons \cup RouteReasons(host, engineDoc)
    /\ stPc' = "default"
    /\ UNCHANGED <<reading, comps, engineDoc, wireGone, broken, rowState>>

\* read_host_default: why not the fabric one, from the same rows as the reconcile.
WhyNot ==
    IF host.kind = "leaf" THEN "no-gw-zone"
    ELSE IF host.default = "fabric" THEN "none"
    ELSE IF comps.answers /\ Reach(comps.gw) = "AllDark" THEN "router-unreachable"
    ELSE "withdrawn"

ReadHostDefault ==
    /\ stPc = "default"
    /\ seen' = [seen EXCEPT !.default = host.default, !.why = WhyNot]
    /\ stPc' = "report"
    /\ UNCHANGED <<kept, comps, engineDoc, wireGone, reasons, broken, rowState>>

StateNow == IF applied THEN HeadlineState ELSE "DOWN"

\* Mistake: the headline alone ends the wait.
SettledHeadline == StateNow = "UP"

SettledNow == StateNow = "UP" /\ \A r \in reasons : r[1] # "settling"

\* gather_with: the model, with the line of the metrics endpoint that does not listen.
Model ==
    [kind |-> IF host.kind = "leaf" THEN "leaf" ELSE "host", state |-> StateNow, applied |-> applied,
     up |-> UpLegs(engineDoc), links |-> SegLegs, near |-> TwoWay(engineDoc), fallback |-> seen.fallback,
     ingress |-> seen.ingress, bgp |-> seen.bgp, sent |-> seen.sent, row |-> rowState,
     vms |-> seen.vms, drops |-> seen.drops, default |-> seen.default, why |-> seen.why,
     lines |-> reasons \cup Standing(When(Says(comps, "metrics"), "metrics")), comps |-> comps]

\* render_text: every distinct line once, the row, the default and the components.
Printed(m) ==
    [state |-> m.state, of |-> ever, lines |-> OnceEach(m.lines), row |-> m.row,
     default |-> <<m.default, m.why>>]

\* The end of run(), or the sleep until the next poll.
Report ==
    /\ stPc = "report" /\ asker = "status"
    /\ IF SettledNow \/ waited >= Wait
       THEN stPc' = "done" /\ report' = Printed(Model) /\ UNCHANGED waited
       ELSE stPc' = "gather" /\ waited' = waited + 1 /\ UNCHANGED report
    /\ UNCHANGED <<host, moves, asker, comps, engineDoc, wireGone, reasons, broken, rowState, through,
                   ever, applied, seen, page, failures>>

\* refresh_snapshot: the page is replaced as a whole.
Publish ==
    /\ stPc = "report" /\ asker = "supervisor"
    /\ page' = [of |-> ever, series |-> Page(Model)]
    /\ stPc' = "done"
    /\ UNCHANGED <<host, moves, asker, waited, comps, engineDoc, wireGone, reasons, broken, rowState,
                   through, ever, applied, seen, report, failures>>

Commands == {"posture", "return-path", "workload", "marks", "shape", "reach", "default"}

\* Mistake: what was read before the failure is published.
GatherFailsPublishes ==
    /\ stPc \in Commands /\ moves < MaxMoves
    /\ moves' = moves + 1
    /\ IF asker = "status"
       THEN report' = [Unprinted EXCEPT !.state = "error"] /\ UNCHANGED <<failures, page>>
       ELSE /\ failures' = failures + 1 /\ UNCHANGED report
            /\ page' = [of |-> ever, series |-> Page(Model)]
    /\ stPc' = "done"
    /\ UNCHANGED <<host, asker, waited, comps, engineDoc, wireGone, reasons, broken, rowState,
                   through, ever, applied, seen>>

\* A command fails: status ends with an error, the supervisor keeps the page it had.
GatherFails ==
    /\ stPc \in Commands /\ moves < MaxMoves
    /\ moves' = moves + 1
    /\ IF asker = "status"
       THEN report' = [Unprinted EXCEPT !.state = "error"] /\ UNCHANGED failures
       ELSE failures' = failures + 1 /\ UNCHANGED report
    /\ stPc' = "done"
    /\ UNCHANGED <<host, asker, waited, comps, engineDoc, wireGone, reasons, broken, rowState,
                   through, ever, applied, seen, page>>

\* The member changes.
HostMoves ==
    /\ moves < MaxMoves /\ stPc # "done"
    /\ \E h \in Changes(host) \ {host} :
         /\ host' = h
         /\ through' = through \cap h.bad
         /\ ever' = ever \cup {h}
    /\ moves' = moves + 1
    /\ UNCHANGED <<asker, stPc, waited, comps, engineDoc, wireGone, reasons, broken, rowState, applied,
                   seen, report, page, failures>>

\* The next `status`, or the next tick of the supervisor's refresh, by turns; one of a
\* member that moved is followed as the first one (a bound).
Again ==
    /\ stPc = "done"
    /\ asker' = IF asker = "status" THEN "supervisor" ELSE "status"
    /\ stPc' = "run" /\ waited' = 0
    /\ comps' = Silent /\ engineDoc' = Silent /\ wireGone' = FALSE /\ reasons' = {} /\ broken' = FALSE
    /\ rowState' = "none" /\ seen' = Nothing /\ applied' = FALSE
    /\ through' = host.bad /\ ever' = {host}
    /\ IF ever = {host} /\ report.state # "error" THEN UNCHANGED <<report, page, failures>>
       ELSE report' = Unprinted /\ page' = Unserved /\ failures' = 0
    /\ UNCHANGED <<host, moves>>

StatusNext ==
    \/ DeclarationNote \/ Gather \/ Snapshot \/ BfdPort \/ EngineState \/ AbsentIfs \/ Posture
    \/ ReturnPath \/ WorkloadPosture \/ MarkDrift \/ ShapePosture \/ LinkSpeeds \/ Links
    \/ Reachability \/ ReadHostDefault \/ Report \/ Publish \/ GatherFails \/ Again \/ HostMoves

StatusSpec == StatusInit /\ [][StatusNext]_statusVars

-----------------------------------------------------------------------------
(* Properties.                                                             *)

\* What is a fault on this kind of member.
Concerns(kind) ==
    CASE kind = "transit" -> Plain \ {"leak-guard", "below-offset"}
      [] kind = "plain"   -> Plain \ {"leak-guard", "below-offset", "watchdog", "linkdown"}
      [] kind = "leaf"    -> Plain \ {"watchdog", "drift", "no-default", "linkdown", "leg-address",
                                      "bgp", "nothing-sent", "deferred", "no-leg", "no-address",
                                      "uplink", "proxy_arp", "no-guard", "announcer", "daemon",
                                      "no-record", "unshaped", "shape-drift"}

\* A wire that has gone is the account of what it took with it.
Accounted == IF \E h \in ever : "wire" \in h.bad THEN {"rp_filter", "forwarding", "detached"} ELSE {}

\* "Is this fabric still settling? One settling condition is enough": if the
\* supervisor answers, the wait ends early only when no fault that the fabric
\* clears by itself stood through the last gather; and when nothing moved, every
\* adjacency was up, the peer was reached by the cheapest leg and the bond carried.
NothingEscapes ==
    stPc = "done" /\ asker = "status" /\ report.state # "error" /\ waited < Wait /\ comps.answers =>
        /\ through \cap SelfClearing \cap Concerns(host.kind) \subseteq Accounted
        /\ ever = {host} =>
              /\ host.applied /\ host.engine = "running" /\ host.down = {} /\ host.near
              /\ host.route = First
              /\ host.bond.readable /\ host.bond.mii = "up"
              /\ Reach(host.probed) \notin {"AllDark", "Quiet"}

\* "the reason line fires only when a socket is bound on our port and is provably
\* not the engine's own": nobody is accused of holding the port unless somebody
\* else did, or the engine came or went while the member was read.
NoFalseAccusation ==
    <<"standing", "member", "port-held">> \in reasons =>
        \/ \E h \in ever : h.holders # {}
        \/ \E g, h \in ever : g.engine # h.engine

\* The verdict can be acted on: it neither ends a wait over a fault that the
\* fabric is still clearing nor names a holder of the port who is none.
VerdictSound == NothingEscapes /\ NoFalseAccusation

\* What is true of a member, as the page puts it.
Verdict(h) ==
    LET up == IF h.engine = "running" THEN SegLegs \ h.down ELSE {}
        near == h.engine = "running" /\ h.near
    IN  IF ~h.applied THEN "DOWN"
        ELSE IF up = {} /\ ~near THEN "FAILED"
        ELSE IF up = SegLegs /\ near THEN "UP" ELSE "UP-DEGRADED"

Row(h) ==
    IF "deferred" \in h.bad THEN "Deferred"
    ELSE IF h.bad \cap {"sibling", "no-leg", "uplink", "no-guard"} # {}
            \/ (h.bad \cap {"no-address", "proxy_arp"} # {} /\ "no-leg" \notin h.bad) THEN "Broken"
    ELSE IF "announcer" \in h.bad THEN "AnnouncerNotStarted" ELSE "Up"

Truth(h) ==
    {<<"fabric_state", Verdict(h), 1>>, <<"component_state-engine", h.engine, 1>>}
    \cup {<<"probe_port_usable", w, Bit(h.probed[w] # "dark")>> : w \in Wires}
    \cup IF ~h.applied THEN {}
         ELSE {<<"bfd_session_up", l, Bit(h.engine = "running" /\ l \notin h.down)>> : l \in SegLegs}
              \cup {<<"wire_present", "home", Bit("wire" \notin h.bad)>>}
              \cup (IF h.bond.readable /\ h.bond.active \in Wires
                    THEN {<<"fallback_active", h.bond.active, 1>>} ELSE {})
              \cup (IF h.kind = "plain"
                    THEN {<<"ingress_reachable", "zone", Bit(Reach(h.gwProbed) # "AllDark")>>} ELSE {})
              \cup (IF h.kind = "leaf" THEN {}
                    ELSE {<<"bgp_neighbor_state",
                            IF h.engine # "running" THEN "absent"
                            ELSE IF "bgp" \in h.bad THEN "Idle" ELSE "Established", 1>>,
                          <<"workload_state", Row(h), 1>>}
                         \cup {<<"host_default_path", "member", Bit(h.default = "floor")>> :
                                 x \in {h.default} \ {"none"}})

\* The series Truth speaks of.
Spoken(s) ==
    \/ s[1] \in {"fabric_state", "component_state-engine", "fallback_active", "bgp_neighbor_state",
                 "workload_state"} /\ s[3] = 1
    \/ s[1] \in {"probe_port_usable", "bfd_session_up", "ingress_reachable", "host_default_path"}
    \/ s[1] = "wire_present" /\ s[2] = "home"

\* At most one thing changed meanwhile, though it may have changed back.
OneChange(states) == \E g, h \in states : states = {g, h}

\* Every series was true of the member since the gather began, ...
SeriesTrue == \A s \in page.series : Spoken(s) => \E h \in page.of : s \in Truth(h)

\* ... and one that stood through it is there.
SeriesThere == \A s \in UNION {Truth(h) : h \in page.of} : (\A g \in page.of : s \in Truth(g)) => s \in page.series

\* A status of the same unchanging member prints the same lines, the same row and the same
\* default as the page.
SameWords ==
    \A h \in page.of :
        page.of = {h} /\ report.of = {h} /\ h.applied /\ h.answers =>
            /\ report.lines \ {<<"member", "declaration">>}
                 = {s[2] : s \in {x \in page.series : x[1] = "condition_info"}}
            /\ <<"fabric_state", report.state, 1>> \in page.series
            /\ report.row # "none" => <<"workload_state", report.row, 1>> \in page.series
            /\ report.default[1] = h.default

\* "a fact this member cannot state is an absent family, never a zero that reads as
\* a measurement", "the two can never describe a member differently": whichever one
\* thing changes while the member is read and whichever command fails, the page says
\* what was true of the member and leaves out nothing that stood, and `status` says
\* the same of the same member.  (A gather takes several readings: after two changes
\* its row may join what never stood together.)
PageTrue ==
    stPc = "done" =>
        /\ OneChange(page.of) => SeriesTrue /\ SeriesThere
        /\ SameWords

\* The two readers of a member, status and the metrics page, can both be believed: the
\* one that waits for the verdict and the one that scrapes the page.
ReportsTrue == VerdictSound /\ PageTrue
=============================================================================
