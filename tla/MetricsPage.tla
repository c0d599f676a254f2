---------------------------- MODULE MetricsPage ----------------------------
(***************************************************************************)
(* The metrics page (src/supervisor/metrics.rs): one gather rendered as a  *)
(* set of series <<family, label, value>>.  A model `m` is one result of a *)
(* gather (src/commands/status/model.rs), of a member with one zone, one   *)
(* peer and one workload row.  A family whose fact is missing has no       *)
(* series.                                                                 *)
(***************************************************************************)
EXTENDS Integers, FiniteSets

\* A leg, a document or a row that nobody read.
Silent == [answers |-> FALSE]

Bit(b) == IF b THEN 1 ELSE 0

\* one_of: every known value, and the observed one if it is outside the set.
OneOf(known, actual) == known \cup {actual}

\* A family with one series that is 1.
Enumerated(family, known, actual) == {<<family, s, Bit(s = actual)>> : s \in OneOf(known, actual)}

\* `family`, `scalar`: nothing at all when the fact is not known.
Series(family, label, known, v) == IF known THEN {<<family, label, v>>} ELSE {}

FabricStates   == {"UP", "UP-DEGRADED", "FAILED", "DOWN"}
ChildStates    == {"starting", "running", "restarting", "stopped"}
BgpStates      == {"Idle", "Connect", "Active", "OpenSent", "OpenConfirm", "Established", "absent"}
WatchdogResults == {"ok", "actuated", "failed-closed", "blocked", "error"}
WorkloadStates == {"Up", "Deferred", "AnnouncerNotStarted", "Broken"}
Wires == {"home", "backup"}

\* BondLeg::active_wire: the wire of the active port, if the port is ours.
ActiveWire(leg) == IF leg.answers /\ leg.bond /\ leg.active \in Wires THEN leg.active ELSE "none"

\* FabricCollector::legs: the fallback legs, then the ingress legs that migrate.
Legs(m) == {m.fallback, m.ingress} \ {Silent}

-----------------------------------------------------------------------------

Identity(m) == {<<"member_info", m.kind, 1>>}

Headlines(m) ==
    Enumerated("fabric_state", FabricStates, m.state)
    \cup Series("peers_up", "member", m.applied, Bit(m.up # {} \/ m.near))
    \cup Series("links_up", "member", m.applied, Cardinality(m.up))
    \cup Series("fallbacks_up", "member", m.applied, Bit(m.near))

Adjacencies(m) ==
    IF m.applied
    THEN {<<"bfd_session_up", l, Bit(l \in m.up)>> : l \in m.links}
         \cup {<<"fallback_neighbor_up", "peer", Bit(m.near)>>}
    ELSE {}

\* legs_state: where the bond sits, the carrier of the wire it left, and the wires that
\* are there.
LegsState(m) ==
    (IF m.fallback.answers /\ m.fallback.bond
     THEN {<<"fallback_bond_active_home", "bond", Bit(ActiveWire(m.fallback) = "home")>>} ELSE {})
    \cup {<<"bond_home_carrier", l.kind, Bit(l.carrier = "1")>> :
            l \in {k \in Legs(m) : k.bond /\ k.carrier \in {"0", "1"}}}
    \cup (IF Legs(m) = {} THEN {}
          ELSE {<<"wire_present", w, Bit(\E l \in Legs(m) : w \notin l.absent)>> : w \in Wires})

\* The wire a probed leg is on: the prober's row has no map from ports to wires, the
\* model's leg has.
Probed(family, leg) ==
    IF ActiveWire(leg) = "none" THEN {}
    ELSE {<<family, w, Bit(w = ActiveWire(leg))>> : w \in Wires}

\* probe_ports: of both families of legs; a suspect port is still usable.
ProbePorts(m) ==
    (IF m.kind = "leaf" THEN {}
     ELSE {<<"probe_gw_usable", w, Bit(m.comps.gw[w] # "dark")>> : w \in Wires})
    \cup UNION {{<<"probe_port_usable", w, Bit(m.comps.probed[w] # "dark")>>,
                 <<"probe_port_suspect", w, Bit(m.comps.probed[w] = "suspect")>>} : w \in Wires}

\* once_each: each text once, as `status` prints it.
OnceEach(lines) == {<<l[2], l[3]>> : l \in lines}

\* conditions: each text once, and how many hold a wait open.
ConditionSeries(m) ==
    {<<"conditions", c, Cardinality(OnceEach({l \in m.lines : l[1] = c}))>> :
       c \in {"settling", "standing"}}
    \cup {<<"condition_info", text, 1>> : text \in OnceEach(m.lines)}

\* reach_row: `Unknown` is no verdict.
ReachRow(leg) ==
    IF leg.answers /\ leg.reach # "Unknown"
    THEN {<<"ingress_reachable", "zone", Bit(leg.reach \notin {"AllDark", "Quiet"})>>} ELSE {}

\* ingress: a session of which nothing is known is shown as absent.
IngressSeries(m) ==
    IF ~m.applied \/ m.kind = "leaf" THEN {}
    ELSE ReachRow(m.ingress)
         \cup Enumerated("bgp_neighbor_state", BgpStates, IF m.bgp = "unread" THEN "absent" ELSE m.bgp)
         \cup Series("bgp_neighbor_prefixes_sent", "member", m.bgp # "unread", m.sent)

\* host_default: absent without a gw zone and without any default.
HostDefaultSeries(m) ==
    Series("host_default_path", "member", m.why # "no-gw-zone" /\ m.default \in {"fabric", "floor"},
           Bit(m.default = "floor"))

\* workloads: the counters of the relay of a row, which has one.
RelaySeries(m) ==
    {<<f, "row", m.comps.counts>> : f \in {"workload_dhcp_relayed", "workload_vms_discovered",
                                           "workload_dhcp_relay_drops"}}

\* workloads: a row that is deferred, or was not read, reports nothing it did not see; a
\* counter of the announcer or of the relay needs the row and the document.
Workloads(m) ==
    IF m.row = "none" THEN {}
    ELSE {<<"workload_up", "row", Bit(m.row = "Up")>>}
         \cup Enumerated("workload_state", WorkloadStates, m.row)
         \cup Series("workload_vms_seen", "row", m.vms # -1, m.vms)
         \cup Series("workload_guard_drops", "row", m.drops # -1, m.drops)
         \cup Series("workload_announces", "row", "announcer" \notin m.comps.bad, m.comps.counts)
         \cup RelaySeries(m)

\* neighbor_pipeline: the rows of the flush actor, and the actor's own state.
NeighborPipeline(m) ==
    Series("workload_neighbor_writes", "row", m.row # "none", m.comps.counts)
    \cup Series("neighbor_dirty_depth", "member", m.kind # "leaf", m.comps.counts)

\* components
ComponentSeries(m) ==
    Enumerated("component_state-engine", ChildStates, m.comps.engine)
    \cup {<<"component_expected", "shape-daemon", Bit(m.kind # "leaf")>>,
          <<"supervisor_applies", "member", m.comps.counts>>}
    \cup Enumerated("watchdog_result", WatchdogResults,
                    IF "watchdog" \in m.comps.bad THEN "blocked" ELSE "ok")

Telemetry(m) == {<<"telemetry_collect_failures", "member", m.comps.failures>>}

\* Collector::encode
Page(m) ==
    Identity(m) \cup Headlines(m) \cup Adjacencies(m) \cup LegsState(m)
    \cup Probed("fallback_active", m.fallback) \cup Probed("ingress_active", m.ingress)
    \cup ProbePorts(m) \cup ConditionSeries(m) \cup IngressSeries(m) \cup HostDefaultSeries(m)
    \cup Workloads(m) \cup NeighborPipeline(m) \cup ComponentSeries(m) \cup Telemetry(m)
=============================================================================
