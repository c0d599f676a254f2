---------------------------- MODULE HostDefault ----------------------------
(***************************************************************************)
(* The additive host default of a member with a gw zone: the route in      *)
(* table 250, the lookup rules that reach it and the pref-2099 pins that   *)
(* keep the host's admin addresses on main (src/commands/common.rs).       *)
(* Installed by apply (src/commands/apply.rs install_host_default), kept   *)
(* level by the supervisor's 3 s tick and on the edge of the prober's      *)
(* verdict (src/commands/fwd_watchdog.rs HostDefaultState), removed by the *)
(* teardown.                                                               *)
(***************************************************************************)
EXTENDS Naturals

CONSTANTS Addrs,             \* admin addresses of the host
          MaxDefaultFaults   \* bound: failing commands and changes of the host

ASSUME HostDefaultAssumption == MaxDefaultFaults \in Nat

VARIABLES
    floor,      \* main holds a default of the host's own
    onFloor,    \* addresses on the device of that default
    elsewhere,  \* addresses on another device
    gwUp,       \* the ingress leg is there and up
    reach,      \* the ingress prober's verdict on the router
    pins,       \* addresses with a pref-2099 rule
    look,       \* the lookup rules (2100, 2101 and the workloads' pairs)
    route,      \* table 250 holds the default
    hdAt,       \* the step the supervisor is at
    hdWhy,      \* "first" or "again" (apply), "tick" or "stop"
    hdAddrs,    \* the floor addresses this pass read
    hdHeld,     \* the pins this pass read
    hdWant,     \* the verdict this pass acts on
    hdWas,      \* HostDefaultState.wanted: "none", "yes" or "no"
    hdPass,     \* "clean": nothing failed or changed since the pass began
    hdHits      \* failures and changes so far

hdHost == <<floor, onFloor, elsewhere, gwUp, reach>>
hdKept == <<pins, look, route>>
hdRead == <<hdAddrs, hdHeld, hdWant>>
hdVars == <<hdHost, hdKept, hdAt, hdWhy, hdRead, hdWas, hdPass, hdHits>>

Applying == hdWhy \in {"first", "again"}
Verdict(r) == IF r THEN "yes" ELSE "no"

HdHit == hdHits < MaxDefaultFaults /\ hdHits' = hdHits + 1 /\ hdPass' = "dirty"
HdCalm == hdHits' = hdHits /\ hdPass' = hdPass

\* An operator's command (a re-apply, a stop) is bounded like a change.
HdAsked == hdHits < MaxDefaultFaults /\ hdHits' = hdHits + 1 /\ hdPass' = "clean"

HdInit ==
    /\ floor \in BOOLEAN /\ onFloor \in SUBSET Addrs /\ elsewhere = {}
    /\ gwUp \in BOOLEAN /\ reach = TRUE
    /\ pins = {} /\ look = FALSE /\ route = FALSE
    /\ hdAt = "stopped" /\ hdWhy = "stop"
    /\ hdAddrs = {} /\ hdHeld = {} /\ hdWant = TRUE /\ hdWas = "none"
    /\ hdPass = "dirty" /\ hdHits = 0

-----------------------------------------------------------------------------
(* install_host_default and HostDefaultState::reconcile.                   *)

\* apply wants the route whatever the prober will say; a new supervisor has no
\* verdict of an earlier pass.
HdApply ==
    /\ hdAt \in {"stopped", "refused", "dead", "idle"}
    /\ hdAt' = "read" /\ hdWhy' = IF hdAt = "idle" THEN "again" ELSE "first"
    /\ hdWas' = IF hdAt = "idle" THEN hdWas ELSE "none"
    /\ hdWant' = TRUE
    /\ IF hdAt = "idle" THEN HdAsked ELSE hdPass' = "clean" /\ hdHits' = hdHits
    /\ UNCHANGED <<hdHost, hdKept, hdAddrs, hdHeld>>

\* The level pass of the watchdog tick, or the edge pass of the prober tick.
HdTick(edge) ==
    /\ hdAt = "idle"
    /\ edge => hdWas # Verdict(reach)
    /\ hdAt' = "read" /\ hdWhy' = "tick"
    /\ hdWant' = reach /\ hdPass' = "clean"
    /\ UNCHANGED <<hdHost, hdKept, hdAddrs, hdHeld, hdWas, hdHits>>

\* floor_default, floor_addresses
HdFloor ==
    /\ hdAt = "read"
    /\ hdAddrs' = IF floor THEN onFloor ELSE {}
    /\ hdAt' = "pin"
    /\ HdCalm
    /\ UNCHANGED <<hdHost, hdKept, hdWhy, hdHeld, hdWant, hdWas>>

\* sync_floor_rules: pin every floor address that has no rule ...
HdPin ==
    /\ hdAt = "pin"
    /\ hdHeld' = pins
    /\ pins' = pins \cup hdAddrs
    /\ hdAt' = IF pins \subseteq hdAddrs THEN "rules" ELSE "stale"
    /\ HdCalm
    /\ UNCHANGED <<hdHost, look, route, hdWhy, hdAddrs, hdWant, hdWas>>

\* Mistake: a pin goes as soon as the floor does not carry its address.
HdStaleFloor ==
    /\ hdAt = "stale"
    /\ pins' = pins \ (hdHeld \ hdAddrs)
    /\ hdAt' = "rules"
    /\ HdCalm
    /\ UNCHANGED <<hdHost, look, route, hdWhy, hdRead, hdWas>>

\* ... and drop the rule of an address the host carries on no device.
HdStale ==
    /\ hdAt = "stale"
    /\ pins' = pins \ (hdHeld \ (hdAddrs \cup onFloor \cup elsewhere))
    /\ hdAt' = "rules"
    /\ HdCalm
    /\ UNCHANGED <<hdHost, look, route, hdWhy, hdRead, hdWas>>

HdRules ==
    /\ hdAt = "rules"
    /\ look' = TRUE
    /\ hdAt' = "route"
    /\ HdCalm
    /\ UNCHANGED <<hdHost, pins, route, hdWhy, hdRead, hdWas>>

\* Mistake: a tick only ever installs.
HdRouteKeeps ==
    /\ hdAt = "route" /\ (hdWant => gwUp)
    /\ route' = (route \/ hdWant)
    /\ hdAt' = "idle" /\ hdWas' = IF Applying THEN hdWas ELSE Verdict(hdWant)
    /\ HdCalm
    /\ UNCHANGED <<hdHost, pins, look, hdWhy, hdRead>>

\* The route is installed or withdrawn last; it needs its device.
HdRoute ==
    /\ hdAt = "route" /\ (hdWant => gwUp)
    /\ route' = hdWant
    /\ hdAt' = "idle" /\ hdWas' = IF Applying THEN hdWas ELSE Verdict(hdWant)
    /\ HdCalm
    /\ UNCHANGED <<hdHost, pins, look, hdWhy, hdRead>>

\* A command fails, "some" of the pins being in, or the route has no device.  A
\* tick remembers the verdict all the same; apply takes the unit out again.
HdFails(some) ==
    /\ hdAt \in {"read", "pin", "stale", "rules", "route"}
    /\ some \subseteq hdAddrs /\ (hdAt # "pin" => some = {})
    /\ IF hdAt = "route" /\ hdWant /\ ~gwUp THEN HdCalm ELSE HdHit
    /\ pins' = pins \cup some
    /\ hdAt' = CASE ~Applying                      -> "idle"
                 [] Applying /\ hdAt # "read"      -> "del_route"
                 [] Applying /\ hdAt = "read"      -> IF hdWhy = "first" THEN "refused" ELSE "idle"
    /\ hdWas' = IF Applying THEN hdWas ELSE Verdict(hdWant)
    /\ UNCHANGED <<hdHost, look, route, hdWhy, hdRead>>

-----------------------------------------------------------------------------
(* remove_host_default: the unwind of a failed apply, and the teardown.    *)

HdStop ==
    /\ hdAt \in {"idle", "refused", "dead"}
    /\ hdAt' = "del_route" /\ hdWhy' = "stop"
    /\ HdAsked
    /\ UNCHANGED <<hdHost, hdKept, hdRead, hdWas>>

\* The result of `ip route del` is ignored ...
HdDelRoute(ok) ==
    /\ hdAt = "del_route"
    /\ IF ok THEN HdCalm ELSE route /\ HdHit
    /\ route' = (route /\ ~ok)
    /\ hdAt' = "del_pins"
    /\ UNCHANGED <<hdHost, pins, look, hdWhy, hdRead, hdWas>>

\* ... a rule that cannot be deleted is not.
HdDelPins ==
    /\ hdAt = "del_pins"
    /\ pins' = {}
    /\ hdAt' = "del_look"
    /\ HdCalm
    /\ UNCHANGED <<hdHost, look, route, hdWhy, hdRead, hdWas>>

HdEnd == CASE hdWhy = "first" -> "refused" [] hdWhy = "again" -> "idle" [] OTHER -> "stopped"

HdDelLook ==
    /\ hdAt = "del_look"
    /\ look' = FALSE
    /\ hdAt' = HdEnd
    /\ HdCalm
    /\ UNCHANGED <<hdHost, pins, route, hdWhy, hdRead, hdWas>>

HdDelFails(some) ==
    /\ hdAt \in {"del_pins", "del_look"}
    /\ some \subseteq pins /\ (hdAt # "del_pins" => some = {})
    /\ HdHit
    /\ pins' = pins \ some
    /\ hdAt' = HdEnd
    /\ UNCHANGED <<hdHost, look, route, hdWhy, hdRead, hdWas>>

-----------------------------------------------------------------------------
(* Crashes and the host.                                                   *)

HdCrash ==
    /\ hdAt \notin {"stopped", "refused", "dead"} /\ HdHit
    /\ hdAt' = "dead"
    /\ UNCHANGED <<hdHost, hdKept, hdWhy, hdRead, hdWas>>

\* An ifreload takes main's default away or brings it (back).
FloorFlips ==
    /\ HdHit /\ floor' = ~floor
    /\ UNCHANGED <<onFloor, elsewhere, gwUp, reach, hdKept, hdAt, hdWhy, hdRead, hdWas>>

\* An address is added to the floor device, removed, or moved to another.
AddrMoves(a, to) ==
    /\ HdHit
    /\ onFloor' = IF to = "floor" THEN onFloor \cup {a} ELSE onFloor \ {a}
    /\ elsewhere' = IF to = "other" THEN elsewhere \cup {a} ELSE elsewhere \ {a}
    /\ <<onFloor', elsewhere'>> # <<onFloor, elsewhere>>
    /\ UNCHANGED <<floor, gwUp, reach, hdKept, hdAt, hdWhy, hdRead, hdWas>>

\* The ingress leg flaps: the kernel drops a route whose device goes down.
GwFlaps ==
    /\ HdHit
    /\ gwUp' = ~gwUp /\ route' = FALSE
    /\ UNCHANGED <<floor, onFloor, elsewhere, reach, pins, look, hdAt, hdWhy, hdRead, hdWas>>

ReachFlips ==
    /\ HdHit /\ reach' = ~reach
    /\ UNCHANGED <<floor, onFloor, elsewhere, gwUp, hdKept, hdAt, hdWhy, hdRead, hdWas>>

\* The rules or the route are flushed by something else.
HdFlushed ==
    /\ HdHit
    /\ \/ pins' = {} /\ look' = FALSE /\ route' = route
       \/ route' = FALSE /\ UNCHANGED <<pins, look>>
    /\ UNCHANGED <<hdHost, hdAt, hdWhy, hdRead, hdWas>>

HdPassNext ==
    \/ HdFloor \/ HdPin \/ HdStale \/ HdRules \/ HdRoute
    \/ \E some \in SUBSET Addrs : HdFails(some)

HdRemoveNext ==
    \/ HdDelPins \/ HdDelLook
    \/ \E ok \in BOOLEAN : HdDelRoute(ok)
    \/ \E some \in SUBSET Addrs : HdDelFails(some)

HdHostNext ==
    \/ FloorFlips \/ GwFlaps \/ ReachFlips \/ HdFlushed
    \/ \E a \in Addrs, to \in {"floor", "other", "gone"} : AddrMoves(a, to)

HdNext ==
    \/ HdApply \/ HdTick(TRUE) \/ HdTick(FALSE) \/ HdPassNext
    \/ HdStop \/ HdRemoveNext \/ HdCrash \/ HdHostNext

\* The supervisor's tick keeps coming, and a pass or a removal that was begun is
\* finished.
HdFairness ==
    /\ WF_hdVars(HdTick(FALSE) \/ HdPassNext)
    /\ WF_hdVars(HdRemoveNext)

HdSpec == HdInit /\ [][HdNext]_hdVars
HdLive == HdSpec /\ HdFairness

-----------------------------------------------------------------------------
(* Properties.                                                             *)

HdTypeOK ==
    /\ floor \in BOOLEAN /\ gwUp \in BOOLEAN /\ reach \in BOOLEAN
    /\ look \in BOOLEAN /\ route \in BOOLEAN /\ hdWant \in BOOLEAN
    /\ onFloor \subseteq Addrs /\ elsewhere \subseteq Addrs
    /\ pins \subseteq Addrs /\ hdAddrs \subseteq Addrs /\ hdHeld \subseteq Addrs
    /\ hdAt \in {"stopped", "refused", "dead", "idle", "read", "pin", "stale", "rules",
                 "route", "del_route", "del_pins", "del_look"}
    /\ hdWhy \in {"first", "again", "tick", "stop"}
    /\ hdWas \in {"none", "yes", "no"}
    /\ hdPass \in {"clean", "dirty"} /\ hdHits \in 0..MaxDefaultFaults

\* An admin address whose replies leave over the fabric gateway.
Exposed == {a \in onFloor \cup elsewhere : route /\ look /\ a \notin pins}

\* apply.rs: "there is no instant in which 2101 is sending an admin-sourced reply
\* over the fabric gateway with nothing pinning it back to main": no step of an
\* apply, tick or removal that nothing disturbs exposes an address that was
\* pinned, or one of the floor device.  (Without a floor default the addresses
\* that were never pinned are exposed, with a warning.)
NeverSelfLocks ==
    [][hdPass = "clean" /\ hdPass' = "clean" =>
         \A a \in Exposed' \ Exposed : a \notin pins /\ (floor => a \notin onFloor)]_hdVars

\* A supervisor whose first apply is under way, failed or died promises nothing.
Starting == hdAt \in {"refused", "dead"} \/ (hdWhy = "first" /\ hdAt # "idle")

DefaultLevel ==
    IF hdAt = "stopped"
    THEN hdPass = "clean" => pins = {} /\ ~look /\ ~route
    ELSE /\ gwUp => route = reach
         /\ floor => onFloor \subseteq pins
         /\ pins \subseteq onFloor \cup elsewhere
         /\ look

\* A teardown that nothing disturbs leaves no route, rule or pin; and once the
\* host stands still the running supervisor has the route in exactly when the
\* prober hears the router, every floor address pinned, and no pin of an
\* address that is gone (HostDefaultState).
DefaultFollows == <>[](Starting \/ DefaultLevel)
=============================================================================
