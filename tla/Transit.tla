------------------------------ MODULE Transit ------------------------------
(***************************************************************************)
(* The transit posture of one forwarding host over the life of its fabric: *)
(* apply (src/commands/apply.rs), the forwarding watchdog's tick           *)
(* (src/commands/fwd_watchdog.rs) and the teardown                         *)
(* (src/commands/teardown.rs), each as the sequence of its writes, with a  *)
(* crash, a failing command or a foreign change between any two of them.   *)
(*                                                                         *)
(* The supervisor runs the three one after the other on its main thread.   *)
(***************************************************************************)
EXTENDS Naturals, FiniteSets

CONSTANTS ClassLegs,        \* class segments: one vlan netdev on one wire each
          GwLeg,            \* the ingress leg of a single gw domain
          Bond,             \* the fallback leg: a bond over every wire
          Wires,
          WireOf,           \* [ClassLegs \cup {GwLeg} -> Wires]
          MaxTransitFaults  \* bound: failing commands and foreign changes

ASSUME TransitAssumption ==
    /\ GwLeg \notin ClassLegs /\ Bond \notin ClassLegs /\ GwLeg # Bond
    /\ WireOf \in [ClassLegs \cup {GwLeg} -> Wires]
    /\ MaxTransitFaults \in Nat

VlanLegs == ClassLegs \cup {GwLeg}
Legs == VlanLegs \cup {Bond}

\* fabric_legs: what the watchdog takes down when a rule cannot be restored.
FabricLegs == ClassLegs \cup {Bond}

VARIABLES
    wires,     \* the wires whose netdev exists
    leg,       \* [Legs -> {"absent", "up", "down", "alien"}]
    fwd,       \* legs whose forwarding flag is 1
    rp,        \* legs whose rp_filter is loose
    intruder,  \* the bond's active port is not one cfab made
    rules,     \* every return-path rule is installed
    ret,       \* the gw zone's return-path default is installed
    policy,    \* inet cfab-fwd forward: "none", "open" (no drop), "drop"
    hook,      \* a foreign stack drops forwards and offers a user hook
    accept,    \* cfab's accept is in that hook
    cost,      \* what the engine advertises: "declared" or "leaf"
    at,        \* the step the supervisor is at
    todo,      \* legs the current step has still to visit
    have,      \* the wires own_wires found
    boot,      \* the apply in progress is the first of this supervisor
    pass,      \* "clean": nothing failed or interfered since the pass began
    hits       \* failures and foreign changes so far

net    == <<wires, leg, fwd, rp, intruder, rules, ret>>
nft    == <<policy, hook, accept>>
ctl    == <<at, todo, have, boot>>
transitVars == <<net, nft, cost, ctl, pass, hits>>

Exists(l) == leg[l] # "absent"
Netdevs == {l \in Legs : Exists(l)}

\* The legs apply builds: a vlan leg on its wire, the bond over the wires that
\* are there.
Buildable(l, w) == IF l = Bond THEN w # {} ELSE WireOf[l] \in w

Hit == hits < MaxTransitFaults /\ hits' = hits + 1 /\ pass' = "dirty"
Calm == hits' = hits /\ pass' = pass

TransitInit ==
    /\ wires \in SUBSET Wires
    /\ leg = [l \in Legs |-> "absent"]
    /\ fwd = {} /\ rp = {} /\ intruder = FALSE /\ rules = FALSE /\ ret = FALSE
    /\ policy = "none" /\ hook \in BOOLEAN /\ accept = FALSE
    /\ cost = "declared"
    /\ at = "stopped" /\ todo = {} /\ have = {} /\ boot = TRUE
    /\ pass = "dirty" /\ hits = 0

-----------------------------------------------------------------------------
(* apply::run.                                                             *)

\* The supervisor starts, or re-applies the same fabric in place.
StartApply ==
    /\ at \in {"stopped", "left", "refused", "dead", "idle"}
    /\ at' = "a_close" /\ boot' = (at # "idle")
    /\ have' = wires
    /\ todo' = Netdevs
    /\ pass' = "clean"
    /\ UNCHANGED <<net, nft, cost, hits>>

\* Forwarding goes off on every cfab interface before anything is built.
ApplyClose(l) ==
    /\ at = "a_close" /\ l \in todo /\ Exists(l)
    /\ fwd' = fwd \ {l} /\ todo' = todo \ {l}
    /\ Calm
    /\ UNCHANGED <<wires, leg, rp, intruder, rules, ret, nft, cost, at, have, boot>>

ApplyClosed ==
    /\ at = "a_close" /\ todo = {}
    /\ at' = "a_legs" /\ todo' = {l \in VlanLegs : Buildable(l, have)}
    /\ Calm
    /\ UNCHANGED <<net, nft, cost, have, boot>>

\* mk_vlan replaces a netdev of the wrong identity; mk_bond_leg refuses one, and
\* fails on a wire that went away since own_wires.
CanBuild(l) == IF l = Bond THEN have \subseteq wires /\ leg[l] # "alien"
               ELSE WireOf[l] \in wires

\* A builder that fails half way may leave a new netdev behind, down.
HalfMade(ls) ==
    {[leg EXCEPT ![l] = "down"] :
        l \in {k \in ls : ~Exists(k) /\ (k # Bond => WireOf[k] \in wires)}}

\* build_class_leg, build_gw_vlan_leg, mk_bond_leg: the leg is up, its
\* rp_filter loose and its forwarding off.
ApplyLeg(l) ==
    /\ at \in {"a_legs", "a_bond"} /\ l \in todo /\ CanBuild(l)
    /\ leg' = [leg EXCEPT ![l] = "up"]
    /\ fwd' = fwd \ {l} /\ rp' = rp \cup {l}
    /\ todo' = todo \ {l}
    /\ Calm
    /\ UNCHANGED <<wires, intruder, rules, ret, nft, cost, at, have, boot>>

\* The gw zone's default is installed after its leg, built or not; the kernel
\* takes a route only on a device that is up.  The fallback bond comes next ...
ApplyReturn ==
    /\ at = "a_legs" /\ todo = {} /\ leg[GwLeg] = "up"
    /\ ret' = TRUE
    /\ at' = "a_bond" /\ todo' = {l \in {Bond} : Buildable(l, have)}
    /\ Calm
    /\ UNCHANGED <<wires, leg, fwd, rp, intruder, rules, nft, cost, have, boot>>

\* ... and the return-path rules after it.
ApplyRules ==
    /\ at = "a_bond" /\ todo = {}
    /\ rules' = TRUE
    /\ at' = "a_policy"
    /\ Calm
    /\ UNCHANGED <<wires, leg, fwd, rp, intruder, ret, nft, cost, todo, have, boot>>

\* enable_forwarding: one transaction loads the policy, and its readback must
\* say "policy drop" ...
ApplyPolicy ==
    /\ at = "a_policy"
    /\ policy' = "drop"
    /\ at' = "a_open" /\ todo' = {l \in Legs : Buildable(l, have)}
    /\ Calm
    /\ UNCHANGED <<net, hook, accept, cost, have, boot>>

\* ... before the flag of any built leg is set.
ApplyOpen(l) ==
    /\ at = "a_open" /\ l \in todo /\ Exists(l)
    /\ fwd' = fwd \cup {l} /\ todo' = todo \ {l}
    /\ Calm
    /\ UNCHANGED <<wires, leg, rp, intruder, rules, ret, nft, cost, at, have, boot>>

\* ensure_foreign_transit_accept: the end of enable_forwarding, and of a tick.
Accept(step) ==
    /\ at = step /\ todo = {}
    /\ accept' = (accept \/ hook)
    /\ at' = IF step = "a_open" THEN "a_rest" ELSE "idle"
    /\ Calm
    /\ UNCHANGED <<net, policy, hook, cost, todo, have, boot>>

\* What is left of apply (the workload guard and addresses, the mark table, the
\* root qdiscs) touches nothing of the posture, but may still fail.
ApplyRest ==
    /\ at = "a_rest"
    /\ at' = "idle"
    /\ Calm
    /\ UNCHANGED <<net, nft, cost, todo, have, boot>>

\* A step cannot be taken: a wire went away since own_wires, a foreign bond,
\* no device for the default ...
Stuck ==
    \/ at \in {"a_legs", "a_bond"} /\ \E l \in todo : ~CanBuild(l)
    \/ at = "a_legs" /\ todo = {} /\ leg[GwLeg] # "up"
    \/ at \in {"a_close", "a_open", "w_close", "w_correct", "s_close"}
         /\ \E l \in todo : ~Exists(l)
    \/ at = "s_legs" /\ \E l \in todo : leg[l] = "alien"

\* ... or a command fails.  The first apply ends the supervisor (exit 3), a
\* re-apply leaves it supervising what is there.
ApplyFails ==
    /\ at \in {"a_close", "a_legs", "a_bond", "a_policy", "a_open", "a_rest"}
    /\ IF Stuck THEN hits' = hits /\ pass' = (IF boot THEN pass ELSE "dirty") ELSE Hit
    /\ leg' \in {leg} \cup (IF at \in {"a_legs", "a_bond"} THEN HalfMade(todo) ELSE {})
    /\ at' = IF boot THEN "refused" ELSE "idle"
    /\ todo' = {}
    /\ UNCHANGED <<wires, fwd, rp, intruder, rules, ret, nft, cost, have, boot>>

-----------------------------------------------------------------------------
(* fwd_watchdog::run, one step per restore, in the code's order.           *)

\* Mistake: the flags are put back whatever the policy is.
TickCorrectFirst ==
    /\ at = "idle"
    /\ at' = "w_correct" /\ todo' = Netdevs /\ pass' = "clean"
    /\ UNCHANGED <<net, nft, cost, have, boot, hits>>

\* Without "policy drop" the tick only fails closed; with it the engine is
\* asked for the declared cost (and may be down).
TickPolicy ==
    /\ at = "idle"
    /\ at' = IF policy = "drop" THEN "w_correct" ELSE "w_close"
    /\ todo' = Netdevs
    /\ pass' = "clean"
    /\ cost' \in {cost} \cup (IF policy = "drop" THEN {"declared"} ELSE {})
    /\ UNCHANGED <<net, nft, have, boot, hits>>

\* fail_closed: every flag off, then the engine is asked for the leaf offset.
TickClose(l) ==
    /\ at = "w_close" /\ l \in todo /\ Exists(l)
    /\ fwd' = fwd \ {l} /\ todo' = todo \ {l}
    /\ Calm
    /\ UNCHANGED <<wires, leg, rp, intruder, rules, ret, nft, cost, at, have, boot>>

TickCloseDone ==
    /\ at = "w_close" /\ todo = {}
    /\ at' = "idle" /\ cost' \in {cost, "leaf"}
    /\ Calm
    /\ UNCHANGED <<net, nft, todo, have, boot>>

\* A flag that drifted from the declared value is written back.
TickCorrect(l) ==
    /\ at = "w_correct" /\ l \in todo /\ Exists(l)
    /\ fwd' = fwd \cup {l} /\ todo' = todo \ {l}
    /\ Calm
    /\ UNCHANGED <<wires, leg, rp, intruder, rules, ret, nft, cost, at, have, boot>>

TickCorrectDone ==
    /\ at = "w_correct" /\ todo = {}
    /\ at' = "w_legs" /\ todo' = Legs
    /\ Calm
    /\ UNCHANGED <<net, nft, cost, have, boot>>

\* restore_missing_legs: only a leg with no netdev at all, on a wire that is
\* there, is rebuilt, and gets its declared flag.  Unlike apply it rebuilds the
\* bond over every declared wire.
Missing(l) == Buildable(l, wires) /\ ~Exists(l)

TickLeg(l) ==
    LET missing == Missing(l)
    IN  /\ at = "w_legs" /\ l \in todo
        /\ missing /\ l = Bond => wires = Wires
        /\ leg' = IF missing THEN [leg EXCEPT ![l] = "up"] ELSE leg
        /\ fwd' = IF missing THEN fwd \cup {l} ELSE fwd
        /\ rp' = IF missing THEN rp \cup {l} ELSE rp
        /\ todo' = todo \ {l}
        /\ Calm
        /\ UNCHANGED <<wires, intruder, rules, ret, nft, cost, at, have, boot>>

\* rebuild_bond_ports with a wire missing: the bond is made, its port on that wire
\* is not, and the tick ends there.  The bond has no address and is down; every
\* later tick finds a bond and leaves it so, until an apply.
TickBondHalf ==
    /\ at = "w_legs" /\ Bond \in todo
    /\ Missing(Bond) /\ wires # Wires
    /\ leg' = [leg EXCEPT ![Bond] = "down"]
    /\ at' = "idle" /\ todo' = {}
    /\ pass' = "dirty" /\ hits' = hits
    /\ UNCHANGED <<wires, fwd, rp, intruder, rules, ret, nft, cost, have, boot>>

\* restore_rp_filter records a write that fails and goes on.
TickRpFilter ==
    /\ at = "w_legs" /\ todo = {}
    /\ \E bad \in {{}, FabricLegs \cap Netdevs} :
          /\ IF bad = {} THEN Calm ELSE Hit
          /\ rp' = rp \cup ((FabricLegs \cap Netdevs) \ bad)
    /\ at' = "w_bond"
    /\ UNCHANGED <<wires, leg, fwd, intruder, rules, ret, nft, cost, todo, have, boot>>

\* restore_bond_membership: release the intruder, or take the bond down.
TickBond(released) ==
    /\ at = "w_bond"
    /\ IF released THEN Calm ELSE intruder /\ Hit
    /\ intruder' = (intruder /\ ~released)
    /\ leg' = IF released \/ leg[Bond] # "up" THEN leg ELSE [leg EXCEPT ![Bond] = "down"]
    /\ ret' = ret
    /\ at' = "w_rules"
    /\ UNCHANGED <<wires, fwd, rp, rules, nft, cost, todo, have, boot>>

\* restore_rules: re-add what is missing, or take the fabric legs down.  (The
\* failure is the tick's own business: it does not spoil the pass.)
TickRules(added) ==
    /\ at = "w_rules"
    /\ IF added THEN Calm ELSE ~rules /\ hits < MaxTransitFaults /\ hits' = hits + 1 /\ pass' = pass
    /\ rules' = (rules \/ added)
    /\ leg' = IF added THEN leg
              ELSE [l \in Legs |-> IF l \in FabricLegs /\ leg[l] = "up" THEN "down" ELSE leg[l]]
    /\ at' = "w_default"
    /\ UNCHANGED <<wires, fwd, rp, intruder, ret, nft, cost, todo, have, boot>>

\* restore_gw_return_defaults: best effort, and only a leg that is up takes it.
TickDefault ==
    /\ at = "w_default"
    /\ ret' \in {ret, ret \/ leg[GwLeg] = "up"}
    /\ at' = "w_accept"
    /\ Calm
    /\ UNCHANGED <<wires, leg, fwd, rp, intruder, rules, nft, cost, todo, have, boot>>

\* An error anywhere else ends the tick; the next one starts afresh.
TickFails ==
    /\ at \in {"w_close", "w_correct", "w_legs", "w_bond", "w_rules", "w_accept"}
    /\ IF Stuck THEN hits' = hits /\ pass' = "dirty" ELSE Hit
    /\ leg' \in {leg} \cup (IF at = "w_legs" THEN HalfMade({l \in todo : Missing(l)}) ELSE {})
    /\ at' = "idle" /\ todo' = {}
    /\ UNCHANGED <<wires, fwd, rp, intruder, rules, ret, nft, cost, have, boot>>

-----------------------------------------------------------------------------
(* The stop sequence, and `cfab down` when no supervisor runs.             *)

StartStop ==
    /\ at \in {"idle", "left", "refused", "dead"}
    /\ at' = "s_close" /\ todo' = Netdevs
    /\ pass' = "clean"
    /\ UNCHANGED <<net, nft, cost, have, boot, hits>>

\* forwarding_off: every flag, then the policy and the foreign accept.
StopClose(l) ==
    /\ at = "s_close" /\ l \in todo /\ Exists(l)
    /\ fwd' = fwd \ {l} /\ todo' = todo \ {l}
    /\ Calm
    /\ UNCHANGED <<wires, leg, rp, intruder, rules, ret, nft, cost, at, have, boot>>

StopClosed ==
    /\ at = "s_close" /\ todo = {}
    /\ at' = "s_policy"
    /\ Calm
    /\ UNCHANGED <<net, nft, cost, todo, have, boot>>

StopPolicy ==
    /\ at = "s_policy"
    /\ policy' = "none" /\ accept' = FALSE
    /\ at' = "s_rules"
    /\ Calm
    /\ UNCHANGED <<net, hook, cost, todo, have, boot>>

StopRules ==
    /\ at = "s_rules"
    /\ rules' = FALSE /\ ret' = FALSE
    /\ at' = "s_legs" /\ todo' = Netdevs
    /\ Calm
    /\ UNCHANGED <<wires, leg, fwd, rp, intruder, nft, cost, have, boot>>

\* Only a netdev of the expected kind is deleted.
StopLeg(l) ==
    /\ at = "s_legs" /\ l \in todo /\ leg[l] # "alien"
    /\ leg' = [leg EXCEPT ![l] = "absent"]
    /\ fwd' = fwd \ {l} /\ rp' = rp \ {l}
    /\ intruder' = (intruder /\ l # Bond)
    /\ todo' = todo \ {l}
    /\ Calm
    /\ UNCHANGED <<wires, rules, ret, nft, cost, at, have, boot>>

StopDone ==
    /\ at = "s_legs" /\ todo = {}
    /\ at' = "stopped"
    /\ Calm
    /\ UNCHANGED <<net, nft, cost, todo, have, boot>>

\* A refusal (a netdev that is not ours) or a failing command ends the stop and
\* leaves the rest where it is.
StopFails ==
    /\ at \in {"s_close", "s_policy", "s_rules", "s_legs"}
    /\ IF Stuck THEN Calm ELSE Hit
    /\ at' = "left" /\ todo' = {}
    /\ UNCHANGED <<net, nft, cost, have, boot>>

\* A stop gives up although nothing disturbs it: before the rules, over a workload
\* row that has no leg (its proxy_arp cannot be written); after them and before
\* the first netdev, over an engine that still holds engine.lock.
StopGivesUp ==
    /\ at = "s_rules" \/ (at = "s_legs" /\ todo = Netdevs)
    /\ at' = "left" /\ todo' = {}
    /\ Calm
    /\ UNCHANGED <<net, nft, cost, have, boot>>

-----------------------------------------------------------------------------
(* Crashes and the world.                                                  *)

Crash ==
    /\ at \notin {"stopped", "left", "dead", "refused"}
    /\ Hit
    /\ at' = "dead" /\ todo' = {}
    /\ UNCHANGED <<net, nft, cost, have, boot>>

\* Legs that lose their netdev lose their flags; a dev-scoped route goes too.
Vanish(gone) ==
    /\ leg' = [l \in Legs |-> IF l \in gone THEN "absent" ELSE leg[l]]
    /\ fwd' = fwd \ gone /\ rp' = rp \ gone
    /\ ret' = (ret /\ GwLeg \notin gone)
    /\ intruder' = (intruder /\ Bond \notin gone)

WireGone(w) ==
    /\ w \in wires /\ Hit
    /\ wires' = wires \ {w}
    /\ Vanish({l \in VlanLegs : WireOf[l] = w})
    /\ UNCHANGED <<rules, nft, cost, ctl>>

WireBack(w) ==
    /\ w \notin wires /\ Hit
    /\ wires' = wires \cup {w}
    /\ UNCHANGED <<leg, fwd, rp, intruder, rules, ret, nft, cost, ctl>>

\* An operator deletes a leg, or puts a netdev of another kind in its place.
Tamper(l, shape) ==
    /\ shape \in {"absent", "alien"} /\ leg[l] # shape /\ Hit
    /\ leg' = [leg EXCEPT ![l] = shape]
    /\ fwd' = fwd \ {l} /\ rp' = rp \ {l}
    /\ ret' = (ret /\ l # GwLeg)
    /\ intruder' = (intruder /\ l # Bond)
    /\ UNCHANGED <<wires, rules, nft, cost, ctl>>

\* A foreign stack writes ip_forward=1, which the kernel copies to every
\* interface.
IpForward ==
    /\ fwd # Netdevs /\ Hit
    /\ fwd' = Netdevs
    /\ UNCHANGED <<wires, leg, rp, intruder, rules, ret, nft, cost, ctl>>

\* The ruleset is flushed, or reloaded without the drop default.
PolicyLost(to) ==
    /\ to \in {"none", "open"} /\ policy = "drop" /\ Hit
    /\ policy' = to
    /\ UNCHANGED <<net, hook, accept, cost, ctl>>

\* A rule, a sysctl, the gw leg's link or the bond's membership drifts.
Drift ==
    /\ Hit
    /\ \/ rules /\ rules' = FALSE /\ UNCHANGED <<rp, ret, intruder>>
       \/ rp # {} /\ rp' = {} /\ UNCHANGED <<rules, ret, intruder>>
       \/ ret /\ ret' = FALSE /\ UNCHANGED <<rules, rp, intruder>>
       \/ ~intruder /\ leg[Bond] = "up" /\ intruder' = TRUE /\ UNCHANGED <<rules, rp, ret>>
    /\ UNCHANGED <<wires, leg, fwd, nft, cost, ctl>>

\* Docker starts: its FORWARD policy is drop and it offers DOCKER-USER.
HookAppears ==
    /\ ~hook /\ Hit
    /\ hook' = TRUE
    /\ UNCHANGED <<net, policy, accept, cost, ctl>>

Foreign ==
    \/ \E w \in Wires : WireGone(w) \/ WireBack(w)
    \/ \E l \in Legs, shape \in {"absent", "alien"} : Tamper(l, shape)
    \/ \E to \in {"none", "open"} : PolicyLost(to)
    \/ IpForward \/ Drift \/ HookAppears

ApplyNext ==
    \/ StartApply \/ ApplyClosed \/ ApplyReturn \/ ApplyRules \/ ApplyPolicy
    \/ Accept("a_open") \/ ApplyRest \/ ApplyFails
    \/ \E l \in Legs : ApplyClose(l) \/ ApplyLeg(l) \/ ApplyOpen(l)

TickNext ==
    \/ TickPolicy \/ TickCloseDone \/ TickCorrectDone \/ TickRpFilter
    \/ TickDefault \/ Accept("w_accept") \/ TickFails \/ TickBondHalf
    \/ \E ok \in BOOLEAN : TickBond(ok) \/ TickRules(ok)
    \/ \E l \in Legs : TickClose(l) \/ TickCorrect(l) \/ TickLeg(l)

StopNext ==
    \/ StartStop \/ StopClosed \/ StopPolicy \/ StopRules \/ StopDone
    \/ StopFails \/ StopGivesUp
    \/ \E l \in Legs : StopClose(l) \/ StopLeg(l)

TransitNext == ApplyNext \/ TickNext \/ StopNext \/ Crash \/ Foreign

TransitSpec == TransitInit /\ [][TransitNext]_transitVars

-----------------------------------------------------------------------------
(* Properties.                                                             *)

TransitTypeOK ==
    /\ wires \subseteq Wires /\ have \subseteq Wires
    /\ leg \in [Legs -> {"absent", "up", "down", "alien"}]
    /\ fwd \subseteq Netdevs /\ rp \subseteq Netdevs
    /\ intruder \in BOOLEAN /\ rules \in BOOLEAN /\ ret \in BOOLEAN
    /\ hook \in BOOLEAN /\ accept \in BOOLEAN /\ boot \in BOOLEAN
    /\ policy \in {"none", "open", "drop"} /\ cost \in {"declared", "leaf"}
    /\ at \in {"stopped", "left", "dead", "refused", "idle", "a_close", "a_legs", "a_bond", "a_policy",
               "a_open", "a_rest", "w_close", "w_correct", "w_legs", "w_bond", "w_rules", "w_default",
               "w_accept", "s_close", "s_policy", "s_rules", "s_legs"}
    /\ todo \subseteq Legs
    /\ pass \in {"clean", "dirty"} /\ hits \in 0..MaxTransitFaults

\* A pass (apply or watchdog tick) that ran undisturbed to its end leaves the
\* member contained whatever it found: without the drop policy nothing forwards;
\* with it every leg of a wire that is there has its netdev and forwards (a bond an
\* earlier tick could only half rebuild is there, down); and either the return-path
\* rules are in or no fabric leg is up (fwd_watchdog.rs, fail_closed and
\* restore_rules).
PassContains ==
    at = "idle" /\ pass = "clean" =>
        IF policy = "drop"
        THEN /\ \A l \in Legs : Buildable(l, wires) => l \in fwd
             /\ rules \/ \A l \in FabricLegs : leg[l] # "up"
             /\ hook => accept
        ELSE fwd = {}

\* The teardown fails closed first: once it takes the policy away, nothing
\* forwards unless a foreign stack turned it on meanwhile, and that stays so where
\* a stop gives up half way; an undisturbed stop that reaches its end leaves
\* nothing of cfab's behind (teardown.rs: "forwarding OFF first (fail closed even
\* mid-teardown), then policy, then netdevs").
StopFailsClosed ==
    pass = "clean" =>
        /\ at \in {"s_policy", "s_rules", "s_legs", "stopped", "left"} => fwd = {}
        /\ at \in {"stopped", "left"} => policy = "none" /\ ~accept
        /\ at = "stopped" => ~rules /\ ~ret /\ \A l \in Legs : leg[l] = "absent"

\* The member is contained whichever way a pass or a stop ends: what forwards
\* is under the drop policy, and the policy goes only after forwarding has.
Contained == PassContains /\ StopFailsClosed

\* apply.rs: an absent wire is "a warning, never a refusal": an apply that
\* nothing disturbed is refused only over a bond that is not cfab's.
AbsentWireNeverRefuses == at = "refused" /\ pass = "clean" => leg[Bond] = "alien"
=============================================================================
