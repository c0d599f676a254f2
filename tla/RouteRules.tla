---------------------------- MODULE RouteRules ----------------------------
(***************************************************************************)
(* The `ip rule`s of a member (src/commands/common.rs) and where they send *)
(* a packet: the leaf's leak guard (prefs 1000 and 1001), the return path  *)
(* of every zone (2000 to 2002) and the host default (2099 to 2103).       *)
(* Installed one by one by apply, put back one by one by the forwarding    *)
(* watchdog, dropped one by one by the teardown, with a crash, a failing   *)
(* command or a foreign change between any two of them.                    *)
(*                                                                         *)
(* A zone stands for its block, a workload for its prefix.                 *)
(***************************************************************************)
EXTENDS Naturals, SequencesExt

CONSTANTS ZoneOrder,      \* the zones, in the order of the declaration
          IngressZones,   \* those with a gw
          LoadOrder,      \* the workloads, in the order of the declaration
          AllowedPairs,   \* <<zone, workload>>: the workload's allow lists the zone
          CarriedLoads,   \* the workloads this member has a row for, if it is a host
          MaxRuleFaults   \* bound: failing commands and foreign changes

BlockZones == Range(ZoneOrder)
PrefixLoads == Range(LoadOrder)

\* What else a selector, an action or an end of a packet may be.
Words == {"any", "floor", "host", "far", "away", "main", "main-specific", "unreachable", "250"}

ASSUME RouteRulesAssumption ==
    /\ IngressZones \subseteq BlockZones /\ CarriedLoads \subseteq PrefixLoads
    /\ AllowedPairs \subseteq BlockZones \X PrefixLoads
    /\ ZoneOrder \in Seq(BlockZones) /\ LoadOrder \in Seq(PrefixLoads)
    /\ BlockZones \cap PrefixLoads = {} /\ MaxRuleFaults \in Nat
    /\ (BlockZones \cup PrefixLoads) \cap Words = {}

VARIABLES
    rrKind,     \* "host" or "leaf"
    ipRules,    \* the rules of cfab in the kernel
    contained,  \* zones whose block is unreachable in main where nothing is more specific
    fabricUp,   \* the fabric's legs are there and up
    rrAt,       \* the step the supervisor is at
    rrTodo,     \* rules the step has still to visit
    rrShort,    \* the tick could not restore a rule
    rrBoot,     \* the apply in progress is the first of this supervisor
    rrPass,     \* "clean": nothing failed or interfered since the pass began;
                \* "ruled": nor in the pass before a stop
    rrHits      \* failures and foreign changes so far

rrKernel == <<ipRules, contained, fabricUp>>
rrVars == <<rrKind, rrKernel, rrAt, rrTodo, rrShort, rrBoot, rrPass, rrHits>>

-----------------------------------------------------------------------------
(* The rules.                                                              *)

\* `iif` is "lo" in a rule for what the member sends itself.
FabricRule(pref, from, to, iif, action) ==
    [pref |-> pref, from |-> from, to |-> to, iif |-> iif, action |-> action]

EachZone(f) == FlattenSeq([i \in DOMAIN ZoneOrder |-> f[ZoneOrder[i]]])
EachLoad(f) == FlattenSeq([i \in DOMAIN LoadOrder |-> f[LoadOrder[i]]])
If(cond, seq) == IF cond THEN seq ELSE <<>>

WorkloadReturnRules(z) ==
    EachLoad([w \in PrefixLoads |->
        If(<<z, w>> \in AllowedPairs, <<FabricRule(2000, z, w, "any", "main")>>)])

LeakGuardRules ==
    EachZone([z \in BlockZones |->
        <<FabricRule(1000, "any", z, "lo", "main"), FabricRule(1001, "any", z, "any", "unreachable")>>])

ReturnPathRules ==
    EachZone([z \in BlockZones |->
        <<FabricRule(2000, z, z, "any", "main-specific")>>
        \o WorkloadReturnRules(z)
        \o <<FabricRule(2001, z, "any", "any", z), FabricRule(2002, z, "any", "any", "unreachable")>>])

FloorRule == FabricRule(2099, "floor", "any", "lo", "main")
LookupRules ==
    <<FabricRule(2100, "any", "any", "lo", "main-specific"), FabricRule(2101, "any", "any", "lo", "250")>>
WorkloadLookupRules ==
    EachLoad([w \in PrefixLoads |->
        If(w \in CarriedLoads, <<FabricRule(2102, w, "any", "any", "main-specific"),
                                 FabricRule(2103, w, "any", "any", "250")>>)])

\* Empty on a member without a gw zone, and on a leaf.
HostDefaultRules ==
    If(rrKind = "host" /\ IngressZones # {}, <<FloorRule>> \o LookupRules \o WorkloadLookupRules)

\* remove_host_default: whatever is found at these prefs.
HostDefaultDrops == <<FloorRule>> \o WorkloadLookupRules \o LookupRules
HostDefaultPrefs == 2099..2103

-----------------------------------------------------------------------------
(* The kernel's lookup.  What main and the other tables hold is the host's *)
(* and the engine's business: any content will do.                         *)

Sources == BlockZones \cup PrefixLoads \cup {"floor", "host", "far"}
Targets == BlockZones \cup PrefixLoads \cup {"away"}

\* A packet is sent by this member, or arrives to be forwarded.
Packets == {p \in [from : Sources, to : Targets, local : BOOLEAN] :
               (p.from \in {"floor", "host"} => p.local) /\ (p.from = "far" => ~p.local)}

Tables == [main    : SUBSET Targets,       \* has a route more specific than the default
           floor   : BOOLEAN,              \* main has a default
           gw      : SUBSET IngressZones,  \* zones whose table has its default
           default : BOOLEAN]              \* table 250 has its default

InMain(p, t) == IF p.to \in t.main THEN "specific" ELSE IF p.to \in contained THEN "unreachable" ELSE "none"

Found(r, p, t) ==
    CASE r.action = "unreachable"          -> "unreachable"
      [] r.action = "main-specific" -> InMain(p, t)
      [] r.action = "main"                 -> IF InMain(p, t) = "none" /\ t.floor THEN "untagged" ELSE InMain(p, t)
      [] r.action = "250"                  -> IF t.default THEN "host-default" ELSE "none"
      [] r.action \in BlockZones           -> IF r.action \in t.gw THEN "gateway" ELSE "none"

Matches(r, p) == r.from \in {"any", p.from} /\ r.to \in {"any", p.to} /\ (r.iif = "lo" => p.local)

MainRule == FabricRule(32766, "any", "any", "any", "main")

\* The first rule that matches and whose table has an answer.
Route(p, t) ==
    LET asked == {r \in ipRules \cup {MainRule} : Matches(r, p) /\ Found(r, p, t) # "none"}
    IN  IF asked = {} THEN "none"
        ELSE Found(CHOOSE r \in asked : \A q \in asked : r.pref <= q.pref, p, t)

-----------------------------------------------------------------------------
(* apply, the watchdog's tick and the teardown.                            *)

RrHit == rrHits < MaxRuleFaults /\ rrHits' = rrHits + 1 /\ rrPass' = "dirty"
RrCalm == rrHits' = rrHits /\ rrPass' = rrPass
RrGoTo(at, todo) == rrAt' = at /\ rrTodo' = todo

\* An undisturbed apply or tick is over, and it left the fabric up.
Ruled == rrAt = "idle" /\ rrPass = "clean" /\ fabricUp

RouteRulesInit ==
    /\ rrKind \in {"host", "leaf"}
    /\ ipRules = {} /\ contained = {} /\ fabricUp = FALSE
    /\ rrAt = "stopped" /\ rrTodo = <<>> /\ rrShort = FALSE /\ rrBoot = TRUE
    /\ rrPass = "dirty" /\ rrHits = 0

\* The containment routes and the legs come before the rules.
RrApply ==
    /\ rrAt \in {"stopped", "refused", "dead", "idle"}
    /\ contained' = BlockZones /\ fabricUp' = TRUE
    /\ RrGoTo("return", ReturnPathRules)
    /\ rrBoot' = (rrAt # "idle") /\ rrShort' = FALSE
    /\ rrPass' = "clean"
    /\ UNCHANGED <<rrKind, ipRules, rrHits>>

\* ensure_rule, one rule after the other ...
EnsureRule ==
    /\ rrAt \in {"return", "default", "guard"} /\ rrTodo # <<>>
    /\ ipRules' = ipRules \cup {Head(rrTodo)} /\ rrTodo' = Tail(rrTodo)
    /\ RrCalm
    /\ UNCHANGED <<rrKind, contained, fabricUp, rrAt, rrShort, rrBoot>>

\* ... the return path, the host default, and on a leaf the leak guard.
EnsureNext ==
    /\ rrAt \in {"return", "default", "guard"} /\ rrTodo = <<>>
    /\ CASE rrAt = "return"                       -> RrGoTo("default", HostDefaultRules)
         [] rrAt = "default" /\ rrKind = "leaf"   -> RrGoTo("guard", LeakGuardRules)
         [] OTHER                                 -> RrGoTo("idle", <<>>)
    /\ RrCalm
    /\ UNCHANGED <<rrKind, rrKernel, rrShort, rrBoot>>

\* A command fails: apply ends, the first one with its supervisor.  The host
\* default is taken back first, as far as that succeeds.
EnsureFails ==
    /\ rrAt \in {"return", "default", "guard"} /\ RrHit
    /\ ipRules' \in {ipRules}
          \cup (IF rrAt = "default" THEN {{r \in ipRules : r.pref \notin HostDefaultPrefs}} ELSE {})
    /\ RrGoTo(IF rrBoot THEN "refused" ELSE "idle", <<>>)
    /\ UNCHANGED <<rrKind, contained, fabricUp, rrShort, rrBoot>>

\* restore_rules
RrTick ==
    /\ rrAt = "idle"
    /\ RrGoTo("tick", If(rrKind = "leaf", LeakGuardRules) \o ReturnPathRules)
    /\ rrShort' = FALSE /\ rrPass' = "clean"
    /\ UNCHANGED <<rrKind, rrKernel, rrBoot, rrHits>>

\* A rule that is there is left alone; one that cannot be added does not keep the
\* tick from the others.
RestoreRule(ok) ==
    /\ rrAt = "tick" /\ rrTodo # <<>>
    /\ IF ok THEN rrHits' = rrHits
       ELSE Head(rrTodo) \notin ipRules /\ rrHits < MaxRuleFaults /\ rrHits' = rrHits + 1
    /\ ipRules' = IF ok THEN ipRules \cup {Head(rrTodo)} ELSE ipRules
    /\ rrShort' = (rrShort \/ ~ok)
    /\ rrTodo' = Tail(rrTodo)
    /\ UNCHANGED <<rrKind, contained, fabricUp, rrAt, rrBoot, rrPass>>

\* Mistake: a rule that could not be restored is only reported.
RestoreEndsReported ==
    /\ rrAt = "tick" /\ rrTodo = <<>>
    /\ RrGoTo("tick-default", HostDefaultRules)
    /\ RrCalm
    /\ UNCHANGED <<rrKind, rrKernel, rrShort, rrBoot>>

\* Without one of them the fabric legs go down; the host default is next.
RestoreEnds ==
    /\ rrAt = "tick" /\ rrTodo = <<>>
    /\ fabricUp' = (fabricUp /\ ~rrShort)
    /\ RrGoTo("tick-default", HostDefaultRules)
    /\ RrCalm
    /\ UNCHANGED <<rrKind, ipRules, contained, rrShort, rrBoot>>

\* A read fails, here or in an earlier part of the tick.
TickErrs ==
    /\ rrAt = "tick" /\ RrHit
    /\ RrGoTo("tick-default", HostDefaultRules)
    /\ UNCHANGED <<rrKind, rrKernel, rrShort, rrBoot>>

\* HostDefaultState::pass: a failure ends it, until the next tick.
ReassertRule(ok) ==
    /\ rrAt = "tick-default"
    /\ IF ok THEN RrCalm ELSE RrHit
    /\ IF ok /\ rrTodo # <<>>
       THEN ipRules' = ipRules \cup {Head(rrTodo)} /\ RrGoTo("tick-default", Tail(rrTodo))
       ELSE ipRules' = ipRules /\ RrGoTo("idle", <<>>)
    /\ UNCHANGED <<rrKind, contained, fabricUp, rrShort, rrBoot>>

\* teardown::run: the return path and the host default while the netdevs are
\* still there ...
RrStop ==
    /\ rrAt \in {"idle", "refused", "dead"}
    /\ RrGoTo("drop", ReturnPathRules \o HostDefaultDrops)
    /\ rrPass' = IF Ruled THEN "ruled" ELSE "clean"
    /\ UNCHANGED <<rrKind, rrKernel, rrShort, rrBoot, rrHits>>

DropRule ==
    /\ rrAt \in {"drop", "drop-guard"} /\ rrTodo # <<>>
    /\ ipRules' = ipRules \ {Head(rrTodo)} /\ rrTodo' = Tail(rrTodo)
    /\ RrCalm
    /\ UNCHANGED <<rrKind, contained, fabricUp, rrAt, rrShort, rrBoot>>

\* ... then the netdevs and the containment routes, and a leaf's guard, its only
\* containment, last.
RrStopNetdevs ==
    /\ rrAt = "drop" /\ rrTodo = <<>>
    /\ fabricUp' = FALSE /\ contained' = {}
    /\ RrGoTo("drop-guard", If(rrKind = "leaf", LeakGuardRules))
    /\ RrCalm
    /\ UNCHANGED <<rrKind, ipRules, rrShort, rrBoot>>

RrStopped ==
    /\ rrAt = "drop-guard" /\ rrTodo = <<>>
    /\ RrGoTo("stopped", <<>>)
    /\ RrCalm
    /\ UNCHANGED <<rrKind, rrKernel, rrShort, rrBoot>>

DropFails ==
    /\ rrAt \in {"drop", "drop-guard"} /\ RrHit
    /\ RrGoTo("dead", <<>>)
    /\ UNCHANGED <<rrKind, rrKernel, rrShort, rrBoot>>

\* The teardown gives up although nothing disturbs it: over a workload row without
\* a leg before the first rule, or over a held engine.lock after the last and
\* before the netdevs.
DropGivesUp ==
    /\ rrAt = "drop" /\ rrTodo \in {ReturnPathRules \o HostDefaultDrops, <<>>}
    /\ RrGoTo("dead", <<>>)
    /\ RrCalm
    /\ UNCHANGED <<rrKind, rrKernel, rrShort, rrBoot>>

RrCrash ==
    /\ rrAt \notin {"stopped", "dead"} /\ RrHit
    /\ RrGoTo("dead", <<>>)
    /\ UNCHANGED <<rrKind, rrKernel, rrShort, rrBoot>>

\* Somebody removes a rule, or a containment route, which nothing puts back.
RuleFlushed(r) ==
    /\ r \in ipRules /\ RrHit
    /\ ipRules' = ipRules \ {r}
    /\ UNCHANGED <<rrKind, contained, fabricUp, rrAt, rrTodo, rrShort, rrBoot>>

ContainmentLost(z) ==
    /\ z \in contained /\ RrHit
    /\ contained' = contained \ {z}
    /\ UNCHANGED <<rrKind, ipRules, fabricUp, rrAt, rrTodo, rrShort, rrBoot>>

RouteRulesNext ==
    \/ RrApply \/ EnsureRule \/ EnsureNext \/ EnsureFails
    \/ RrTick \/ RestoreEnds \/ TickErrs \/ \E ok \in BOOLEAN : RestoreRule(ok) \/ ReassertRule(ok)
    \/ RrStop \/ DropRule \/ RrStopNetdevs \/ RrStopped
    \/ DropFails \/ DropGivesUp
    \/ RrCrash \/ \E r \in ipRules : RuleFlushed(r)
    \/ \E z \in contained : ContainmentLost(z)

RouteRulesSpec == RouteRulesInit /\ [][RouteRulesNext]_rrVars

-----------------------------------------------------------------------------
(* Properties.                                                             *)

\* "identity-sourced traffic never leaves untagged", nor by the host default, and never
\* passes from one zone's block to another's but through the zone's gateway (the
\* exceptions: a leaf's own packets, and a workload prefix that main has no route to).
IdentityStays(p, t) ==
    p.from \in BlockZones =>
        LET r == Route(p, t)
        IN  /\ r # "host-default"
            /\ r = "untagged" => \/ <<p.from, p.to>> \in AllowedPairs /\ p.to \notin t.main
                                 \/ rrKind = "leaf" /\ p.local /\ p.to \notin contained
            /\ p.to \in BlockZones \ {p.from} => r \in {"gateway", "unreachable"} \/ (rrKind = "leaf" /\ p.local)

\* A leaf forwards nothing into a block.
NothingThrough(p, t) == rrKind = "leaf" /\ ~p.local /\ p.to \in BlockZones => Route(p, t) = "unreachable"

\* The host default serves what this member and its VMs send to where main has nothing
\* better, and nobody else: not what only passes through, and not an admin address as
\* long as main has the default its replies take.
DefaultFor(p, t) ==
    LET r == Route(p, t)
        entitled == rrKind = "host" /\ IngressZones # {}
                    /\ ((p.local /\ (p.from = "floor" => ~t.floor)) \/ p.from \in CarriedLoads)
    IN  /\ r = "host-default" => entitled
        /\ entitled /\ p.from \notin BlockZones /\ t.default /\ p.to \notin t.main \cup contained => r = "host-default"

\* Whatever main and the other tables hold, the rules send no packet where the fabric
\* must not: after an undisturbed apply or tick.  A leaf's guard outlasts its netdevs, also
\* where a stop gives up, and an undisturbed stop that reaches its end leaves no rule behind.
PathsSanctioned ==
    /\ Ruled => \A p \in Packets, t \in Tables :
                    IdentityStays(p, t) /\ NothingThrough(p, t) /\ DefaultFor(p, t)
    /\ rrPass = "ruled" /\ fabricUp => \A p \in Packets, t \in Tables : NothingThrough(p, t)
    /\ rrAt = "stopped" /\ rrPass # "dirty" => ipRules = {}

=============================================================================
