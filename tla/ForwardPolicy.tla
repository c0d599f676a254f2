---------------------------- MODULE ForwardPolicy ----------------------------
(***************************************************************************)
(* What a member may forward and how its packets are marked: the two       *)
(* rulesets (src/emit/policy.rs, src/emit/mark.rs), the ceiling for a      *)
(* kernel without nf_tables (src/emit/ceiling_ipt.rs), how apply and the   *)
(* teardown install and remove them, and the command that tests the first  *)
(* in namespaces of its own (src/commands/policy_teeth.rs).                *)
(*                                                                         *)
(* A forward chain is a sequence of groups of rules, each with one         *)
(* verdict; the sides of a rule are sets of interfaces, or what is not in  *)
(* one.  Counters decide nothing and are left out, and so are the -local   *)
(* sets that only counters read (module HostRoutes).                       *)
(***************************************************************************)
EXTENDS Declaration

CONSTANTS Local,           \* the member
          Others,         \* interfaces of other stacks on it
          Policies,       \* declarations it may have
          Flows,          \* the connections that are looked at
          Nil,            \* no table, no record, no connection
          MaxMishaps      \* bound: crashes, restarts and failing commands

VARIABLES
    ruled,     \* the declaration of the apply in progress, or of the last one
    fwd,         \* table inet cfab-fwd: Nil, or its rules
    mark,        \* table inet cfab: Nil, or its two chains
    ipt,         \* cfab's chains in the mangle table of iptables
    record,      \* mark.backend in the run directory
    can,         \* what there is: "nft" and "ipt" (the tools), "nf_tables" (the kernel)
    stage,       \* the step apply is at
    life,        \* "whole", "stopped": apply or the teardown ended and nothing went wrong; else "torn"
    flow,        \* the connection that is looked at: Nil, or where it came in and went out
    teeth,       \* the policy-teeth run: its step, the declaration, the tests that failed
    mishaps

polVars == <<ruled, fwd, mark, ipt, record, can, stage, life, flow, teeth, mishaps>>
tables == <<fwd, mark, ipt, record>>

-----------------------------------------------------------------------------
(* policy::generate                                                        *)

Of(ifs) == [are |-> "these", ifs |-> ifs]
NotOf(ifs) == [are |-> "others", ifs |-> ifs]
Any == NotOf({})
Rule(in, out) == [in |-> in, out |-> out, ct |-> {"new", "established"}]
Between(ins, outs) == Rule(Of(ins), Of(outs))
Group(to, rules) == [to |-> to, rules |-> rules]

AdminPlane(f, m) == {Rule(Of(AdminIfs(f, m)), Any), Rule(Any, Of(AdminIfs(f, m)))}
ForeignTransit(f, m) == {Rule(NotOf(Owned(f, m)), NotOf(Owned(f, m)))}
ReturnOfAllowed == {[in |-> Any, out |-> Any, ct |-> {"established"}]}

\* The set a zone's rules name: its interfaces, and what is spliced into storage's.
SetOf(f, m, zone, spliced) == ZoneIfs(f, m, zone) \cup (IF zone = "storage" THEN spliced ELSE {})

\* Both ways between a row's leg and what it reaches, without conntrack.
Pairs(leg, ifs) == {Between({leg}, ifs), Between(ifs, {leg})}
RowPairs(f, m, w, spliced) ==
    UNION ({Pairs(LegIf(w), SetOf(f, m, z, spliced)) : z \in w.allow}
           \cup {Pairs(LegIf(w), {r.ifname}) : r \in GwRows(f, m)})
Allowed(f, m, allow, spliced) ==
    {Between(SetOf(f, m, p[1], spliced), SetOf(f, m, p[2], spliced)) : p \in allow}
    \cup UNION {RowPairs(f, m, w, spliced) : w \in WorkloadRows(f, m)}

Chain(admin, foreign, allowed) ==
    <<Group("drop", admin), Group("accept", foreign), Group("accept", ReturnOfAllowed), Group("accept", allowed)>>

\* Mistake: replies are let through before the admin plane is fenced off.
PolicyRepliesFirst(f, m) ==
    <<Group("accept", ReturnOfAllowed), Group("drop", AdminPlane(f, m)),
      Group("accept", ForeignTransit(f, m) \cup Allowed(f, m, f.allow, {}))>>

Policy(f, m) == Chain(AdminPlane(f, m), ForeignTransit(f, m), Allowed(f, m, f.allow, {}))

\* The first group with a rule for the packet decides; the chain's own policy is drop.
On(side, i) == (i \in side.ifs) <=> (side.are = "these")
Takes(rules, in, out, ct) == \E r \in rules : On(r.in, in) /\ On(r.out, out) /\ ct \in r.ct
Verdict(chain, in, out, ct) ==
    IF \E k \in DOMAIN chain :
          /\ chain[k].to = "accept" /\ Takes(chain[k].rules, in, out, ct)
          /\ \A n \in 1 .. k - 1 : ~Takes(chain[n].rules, in, out, ct)
    THEN "accept" ELSE "drop"

-----------------------------------------------------------------------------
(* mark::generate                                                          *)

CeilingHeadroom == 4
CeilingRxmt == 5
CeilingFloor == 20
DivCeil(a, b) == (a + b - 1) \div b

\* One hello, every LSA flooded and acknowledged once, and one round of
\* retransmissions; never below what was measured in a burst.
CeilingPps(members, lans) ==
    LET lsas == members + lans
        base == 1 + 2 * lsas + DivCeil(lsas * (members - 1), CeilingRxmt)
    IN  CeilingHeadroom * (IF base > CeilingFloor THEN base ELSE CeilingFloor)

Routers(f, zone) == {m \in Names : \E r \in ClassRows(f, m) : r.zone = zone}
Lans(f, zone) == {key \in SegKeys(f) : f.zones[key[1]].name = zone}
Rate(f, zone) == CeilingPps(Cardinality(Routers(f, zone)), Cardinality(Lans(f, zone)))
Ceilings(f, m) ==
    {[zone |-> r.zone, ifname |-> r.ifname, rate |-> Rate(f, r.zone)] : r \in FallbackRows(f, m)}

\* A ceiling, a guard that leaves the chain, or a mark, each with its place: the
\* ceilings come first, then zone by zone the guards and the clamp.
Limit(c) == [at |-> 0, on |-> {c.ifname}, proto |-> {"ospf"}, to |-> "limit", rate |-> c.rate]
Guard(at, ifs, proto) == [at |-> at, on |-> ifs, proto |-> {proto}, to |-> "return"]
Clamp(at, ifs, dscp) == [at |-> at, on |-> ifs, proto |-> {"ospf", "bfd", "bulk"}, to |-> "set", dscp |-> dscp]

ZoneClamps(f, m, i) ==
    LET ifs == ZoneIfs(f, m, f.zones[i].name)
    IN  IF ifs = {} THEN {}
        ELSE {Guard(2 * i, ifs, "ospf"), Guard(2 * i, ifs, "bfd"), Clamp(2 * i + 1, ifs, f.zones[i].dscp)}

OutChain(f, m) ==
    {Limit(c) : c \in Ceilings(f, m)}
    \cup (IF f.setDscp THEN UNION {ZoneClamps(f, m, i) : i \in DOMAIN f.zones} ELSE {})

\* Whatever a virtual machine set is overwritten, with the clamp or without.
Overwrite(w, ifs, dscp) == [in |-> LegIf(w), on |-> ifs, dscp |-> dscp]
ForwardChain(f, m) ==
    UNION {{Overwrite(w, ZoneIfs(f, m, z), ZoneOf(f, z).dscp) : z \in w.allow}
           \cup {Overwrite(w, {r.ifname}, ZoneOf(f, r.zone).dscp) : r \in GwRows(f, m)} : w \in WorkloadRows(f, m)}

MarkTable(f, m) == [out |-> OutChain(f, m), forward |-> ForwardChain(f, m)]

\* What is met on the way out: a guard ends it.
Walk(chain, i, proto) ==
    LET hits == {r \in chain : i \in r.on /\ proto \in r.proto}
    IN  {r \in hits : \A g \in hits : g.to = "return" => r.at < g.at}

-----------------------------------------------------------------------------
(* ceiling_ipt: cfab-out holds jumps, a chain per zone a limit and a drop. *)

NoIpt == [hook |-> "none", out |-> {}, chains |-> <<>>]

\* iptables-legacy-restore --noflush: every chain of the render is emptied first.
RestoreChains(old, cs) ==
    [hook   |-> old.hook,
     out    |-> {[ifname |-> c.ifname, zone |-> c.zone] : c \in cs},
     chains |-> [z \in DOMAIN old.chains \cup {c.zone : c \in cs} |->
                    IF \E c \in cs : c.zone = z THEN {c.rate : c \in {x \in cs : x.zone = z}}
                    ELSE old.chains[z]]]

Sweep(old, cs) == [old EXCEPT !.chains = [z \in {c.zone : c \in cs} |-> old.chains[z]]]

-----------------------------------------------------------------------------
(* apply                                                                   *)

\* Every command validates the declaration first.  Nil is none of the values whose
\* absence it stands for.
ASSUME PolicyAssumption ==
    /\ \A f \in Policies : Accepts(f) /\ Nil # MarkTable(f, Local)
    /\ Local \in Names /\ Nil \notin {"nft", "ipt"}

PolInit ==
    /\ ruled \in Policies /\ fwd = Nil /\ mark = Nil /\ ipt = NoIpt /\ record = Nil
    /\ can \in {{"nft", "nf_tables"}, {"ipt"}, {"nft", "ipt"}, {"nft", "ipt", "nf_tables"}}
    /\ stage = "idle" /\ life = "stopped" /\ flow = Nil /\ teeth = [at |-> 0]
    /\ mishaps = 0

Kind == ruled.kind[Local]

\* mark_backend_for_leaf; a host has nft or is refused.
Backend(f) ==
    IF f.kind[Local] = "host" \/ {"nft", "nf_tables"} \subseteq can THEN "nft" ELSE "ipt"
Refused(f) ==
    \/ f.kind[Local] = "host" /\ ~({"nft", "nf_tables"} \subseteq can)
    \/ Backend(f) = "ipt" /\ "ipt" \notin can

\* Of the same declaration, or of another after a teardown or a kill.
StartApply(f) ==
    /\ stage = "idle" /\ teeth.at \in {0, 7} /\ ~Refused(f)
    /\ ruled' = f /\ stage' = "policy" /\ life' = "clean" /\ teeth' = [at |-> 0]
    /\ UNCHANGED <<tables, can, flow, mishaps>>

\* A leaf's containment is its routing rules; a host that does not forward has
\* no policy.
LoadPolicy ==
    /\ stage = "policy"
    /\ fwd' = IF Kind = "leaf" THEN fwd ELSE IF ruled.forward THEN Policy(ruled, Local) ELSE Nil
    /\ stage' = "record"
    /\ UNCHANGED <<ruled, mark, ipt, record, can, life, flow, teeth, mishaps>>

\* The choice is on file before anything is changed.
RecordBackend ==
    /\ stage = "record" /\ stage' = "other"
    /\ record' = Backend(ruled)
    /\ UNCHANGED <<ruled, fwd, mark, ipt, can, life, flow, teeth, mishaps>>

\* remove_other_mark_backend
RemoveOther ==
    /\ stage = "other" /\ stage' = record
    /\ IF record = "nft"
       THEN ipt' = (IF "ipt" \in can THEN NoIpt ELSE ipt) /\ UNCHANGED mark
       ELSE mark' = (IF "nft" \in can THEN Nil ELSE mark) /\ UNCHANGED ipt
    /\ UNCHANGED <<ruled, fwd, record, can, life, flow, teeth, mishaps>>

\* One transaction.
LoadMark ==
    /\ stage = "nft" /\ stage' = "idle"
    /\ mark' = MarkTable(ruled, Local)
    /\ life' = IF life = "clean" THEN "whole" ELSE "torn"
    /\ UNCHANGED <<ruled, fwd, ipt, record, can, flow, teeth, mishaps>>

\* install_mark_ipt: the chains, the jump, what is stale.
RestoreIpt ==
    /\ stage = "ipt" /\ stage' = "jump"
    /\ ipt' = RestoreChains(ipt, Ceilings(ruled, Local))
    /\ UNCHANGED <<ruled, fwd, mark, record, can, life, flow, teeth, mishaps>>
JumpIpt ==
    /\ stage = "jump" /\ stage' = "sweep"
    /\ ipt' = [ipt EXCEPT !.hook = "cfab-out"]
    /\ UNCHANGED <<ruled, fwd, mark, record, can, life, flow, teeth, mishaps>>
SweepIpt ==
    /\ stage = "sweep" /\ stage' = "idle"
    /\ ipt' = Sweep(ipt, Ceilings(ruled, Local))
    /\ life' = IF life = "clean" THEN "whole" ELSE "torn"
    /\ UNCHANGED <<ruled, fwd, mark, record, can, flow, teeth, mishaps>>

Mishap == mishaps < MaxMishaps /\ mishaps' = mishaps + 1

\* A command of apply fails, or the supervisor is killed.
Interrupted ==
    /\ stage # "idle" /\ Mishap
    /\ stage' = "idle" /\ life' = "torn"
    /\ UNCHANGED <<ruled, tables, can, flow, teeth>>

\* A failure that is ignored leaves what was to be removed.
KeepsOther ==
    /\ stage = "other" /\ Mishap
    /\ stage' = record /\ life' = "torn"
    /\ UNCHANGED <<ruled, tables, can, flow, teeth>>

\* The teardown goes by the record, or without one does both; the run directory
\* goes with it.
Stop ==
    /\ stage = "idle"
    /\ fwd' = IF Kind = "host" /\ "nft" \in can THEN Nil ELSE fwd
    /\ mark' = IF record # "ipt" /\ "nft" \in can THEN Nil ELSE mark
    /\ ipt' = IF record # "nft" /\ "ipt" \in can THEN NoIpt ELSE ipt
    /\ record' = Nil
    /\ life' = IF life \in {"whole", "stopped"} THEN "stopped" ELSE "torn"
    /\ UNCHANGED <<ruled, can, stage, flow, teeth, mishaps>>

\* A package or a kernel module is added; a reboot may take them away.
Gains ==
    /\ stage = "idle" /\ can' \in {c \in SUBSET {"nft", "ipt", "nf_tables"} : can \subseteq c /\ can # c}
    /\ UNCHANGED <<ruled, tables, stage, life, flow, teeth, mishaps>>
Reboot ==
    /\ Mishap
    /\ fwd' = Nil /\ mark' = Nil /\ ipt' = NoIpt /\ record' = Nil
    /\ can' \in {{"nft", "nf_tables"}, {"ipt"}}
    /\ stage' = "idle" /\ life' = "stopped" /\ flow' = Nil /\ teeth' = [at |-> 0]
    /\ UNCHANGED ruled

\* A connection is made where the policy lets it, or by another stack where there
\* is none; conntrack remembers it whatever is loaded next.
Ifs(f) == Owned(f, Local) \cup Others
Connects ==
    /\ flow = Nil /\ stage = "idle"
    /\ \E c \in Flows :
          /\ {c[1], c[2]} \subseteq Ifs(ruled)
          /\ IF fwd = Nil THEN {c[1], c[2]} \cap Others # {} ELSE Verdict(fwd, c[1], c[2], "new") = "accept"
          /\ flow' = c
    /\ UNCHANGED <<ruled, tables, can, stage, life, teeth, mishaps>>

-----------------------------------------------------------------------------
(* policy-teeth                                                            *)

\* The interfaces of the fixture's router, each with an endpoint behind it; two of
\* them stand for another stack's.
Foreign0 == <<"foreign", 0>>
Foreign1 == <<"foreign", 1>>
TestedIfs(f) == {r.ifname : r \in ClassRows(f, Local) \cup FallbackRows(f, Local)}
Fixture(f) == TestedIfs(f) \cup AdminIfs(f, Local) \cup {Foreign0, Foreign1}
NthIf(f, zone, n) == ZoneOf(f, zone).segs[n].ifname
FirstIf(f, zone) == NthIf(f, zone, 1)

\* Otherwise the command errs: an interface is added twice, an endpoint or a zone
\* that is asked for is not there, the member has no admin plane.
CanTest(f) ==
    /\ IsInjective([i \in DOMAIN f.wires[Local] |-> f.wires[Local][i].nic])
    /\ TestedIfs(f) \cap AdminIfs(f, Local) = {}
    /\ {Foreign0, Foreign1} \cap (TestedIfs(f) \cup AdminIfs(f, Local)) = {}
    /\ \A z \in ZoneNames(f) : \A n \in DOMAIN ZoneOf(f, z).segs : n <= 2 => NthIf(f, z, n) \in Fixture(f)
    /\ {"storage", "cluster"} \subseteq ZoneNames(f)
    /\ AdminIfs(f, Local) # {}

\* A ping and its replies.
Ping(rules, from, to) == Verdict(rules, from, to, "new") = "accept" /\ Verdict(rules, to, from, "established") = "accept"

\* Each zone with each, the admin plane with storage and another stack, and that
\* stack within itself and with storage.
Matrix(f, rules) ==
    LET storage == FirstIf(f, "storage")
        pair(a, b) == IF a = b THEN NthIf(f, b, 2) ELSE FirstIf(f, b)
    IN  /\ \A a, b \in ZoneNames(f) :
              a # b \/ Len(ZoneOf(f, b).segs) > 1 =>
                  (Ping(rules, FirstIf(f, a), pair(a, b)) <=> <<a, b>> \in f.allow)
        /\ \A i \in AdminIfs(f, Local) :
              ~Ping(rules, i, storage) /\ ~Ping(rules, storage, i) /\ ~Ping(rules, i, Foreign0)
        /\ Ping(rules, Foreign0, Foreign1)
        /\ ~Ping(rules, Foreign0, storage) /\ ~Ping(rules, storage, Foreign0)

\* The policy of a declaration with one pair more; the policy without the rules of
\* the admin plane, but with its wires in the set of storage; without the accept
\* for other stacks.
Regressed(f) ==
    Chain(AdminPlane(f, Local), ForeignTransit(f, Local),
          Allowed(f, Local, f.allow \cup {<<"storage", "cluster">>}, {}))
Spliced(f) == Chain({}, ForeignTransit(f, Local), Allowed(f, Local, f.allow, AdminIfs(f, Local)))
Unscoped(f) == Chain(AdminPlane(f, Local), {}, Allowed(f, Local, f.allow, {}))

Result(f, n) ==
    CASE n \in {1, 5} -> Matrix(f, Policy(f, Local))
      [] n = 2 -> Ping(Regressed(f), FirstIf(f, "storage"), FirstIf(f, "cluster"))
      [] n = 3 -> \A i \in AdminIfs(f, Local) : Ping(Spliced(f), i, FirstIf(f, "storage"))
      [] n = 4 -> ~Ping(Unscoped(f), Foreign0, Foreign1)

\* What an earlier run left is reaped first.  It touches nothing of the member's
\* own, which is stopped meanwhile.
TeethStart(f) ==
    /\ teeth.at \in {0, 7} /\ stage = "idle" /\ life = "stopped" /\ flow = Nil
    /\ teeth' = [at |-> 1, of |-> f, red |-> {}]
    /\ UNCHANGED <<ruled, tables, can, stage, life, flow, mishaps>>
TeethStep ==
    /\ teeth.at \in 1..5 /\ CanTest(teeth.of)
    /\ teeth' = [at |-> teeth.at + 1, of |-> teeth.of,
                 red |-> teeth.red \cup (IF Result(teeth.of, teeth.at) THEN {} ELSE {teeth.at})]
    /\ UNCHANGED <<ruled, tables, can, stage, life, flow, mishaps>>
\* However it ends, its namespaces go.
TeethSays ==
    /\ teeth.at = 6
    /\ teeth' = [teeth EXCEPT !.at = 7]
    /\ UNCHANGED <<ruled, tables, can, stage, life, flow, mishaps>>
TeethFails ==
    /\ teeth.at \in 1..6 /\ Mishap
    /\ teeth' = [at |-> 0]
    /\ UNCHANGED <<ruled, tables, can, stage, life, flow>>
TeethErrs ==
    /\ teeth.at \in 1..5 /\ ~CanTest(teeth.of)
    /\ teeth' = [at |-> 0]
    /\ UNCHANGED <<ruled, tables, can, stage, life, flow, mishaps>>

PolNext ==
    \/ \E f \in Policies : StartApply(f) \/ TeethStart(f)
    \/ LoadPolicy \/ RecordBackend \/ RemoveOther \/ LoadMark \/ RestoreIpt \/ JumpIpt \/ SweepIpt
    \/ Interrupted \/ KeepsOther \/ Stop \/ Gains \/ Reboot \/ Connects
    \/ TeethStep \/ TeethSays \/ TeethFails \/ TeethErrs

PolSpec == PolInit /\ [][PolNext]_polVars

-----------------------------------------------------------------------------
(* Properties.                                                             *)

\* What validate leaves to whoever writes the declaration: no two zones of one name,
\* and no segment named like an ingress leg, a wire of this member or the fixture's
\* other stack.
NamesApart(f) ==
    /\ \A y, z \in Zones(f) : y.name = z.name => y = z
    /\ \A key \in SegKeys(f) :
          SegAt(f, key).ifname \notin {GwIf(z) : z \in Zones(f)} \cup NicIfs(f, Local) \cup {Foreign0, Foreign1}

\* What the declaration lets through.
Permitted(f, m, i, o) ==
    LET in(a, z) == a \in ZoneIfs(f, m, z)
        gws == {r.ifname : r \in GwRows(f, m)}
        vm(a, b) == \E w \in WorkloadRows(f, m) : a = LegIf(w) /\ (b \in gws \/ \E z \in w.allow : in(b, z))
    IN  /\ {i, o} \cap AdminIfs(f, m) = {}
        /\ \/ {i, o} \cap Owned(f, m) = {}
           \/ \E p \in f.allow : in(i, p[1]) /\ in(o, p[2])
           \/ vm(i, o) \/ vm(o, i)

\* "the admin interface never transits": under a host's policy a packet passes as
\* the declaration permits, an answer with what it answers, and nothing else but a
\* connection of before; not even that touches the admin plane.
OnlyDeclared ==
    stage = "idle" /\ life = "whole" /\ Kind = "host" /\ ruled.forward =>
        /\ \A i, o \in Ifs(ruled) : i # o =>
              /\ Verdict(fwd, i, o, "new") = "accept" <=> Permitted(ruled, Local, i, o)
              /\ Permitted(ruled, Local, i, o) => Verdict(fwd, o, i, "established") = "accept"
        /\ flow # Nil /\ {flow[1], flow[2]} \cap AdminIfs(ruled, Local) # {} =>
              /\ Verdict(fwd, flow[1], flow[2], "established") = "drop"
              /\ Verdict(fwd, flow[2], flow[1], "established") = "drop"

\* What polices the control packets that leave by an interface, with its rates.
Police(i) ==
    (IF mark = Nil THEN {} ELSE {<<"nft", r.rate>> : r \in {x \in Walk(mark.out, i, "ospf") : x.to = "limit"}})
    \cup (IF ipt.hook = "none" THEN {}
          ELSE UNION {{<<"ipt", r>> : r \in ipt.chains[j.zone]} : j \in {x \in ipt.out : x.ifname = i}})

\* "policed by both, or by neither with stale chains still resident": after an apply
\* that met no failure each fallback bond, and only those, is held to its ceiling,
\* once and at the rate of this declaration; the engine's packets keep their mark;
\* and what a virtual machine sends out leaves with its zone's.  After a teardown
\* that met none, nothing is left.
MarkedOnce ==
    /\ stage = "idle" /\ life = "whole" =>
          /\ \A i \in Ifs(ruled) :
                Police(i) = {<<record, c.rate>> : c \in {x \in Ceilings(ruled, Local) : x.ifname = i}}
          /\ DOMAIN ipt.chains \subseteq {c.zone : c \in Ceilings(ruled, Local)}
          /\ record = "nft" =>
                /\ \A i \in Ifs(ruled), p \in {"ospf", "bfd"} : \A r \in Walk(mark.out, i, p) : r.to # "set"
                /\ \A w \in WorkloadRows(ruled, Local), z \in Zones(ruled) : \A o \in ZoneIfs(ruled, Local, z.name) :
                      Permitted(ruled, Local, LegIf(w), o) =>
                          {r.dscp : r \in {x \in mark.forward : x.in = LegIf(w) /\ o \in x.on}} = {z.dscp}
    /\ stage = "idle" /\ life = "stopped" => mark = Nil /\ ipt = NoIpt

\* "policy matches the class table and the tests bite": of a policy that is right
\* the command says no such thing only where storage may not reach storage, which
\* its third test takes for granted.
TeethFair == teeth.at = 7 => (teeth.red = {} <=> <<"storage", "storage">> \in teeth.of.allow)

\* The policy is the declaration's, every mark and ceiling is set once, and the
\* command that puts the policy to the test says so exactly when it may.
PolicyHolds == OnlyDeclared /\ MarkedOnce /\ TeethFair
=============================================================================
