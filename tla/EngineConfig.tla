---------------------------- MODULE EngineConfig ----------------------------
(***************************************************************************)
(* The configuration tree that each member's routing engine runs           *)
(* (src/emit/engine.rs), how it is committed to the engine's providers     *)
(* (src/engine/northbound.rs), and what the members' engines and the       *)
(* router outside then know of each other's addresses.                     *)
(*                                                                         *)
(* A tree is kept by provider: the interfaces, the routing policies, and   *)
(* the protocols.  A route is an address (or a prefix) with the member it  *)
(* comes from and its metric.                                              *)
(***************************************************************************)
EXTENDS Declaration

CONSTANTS Fabrics,        \* declarations the members may run
          Vms,            \* addresses of virtual machines
          MaxRequests,    \* bound: engines started, and commits they are asked for
          MaxRefused      \* bound: commits that a provider refuses

\* An engine is started with a declaration that was accepted, and a virtual machine
\* is asked for by its address.
ASSUME EngineAssumption ==
    /\ \A f \in Fabrics \cup {Original} : Accepts(f)
    /\ Vms \subseteq AllAddresses

VARIABLES
    runs,        \* the declaration each member's engine was started with
    asked,       \* the host routes it was asked for: pairs of a leg and an address
    transit,     \* what it advertises its links at: "declared" or "leaf"
    trees,       \* what its providers have in force
    installed,   \* its static routes in the kernel
    job,         \* the commit it is doing
    requests, refused

engVars == <<runs, asked, transit, trees, installed, job, requests, refused>>

-----------------------------------------------------------------------------
(* generate_with                                                           *)

\* The one place the leaf offset is added.
LinkCost(f, m, cost, declared) ==
    IF f.kind[m] = "leaf" \/ cost = "leaf" THEN declared + f.offset ELSE declared

IfNames(f, m) ==
    {r.ifname : r \in ClassRows(f, m) \cup FallbackRows(f, m) \cup GwRows(f, m)}
    \cup {<<"id", z.id>> : z \in Zones(f)} \cup {LegIf(w) : w \in WorkloadRows(f, m)}

\* Segments have sessions of their own, the fallback bond has none, and the
\* identity, the ingress leg and the legs of the rows that reach the zone form
\* no adjacency.
Adjacencies(f, m, cost, zone) ==
    {[ifname |-> r.ifname, cost |-> LinkCost(f, m, cost, r.cost), bfd |-> "own"] :
        r \in {x \in ClassRows(f, m) : x.zone = zone}}
    \cup {[ifname |-> r.ifname, cost |-> LinkCost(f, m, cost, r.cost), bfd |-> "none"] :
             r \in {x \in FallbackRows(f, m) : x.zone = zone}}
Reaching(f, m, zone) == {w \in WorkloadRows(f, m) : zone \in w.allow}
Passive(f, m, zone) ==
    {<<"id", ZoneOf(f, zone).id>>} \cup {r.ifname : r \in {x \in GwRows(f, m) : x.zone = zone}}
    \cup {LegIf(w) : w \in Reaching(f, m, zone)}

Ospf(f, m, cost) ==
    [n \in ZoneNames(f) |->
        [id           |-> ZoneOf(f, n).id,
         self         |-> IdentityAddr(ZoneOf(f, n), f.node[m]),
         links        |-> Adjacencies(f, m, cost, n),
         passive      |-> Passive(f, m, n),
         redistribute |-> IF Reaching(f, m, n) = {} THEN {} ELSE {"static"}]]

\* The one instance of static routes stays while the member has a row at all.
Static(f, m, routes) == IF WorkloadRows(f, m) = {} THEN {} ELSE {routes}

-----------------------------------------------------------------------------
(* ingress_bgp                                                             *)

HostPrefix(addr) == [net |-> addr, len |-> Bits]
IdentityBlock(z) == [net |-> IdentityAddr(z, 0), len |-> Slash24]

\* Statements are taken in the order of their names: "0", "1", and the rows' "wl-...".
Stmt(name, within, result) == [name |-> name, within |-> within, result |-> result]

Leaves(f) == {m \in Names : f.kind[m] = "leaf"}
RejectLeaves(f, z) ==
    IF Leaves(f) = {} THEN {}
    ELSE {Stmt(0, {HostPrefix(IdentityAddr(z, f.node[m])) : m \in Leaves(f)}, "reject")}
AcceptIdentities(z) == {Stmt(1, {IdentityBlock(z)}, "accept")}
AcceptRows(f, m) == {Stmt(2, {w.prefix}, "accept") : w \in WorkloadRows(f, m)}

\* Mistake: the rows' statements in the import policy too.
ImportOfRows(f, m, z) == RejectLeaves(f, z) \cup AcceptIdentities(z) \cup AcceptRows(f, m)

ImportPolicy(f, m, z) == RejectLeaves(f, z) \cup AcceptIdentities(z)
ExportPolicy(f, m, z) == RejectLeaves(f, z) \cup AcceptIdentities(z) \cup AcceptRows(f, m)

RoutingPolicies(f, m) ==
    [p \in {"import", "export"} \X {r.zone : r \in GwRows(f, m)} |->
        IF p[1] = "import" THEN ImportPolicy(f, m, ZoneOf(f, p[2])) ELSE ExportPolicy(f, m, ZoneOf(f, p[2]))]

\* One instance over every zone with an ingress leg here, named for the one
\* with the lowest id; it originates the member's identities and its host routes.
Bgp(f, m, routes) ==
    LET gws == {ZoneOf(f, r.zone) : r \in GwRows(f, m)}
    IN  IF gws = {} THEN {}
        ELSE {[id        |-> IdentityAddr(CHOOSE z \in gws : \A o \in gws : z.id <= o.id, f.node[m]),
               import    |-> {<<"import", z.name>> : z \in gws},
               neighbors |-> {[zone |-> z.name, export |-> <<"export", z.name>>] : z \in gws},
               networks  |-> {IdentityAddr(z, f.node[m]) : z \in gws} \cup {r[2] : r \in routes}]}

\* A route out of a leg that is not of this member refuses the whole tree.
Generates(f, m, routes) == \A r \in routes : \E w \in WorkloadRows(f, m) : r[1] = LegIf(w)

Tree(f, m, cost, routes) ==
    [interface |-> IfNames(f, m),
     policy    |-> RoutingPolicies(f, m),
     routing   |-> [ospf |-> Ospf(f, m, cost), static |-> Static(f, m, routes), bgp |-> Bgp(f, m, routes)]]

NoTree == [interface |-> {}, policy |-> <<>>, routing |-> [ospf |-> <<>>, static |-> {}, bgp |-> {}]]

-----------------------------------------------------------------------------
(* Northbound                                                              *)

\* In the order they are registered, which is the order they are told in.
Providers == <<"interface", "policy", "routing">>

NoJob == [phase |-> "idle"]
Committing(tree, cost, routes) ==
    [phase |-> "prepare", at |-> 1, tree |-> tree, cost |-> cost, routes |-> routes]
Applying(j) == [phase |-> "apply", at |-> 1, tree |-> j.tree, cost |-> j.cost, routes |-> j.routes]

\* A started engine has purged the routes of the last one; it commits what the
\* declaration alone gives, before it answers anybody.
Start(m, f) ==
    /\ requests' = requests + 1
    /\ runs' = [runs EXCEPT ![m] = f]
    /\ asked' = [asked EXCEPT ![m] = {}]
    /\ transit' = [transit EXCEPT ![m] = "declared"]
    /\ trees' = [trees EXCEPT ![m] = NoTree]
    /\ installed' = [installed EXCEPT ![m] = {}]
    /\ job' = [job EXCEPT ![m] = Committing(Tree(f, m, "declared", {}), "declared", {})]
    /\ UNCHANGED refused

\* A request is one commit of a whole tree; one that is in force already costs
\* nothing, and one that cannot be generated is refused.
Regenerate(m, cost, routes) ==
    /\ job[m] = NoJob /\ trees[m] # NoTree
    /\ LET new == Tree(runs[m], m, cost, routes)
       IN  \/ /\ Generates(runs[m], m, routes) /\ new # trees[m]
              /\ requests' = requests + 1
              /\ job' = [job EXCEPT ![m] = Committing(new, cost, routes)]
              /\ UNCHANGED <<asked, transit>>
           \/ /\ Generates(runs[m], m, routes) /\ new = trees[m]
              /\ asked' = [asked EXCEPT ![m] = routes] /\ transit' = [transit EXCEPT ![m] = cost]
              /\ UNCHANGED <<job, requests>>
           \/ /\ ~Generates(runs[m], m, routes)
              /\ UNCHANGED <<job, asked, transit, requests>>
    /\ UNCHANGED <<runs, trees, installed, refused>>

TransitCost(m, cost) == Regenerate(m, cost, asked[m])

WorkloadRoutes(m, leg, addrs) ==
    Regenerate(m, transit[m], {r \in asked[m] : r[1] # leg} \cup ({leg} \X addrs))

\* The providers say yes one after the other ...
Prepare(m) ==
    /\ job[m].phase = "prepare"
    /\ IF job[m].at < Len(Providers)
       THEN job' = [job EXCEPT ![m].at = @ + 1]
       ELSE job' = [job EXCEPT ![m] = Applying(@)]
    /\ UNCHANGED <<runs, asked, transit, trees, installed, requests, refused>>

\* ... or one of them no, and it is called off; an engine that cannot commit
\* what it starts with exits.
Aborted(m) ==
    /\ job[m].phase = "prepare" /\ refused < MaxRefused /\ refused' = refused + 1
    /\ job' = [job EXCEPT ![m] = NoJob]
    /\ UNCHANGED <<runs, asked, transit, trees, installed, requests>>

\* The routing provider removes a route when its list entry goes, and none when
\* the whole instance does.
Installs(m, tree) == IF tree.routing.static = {} THEN installed[m] ELSE UNION tree.routing.static

Apply(m) ==
    /\ job[m].phase = "apply"
    /\ LET p == Providers[job[m].at]
       IN  /\ trees' = [trees EXCEPT ![m][p] = job[m].tree[p]]
           /\ installed' = [installed EXCEPT ![m] = IF p = "routing" THEN Installs(m, job[m].tree) ELSE @]
    /\ IF job[m].at < Len(Providers)
       THEN job' = [job EXCEPT ![m].at = @ + 1] /\ UNCHANGED <<asked, transit>>
       ELSE /\ job' = [job EXCEPT ![m] = NoJob]
            /\ asked' = [asked EXCEPT ![m] = job[m].routes]
            /\ transit' = [transit EXCEPT ![m] = job[m].cost]
    /\ UNCHANGED <<runs, requests, refused>>

EngInit ==
    /\ runs = [m \in Names |-> Original] /\ asked = [m \in Names |-> {}]
    /\ transit = [m \in Names |-> "declared"] /\ installed = asked
    /\ trees = [m \in Names |-> Tree(Original, m, "declared", {})]
    /\ job = [m \in Names |-> NoJob]
    /\ requests = 0 /\ refused = 0

\* The others rest while one commits: no engine sees another's commit but by what
\* it advertises.
Turn(m) == \A n \in Names \ {m} : job[n] = NoJob

EngNext ==
    \E m \in Names :
      /\ Turn(m)
      /\ \/ Prepare(m) \/ Aborted(m) \/ Apply(m)
         \/ TransitCost(m, transit[m])
         \/ /\ requests < MaxRequests
            /\ \/ \E f \in Fabrics : job[m] = NoJob /\ Start(m, f)
               \/ \E cost \in {"declared", "leaf"} \ {transit[m]} : TransitCost(m, cost)
               \/ \E w \in Loads(runs[m]) :
                    \/ WorkloadRoutes(m, LegIf(w), {})
                    \/ /\ CarriesRow(runs[m], m, w)
                       /\ \E s \in SUBSET {v \in Vms : Contains(w.prefix, v)} :
                             WorkloadRoutes(m, LegIf(w), s \cup {RowAddr(runs[m], m, w)})

EngSpec == EngInit /\ [][EngNext]_engVars

-----------------------------------------------------------------------------
(* What the routes then are: holo's protocols, as the configuration uses   *)
(* them.                                                                   *)

InstanceOf(m, zone) == trees[m].routing.ospf[zone]
HasInstance(m, zone) == zone \in DOMAIN trees[m].routing.ospf

\* In a zone, a member's identity and what it redistributes reach the others.
\* The metric of a route is at least that of a link.
Advertised(n, zone) ==
    {[net |-> InstanceOf(n, zone).self, len |-> Bits, from |-> n, med |-> 10]}
    \cup (IF "static" \in InstanceOf(n, zone).redistribute
          THEN {[net |-> r[2], len |-> Bits, from |-> n, med |-> 10] : r \in installed[n]} ELSE {})
    \cup {[net |-> w.prefix.net, len |-> w.prefix.len, from |-> n, med |-> 10] :
             w \in Reaching(runs[n], n, zone)}
Learned(m) ==
    UNION {Advertised(x[1], x[2]) : x \in
              {t \in (Names \ {m}) \X DOMAIN trees[m].routing.ospf :
                  HasInstance(t[1], t[2]) /\ InstanceOf(t[1], t[2]).id = InstanceOf(m, t[2]).id}}
Direct(m) ==
    {[net |-> w.prefix.net, len |-> w.prefix.len, from |-> m, med |-> 0] : w \in WorkloadRows(runs[m], m)}

\* The first statement that matches decides, and without one a policy says nothing.
Matching(policy, route) == {s \in policy : route.len = Bits /\ \E p \in s.within : Contains(p, route.net)}
Deciding(policy, route) ==
    {s \in Matching(policy, route) : \A t \in Matching(policy, route) : s.name <= t.name}
Passes(m, names, route) ==
    UNION {{s.result : s \in Deciding(trees[m].policy[n], route)} : n \in names} = {"accept"}

\* What a member offers the router of a zone: what it originates, and what it
\* redistributes.
Offered(m, bgp, nb) ==
    {r \in {[net |-> a, len |-> Bits, from |-> m, med |-> 0] : a \in bgp.networks}
           \cup {x \in Learned(m) \cup Direct(m) : Passes(m, bgp.import, x)} :
        Passes(m, {nb.export}, r)}

-----------------------------------------------------------------------------
(* readback: what the supervisor asks of the state of an engine that has   *)
(* started.                                                                *)

\* What the engine says of a zone: the links of its own LSA are named by the
\* address of their interface, and not all of them need be up.
Said(m, zone, rows) ==
    LET f == runs[m]
        o == InstanceOf(m, zone)
    IN  [router  |-> o.self,
         listed  |-> {l.ifname : l \in o.links} \cup o.passive,
         cost    |-> {<<l.ifname, l.cost>> : l \in o.links},
         transit |-> UNION {{<<SegmentAddr(ZoneOf(f, r.zone), r.seg, f.node[m]), l.cost>> :
                                l \in {x \in o.links : x.ifname = r.ifname}} : r \in rows}]

ConfiguredIfs(f, zone, rows) ==
    {r.ifname : r \in {x \in rows : x.zone = zone}} \cup {<<"id", ZoneOf(f, zone).id>>}

\* A leaf's links cost their offset more, where it configures and where it
\* advertises them.
LeafCosts(f, m, zone, rows, said) ==
    LET legs == {x \in rows : x.zone = zone}
    IN  /\ \A r \in legs : <<r.ifname, r.cost + f.offset>> \in said.cost
        /\ \A t \in said.transit : \E r \in legs :
              t = <<SegmentAddr(ZoneOf(f, zone), r.seg, f.node[m]), r.cost + f.offset>>

Readback(f, m) ==
    LET rows == ClassRows(f, m) \cup FallbackRows(f, m)
        gws  == GwRows(f, m)
    IN  /\ \A zone \in ZoneNames(f) :
              LET said == Said(m, zone, rows)
              IN  /\ HasInstance(m, zone)
                  /\ said.router = IdentityAddr(ZoneOf(f, zone), f.node[m])
                  /\ ConfiguredIfs(f, zone, rows \cup gws) \subseteq said.listed
                  /\ f.kind[m] = "leaf" => LeafCosts(f, m, zone, rows, said)
        /\ \A r \in gws : \E bgp \in trees[m].routing.bgp : \E nb \in bgp.neighbors : nb.zone = r.zone

-----------------------------------------------------------------------------
(* Properties.                                                             *)

\* The router hears of a host's identity from its owner first, of an address that
\* a member asked its own engine for, and of nothing else: never of a leaf, and
\* never from one host of the virtual machines another host has (members that run
\* one declaration; it rests on validate that a row's prefix is apart from every
\* zone's block).
OwnersOnly ==
    \A m \in Names : job[m] = NoJob =>
        \A bgp \in trees[m].routing.bgp : \A nb \in bgp.neighbors : \A r \in Offered(m, bgp, nb) :
            runs[r.from] = runs[m] =>
                /\ r.len = Bits
                /\ \/ r.from = m /\ r.med = 0 /\ \E a \in asked[m] : a[2] = r.net
                   \/ \E n \in Names :
                         /\ runs[m].kind[n] = "host"
                         /\ r.net = IdentityAddr(ZoneOf(runs[m], nb.zone), runs[m].node[n])
                         /\ (r.med = 0) = (n = m)

\* "a policy named before it is defined panics the engine", and a withdrawal that
\* deletes the instance leaves its routes behind: the protocols name no policy and
\* no interface that is not there, at any step of any commit, and between commits
\* the kernel has exactly the routes that were asked for.  "`ready` alone is not proof
\* the providers took the configuration": the readback refuses no engine that did.
EngineHolds ==
    \A m \in Names :
        /\ \A bgp \in trees[m].routing.bgp :
              bgp.import \cup {nb.export : nb \in bgp.neighbors} \subseteq DOMAIN trees[m].policy
        /\ \A zone \in DOMAIN trees[m].routing.ospf :
              {l.ifname : l \in InstanceOf(m, zone).links} \cup InstanceOf(m, zone).passive
                  \subseteq trees[m].interface
        /\ job[m] = NoJob => installed[m] = asked[m]
        /\ job[m] = NoJob /\ trees[m] # NoTree => Readback(runs[m], m)

\* The engines of a fabric run what its declaration means, and only that.
ConfigHolds == OwnersOnly /\ EngineHolds
=============================================================================
