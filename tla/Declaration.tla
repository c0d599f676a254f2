---------------------------- MODULE Declaration -----------------------------
(***************************************************************************)
(* The declaration, what from_decl and validate accept of it, and the view *)
(* of it that each member works from: its interfaces, their addresses and  *)
(* tags, and which of them forward (src/decl.rs, src/model.rs, and         *)
(* src/derive.rs above the costs of module Derivation).                    *)
(*                                                                         *)
(* A name cfab derives is a tuple of what it is derived from, <<"gw", 3>>  *)
(* for cfab-gw3; a declared one is <<"seg", s>>, or <<"long", s>> when no  *)
(* suffix fits behind it.  A row's name is <<stem, tail>>: its leg keeps   *)
(* the stem.  An address is a number of four octets; a prefix [net, len].  *)
(* What may be left out is a set of at most one.                           *)
(***************************************************************************)
EXTENDS Derivation, Functions

CONSTANTS OctetBits,      \* bits of an octet (8 in the code)
          Ten,            \* first octet of every zone's block (10)
          MinLen,         \* MIN_WORKLOAD_PREFIX_LEN (22)
          MaxVid,         \* the highest tag a row may have (4094)
          Original,       \* the declaration at first
          Drafts(_),      \* what an edit may make of a declaration
          MaxEdits        \* bound: edits of the file

ASSUME DeclarationAssumption == OctetBits \in Nat \ {0} /\ Ten \in Nat

VARIABLES
    draft,     \* the declaration in the file
    live,      \* the one that was accepted last, if any
    edits      \* edits so far

declVars == <<draft, live, edits>>

-----------------------------------------------------------------------------
(* Addresses.                                                              *)

Bits == 4 * OctetBits
Power2[n \in 0..Bits] == IF n = 0 THEN 1 ELSE 2 * Power2[n - 1]

Octet == Power2[OctetBits]
Slash24 == 3 * OctetBits
Address(a, b, c, d) == ((a * Octet + b) * Octet + c) * Octet + d
Width(len) == Power2[Bits - len]

Aligned(p) == p.len <= Bits /\ p.net % Width(p.len) = 0
Contains(p, a) == a \div Width(p.len) = p.net \div Width(p.len)

\* Compared under the shorter of the two masks.
Overlaps(p, q) ==
    LET len == IF p.len < q.len THEN p.len ELSE q.len
    IN  p.net \div Width(len) = q.net \div Width(len)

Broadcast(p) == p.net + Width(p.len) - 1

Block(z) == [net |-> Address(Ten, z.id, 0, 0), len |-> 2 * OctetBits]
SegmentAddr(z, seg, node) == Address(Ten, z.id, seg, node)
IdentityAddr(z, node) == SegmentAddr(z, 0, node)

\* A member's address on an ingress leg: the router's /24, the node's octet.
LegAddr(g, node) == (g.router - (g.router % Octet)) + node

-----------------------------------------------------------------------------
(* Names.                                                                  *)

GwIf(z) == <<"gw", z.id>>
IdentityIfs(z) == {<<"id", z.id>>, <<"peer", z.id>>}
LegIf(w) == <<"work", w.name[1]>>
\* The port of a bond named cfab-work is spelt like the leg of a row.
PortIf(bond, d) == IF bond = <<"seg", "work">> THEN <<"work", d>> ELSE <<"port", bond, d>>
NicIf(w) == <<"nic", w.nic>>
TooLong(ifname) == ifname[1] = "long"

Zones(f) == Range(f.zones)
ZoneNames(f) == {z.name : z \in Zones(f)}
ZoneOf(f, n) == CHOOSE z \in Zones(f) : z.name = n
Loads(f) == Range(f.workloads)

\* Every segment row, by its zone and place; place 0 is the universal one.
SegKeys(f) ==
    UNION {{i} \X (DOMAIN f.zones[i].segs \cup {0 : u \in f.zones[i].universal}) : i \in DOMAIN f.zones}
SegAt(f, key) ==
    LET z == f.zones[key[1]]
    IN  IF key[2] = 0 THEN CHOOSE u \in z.universal : TRUE ELSE z.segs[key[2]]

\* What module Derivation calls a declaration: one zone of this one.
InZone(f, z) ==
    [domains   |-> f.domains,
     segments  |-> {z.segs[k].domain : k \in DOMAIN z.segs},
     primary   |-> z.primary,
     universal |-> z.universal # {},
     offset    |-> f.offset,
     kind      |-> f.kind,
     prefs     |-> [m \in Names |-> IF z.name \in DOMAIN f.prefs[m] THEN f.prefs[m][z.name] ELSE <<>>],
     wires     |-> f.wires]

-----------------------------------------------------------------------------
(* derive.rs: the view of member m.                                        *)

ClassRows(f, m) ==
    UNION {{[ifname |-> s.ifname, place |-> WireOn(InZone(f, z), m, s.domain), zone |-> z.name,
             seg |-> s.seg, vid |-> s.vid, cost |-> RowCost(InZone(f, z), m, s.domain)] :
               s \in {x \in Range(z.segs) : x.domain \in DomainsOf(InZone(f, z), m)}} : z \in Zones(f)}

\* ports_of: one per wire, named for its domain.
Ports(f, m, bond) == {PortIf(bond, f.wires[m][i].domain) : i \in DOMAIN f.wires[m]}

\* home_wire, or the first wire when no segment of the zone is here.
HomeWire(f, m, zone) ==
    LET rows == {r \in ClassRows(f, m) : r.zone = zone}
    IN  IF rows = {} THEN 1
        ELSE (CHOOSE r \in rows : \A o \in rows : r.cost <= o.cost).place

FallbackRows(f, m) ==
    UNION {{[ifname |-> u.ifname, zone |-> z.name, seg |-> u.seg, vid |-> u.vid,
             cost |-> UniversalCost(InZone(f, z)), home |-> HomeWire(f, m, z.name),
             ports |-> Ports(f, m, u.ifname)] : u \in z.universal} : z \in Zones(f)}

\* gw_rows_of: on hosts only; on one domain a sub-interface there, else a bond.
GwRows(f, m) ==
    IF f.kind[m] # "host" THEN {}
    ELSE UNION {{[ifname |-> GwIf(z), zone |-> z.name, vid |-> g.vid,
                  home  |-> IF g.scope = "any" THEN HomeWire(f, m, z.name) ELSE WireOn(InZone(f, z), m, g.scope),
                  ports |-> IF g.scope = "any" THEN Ports(f, m, GwIf(z)) ELSE {}] :
                    g \in {x \in z.gw : x.scope \in {"any"} \cup DomainsOf(InZone(f, z), m)}} : z \in Zones(f)}

CarriesRow(f, m, w) == \E r \in f.rows[m] : r.name = w.name
WorkloadRows(f, m) == {w \in Loads(f) : CarriesRow(f, m, w)}
RowAddr(f, m, w) == (CHOOSE r \in f.rows[m] : r.name = w.name).addr

ZoneRows(f, m) == ClassRows(f, m) \cup FallbackRows(f, m) \cup GwRows(f, m)
ZoneIfs(f, m, zone) == {r.ifname : r \in {x \in ZoneRows(f, m) : x.zone = zone}}

NicIfs(f, m) == {NicIf(w) : w \in Range(f.wires[m])}
PortIfs(f, m) == UNION {r.ports : r \in FallbackRows(f, m) \cup GwRows(f, m)}
AllIdentityIfs(f) == UNION {IdentityIfs(z) : z \in Zones(f)}
RowIfs(f, m) == {r.ifname : r \in ZoneRows(f, m)}
LegIfs(f, m) == {LegIf(w) : w \in WorkloadRows(f, m)}

AdminIfs(f, m) == IF f.kind[m] = "host" THEN NicIfs(f, m) ELSE {}

\* owned_forwarding: a name listed with both flags keeps "never".
NeverForward(f, m) == NicIfs(f, m) \cup PortIfs(f, m) \cup AllIdentityIfs(f)
TransitIfs(f, m) == RowIfs(f, m) \cup LegIfs(f, m)
Owned(f, m) == NeverForward(f, m) \cup TransitIfs(f, m)
Forwards(f, m, i) == f.kind[m] = "host" /\ f.forward /\ i \in TransitIfs(f, m) \ NeverForward(f, m)

-----------------------------------------------------------------------------
(* from_decl and validate, in their order.                                 *)

\* What the types of the parsed rows hold: octets, addresses, lists, and what may be
\* left out at most once.
AllAddresses == 0 .. Width(0) - 1
Typed(f) ==
    /\ f.node \in [Names -> 0 .. Octet - 1] /\ f.kind \in [Names -> {"host", "leaf"}]
    /\ f.zones \in Seq(Zones(f))
    /\ \A m \in Names : \A r \in f.rows[m] : r.addr \in AllAddresses
    /\ \A z \in Zones(f) :
          /\ z.id \in 0 .. Octet - 1 /\ z.segs \in Seq(Range(z.segs))
          /\ \A s \in Range(z.segs) \cup z.universal : s.seg \in 0 .. Octet - 1
          /\ \A u, v \in z.universal : u = v
          /\ \A g \in z.gw : g.router \in AllAddresses
    /\ \A w \in Loads(f) :
          /\ w.prefix.net \in AllAddresses /\ w.prefix.len \in 0 .. Bits
          /\ w.gw \in AllAddresses /\ w.server \subseteq AllAddresses

\* Rows that cannot be typed, retired keys, tunables out of range.
Resolves(f) ==
    /\ Typed(f)
    /\ ~f.retired
    /\ \A z \in Zones(f) : \A g \in z.gw : g.len = Slash24
    /\ \A w \in Loads(f) : Aligned(w.prefix) /\ w.vid \in 2..MaxVid
    /\ f.pcpCtrl <= 6 /\ f.bfdPort >= 1024

DomainsKnown(f) ==
    /\ f.domains # {}
    /\ \A z \in Zones(f) :
          LET one == InZone(f, z)
          IN  /\ HasWires(one) /\ DomainsDeclared(one) /\ OneWirePerDomain(one) /\ DomainsWired(one)
              /\ \A g \in z.gw : g.scope \in f.domains \cup {"any"}

SegmentsDistinct(f) ==
    LET zone(key) == f.zones[key[1]]
        scope(key) == IF key[2] = 0 THEN "any" ELSE SegAt(f, key).domain
    IN  /\ IsInjective([key \in SegKeys(f) |-> SegAt(f, key).vid])
        /\ IsInjective([key \in SegKeys(f) |-> <<zone(key).name, SegAt(f, key).seg>>])
        /\ IsInjective([key \in SegKeys(f) |-> <<zone(key).name, scope(key)>>])
        /\ IsInjective([key \in SegKeys(f) |-> SegAt(f, key).ifname])

BondNames(f) ==
    UNION {{u.ifname : u \in z.universal} \cup {GwIf(z) : g \in {x \in z.gw : x.scope = "any"}} : z \in Zones(f)}
BondNamesFit(f) == \A b \in BondNames(f) : ~TooLong(b)

ZonesSound(f) ==
    /\ IsInjective([i \in DOMAIN f.zones |-> f.zones[i].id])
    /\ \A z \in Zones(f) : z.id >= 1 /\ PrimaryHasSegment(InZone(f, z))

NodesDistinct(f) == IsInjective(f.node)

PrefsWhole(f) ==
    \A m \in Names :
        /\ DOMAIN f.prefs[m] \subseteq ZoneNames(f)
        /\ \A n \in DOMAIN f.prefs[m] :
              f.prefs[m][n] = <<>> => Candidates(InZone(f, ZoneOf(f, n)), m) = {}
        /\ \A z \in Zones(f) : PrefsComplete(InZone(f, z))

AllowKnown(f) == f.allow \subseteq ZoneNames(f) \X ZoneNames(f)

\* A row is not named like a zone or another row, and its leg is one interface:
\* of one name, and the only one with its tag on its bridge.
RowNamesDistinct(f) ==
    /\ \A w \in Loads(f) : \A z \in Zones(f) : w.name # <<z.name, "">>
    /\ IsInjective([i \in DOMAIN f.workloads |-> f.workloads[i].name])
    /\ IsInjective([i \in DOMAIN f.workloads |-> LegIf(f.workloads[i])])
    /\ IsInjective([i \in DOMAIN f.workloads |-> <<f.workloads[i].uplink, f.workloads[i].vid>>])

\* Mistake: the ports of bonds are forgotten.
LegFreeOfPorts(f, w) ==
    /\ \A m \in Names : \A x \in Range(f.wires[m]) : LegIf(w) # NicIf(x)
    /\ \A key \in SegKeys(f) : LegIf(w) # SegAt(f, key).ifname
    /\ \A z \in Zones(f) : LegIf(w) \notin IdentityIfs(z) \cup {GwIf(z)}

\* It is no interface that cfab creates on any member, whatever wires that has.
LegFree(f, w) ==
    /\ LegFreeOfPorts(f, w)
    /\ \A b \in BondNames(f), d \in f.domains : LegIf(w) # PortIf(b, d)

PrefixSound(w) ==
    /\ w.prefix.len >= MinLen
    /\ Contains(w.prefix, w.gw) /\ w.gw \notin {w.prefix.net, Broadcast(w.prefix)}

\* A relay forwards off the VLAN.
ServerElsewhere(f, w) ==
    \A s \in w.server :
        /\ s # w.gw /\ \A m \in Names : \A r \in f.rows[m] : ~(r.name = w.name /\ r.addr = s)
        /\ ~Contains(w.prefix, s) /\ s \notin {0, Width(0) - 1}

OutsideBlocks(f, w) == \A z \in Zones(f) : ~Overlaps(w.prefix, Block(z))
AllowSound(f, w) == w.allow # {} /\ f.forward /\ w.allow \subseteq ZoneNames(f)
Carried(f, w) == \E m \in Names : CarriesRow(f, m, w)

\* A member's rows: each once, declared, on a host, with an address of its own.
MemberRowsSound(f, m) ==
    /\ \A r, s \in f.rows[m] : r.name = s.name => r = s
    /\ \A r \in f.rows[m] :
          /\ \E w \in Loads(f) : w.name = r.name
          /\ f.kind[m] = "host"
          /\ \A w \in Loads(f) : w.name = r.name =>
                /\ Contains(w.prefix, r.addr) /\ r.len = w.prefix.len
                /\ r.addr \notin {w.gw, w.prefix.net, Broadcast(w.prefix)}

AddressesDistinct(f, w) ==
    \A m, n \in Names :
        m # n /\ CarriesRow(f, m, w) /\ CarriesRow(f, n, w) => RowAddr(f, m, w) # RowAddr(f, n, w)

IngressSound(f, z) ==
    \A g \in z.gw :
        /\ \A key \in SegKeys(f) : SegAt(f, key).vid # g.vid
        /\ \A m \in Names : f.node[m] # (g.router % Octet)

\* validate_derived
Derived(f) ==
    /\ \A z \in Zones(f) : UniversalBelowLeaf(InZone(f, z))
    /\ \A z \in Zones(f) : FirstIsShared(InZone(f, z)) /\ NoEqualCost(InZone(f, z))

Accepts(f) ==
    /\ Resolves(f)
    /\ DomainsKnown(f) /\ SegmentsDistinct(f) /\ BondNamesFit(f) /\ ZonesSound(f)
    /\ NodesDistinct(f) /\ PrefsWhole(f) /\ AllowKnown(f) /\ RowNamesDistinct(f)
    /\ \A w \in Loads(f) :
          /\ LegFree(f, w) /\ PrefixSound(w) /\ ServerElsewhere(f, w) /\ OutsideBlocks(f, w)
          /\ AllowSound(f, w) /\ Carried(f, w)
    /\ \A m \in Names : MemberRowsSound(f, m)
    /\ \A w \in Loads(f) : AddressesDistinct(f, w)
    /\ \A z \in Zones(f) : IngressSound(f, z)
    /\ Derived(f)

-----------------------------------------------------------------------------
(* The file is edited, and every command of every member reads it anew.    *)

DeclInit == draft = Original /\ live = {} /\ edits = 0

Edit ==
    /\ edits < MaxEdits /\ edits' = edits + 1
    /\ draft' \in Drafts(draft)
    /\ UNCHANGED live

\* A refused declaration changes nothing.
Load ==
    /\ live' = IF Accepts(draft) THEN {draft} ELSE live
    /\ UNCHANGED <<draft, edits>>

DeclNext == Edit \/ Load

DeclSpec == DeclInit /\ [][DeclNext]_declVars

-----------------------------------------------------------------------------
(* Properties.                                                             *)

Addresses(p) == p.net .. Broadcast(p)

\* What a member would create or give an address, its rows' legs apart.
MadeFor(f, m) == NicIfs(f, m) \cup PortIfs(f, m) \cup AllIdentityIfs(f) \cup RowIfs(f, m)

\* Tags on the wire at a place, with the interface each is for; an ingress leg's apart.
TagsOn(f, m, place) ==
    {<<r.vid, r.ifname>> : r \in {x \in ClassRows(f, m) : x.place = place} \cup FallbackRows(f, m)}
IngressTags(f, m, place) ==
    {<<r.vid, r.ifname>> : r \in {x \in GwRows(f, m) : x.ports # {} \/ x.home = place}}

Held(f) ==
    UNION {{<<SegmentAddr(ZoneOf(f, r.zone), r.seg, f.node[m]), m, r.ifname>> :
               r \in ClassRows(f, m) \cup FallbackRows(f, m)} : m \in Names}

\* No row's leg is an interface that anything else on the member is.
LegsApart(f, m) ==
    \A w \in WorkloadRows(f, m) :
        /\ LegIf(w) \notin MadeFor(f, m)
        /\ \A v \in WorkloadRows(f, m) : v # w => LegIf(v) # LegIf(w)
        /\ f.forward /\ Forwards(f, m, LegIf(w))

\* Nobody on a row's VLAN has an address that is another's, or the fabric's.
VlansApart(f, w) ==
    LET on == {<<m, RowAddr(f, m, w)>> : m \in {n \in Names : CarriesRow(f, n, w)}} \cup {<<"gw", w.gw>>}
    IN  /\ \A s, t \in on : s # t => s[2] # t[2]
        /\ \A s \in on : s[2] \in Addresses(w.prefix) \ {w.prefix.net, Broadcast(w.prefix)}
        /\ \A a \in Addresses(w.prefix) : a \notin w.server
        /\ Addresses(w.prefix) \cap UNION {Addresses(Block(z)) : z \in Zones(f)} = {}

CoherentIn(f) ==
    /\ \A m \in Names :
          /\ LegsApart(f, m)
          /\ \A r \in FallbackRows(f, m) \cup GwRows(f, m) : r.ports # {} => ~TooLong(r.ifname)
          /\ \A i \in DOMAIN f.wires[m] :
                /\ \A s, t \in TagsOn(f, m, i) : s # t => s[1] # t[1]
                /\ \A s \in TagsOn(f, m, i), t \in IngressTags(f, m, i) : s[1] # t[1]
    /\ \A w \in Loads(f) : VlansApart(f, w)
    /\ \A s, t \in Held(f) : s # t => s[1] # t[1]
    /\ \A z \in Zones(f) : \A g \in z.gw : \A m \in Names : LegAddr(g, f.node[m]) # g.router

\* "so one member's `check` catches a collision that would only bite another": in a
\* fabric that was accepted, on whichever member, no two of the interfaces that
\* share a link share an address, none shares a tag with another unless both are
\* ingress legs of two zones (validate does not compare these), and no workload leg or
\* VLAN takes a name, a tag or an address of the fabric's.
Coherent == \A f \in live : CoherentIn(f)
=============================================================================
