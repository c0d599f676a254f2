----------------------------- MODULE MCDeclared -----------------------------
(* Small instances of what is made of the declaration: the costs of one zone *)
(* (Derivation), what is accepted (Declaration), the engine's configuration  *)
(* (EngineConfig) and the forward policy (ForwardPolicy).  Octets have three *)
(* bits.                                                                     *)
EXTENDS EngineConfig, ForwardPolicy

\* Three members on up to three domains, of which a has fast wires: the wires a
\* member may list, the orders the first may insist on, and the declarations.
MCLists == {<<"b">>, <<"a", "b">>, <<"b", "c">>, <<"a", "b", "c">>, <<"c", "b", "a">>}
MCWires(l) == [i \in DOMAIN l |-> [domain |-> l[i], speed |-> IF l[i] = "a" THEN 10 ELSE 1]]
MCPrefs == {<<>>, <<2, 1>>, <<1, 3, 2>>}
MCZones == {<<{"a", "b"}, "a">>, <<{"a", "b", "c"}, "a">>, <<{"a", "b", "c"}, "b">>}
MCLadders == {<<FALSE, 1000, "host">>, <<FALSE, 1000, "leaf">>, <<TRUE, 1000, "host">>,
              <<TRUE, 1000, "leaf">>, <<TRUE, 150, "leaf">>}
MCDeclarations ==
    {[domains   |-> {"a", "b", "c"},
      segments  |-> z[1],
      primary   |-> z[2],
      universal |-> u[1],
      offset    |-> u[2],
      kind      |-> [m \in Names |-> IF m = "m3" THEN u[3] ELSE "host"],
      prefs     |-> [m \in Names |-> IF m = "m1" THEN p ELSE <<>>],
      wires     |-> [m \in Names |-> MCWires(CASE m = "m1" -> w[1] [] m = "m2" -> w[2] [] OTHER -> w[3])]] :
     z \in MCZones, u \in MCLadders, p \in MCPrefs, w \in MCLists \X MCLists \X MCLists}

MCWire(n, d, s) == [nic |-> n, domain |-> d, speed |-> s]
MCSeg(i, d, s, v) == [ifname |-> <<"seg", i>>, domain |-> d, seg |-> s, vid |-> v]
MCPrefix(o) == [net |-> Address(6, 0, o, 0), len |-> Slash24]
MCRow(n, t, o, u, v, allow) ==
    [name |-> <<n, t>>, uplink |-> u, vid |-> v, prefix |-> MCPrefix(o), gw |-> Address(6, 0, o, 6),
     server |-> {}, allow |-> allow]
MCMine(n, o, d) == [name |-> <<n, "">>, addr |-> Address(6, 0, o, d), len |-> Slash24]

\* Two hosts and a leaf on two domains; a zone for storage, and one that the
\* outside enters on whichever wire is up; a row of VMs on each host, and one
\* more on the first.
MCOriginal ==
    [domains |-> {"a", "b"},
     kind    |-> [m \in Names |-> IF m = "m3" THEN "leaf" ELSE "host"],
     node    |-> [m \in Names |-> CASE m = "m1" -> 1 [] m = "m2" -> 2 [] OTHER -> 3],
     wires   |-> [m \in Names |-> <<MCWire("e0", "a", 10), MCWire("e1", "b", 1)>>],
     prefs   |-> [m \in Names |-> <<>>],
     rows    |-> [m \in Names |-> CASE m = "m1" -> {MCMine("vms", 4, 1), MCMine("lab", 5, 1)}
                                    [] m = "m2" -> {MCMine("vms", 4, 2)}
                                    [] OTHER -> {}],
     zones   |-> <<[name |-> "storage", id |-> 1, primary |-> "a", dscp |-> "cs0",
                    segs |-> <<MCSeg("st", "a", 1, 10), MCSeg("sb", "b", 2, 11)>>,
                    universal |-> {[ifname |-> <<"seg", "sf">>, seg |-> 4, vid |-> 12]},
                    gw |-> {}],
                   [name |-> "cluster", id |-> 2, primary |-> "b", dscp |-> "cs2",
                    segs |-> <<MCSeg("mg", "b", 1, 20), MCSeg("mb", "a", 2, 21)>>,
                    universal |-> {},
                    gw |-> {[scope |-> "any", vid |-> 22, router |-> Address(6, 0, 2, 7), len |-> Slash24]}]>>,
     workloads |-> <<MCRow("vms", "", 4, "br", 3, {"storage"}), MCRow("lab", "", 5, "br", 4, {"cluster"})>>,
     forward |-> TRUE, allow |-> {<<"storage", "storage">>, <<"cluster", "cluster">>},
     offset  |-> 1000, pcpCtrl |-> 6, bfdPort |-> 3784, retired |-> FALSE, setDscp |-> TRUE]

\* A row renumbered whole: its prefix, its gateway and every member's address on it.
MCRenumbered(f, i, p) ==
    [f EXCEPT !.workloads[i].prefix = p,
              !.workloads[i].gw = p.net + 6,
              !.rows = [m \in Names |-> {IF r.name = f.workloads[i].name
                                         THEN [r EXCEPT !.addr = p.net + f.node[m], !.len = p.len]
                                         ELSE r : r \in f.rows[m]}]]

MCRenamed(f, i, n) ==
    [f EXCEPT !.workloads[i].name = n,
              !.rows = [m \in Names |-> {IF r.name = f.workloads[i].name THEN [r EXCEPT !.name = n] ELSE r :
                                             r \in f.rows[m]}]]

MCEdits(f) ==
    {[f EXCEPT !.node["m2"] = n] : n \in {1, 4, 7}}
    \cup {[f EXCEPT !.kind["m2"] = "leaf"], [f EXCEPT !.kind["m3"] = "host"]}
    \cup {[f EXCEPT !.wires[m] = <<f.wires[m][1]>>] : m \in {"m2", "m3"}}
    \cup {[f EXCEPT !.wires["m2"] = <<f.wires["m2"][1], MCWire("e1", d, 1)>>] : d \in {"a", "z"}}
    \cup {[f EXCEPT !.prefs["m1"] = p] :
            p \in {[z \in {"storage"} |-> <<2, 1>>], [z \in {"storage"} |-> <<2>>], [z \in {"old"} |-> <<1, 2>>]}}
    \cup {[f EXCEPT !.zones[1].id = n] : n \in {0, 2, 6}}
    \cup {[f EXCEPT !.zones[1].segs[1].vid = v] : v \in {12, 22}}
    \cup {[f EXCEPT !.zones[1].segs[1].seg = 2]}
    \cup {[f EXCEPT !.zones[1].segs[1].ifname = i] : i \in {<<"work", "vms">>, <<"seg", "mg">>}}
    \cup {[f EXCEPT !.zones[1].universal = u] :
            u \in {{}, {[ifname |-> <<"long", "sf">>, seg |-> 4, vid |-> 12]},
                   {[ifname |-> <<"seg", "sf">>, seg |-> 4, vid |-> 22]},
                   {[ifname |-> <<"seg", "work">>, seg |-> 4, vid |-> 12]}}}
    \cup {[f EXCEPT !.zones[2].gw = g] :
            g \in {{}, {[scope |-> "a", vid |-> 22, router |-> Address(6, 0, 2, 2), len |-> Slash24]},
                   {[scope |-> "b", vid |-> 10, router |-> Address(6, 0, 2, 7), len |-> Slash24]},
                   {[scope |-> "a", vid |-> 22, router |-> Address(6, 0, 2, 7), len |-> Slash24]}}}
    \cup {MCRenamed(f, 2, n) : n \in {<<"vms", "2">>, <<"cluster", "">>, <<"a", "">>}}
    \cup {MCRenumbered(f, 1, p) : p \in {MCPrefix(5), [net |-> Address(Ten, 1, 3, 0), len |-> Slash24],
                                        [net |-> Address(Ten, 3, 2, 0), len |-> Slash24 - 1],
                                        [net |-> Address(6, 0, 0, 0), len |-> Slash24 - 2]}}
    \cup {[f EXCEPT !.workloads[1].gw = f.workloads[1].prefix.net + d] : d \in {0, 1, 7}}
    \cup {[f EXCEPT !.workloads[1].server = {s}] : s \in {0, f.workloads[1].prefix.net + 3, Address(6, 0, 3, 3)}}
    \cup {[f EXCEPT !.workloads[2].allow = s] : s \in {{}, {"storage"}, {"old"}}}
    \cup {[f EXCEPT !.workloads[2].vid = v] : v \in {1, 3}}
    \cup {[f EXCEPT !.rows["m2"] = {MCMine("vms", 4, d)}] : d \in {0, 1, 3, 7}}
    \cup {[f EXCEPT !.rows["m3"] = {MCMine("vms", 4, 3)}], [f EXCEPT !.rows["m2"] = {}]}
    \cup {[f EXCEPT !.forward = FALSE], [f EXCEPT !.retired = TRUE], [f EXCEPT !.offset = 100],
          [f EXCEPT !.allow = @ \cup {<<"storage", "cluster">>}], [f EXCEPT !.allow = {<<"storage", "old">>}]}

\* The declarations that engines run: a row reaches another zone or is gone, a
\* member changes its kind, the outside no longer enters.
MCFabrics ==
    {MCOriginal,
     [MCOriginal EXCEPT !.workloads[2].allow = {"storage"}],
     [MCOriginal EXCEPT !.rows["m2"] = {}],
     [MCOriginal EXCEPT !.kind["m3"] = "host"],
     [MCOriginal EXCEPT !.zones[2].gw = {}]}
MCVms == {Address(6, 0, 4, 3), Address(6, 0, 5, 3)}

\* The first member as a host with rows, with other pairs, and without forwarding;
\* as a leaf whose fallback is in the one zone or in the other.
MCLeaf ==
    [MCOriginal EXCEPT !.kind["m1"] = "leaf", !.rows["m1"] = {}, !.workloads = <<MCOriginal.workloads[1]>>]
MCPolicies ==
    {MCOriginal,
     [MCOriginal EXCEPT !.workloads[2].allow = {"storage", "cluster"},
                        !.allow = {<<"storage", "cluster">>}, !.setDscp = FALSE],
     [MCOriginal EXCEPT !.forward = FALSE, !.rows = [m \in Names |-> {}], !.workloads = <<>>],
     MCLeaf,
     [MCLeaf EXCEPT !.zones[1].universal = {},
                    !.zones[2].universal = {[ifname |-> <<"seg", "cf">>, seg |-> 4, vid |-> 13]}]}
ASSUME MCAccepted ==
    /\ \A f \in MCFabrics \cup MCPolicies : Accepts(f)
    /\ \A f \in MCPolicies : NamesApart(f)

\* Of another stack by the admin plane, of other stacks only, of a virtual machine.
MCOthers == {<<"o", 1>>, <<"o", 2>>}
MCFlows == {<<<<"o", 1>>, <<"nic", "e0">>>>, <<<<"o", 1>>, <<"o", 2>>>>, <<<<"work", "lab">>, <<"seg", "st">>>>}

\* The parts that rest: nothing is declared.
DerRest == fabric = Nil /\ answer = "none" /\ down = {}
DeclRest == draft = Nil /\ live = {} /\ edits = 0
EngRest ==
    /\ runs = [m \in Names |-> Nil] /\ trees = [m \in Names |-> NoTree] /\ job = [m \in Names |-> NoJob]
    /\ asked = [m \in Names |-> {}] /\ installed = asked /\ transit = [m \in Names |-> "declared"]
    /\ requests = 0 /\ refused = 0
PolRest ==
    /\ ruled = Nil /\ fwd = Nil /\ mark = Nil /\ ipt = NoIpt /\ record = Nil /\ can = {}
    /\ stage = "idle" /\ life = "stopped" /\ flow = Nil /\ teeth = [at |-> 0] /\ mishaps = 0

declaredVars == <<derVars, declVars, engVars, polVars>>
=============================================================================
