------------------------------ MODULE LegBuild ------------------------------
(***************************************************************************)
(* The ingress leg, netdev by netdev (src/commands/apply.rs, teardown.rs): *)
(* one name for two shapes, a tagged sub-interface of the home wire or a   *)
(* bond over one of every wire, and a declaration that may change which.   *)
(* Every `ip` command is a step, any of which may fail or be the last of a *)
(* process that is killed; wires go and return; another tool may take one  *)
(* of the names.                                                           *)
(*                                                                         *)
(* The kernel has one 802.1Q device for a wire and a vid: the leg as a     *)
(* sub-interface and the port of the same wire exclude each other.         *)
(***************************************************************************)
EXTENDS Naturals, FiniteSets

CONSTANTS LegWires,     \* the member's wires
          HomeWire,     \* the one the leg prefers
          NoWire,       \* none
          MaxLegMishaps \* bound: commands that fail, kills, what happens to wires and names

ASSUME LegBuildAssumption ==
    HomeWire \in LegWires /\ NoWire \notin LegWires /\ MaxLegMishaps \in Nat

VARIABLES
    shape,   \* the declared one: "bond" or "vlan"
    there,   \* wires that exist
    leg,     \* the netdev of the leg's name
    ports,   \* the netdev of each port's name
    job,     \* what cfab does: nothing, an apply or a down, and how far it is
    result,  \* of the last job
    cut,     \* "yes": a removal ended after the bond and before its last port, and no bond since
    alien,   \* "yes": somebody else has had a hand in netdevs of these names
    upsets   \* mishaps so far

lbVars == <<shape, there, leg, ports, job, result, cut, alien, upsets>>

NoLeg  == [kind |-> "none", as |-> "ours", on |-> NoWire, addr |-> "no", primary |-> NoWire]
NoPort == [kind |-> "none", master |-> "none"]
NoJob  == [op |-> "none", at |-> "idle", todo |-> {}, kept |-> {}, undisturbed |-> "yes"]
NoResult == [of |-> "none", said |-> "nothing", undisturbed |-> "yes", kept |-> {}]

\* A fresh host, or one where another build has left its bond.
LegBuildInit ==
    /\ shape \in {"bond", "vlan"} /\ there = LegWires
    /\ \/ leg = NoLeg /\ alien = "no"
       \/ leg = [NoLeg EXCEPT !.kind = "bond", !.as = "another-build"] /\ alien = "yes"
    /\ ports = [w \in LegWires |-> NoPort]
    /\ job = NoJob /\ result = NoResult /\ cut = "no" /\ upsets = 0

\* The pair of wire and vid is taken.
Taken(w) == (leg.kind = "vlan" /\ leg.on = w) \/ ports[w].kind = "vlan"

GoTo(place) == job' = [job EXCEPT !.at = place]

\* A removal that ends here leaves ports without their bond.
CutNow == IF job.at = "unport" /\ (\E w \in job.todo : ports[w].kind = "vlan") THEN "yes" ELSE cut

\* The job is over.
Ends(said) ==
    /\ result' = [of |-> job.op, said |-> said, undisturbed |-> job.undisturbed, kept |-> job.kept]
    /\ job' = NoJob
    /\ cut' = CutNow

Refuses == Ends("refused")

-----------------------------------------------------------------------------
(* remove_gw_leg. *)

\* Where a removal goes on.
AfterRemoval == IF job.op = "apply" THEN "make" ELSE "done"

\* A bond that goes releases its ports.
Released == [w \in LegWires |-> IF ports[w].master = "leg" THEN [ports[w] EXCEPT !.master = "none"]
                               ELSE ports[w]]

\* Mistake: deleting the bond is thought to delete its ports.
RemovesBondOnly ==
    /\ leg.kind = "bond" /\ leg' = NoLeg /\ ports' = Released
    /\ GoTo(AfterRemoval) /\ UNCHANGED <<result, cut>>

RemovesBond ==
    /\ leg.kind = "bond" /\ leg' = NoLeg /\ ports' = Released
    /\ job' = [job EXCEPT !.at = "unport", !.todo = LegWires] /\ UNCHANGED <<result, cut>>

RemoveLeg ==
    /\ job.at = "remove"
    /\ \/ leg.kind = "none" /\ GoTo(AfterRemoval) /\ UNCHANGED <<leg, ports, result, cut>>
       \/ RemovesBond
       \/ leg.kind = "vlan" /\ leg' = NoLeg /\ GoTo(AfterRemoval) /\ UNCHANGED <<ports, result, cut>>
       \/ leg.kind = "other" /\ Refuses /\ UNCHANGED <<leg, ports>>
    /\ UNCHANGED <<shape, there, alien, upsets>>

\* The ports of every wire the member has, as the declaration may not list them any more.
RemovePort(w) ==
    /\ job.at = "unport" /\ w \in job.todo
    /\ IF ports[w].kind = "other" THEN Refuses /\ UNCHANGED ports
       ELSE /\ ports' = [ports EXCEPT ![w] = NoPort]
            /\ job' = [job EXCEPT !.todo = @ \ {w}] /\ UNCHANGED <<result, cut>>
    /\ UNCHANGED <<shape, there, leg, alien, upsets>>

PortsRemoved ==
    /\ job.at = "unport" /\ job.todo = {} /\ GoTo(AfterRemoval)
    /\ UNCHANGED <<shape, there, leg, ports, result, cut, alien, upsets>>

-----------------------------------------------------------------------------
(* apply's part for the leg. *)

\* absent is read once, at the start.
ApplyLegStarts ==
    /\ job = NoJob
    /\ job' = [NoJob EXCEPT !.op = "apply", !.at = "shape", !.kept = there]
    /\ result' = NoResult
    /\ UNCHANGED <<shape, there, leg, ports, cut, alien, upsets>>

\* replace_a_wrong_shape_gw_leg: only the other shape of cfab's own.
CheckShape ==
    /\ job.at = "shape"
    /\ IF leg.kind \in {"bond", "vlan"} /\ leg.kind # shape THEN GoTo("remove") ELSE GoTo("make")
    /\ UNCHANGED <<shape, there, leg, ports, result, cut, alien, upsets>>

\* Mistake: a bond that exists is taken for a leg that is built.
TakesBondAsBuilt ==
    /\ job.kept # {} /\ leg.kind = "bond" /\ leg.as = "ours"
    /\ GoTo("address") /\ UNCHANGED <<leg, result, cut>>

\* bond_params_match: the bond is of this build; its ports are gone through all the same.
KeepsBond ==
    /\ job.kept # {} /\ leg.kind = "bond" /\ leg.as = "ours"
    /\ job' = [job EXCEPT !.at = "port", !.todo = job.kept] /\ UNCHANGED <<leg, result, cut>>

\* present_ports: nothing to build on, or on; mk_bond_leg's bond, which is never rewritten.
MakeBond ==
    /\ job.at = "make" /\ shape = "bond"
    /\ \/ job.kept = {} /\ GoTo("done") /\ UNCHANGED <<leg, result, cut>>
       \/ /\ job.kept # {} /\ leg.kind = "none"
          /\ leg' = [NoLeg EXCEPT !.kind = "bond"] /\ cut' = "no"
          /\ job' = [job EXCEPT !.at = "port", !.todo = job.kept] /\ UNCHANGED result
       \/ KeepsBond
       \/ /\ job.kept # {} /\ leg.kind # "none" /\ ~(leg.kind = "bond" /\ leg.as = "ours")
          /\ Refuses /\ UNCHANGED leg
    /\ UNCHANGED <<shape, there, ports, alien, upsets>>

\* add_bond_port, one command at a time: mk_vlan deletes what is no sub-interface of this
\* wire and makes one, then the port is enslaved unless it is somebody's already.
DropForeignPort(w) ==
    /\ ports[w].kind = "other" /\ ports' = [ports EXCEPT ![w] = NoPort]
    /\ UNCHANGED <<job, result, cut>>

AddPort(w) ==
    /\ ports[w].kind = "none"
    /\ \/ /\ w \in there /\ ~Taken(w)
          /\ ports' = [ports EXCEPT ![w] = [kind |-> "vlan", master |-> "none"]]
          /\ UNCHANGED <<job, result, cut>>
       \/ (w \notin there \/ Taken(w)) /\ Ends("failed") /\ UNCHANGED ports

Enslave(w) ==
    /\ ports[w].kind = "vlan"
    /\ \/ ports[w].master = "else" /\ Refuses /\ UNCHANGED ports
       \/ /\ ports[w].master = "none" /\ leg.kind = "bond"
          /\ ports' = [ports EXCEPT ![w] = [kind |-> "vlan", master |-> "leg"]]
          /\ UNCHANGED <<job, result, cut>>
       \/ ports[w].master = "none" /\ leg.kind # "bond" /\ Ends("failed") /\ UNCHANGED ports
       \/ /\ ports[w].master = "leg"
          /\ job' = [job EXCEPT !.todo = @ \ {w}] /\ UNCHANGED <<ports, result, cut>>

AddBondPort(w) ==
    /\ job.at = "port" /\ w \in job.todo
    /\ DropForeignPort(w) \/ AddPort(w) \/ Enslave(w)
    /\ UNCHANGED <<shape, there, leg, alien, upsets>>

\* home_port and set_bond_primary: the home wire, or a survivor if it was absent.
Homes == IF HomeWire \in job.kept THEN {HomeWire} ELSE job.kept

SetBondPrimary ==
    /\ job.at = "port" /\ job.todo = {}
    /\ \E w \in Homes :
          IF leg.kind = "bond" /\ ports[w].master = "leg"
          THEN leg' = [leg EXCEPT !.primary = w] /\ GoTo("address") /\ UNCHANGED <<result, cut>>
          ELSE Ends("failed") /\ UNCHANGED leg
    /\ UNCHANGED <<shape, there, ports, alien, upsets>>

\* build_gw_vlan_leg: the netdev of that name is a sub-interface of the home wire, or is made
\* one.  Without the home wire it is not called, and apply goes on to the return default.
Identity == leg.kind = "vlan" /\ leg.on = HomeWire /\ leg.as = "ours"

MakeVlan ==
    /\ job.at = "make" /\ shape = "vlan"
    /\ \/ HomeWire \notin job.kept /\ GoTo("default") /\ UNCHANGED <<leg, result, cut>>
       \/ /\ HomeWire \in job.kept /\ leg.kind # "none" /\ ~Identity
          /\ leg' = NoLeg /\ UNCHANGED <<job, result, cut>>
       \/ /\ HomeWire \in job.kept /\ leg.kind = "none" /\ HomeWire \in there /\ ~Taken(HomeWire)
          /\ leg' = [NoLeg EXCEPT !.kind = "vlan", !.on = HomeWire]
          /\ GoTo("address") /\ UNCHANGED <<result, cut>>
       \/ /\ HomeWire \in job.kept /\ leg.kind = "none" /\ (HomeWire \notin there \/ Taken(HomeWire))
          /\ Ends("failed") /\ UNCHANGED leg
       \/ HomeWire \in job.kept /\ Identity /\ GoTo("address") /\ UNCHANGED <<leg, result, cut>>
    /\ UNCHANGED <<shape, there, ports, alien, upsets>>

\* The address, the sysctls, up.
AddressLeg ==
    /\ job.at = "address"
    /\ IF leg.kind = "none" THEN Ends("failed") /\ UNCHANGED leg
       ELSE leg' = [leg EXCEPT !.addr = "yes"] /\ GoTo("default") /\ UNCHANGED <<result, cut>>
    /\ UNCHANGED <<shape, there, ports, alien, upsets>>

\* GwReturnDefault.install, built or not: `ip route replace` takes a netdev with the leg's
\* address; whether a stranger's of that name will do depends on what it carries.
InstallDefault ==
    /\ job.at = "default"
    /\ \/ leg.kind # "none" /\ GoTo("done") /\ UNCHANGED <<result, cut>>
       \/ (leg.kind = "none" \/ leg.addr = "no") /\ Ends("failed")
    /\ UNCHANGED <<shape, there, leg, ports, alien, upsets>>

JobDone ==
    /\ job.at = "done" /\ Ends("ok")
    /\ UNCHANGED <<shape, there, leg, ports, alien, upsets>>

\* `cfab down`, or the stop of a supervisor.
DownStarts ==
    /\ job = NoJob
    /\ job' = [NoJob EXCEPT !.op = "down", !.at = "remove"] /\ result' = NoResult
    /\ UNCHANGED <<shape, there, leg, ports, cut, alien, upsets>>

\* Another declaration, for the next apply.
Redeclare ==
    /\ job = NoJob /\ shape' \in {"bond", "vlan"} \ {shape} /\ result' = NoResult
    /\ UNCHANGED <<there, leg, ports, job, cut, alien, upsets>>

-----------------------------------------------------------------------------
(* What may happen meanwhile. *)

Upset == upsets < MaxLegMishaps /\ upsets' = upsets + 1

\* What is under way is not undisturbed any more, and the last result not current.
Disturbed ==
    /\ Upset
    /\ job' = IF job = NoJob THEN NoJob ELSE [job EXCEPT !.undisturbed = "no"]
    /\ result' = NoResult

\* A command fails, or the process is killed.
CutShort ==
    /\ Upset /\ job # NoJob
    /\ result' = [of |-> job.op, said |-> "failed", undisturbed |-> "no", kept |-> job.kept]
    /\ job' = NoJob /\ cut' = CutNow
    /\ UNCHANGED <<shape, there, leg, ports, alien>>

\* With a wire go its sub-interfaces, of whatever name; a bond loses that primary.
WireGoes(w) ==
    /\ Disturbed /\ w \in there /\ there' = there \ {w}
    /\ ports' = [ports EXCEPT ![w] = IF @.kind = "vlan" THEN NoPort ELSE @]
    /\ leg' = IF leg.kind = "vlan" /\ leg.on = w THEN NoLeg
             ELSE [leg EXCEPT !.primary = IF @ = w THEN NoWire ELSE @]
    /\ UNCHANGED <<shape, cut, alien>>

WireReturns(w) ==
    /\ Disturbed /\ w \in LegWires \ there /\ there' = there \cup {w}
    /\ UNCHANGED <<shape, leg, ports, cut, alien>>

\* Another tool makes a netdev of the leg's name.
StrangerTakesLeg ==
    /\ Disturbed /\ leg.kind = "none"
    /\ leg' = [NoLeg EXCEPT !.kind = "other", !.as = "a-stranger"] /\ alien' = "yes"
    /\ UNCHANGED <<shape, there, ports, cut>>

\* Or one of a port's name, or takes the port for a bond of its own.
StrangerTakesPort(w) ==
    /\ Disturbed
    /\ \/ ports[w].kind = "none" /\ ports' = [ports EXCEPT ![w] = [kind |-> "other", master |-> "none"]]
       \/ ports[w] = [kind |-> "vlan", master |-> "none"]
          /\ ports' = [ports EXCEPT ![w] = [kind |-> "vlan", master |-> "else"]]
    /\ alien' = "yes" /\ UNCHANGED <<shape, there, leg, cut>>

\* Or deletes the leg's bond.
StrangerDeletesBond ==
    /\ Disturbed /\ leg.kind = "bond" /\ leg' = NoLeg /\ ports' = Released /\ alien' = "yes"
    /\ UNCHANGED <<shape, there, cut>>

LegBuildNext ==
    \/ ApplyLegStarts \/ CheckShape \/ MakeBond \/ SetBondPrimary \/ MakeVlan \/ AddressLeg
    \/ InstallDefault
    \/ RemoveLeg \/ PortsRemoved \/ JobDone \/ DownStarts \/ Redeclare \/ CutShort
    \/ StrangerTakesLeg \/ StrangerDeletesBond
    \/ \E w \in LegWires : \/ RemovePort(w) \/ AddBondPort(w) \/ WireGoes(w) \/ WireReturns(w)
                           \/ StrangerTakesPort(w)

LegBuildSpec == LegBuildInit /\ [][LegBuildNext]_lbVars

-----------------------------------------------------------------------------
(* Properties. *)

Legs ==
    [kind : {"none", "bond", "vlan", "other"}, as : {"ours", "another-build", "a-stranger"},
     on : LegWires \cup {NoWire}, addr : {"yes", "no"}, primary : LegWires \cup {NoWire}]

\* Every variable ranges over what the netdevs and the commands can be.
LegBuildTypeOK ==
    /\ shape \in {"bond", "vlan"} /\ there \subseteq LegWires /\ leg \in Legs
    /\ ports \in [LegWires -> [kind : {"none", "vlan", "other"}, master : {"none", "leg", "else"}]]
    /\ job \in [op : {"none", "apply", "down"}, undisturbed : {"yes", "no"},
                at : {"idle", "shape", "remove", "unport", "make", "port", "address", "default",
                      "done"},
                todo : SUBSET LegWires, kept : SUBSET LegWires]
    /\ result \in [of : {"none", "apply", "down"}, undisturbed : {"yes", "no"},
                   said : {"nothing", "ok", "refused", "failed"}, kept : SUBSET LegWires]
    /\ cut \in {"yes", "no"} /\ alien \in {"yes", "no"} /\ upsets \in 0..MaxLegMishaps

BondComplete(kept) ==
    /\ leg.kind = "bond" /\ leg.as = "ours" /\ leg.addr = "yes"
    /\ \A w \in kept : ports[w] = [kind |-> "vlan", master |-> "leg"]
    /\ leg.primary = HomeWire \/ (HomeWire \notin kept /\ leg.primary \in kept)

VlanComplete == leg.kind = "vlan" /\ leg.as = "ours" /\ leg.on = HomeWire /\ leg.addr = "yes"

\* An apply that nothing disturbed and that reports success has left the leg in the declared
\* shape and whole, whatever the other shape, an earlier crash or a stranger had left before:
\* every port of a wire that was there belongs to the bond, `primary` names the home wire's or
\* a survivor's, the address is on.
BuiltAsDeclared ==
    result.of = "apply" /\ result.said = "ok" /\ result.undisturbed = "yes" =>
        IF shape = "bond" THEN result.kept # {} => BondComplete(result.kept)
                          ELSE HomeWire \in result.kept => VlanComplete

\* Neither a command that failed nor a process that was killed costs the declaration's owner
\* the flip, unless it was between the deletion of the bond and that of its last port: without
\* that, and while the names are cfab's, an undisturbed apply or down succeeds, except an apply
\* of the plain shape whose home wire is absent, which always fails at the return default; an
\* apply of the plain shape leaves no port and a down no netdev, either way.
Homeless == result.of = "apply" /\ shape = "vlan" /\ HomeWire \notin result.kept

FlipsUnlessCut ==
    result.of # "none" /\ result.undisturbed = "yes" /\ cut = "no" /\ alien = "no" =>
        /\ result.said = IF Homeless THEN "failed" ELSE "ok"
        /\ (result.of = "down" \/ shape = "vlan") => \A w \in LegWires : ports[w].kind = "none"
        /\ result.of = "down" => leg.kind = "none"

\* A leg is what the declaration says whenever apply says so, and every shape can be reached
\* from whatever a disturbed apply or down left, a removal cut off half way and a plain leg
\* without its home wire excepted.
LegSound == BuiltAsDeclared /\ FlipsUnlessCut

=============================================================================
