----------------------------- MODULE HostProofs -----------------------------
(***************************************************************************)
(* What holds, for every value of the constants, of what a member does     *)
(* with its host: the ingress leg an apply builds and takes away again,    *)
(* the look at the host before it, the prober's talk with the kernel, the  *)
(* engine's process, its socket and the sweep of its routes, and the       *)
(* gateway announcer of a row.                                             *)
(***************************************************************************)
EXTENDS LegBuild, Preflight, BondNetlink, EngineServe, Announcer, WellFoundedInduction, TLAPS

-----------------------------------------------------------------------------
(* The ingress leg. *)

OursOf(kept) == \A w \in kept : ports[w] = [kind |-> "vlan", master |-> "leg"]

\* The bond of an apply that has gone through the ports.
BondWhole(kept) ==
    /\ leg.kind = "bond" /\ leg.as = "ours" /\ OursOf(kept)
    /\ leg.primary = HomeWire \/ (HomeWire \notin kept /\ leg.primary \in kept)

ShapeDone(kept) ==
    IF shape = "bond" THEN kept # {} => BondComplete(kept) ELSE HomeWire \in kept => VlanComplete

\* How far an apply that nothing disturbed has come.
ApplyInv ==
    job.op = "apply" /\ job.undisturbed = "yes" =>
        /\ job.kept = there
        /\ job.at = "port" => /\ shape = "bond" /\ job.kept # {} /\ leg.kind = "bond"
                              /\ leg.as = "ours" /\ job.todo \subseteq job.kept
                              /\ OursOf(job.kept \ job.todo)
        /\ job.at = "address" => IF shape = "bond" THEN job.kept # {} /\ BondWhole(job.kept) ELSE Identity
        /\ job.at = "default" => ShapeDone(job.kept) /\ (shape = "bond" => job.kept # {})
        /\ job.at = "done" => ShapeDone(job.kept)

\* The netdevs while the names are cfab's.
FlipInv ==
    /\ job.at \in {"shape", "make", "port", "address", "default"} => job.op = "apply"
    /\ job.op = "none" <=> job.at = "idle"
    /\ job.op # "none" => result = NoResult
    /\ alien = "no" =>
        /\ leg.kind # "other" /\ leg.as = "ours"
        /\ leg.kind = "vlan" => leg.on = HomeWire /\ HomeWire \in there
        /\ \A w \in LegWires : ports[w].kind # "other" /\ ports[w].master # "else"
                               /\ (ports[w].kind = "vlan" => w \in there)
        /\ cut = "no" /\ leg.kind # "bond" =>
               \A w \in LegWires : ports[w].kind = "vlan" => job.at = "unport" /\ w \in job.todo
        /\ job.at = "unport" => leg.kind = "none"
        /\ job.at = "port" => leg.kind = "bond" /\ shape = "bond"
        /\ job.op = "apply" /\ job.at \in {"make", "address", "default", "done"} =>
               IF shape = "bond" THEN leg.kind # "vlan" ELSE leg.kind # "bond"
        /\ job.op = "apply" /\ job.undisturbed = "yes" /\ job.at = "done" /\ shape = "vlan" => HomeWire \in there
        /\ job.op = "down" /\ job.at = "done" => leg.kind = "none"

LegInv == LegBuildTypeOK /\ ApplyInv /\ FlipInv /\ BuiltAsDeclared /\ FlipsUnlessCut

\* Nothing of the leg is there at first.
LEMMA LegInitHolds == LegBuildInit => LegInv
  <1> SUFFICES ASSUME LegBuildInit PROVE LegInv
    OBVIOUS
  <1>0. NoLeg \in Legs /\ [NoLeg EXCEPT !.kind = "bond", !.as = "another-build"] \in Legs
    BY DEF NoLeg, Legs
  <1>1. LegBuildTypeOK
    BY <1>0, LegBuildAssumption DEF LegBuildInit, LegBuildTypeOK, NoPort, NoJob, NoResult
  <1>2. ApplyInv /\ FlipInv
    BY LegBuildAssumption DEF LegBuildInit, ApplyInv, FlipInv, NoLeg, NoPort, NoJob, NoResult
  <1>3. BuiltAsDeclared /\ FlipsUnlessCut
    BY DEF LegBuildInit, BuiltAsDeclared, FlipsUnlessCut, Homeless, NoResult
  <1> QED BY <1>1, <1>2, <1>3 DEF LegInv

\* An apply or a down that ends in a refusal or an error, if that is one the property allows for.
LEMMA EndsKeeps ==
    ASSUME LegInv, Ends("failed") \/ Ends("refused"), UNCHANGED <<shape, there, leg, ports, alien, upsets>>,
           job.at \notin {"idle", "done"}, alien = "no" /\ cut = "no" => job.undisturbed = "no"
    PROVE  LegInv'
  <1>1. LegBuildTypeOK'
    BY DEF LegInv, LegBuildTypeOK, Legs, Ends, CutNow, NoJob
  <1>2. ApplyInv'
    BY DEF Ends, NoJob, ApplyInv
  <1>3. cut' \in {"yes", "no"} /\ (cut' = "no" => cut = "no")
    BY DEF Ends, CutNow, LegInv, LegBuildTypeOK
  <1>4. FlipInv'
    BY <1>3 DEF LegInv, FlipInv, Ends, CutNow, NoJob, LegBuildTypeOK
  <1>5. BuiltAsDeclared'
    BY DEF Ends, BuiltAsDeclared
  <1>6. FlipsUnlessCut'
    BY <1>3 DEF Ends, FlipsUnlessCut, Homeless, LegInv, LegBuildTypeOK
  <1> QED BY <1>1, <1>2, <1>4, <1>5, <1>6 DEF LegInv

\* Every command, mishap and stranger keeps LegInv.
LEMMA LegStepKeeps ==
    ASSUME LegInv, [LegBuildNext]_lbVars
    PROVE  LegInv'
  <1>1. CASE ApplyLegStarts
    <2>1. LegBuildTypeOK'
      BY <1>1, LegBuildAssumption, ZenonT(60) DEF LegInv, ApplyLegStarts, LegBuildTypeOK, Legs, NoLeg, NoPort,
         NoJob, NoResult
    <2>2. ApplyInv'
      BY <1>1, LegBuildAssumption DEF LegInv, ApplyLegStarts, ApplyInv, ShapeDone, BondWhole,
         OursOf, BondComplete, VlanComplete, Identity, NoLeg, NoPort, NoJob, NoResult,
         LegBuildTypeOK, Legs
    <2>3. FlipInv'
      BY <1>1, LegBuildAssumption DEF LegInv, ApplyLegStarts, FlipInv, ApplyInv, BondWhole, OursOf,
         ShapeDone, Identity, NoLeg, NoPort, NoJob, NoResult, LegBuildTypeOK, Legs
    <2>4. BuiltAsDeclared'
      BY <1>1, LegBuildAssumption DEF LegInv, ApplyLegStarts, BuiltAsDeclared, ApplyInv, ShapeDone,
         BondComplete, VlanComplete, NoLeg, NoPort, NoJob, NoResult, LegBuildTypeOK, Legs
    <2>5. FlipsUnlessCut'
      BY <1>1, LegBuildAssumption DEF LegInv, ApplyLegStarts, FlipsUnlessCut, Homeless, FlipInv, ApplyInv,
         BondWhole, OursOf, Identity, NoLeg, NoPort, NoJob, NoResult, LegBuildTypeOK, Legs
    <2> QED BY <2>1, <2>2, <2>3, <2>4, <2>5 DEF LegInv
  <1>2. CASE CheckShape
    <2>1. LegBuildTypeOK'
      BY <1>2, LegBuildAssumption DEF LegInv, CheckShape, GoTo, LegBuildTypeOK, Legs, NoLeg,
         NoPort, NoJob, NoResult
    <2>2. ApplyInv'
      BY <1>2, LegBuildAssumption DEF LegInv, CheckShape, GoTo, ApplyInv, ShapeDone, BondWhole,
         OursOf, BondComplete, VlanComplete, Identity, NoLeg, NoPort, NoJob, NoResult,
         LegBuildTypeOK, Legs
    <2>3. FlipInv'
      BY <1>2, LegBuildAssumption DEF LegInv, CheckShape, GoTo, FlipInv, ApplyInv, BondWhole,
         OursOf, ShapeDone, Identity, NoLeg, NoPort, NoJob, NoResult, LegBuildTypeOK, Legs
    <2>4. BuiltAsDeclared'
      BY <1>2, LegBuildAssumption DEF LegInv, CheckShape, GoTo, BuiltAsDeclared, ApplyInv,
         ShapeDone, BondComplete, VlanComplete, NoLeg, NoPort, NoJob, NoResult, LegBuildTypeOK, Legs
    <2>5. FlipsUnlessCut'
      BY <1>2, LegBuildAssumption DEF LegInv, CheckShape, GoTo, FlipsUnlessCut, Homeless, FlipInv, ApplyInv,
         BondWhole, OursOf, Identity, NoLeg, NoPort, NoJob, NoResult, LegBuildTypeOK, Legs
    <2> QED BY <2>1, <2>2, <2>3, <2>4, <2>5 DEF LegInv
  <1>3. CASE MakeBond
    <2>1. CASE job.kept = {}
      <3>1. /\ job.at = "make" /\ shape = "bond" /\ job' = [job EXCEPT !.at = "done"]
            /\ UNCHANGED <<shape, there, leg, ports, result, cut, alien, upsets>>
        BY <1>3, <2>1 DEF MakeBond, GoTo, KeepsBond, Refuses
      <3>2. LegBuildTypeOK'
        BY <2>1, <3>1, LegBuildAssumption DEF LegInv, LegBuildTypeOK, Legs, NoLeg, NoPort, NoJob,
           NoResult
      <3>3. ApplyInv'
        BY <2>1, <3>1, LegBuildAssumption DEF LegInv, ApplyInv, ShapeDone, BondWhole, OursOf,
           BondComplete, VlanComplete, Identity, NoLeg, NoPort, NoJob, NoResult, LegBuildTypeOK,
           Legs
      <3>4. FlipInv'
        BY <2>1, <3>1, LegBuildAssumption DEF LegInv, FlipInv, ApplyInv, BondWhole, OursOf,
           ShapeDone, Identity, NoLeg, NoPort, NoJob, NoResult, LegBuildTypeOK, Legs
      <3>5. BuiltAsDeclared'
        BY <3>1 DEF LegInv, FlipInv, NoResult, BuiltAsDeclared
      <3>6. FlipsUnlessCut'
        BY <3>1 DEF LegInv, FlipInv, NoResult, FlipsUnlessCut, Homeless
      <3> QED BY <3>2, <3>3, <3>4, <3>5, <3>6 DEF LegInv
    <2>2. CASE job.kept # {} /\ leg.kind = "none"
      <3>1. /\ job.at = "make" /\ shape = "bond" /\ leg' = [NoLeg EXCEPT !.kind = "bond"]
            /\ cut' = "no" /\ job' = [job EXCEPT !.at = "port", !.todo = job.kept]
            /\ UNCHANGED <<shape, there, ports, result, alien, upsets>>
        BY <1>3, <2>2 DEF MakeBond, GoTo, KeepsBond, Refuses
      <3>2. LegBuildTypeOK'
        BY <2>2, <3>1, LegBuildAssumption DEF LegInv, LegBuildTypeOK, Legs, NoLeg, NoPort, NoJob,
           NoResult
      <3>3. ApplyInv'
        BY <2>2, <3>1, LegBuildAssumption DEF LegInv, ApplyInv, ShapeDone, BondWhole, OursOf,
           BondComplete, VlanComplete, Identity, NoLeg, NoPort, NoJob, NoResult, LegBuildTypeOK,
           Legs
      <3>4. FlipInv'
        BY <2>2, <3>1, LegBuildAssumption DEF LegInv, FlipInv, ApplyInv, BondWhole, OursOf,
           ShapeDone, Identity, NoLeg, NoPort, NoJob, NoResult, LegBuildTypeOK, Legs
      <3>5. BuiltAsDeclared'
        BY <3>1 DEF LegInv, FlipInv, NoResult, BuiltAsDeclared
      <3>6. FlipsUnlessCut'
        BY <3>1 DEF LegInv, FlipInv, NoResult, FlipsUnlessCut, Homeless
      <3> QED BY <3>2, <3>3, <3>4, <3>5, <3>6 DEF LegInv
    <2>3. CASE job.kept # {} /\ leg.kind = "bond" /\ leg.as = "ours"
      <3>1. /\ job.at = "make" /\ shape = "bond"
            /\ job' = [job EXCEPT !.at = "port", !.todo = job.kept]
            /\ UNCHANGED <<shape, there, leg, ports, result, cut, alien, upsets>>
        BY <1>3, <2>3 DEF MakeBond, GoTo, KeepsBond, Refuses
      <3>2. LegBuildTypeOK'
        BY <2>3, <3>1, LegBuildAssumption, ZenonT(60) DEF LegInv, LegBuildTypeOK, Legs, NoLeg, NoPort, NoJob,
           NoResult
      <3>3. ApplyInv'
        BY <2>3, <3>1, LegBuildAssumption DEF LegInv, ApplyInv, ShapeDone, BondWhole, OursOf,
           BondComplete, VlanComplete, Identity, NoLeg, NoPort, NoJob, NoResult, LegBuildTypeOK,
           Legs
      <3>4. FlipInv'
        BY <2>3, <3>1, LegBuildAssumption DEF LegInv, FlipInv, ApplyInv, BondWhole, OursOf,
           ShapeDone, Identity, NoLeg, NoPort, NoJob, NoResult, LegBuildTypeOK, Legs
      <3>5. BuiltAsDeclared'
        BY <3>1 DEF LegInv, FlipInv, NoResult, BuiltAsDeclared
      <3>6. FlipsUnlessCut'
        BY <3>1 DEF LegInv, FlipInv, NoResult, FlipsUnlessCut, Homeless
      <3> QED BY <3>2, <3>3, <3>4, <3>5, <3>6 DEF LegInv
    <2>4. CASE job.kept # {} /\ leg.kind # "none" /\ ~(leg.kind = "bond" /\ leg.as = "ours")
      <3>1. Ends("refused") /\ UNCHANGED <<shape, there, leg, ports, alien, upsets>>
        BY <1>3, <2>4 DEF MakeBond, GoTo, KeepsBond, Refuses
      <3>2. alien = "no" /\ cut = "no" => job.undisturbed = "no"
        BY <1>3, <2>4, LegBuildAssumption DEF MakeBond, LegInv, FlipInv, ApplyInv, BondWhole,
           OursOf, Identity, LegBuildTypeOK, Legs
      <3>3. job.at \notin {"idle", "done"}
        BY <1>3 DEF MakeBond
      <3> QED BY <3>1, <3>2, <3>3, EndsKeeps
    <2> QED
      BY <1>3, <2>1, <2>2, <2>3, <2>4 DEF MakeBond, KeepsBond
  <1>4. CASE SetBondPrimary
    <2>0. PICK w \in Homes : IF leg.kind = "bond" /\ ports[w].master = "leg"
                             THEN leg' = [leg EXCEPT !.primary = w] /\ GoTo("address") /\ UNCHANGED <<result, cut>>
                             ELSE Ends("failed") /\ UNCHANGED leg
      BY <1>4 DEF SetBondPrimary
    <2>9. w \in LegWires /\ w \in job.kept
      BY <2>0, LegBuildAssumption DEF Homes, LegInv, LegBuildTypeOK
    <2>1. CASE ~(leg.kind = "bond" /\ ports[w].master = "leg")
      <3>1. Ends("failed") /\ UNCHANGED <<shape, there, leg, ports, alien, upsets>>
        BY <1>4, <2>0, <2>1 DEF SetBondPrimary, GoTo
      <3>2. alien = "no" /\ cut = "no" => job.undisturbed = "no"
        BY <1>4, <2>0, <2>9, <2>1, LegBuildAssumption DEF SetBondPrimary, LegInv, FlipInv,
           ApplyInv, BondWhole, OursOf, Identity, Homes, LegBuildTypeOK, Legs
      <3>3. job.at \notin {"idle", "done"}
        BY <1>4 DEF SetBondPrimary
      <3> QED BY <3>1, <3>2, <3>3, EndsKeeps
    <2>2. CASE leg.kind = "bond" /\ ports[w].master = "leg"
      <3>1. /\ job.at = "port" /\ job.todo = {} /\ job' = [job EXCEPT !.at = "address"]
            /\ leg' = [leg EXCEPT !.primary = w]
            /\ UNCHANGED <<shape, there, ports, result, cut, alien, upsets>>
        BY <1>4, <2>0, <2>2 DEF SetBondPrimary, GoTo
      <3>2. LegBuildTypeOK'
        BY <2>0, <2>9, <2>2, <3>1, LegBuildAssumption DEF LegInv, Homes, LegBuildTypeOK, Legs,
           NoLeg, NoPort, NoJob, NoResult
      <3>3. ApplyInv'
        BY <2>0, <2>9, <2>2, <3>1, LegBuildAssumption DEF LegInv, Homes, ApplyInv, ShapeDone,
           BondWhole, OursOf, BondComplete, VlanComplete, Identity, NoLeg, NoPort, NoJob, NoResult,
           LegBuildTypeOK, Legs
      <3>4. FlipInv'
        BY <2>0, <2>9, <2>2, <3>1, LegBuildAssumption DEF LegInv, Homes, FlipInv, ApplyInv,
           BondWhole, OursOf, ShapeDone, Identity, NoLeg, NoPort, NoJob, NoResult, LegBuildTypeOK,
           Legs
      <3>5. BuiltAsDeclared'
        BY <3>1 DEF LegInv, FlipInv, NoResult, BuiltAsDeclared
      <3>6. FlipsUnlessCut'
        BY <3>1 DEF LegInv, FlipInv, NoResult, FlipsUnlessCut, Homeless
      <3> QED BY <3>2, <3>3, <3>4, <3>5, <3>6 DEF LegInv
    <2> QED
      BY <1>4, <2>1, <2>2 DEF SetBondPrimary, Homes
  <1>5. CASE MakeVlan
    <2>1. CASE HomeWire \notin job.kept
      <3>1. /\ job.at = "make" /\ shape = "vlan" /\ job' = [job EXCEPT !.at = "default"]
            /\ UNCHANGED <<shape, there, leg, ports, result, cut, alien, upsets>>
        BY <1>5, <2>1 DEF MakeVlan, GoTo, Identity
      <3>2. LegBuildTypeOK'
        BY <2>1, <3>1, LegBuildAssumption DEF LegInv, Identity, Taken, LegBuildTypeOK, Legs, NoLeg,
           NoPort, NoJob, NoResult
      <3>3. ApplyInv'
        BY <2>1, <3>1, LegBuildAssumption DEF LegInv, Identity, Taken, ApplyInv, ShapeDone,
           BondWhole, OursOf, BondComplete, VlanComplete, NoLeg, NoPort, NoJob, NoResult,
           LegBuildTypeOK, Legs
      <3>4. FlipInv'
        BY <2>1, <3>1, LegBuildAssumption DEF LegInv, Identity, Taken, FlipInv, ApplyInv,
           BondWhole, OursOf, ShapeDone, NoLeg, NoPort, NoJob, NoResult, LegBuildTypeOK, Legs
      <3>5. BuiltAsDeclared'
        BY <3>1 DEF LegInv, FlipInv, NoResult, BuiltAsDeclared
      <3>6. FlipsUnlessCut'
        BY <3>1 DEF LegInv, FlipInv, NoResult, FlipsUnlessCut, Homeless
      <3> QED BY <3>2, <3>3, <3>4, <3>5, <3>6 DEF LegInv
    <2>2. CASE HomeWire \in job.kept /\ leg.kind # "none" /\ ~Identity
      <3>1. /\ job.at = "make" /\ shape = "vlan" /\ leg' = NoLeg
            /\ UNCHANGED <<shape, there, ports, job, result, cut, alien, upsets>>
        BY <1>5, <2>2 DEF MakeVlan, GoTo, Identity
      <3>2. LegBuildTypeOK'
        BY <2>2, <3>1, LegBuildAssumption DEF LegInv, Identity, Taken, LegBuildTypeOK, Legs, NoLeg,
           NoPort, NoJob, NoResult
      <3>3. ApplyInv'
        BY <2>2, <3>1, LegBuildAssumption DEF LegInv, Identity, Taken, ApplyInv, ShapeDone,
           BondWhole, OursOf, BondComplete, VlanComplete, NoLeg, NoPort, NoJob, NoResult,
           LegBuildTypeOK, Legs
      <3>4. FlipInv'
        BY <2>2, <3>1, LegBuildAssumption DEF LegInv, Identity, Taken, FlipInv, ApplyInv,
           BondWhole, OursOf, ShapeDone, NoLeg, NoPort, NoJob, NoResult, LegBuildTypeOK, Legs
      <3>5. BuiltAsDeclared'
        BY <3>1 DEF LegInv, FlipInv, NoResult, BuiltAsDeclared
      <3>6. FlipsUnlessCut'
        BY <3>1 DEF LegInv, FlipInv, NoResult, FlipsUnlessCut, Homeless
      <3> QED BY <3>2, <3>3, <3>4, <3>5, <3>6 DEF LegInv
    <2>3. CASE HomeWire \in job.kept /\ leg.kind = "none" /\ HomeWire \in there /\ ~Taken(HomeWire)
      <3>1. /\ job.at = "make" /\ shape = "vlan"
            /\ leg' = [NoLeg EXCEPT !.kind = "vlan", !.on = HomeWire]
            /\ job' = [job EXCEPT !.at = "address"]
            /\ UNCHANGED <<shape, there, ports, result, cut, alien, upsets>>
        BY <1>5, <2>3 DEF MakeVlan, GoTo, Identity
      <3>2. LegBuildTypeOK'
        BY <2>3, <3>1, LegBuildAssumption DEF LegInv, Identity, Taken, LegBuildTypeOK, Legs, NoLeg,
           NoPort, NoJob, NoResult
      <3>3. ApplyInv'
        BY <2>3, <3>1, LegBuildAssumption DEF LegInv, Identity, Taken, ApplyInv, ShapeDone,
           BondWhole, OursOf, BondComplete, VlanComplete, NoLeg, NoPort, NoJob, NoResult,
           LegBuildTypeOK, Legs
      <3>4. FlipInv'
        BY <2>3, <3>1, LegBuildAssumption DEF LegInv, Identity, Taken, FlipInv, ApplyInv,
           BondWhole, OursOf, ShapeDone, NoLeg, NoPort, NoJob, NoResult, LegBuildTypeOK, Legs
      <3>5. BuiltAsDeclared'
        BY <3>1 DEF LegInv, FlipInv, NoResult, BuiltAsDeclared
      <3>6. FlipsUnlessCut'
        BY <3>1 DEF LegInv, FlipInv, NoResult, FlipsUnlessCut, Homeless
      <3> QED BY <3>2, <3>3, <3>4, <3>5, <3>6 DEF LegInv
    <2>4. CASE HomeWire \in job.kept /\ leg.kind = "none" /\ (HomeWire \notin there \/ Taken(HomeWire))
      <3>1. Ends("failed") /\ UNCHANGED <<shape, there, leg, ports, alien, upsets>>
        BY <1>5, <2>4 DEF MakeVlan, GoTo, Identity
      <3>2. alien = "no" /\ cut = "no" => job.undisturbed = "no"
        BY <1>5, <2>4, LegBuildAssumption DEF MakeVlan, LegInv, FlipInv, ApplyInv, BondWhole,
           OursOf, Identity, Taken, LegBuildTypeOK, Legs
      <3>3. job.at \notin {"idle", "done"}
        BY <1>5 DEF MakeVlan
      <3> QED BY <3>1, <3>2, <3>3, EndsKeeps
    <2>5. CASE HomeWire \in job.kept /\ Identity
      <3>1. /\ job.at = "make" /\ shape = "vlan" /\ job' = [job EXCEPT !.at = "address"]
            /\ UNCHANGED <<shape, there, leg, ports, result, cut, alien, upsets>>
        BY <1>5, <2>5 DEF MakeVlan, GoTo, Identity
      <3>2. LegBuildTypeOK'
        BY <2>5, <3>1, LegBuildAssumption DEF LegInv, Identity, Taken, LegBuildTypeOK, Legs, NoLeg,
           NoPort, NoJob, NoResult
      <3>3. ApplyInv'
        BY <2>5, <3>1, LegBuildAssumption DEF LegInv, Identity, Taken, ApplyInv, ShapeDone,
           BondWhole, OursOf, BondComplete, VlanComplete, NoLeg, NoPort, NoJob, NoResult,
           LegBuildTypeOK, Legs
      <3>4. FlipInv'
        BY <2>5, <3>1, LegBuildAssumption DEF LegInv, Identity, Taken, FlipInv, ApplyInv,
           BondWhole, OursOf, ShapeDone, NoLeg, NoPort, NoJob, NoResult, LegBuildTypeOK, Legs
      <3>5. BuiltAsDeclared'
        BY <3>1 DEF LegInv, FlipInv, NoResult, BuiltAsDeclared
      <3>6. FlipsUnlessCut'
        BY <3>1 DEF LegInv, FlipInv, NoResult, FlipsUnlessCut, Homeless
      <3> QED BY <3>2, <3>3, <3>4, <3>5, <3>6 DEF LegInv
    <2> QED
      BY <1>5, <2>1, <2>2, <2>3, <2>4, <2>5 DEF MakeVlan
  <1>6. CASE AddressLeg
    <2>1. CASE leg.kind = "none"
      <3>1. Ends("failed") /\ UNCHANGED <<shape, there, leg, ports, alien, upsets>>
        BY <1>6, <2>1 DEF AddressLeg, GoTo
      <3>2. alien = "no" /\ cut = "no" => job.undisturbed = "no"
        BY <1>6, <2>1, LegBuildAssumption DEF AddressLeg, LegInv, FlipInv, ApplyInv, BondWhole,
           OursOf, Identity, LegBuildTypeOK, Legs
      <3>3. job.at \notin {"idle", "done"}
        BY <1>6 DEF AddressLeg
      <3> QED BY <3>1, <3>2, <3>3, EndsKeeps
    <2>2. CASE leg.kind # "none"
      <3>1. /\ job.at = "address" /\ leg' = [leg EXCEPT !.addr = "yes"]
            /\ job' = [job EXCEPT !.at = "default"]
            /\ UNCHANGED <<shape, there, ports, result, cut, alien, upsets>>
        BY <1>6, <2>2 DEF AddressLeg, GoTo
      <3>2. LegBuildTypeOK'
        BY <2>2, <3>1, LegBuildAssumption DEF LegInv, LegBuildTypeOK, Legs, NoLeg, NoPort, NoJob,
           NoResult
      <3>3. ApplyInv'
        BY <2>2, <3>1, LegBuildAssumption DEF LegInv, ApplyInv, ShapeDone, BondWhole, OursOf,
           BondComplete, VlanComplete, Identity, NoLeg, NoPort, NoJob, NoResult, LegBuildTypeOK,
           Legs
      <3>4. FlipInv'
        BY <2>2, <3>1, LegBuildAssumption DEF LegInv, FlipInv, ApplyInv, BondWhole, OursOf,
           ShapeDone, Identity, NoLeg, NoPort, NoJob, NoResult, LegBuildTypeOK, Legs
      <3>5. BuiltAsDeclared'
        BY <3>1 DEF LegInv, FlipInv, NoResult, BuiltAsDeclared
      <3>6. FlipsUnlessCut'
        BY <3>1 DEF LegInv, FlipInv, NoResult, FlipsUnlessCut, Homeless
      <3> QED BY <3>2, <3>3, <3>4, <3>5, <3>6 DEF LegInv
    <2> QED
      BY <1>6, <2>1, <2>2 DEF AddressLeg
  <1>7. CASE RemoveLeg
    <2>1. CASE leg.kind = "none"
      <3>1. /\ job.at = "remove" /\ job' = [job EXCEPT !.at = AfterRemoval]
            /\ UNCHANGED <<shape, there, leg, ports, result, cut, alien, upsets>>
        BY <1>7, <2>1 DEF RemoveLeg, GoTo, RemovesBond, Refuses
      <3>2. LegBuildTypeOK'
        BY <2>1, <3>1, LegBuildAssumption DEF LegInv, Released, AfterRemoval, LegBuildTypeOK, Legs,
           NoLeg, NoPort, NoJob, NoResult
      <3>3. ApplyInv'
        BY <2>1, <3>1, LegBuildAssumption DEF LegInv, Released, AfterRemoval, ApplyInv, ShapeDone,
           BondWhole, OursOf, BondComplete, VlanComplete, Identity, NoLeg, NoPort, NoJob, NoResult,
           LegBuildTypeOK, Legs
      <3>4. FlipInv'
        BY <2>1, <3>1, LegBuildAssumption DEF LegInv, Released, AfterRemoval, FlipInv, ApplyInv,
           BondWhole, OursOf, ShapeDone, Identity, NoLeg, NoPort, NoJob, NoResult, LegBuildTypeOK,
           Legs
      <3>5. BuiltAsDeclared'
        BY <3>1 DEF LegInv, FlipInv, NoResult, BuiltAsDeclared
      <3>6. FlipsUnlessCut'
        BY <3>1 DEF LegInv, FlipInv, NoResult, FlipsUnlessCut, Homeless
      <3> QED BY <3>2, <3>3, <3>4, <3>5, <3>6 DEF LegInv
    <2>2. CASE leg.kind = "bond"
      <3>1. /\ job.at = "remove" /\ leg' = NoLeg /\ ports' = Released
            /\ job' = [job EXCEPT !.at = "unport", !.todo = LegWires]
            /\ UNCHANGED <<shape, there, result, cut, alien, upsets>>
        BY <1>7, <2>2 DEF RemoveLeg, GoTo, RemovesBond, Refuses
      <3>2. LegBuildTypeOK'
        BY <2>2, <3>1, LegBuildAssumption, ZenonT(60) DEF LegInv, Released, AfterRemoval, LegBuildTypeOK, Legs,
           NoLeg, NoPort, NoJob, NoResult
      <3>3. ApplyInv'
        BY <2>2, <3>1, LegBuildAssumption DEF LegInv, Released, AfterRemoval, ApplyInv, ShapeDone,
           BondWhole, OursOf, BondComplete, VlanComplete, Identity, NoLeg, NoPort, NoJob, NoResult,
           LegBuildTypeOK, Legs
      <3>4. FlipInv'
        BY <2>2, <3>1, LegBuildAssumption DEF LegInv, Released, AfterRemoval, FlipInv, ApplyInv,
           BondWhole, OursOf, ShapeDone, Identity, NoLeg, NoPort, NoJob, NoResult, LegBuildTypeOK,
           Legs
      <3>5. BuiltAsDeclared'
        BY <3>1 DEF LegInv, FlipInv, NoResult, BuiltAsDeclared
      <3>6. FlipsUnlessCut'
        BY <3>1 DEF LegInv, FlipInv, NoResult, FlipsUnlessCut, Homeless
      <3> QED BY <3>2, <3>3, <3>4, <3>5, <3>6 DEF LegInv
    <2>3. CASE leg.kind = "vlan"
      <3>1. /\ job.at = "remove" /\ leg' = NoLeg /\ job' = [job EXCEPT !.at = AfterRemoval]
            /\ UNCHANGED <<shape, there, ports, result, cut, alien, upsets>>
        BY <1>7, <2>3 DEF RemoveLeg, GoTo, RemovesBond, Refuses
      <3>2. LegBuildTypeOK'
        BY <2>3, <3>1, LegBuildAssumption DEF LegInv, Released, AfterRemoval, LegBuildTypeOK, Legs,
           NoLeg, NoPort, NoJob, NoResult
      <3>3. ApplyInv'
        BY <2>3, <3>1, LegBuildAssumption DEF LegInv, Released, AfterRemoval, ApplyInv, ShapeDone,
           BondWhole, OursOf, BondComplete, VlanComplete, Identity, NoLeg, NoPort, NoJob, NoResult,
           LegBuildTypeOK, Legs
      <3>4. FlipInv'
        BY <2>3, <3>1, LegBuildAssumption DEF LegInv, Released, AfterRemoval, FlipInv, ApplyInv,
           BondWhole, OursOf, ShapeDone, Identity, NoLeg, NoPort, NoJob, NoResult, LegBuildTypeOK,
           Legs
      <3>5. BuiltAsDeclared'
        BY <3>1 DEF LegInv, FlipInv, NoResult, BuiltAsDeclared
      <3>6. FlipsUnlessCut'
        BY <3>1 DEF LegInv, FlipInv, NoResult, FlipsUnlessCut, Homeless
      <3> QED BY <3>2, <3>3, <3>4, <3>5, <3>6 DEF LegInv
    <2>4. CASE leg.kind = "other"
      <3>1. Ends("refused") /\ UNCHANGED <<shape, there, leg, ports, alien, upsets>>
        BY <1>7, <2>4 DEF RemoveLeg, GoTo, RemovesBond, Refuses
      <3>2. alien = "no" /\ cut = "no" => job.undisturbed = "no"
        BY <1>7, <2>4, LegBuildAssumption DEF RemoveLeg, LegInv, FlipInv, ApplyInv, BondWhole,
           OursOf, Identity, Released, AfterRemoval, LegBuildTypeOK, Legs
      <3>3. job.at \notin {"idle", "done"}
        BY <1>7 DEF RemoveLeg
      <3> QED BY <3>1, <3>2, <3>3, EndsKeeps
    <2> QED
      BY <1>7, <2>1, <2>2, <2>3, <2>4 DEF RemoveLeg, LegInv, LegBuildTypeOK, Legs
  <1>8. CASE PortsRemoved
    <2>1. LegBuildTypeOK'
      BY <1>8, LegBuildAssumption DEF LegInv, PortsRemoved, GoTo, AfterRemoval, LegBuildTypeOK,
         Legs, NoLeg, NoPort, NoJob, NoResult
    <2>2. ApplyInv'
      BY <1>8, LegBuildAssumption DEF LegInv, PortsRemoved, GoTo, AfterRemoval, ApplyInv,
         ShapeDone, BondWhole, OursOf, BondComplete, VlanComplete, Identity, NoLeg, NoPort, NoJob,
         NoResult, LegBuildTypeOK, Legs
    <2>3. FlipInv'
      BY <1>8, LegBuildAssumption DEF LegInv, PortsRemoved, GoTo, AfterRemoval, FlipInv, ApplyInv,
         BondWhole, OursOf, ShapeDone, Identity, NoLeg, NoPort, NoJob, NoResult, LegBuildTypeOK,
         Legs
    <2>4. BuiltAsDeclared'
      BY <1>8, LegBuildAssumption DEF LegInv, PortsRemoved, GoTo, AfterRemoval, BuiltAsDeclared,
         ApplyInv, ShapeDone, BondComplete, VlanComplete, NoLeg, NoPort, NoJob, NoResult,
         LegBuildTypeOK, Legs
    <2>5. FlipsUnlessCut'
      BY <1>8, LegBuildAssumption DEF LegInv, PortsRemoved, GoTo, AfterRemoval, FlipsUnlessCut, Homeless,
         FlipInv, ApplyInv, BondWhole, OursOf, Identity, NoLeg, NoPort, NoJob, NoResult,
         LegBuildTypeOK, Legs
    <2> QED BY <2>1, <2>2, <2>3, <2>4, <2>5 DEF LegInv
  <1>9. CASE JobDone
    <2>1. LegBuildTypeOK'
      BY <1>9, LegBuildAssumption DEF LegInv, JobDone, Ends, CutNow, LegBuildTypeOK, Legs, NoLeg,
         NoPort, NoJob, NoResult
    <2>2. ApplyInv'
      BY <1>9, LegBuildAssumption DEF LegInv, JobDone, Ends, CutNow, ApplyInv, ShapeDone,
         BondWhole, OursOf, BondComplete, VlanComplete, Identity, NoLeg, NoPort, NoJob, NoResult,
         LegBuildTypeOK, Legs
    <2>3. FlipInv'
      BY <1>9, LegBuildAssumption DEF LegInv, JobDone, Ends, CutNow, FlipInv, ApplyInv, BondWhole,
         OursOf, ShapeDone, Identity, NoLeg, NoPort, NoJob, NoResult, LegBuildTypeOK, Legs
    <2>4. BuiltAsDeclared'
      BY <1>9, LegBuildAssumption DEF LegInv, JobDone, Ends, CutNow, BuiltAsDeclared, ApplyInv,
         ShapeDone, BondComplete, VlanComplete, NoLeg, NoPort, NoJob, NoResult, LegBuildTypeOK, Legs
    <2>5. FlipsUnlessCut'
      BY <1>9, LegBuildAssumption DEF LegInv, JobDone, Ends, CutNow, FlipsUnlessCut, Homeless, FlipInv,
         ApplyInv, BondWhole, OursOf, Identity, NoLeg, NoPort, NoJob, NoResult, LegBuildTypeOK, Legs
    <2> QED BY <2>1, <2>2, <2>3, <2>4, <2>5 DEF LegInv
  <1>10. CASE DownStarts
    <2>1. LegBuildTypeOK'
      BY <1>10, LegBuildAssumption, ZenonT(60) DEF LegInv, DownStarts, LegBuildTypeOK, Legs, NoLeg, NoPort,
         NoJob, NoResult
    <2>2. ApplyInv'
      BY <1>10, LegBuildAssumption DEF LegInv, DownStarts, ApplyInv, ShapeDone, BondWhole, OursOf,
         BondComplete, VlanComplete, Identity, NoLeg, NoPort, NoJob, NoResult, LegBuildTypeOK, Legs
    <2>3. FlipInv'
      BY <1>10, LegBuildAssumption DEF LegInv, DownStarts, FlipInv, ApplyInv, BondWhole, OursOf,
         ShapeDone, Identity, NoLeg, NoPort, NoJob, NoResult, LegBuildTypeOK, Legs
    <2>4. BuiltAsDeclared'
      BY <1>10, LegBuildAssumption DEF LegInv, DownStarts, BuiltAsDeclared, ApplyInv, ShapeDone,
         BondComplete, VlanComplete, NoLeg, NoPort, NoJob, NoResult, LegBuildTypeOK, Legs
    <2>5. FlipsUnlessCut'
      BY <1>10, LegBuildAssumption DEF LegInv, DownStarts, FlipsUnlessCut, Homeless, FlipInv, ApplyInv,
         BondWhole, OursOf, Identity, NoLeg, NoPort, NoJob, NoResult, LegBuildTypeOK, Legs
    <2> QED BY <2>1, <2>2, <2>3, <2>4, <2>5 DEF LegInv
  <1>11. CASE Redeclare
    <2>1. LegBuildTypeOK'
      BY <1>11, LegBuildAssumption DEF LegInv, Redeclare, LegBuildTypeOK, Legs, NoLeg, NoPort,
         NoJob, NoResult
    <2>2. ApplyInv'
      BY <1>11, LegBuildAssumption DEF LegInv, Redeclare, ApplyInv, ShapeDone, BondWhole, OursOf,
         BondComplete, VlanComplete, Identity, NoLeg, NoPort, NoJob, NoResult, LegBuildTypeOK, Legs
    <2>3. FlipInv'
      BY <1>11, LegBuildAssumption DEF LegInv, Redeclare, FlipInv, ApplyInv, BondWhole, OursOf,
         ShapeDone, Identity, NoLeg, NoPort, NoJob, NoResult, LegBuildTypeOK, Legs
    <2>4. BuiltAsDeclared'
      BY <1>11, LegBuildAssumption DEF LegInv, Redeclare, BuiltAsDeclared, ApplyInv, ShapeDone,
         BondComplete, VlanComplete, NoLeg, NoPort, NoJob, NoResult, LegBuildTypeOK, Legs
    <2>5. FlipsUnlessCut'
      BY <1>11, LegBuildAssumption DEF LegInv, Redeclare, FlipsUnlessCut, Homeless, FlipInv, ApplyInv,
         BondWhole, OursOf, Identity, NoLeg, NoPort, NoJob, NoResult, LegBuildTypeOK, Legs
    <2> QED BY <2>1, <2>2, <2>3, <2>4, <2>5 DEF LegInv
  <1>12. CASE CutShort
    <2>1. LegBuildTypeOK'
      BY <1>12, LegBuildAssumption DEF LegInv, CutShort, Upset, CutNow, LegBuildTypeOK, Legs,
         NoLeg, NoPort, NoJob, NoResult
    <2>2. ApplyInv'
      BY <1>12, LegBuildAssumption DEF LegInv, CutShort, Upset, CutNow, ApplyInv, ShapeDone,
         BondWhole, OursOf, BondComplete, VlanComplete, Identity, NoLeg, NoPort, NoJob, NoResult,
         LegBuildTypeOK, Legs
    <2>3. FlipInv'
      BY <1>12, LegBuildAssumption DEF LegInv, CutShort, Upset, CutNow, FlipInv, ApplyInv,
         BondWhole, OursOf, ShapeDone, Identity, NoLeg, NoPort, NoJob, NoResult, LegBuildTypeOK,
         Legs
    <2>4. BuiltAsDeclared'
      BY <1>12, LegBuildAssumption DEF LegInv, CutShort, Upset, CutNow, BuiltAsDeclared, ApplyInv,
         ShapeDone, BondComplete, VlanComplete, NoLeg, NoPort, NoJob, NoResult, LegBuildTypeOK, Legs
    <2>5. FlipsUnlessCut'
      BY <1>12, LegBuildAssumption DEF LegInv, CutShort, Upset, CutNow, FlipsUnlessCut, Homeless, FlipInv,
         ApplyInv, BondWhole, OursOf, Identity, NoLeg, NoPort, NoJob, NoResult, LegBuildTypeOK, Legs
    <2> QED BY <2>1, <2>2, <2>3, <2>4, <2>5 DEF LegInv
  <1>13. CASE StrangerTakesLeg
    <2>1. LegBuildTypeOK'
      <3>1. leg' \in Legs
        BY <1>13 DEF StrangerTakesLeg, NoLeg, Legs
      <3> QED BY <1>13, <3>1, LegBuildAssumption DEF LegInv, StrangerTakesLeg, Disturbed, Upset,
                 LegBuildTypeOK, NoJob, NoResult
    <2>2. ApplyInv'
      BY <1>13, LegBuildAssumption DEF LegInv, StrangerTakesLeg, Disturbed, Upset, ApplyInv,
         ShapeDone, BondWhole, OursOf, BondComplete, VlanComplete, Identity, NoLeg, NoPort, NoJob,
         NoResult, LegBuildTypeOK, Legs
    <2>3. FlipInv'
      BY <1>13, LegBuildAssumption DEF LegInv, StrangerTakesLeg, Disturbed, Upset, FlipInv,
         ApplyInv, BondWhole, OursOf, ShapeDone, Identity, NoLeg, NoPort, NoJob, NoResult,
         LegBuildTypeOK, Legs
    <2>4. BuiltAsDeclared'
      BY <1>13, LegBuildAssumption DEF LegInv, StrangerTakesLeg, Disturbed, Upset, BuiltAsDeclared,
         ApplyInv, ShapeDone, BondComplete, VlanComplete, NoLeg, NoPort, NoJob, NoResult,
         LegBuildTypeOK, Legs
    <2>5. FlipsUnlessCut'
      BY <1>13, LegBuildAssumption DEF LegInv, StrangerTakesLeg, Disturbed, Upset, FlipsUnlessCut, Homeless,
         FlipInv, ApplyInv, BondWhole, OursOf, Identity, NoLeg, NoPort, NoJob, NoResult,
         LegBuildTypeOK, Legs
    <2> QED BY <2>1, <2>2, <2>3, <2>4, <2>5 DEF LegInv
  <1>14. CASE StrangerDeletesBond
    <2>1. LegBuildTypeOK'
      BY <1>14, LegBuildAssumption DEF LegInv, StrangerDeletesBond, Disturbed, Upset, Released,
         LegBuildTypeOK, Legs, NoLeg, NoPort, NoJob, NoResult
    <2>2. ApplyInv'
      BY <1>14, LegBuildAssumption DEF LegInv, StrangerDeletesBond, Disturbed, Upset, Released,
         ApplyInv, ShapeDone, BondWhole, OursOf, BondComplete, VlanComplete, Identity, NoLeg,
         NoPort, NoJob, NoResult, LegBuildTypeOK, Legs
    <2>3. FlipInv'
      BY <1>14, LegBuildAssumption DEF LegInv, StrangerDeletesBond, Disturbed, Upset, Released,
         FlipInv, ApplyInv, BondWhole, OursOf, ShapeDone, Identity, NoLeg, NoPort, NoJob, NoResult,
         LegBuildTypeOK, Legs
    <2>4. BuiltAsDeclared'
      BY <1>14, LegBuildAssumption DEF LegInv, StrangerDeletesBond, Disturbed, Upset, Released,
         BuiltAsDeclared, ApplyInv, ShapeDone, BondComplete, VlanComplete, NoLeg, NoPort, NoJob,
         NoResult, LegBuildTypeOK, Legs
    <2>5. FlipsUnlessCut'
      BY <1>14, LegBuildAssumption DEF LegInv, StrangerDeletesBond, Disturbed, Upset, Released,
         FlipsUnlessCut, Homeless, FlipInv, ApplyInv, BondWhole, OursOf, Identity, NoLeg, NoPort, NoJob,
         NoResult, LegBuildTypeOK, Legs
    <2> QED BY <2>1, <2>2, <2>3, <2>4, <2>5 DEF LegInv
  <1>15. ASSUME NEW w \in LegWires, RemovePort(w) PROVE LegInv'
    <2>1. CASE ports[w].kind = "other"
      <3>1. Ends("refused") /\ UNCHANGED <<shape, there, leg, ports, alien, upsets>>
        BY <1>15, <2>1 DEF RemovePort, Refuses
      <3>2. alien = "no" /\ cut = "no" => job.undisturbed = "no"
        BY <1>15, <2>1, LegBuildAssumption DEF RemovePort, LegInv, FlipInv, ApplyInv, BondWhole,
           OursOf, Identity, LegBuildTypeOK, Legs
      <3>3. job.at \notin {"idle", "done"}
        BY <1>15 DEF RemovePort
      <3> QED BY <3>1, <3>2, <3>3, EndsKeeps
    <2>2. CASE ports[w].kind # "other"
      <3>1. /\ job.at = "unport" /\ w \in job.todo /\ ports' = [ports EXCEPT ![w] = NoPort]
            /\ job' = [job EXCEPT !.todo = @ \ {w}]
            /\ UNCHANGED <<shape, there, leg, result, cut, alien, upsets>>
        BY <1>15, <2>2 DEF RemovePort, Refuses
      <3>2. LegBuildTypeOK'
        BY <2>2, <3>1, LegBuildAssumption DEF LegInv, LegBuildTypeOK, Legs, NoLeg, NoPort, NoJob,
           NoResult
      <3>3. ApplyInv'
        BY <2>2, <3>1, LegBuildAssumption DEF LegInv, ApplyInv, ShapeDone, BondWhole, OursOf,
           BondComplete, VlanComplete, Identity, NoLeg, NoPort, NoJob, NoResult, LegBuildTypeOK,
           Legs
      <3>4. FlipInv'
        BY <2>2, <3>1, LegBuildAssumption DEF LegInv, FlipInv, ApplyInv, BondWhole, OursOf,
           ShapeDone, Identity, NoLeg, NoPort, NoJob, NoResult, LegBuildTypeOK, Legs
      <3>5. BuiltAsDeclared'
        BY <3>1 DEF LegInv, FlipInv, NoResult, BuiltAsDeclared
      <3>6. FlipsUnlessCut'
        BY <3>1 DEF LegInv, FlipInv, NoResult, FlipsUnlessCut, Homeless
      <3> QED BY <3>2, <3>3, <3>4, <3>5, <3>6 DEF LegInv
    <2> QED
      BY <1>15, <2>1, <2>2 DEF RemovePort
  <1>16. ASSUME NEW w \in LegWires, AddBondPort(w) PROVE LegInv'
    <2>1. CASE ports[w].kind = "other"
      <3>1. /\ job.at = "port" /\ w \in job.todo /\ ports' = [ports EXCEPT ![w] = NoPort]
            /\ UNCHANGED <<shape, there, leg, job, result, cut, alien, upsets>>
        BY <1>16, <2>1 DEF AddBondPort, DropForeignPort, AddPort, Enslave, Refuses
      <3>2. LegBuildTypeOK'
        BY <2>1, <3>1, LegBuildAssumption DEF LegInv, Taken, LegBuildTypeOK, Legs, NoLeg, NoPort,
           NoJob, NoResult
      <3>3. ApplyInv'
        BY <2>1, <3>1, LegBuildAssumption DEF LegInv, Taken, ApplyInv, ShapeDone, BondWhole,
           OursOf, BondComplete, VlanComplete, Identity, NoLeg, NoPort, NoJob, NoResult,
           LegBuildTypeOK, Legs
      <3>4. FlipInv'
        BY <2>1, <3>1, LegBuildAssumption DEF LegInv, Taken, FlipInv, ApplyInv, BondWhole, OursOf,
           ShapeDone, Identity, NoLeg, NoPort, NoJob, NoResult, LegBuildTypeOK, Legs
      <3>5. BuiltAsDeclared'
        BY <3>1 DEF LegInv, FlipInv, NoResult, BuiltAsDeclared
      <3>6. FlipsUnlessCut'
        BY <3>1 DEF LegInv, FlipInv, NoResult, FlipsUnlessCut, Homeless
      <3> QED BY <3>2, <3>3, <3>4, <3>5, <3>6 DEF LegInv
    <2>2. CASE ports[w].kind = "none" /\ w \in there /\ ~Taken(w)
      <3>1. /\ job.at = "port" /\ w \in job.todo
            /\ ports' = [ports EXCEPT ![w] = [kind |-> "vlan", master |-> "none"]]
            /\ UNCHANGED <<shape, there, leg, job, result, cut, alien, upsets>>
        BY <1>16, <2>2 DEF AddBondPort, DropForeignPort, AddPort, Enslave, Refuses
      <3>2. LegBuildTypeOK'
        BY <2>2, <3>1, LegBuildAssumption DEF LegInv, Taken, LegBuildTypeOK, Legs, NoLeg, NoPort,
           NoJob, NoResult
      <3>3. ApplyInv'
        BY <2>2, <3>1, LegBuildAssumption DEF LegInv, Taken, ApplyInv, ShapeDone, BondWhole,
           OursOf, BondComplete, VlanComplete, Identity, NoLeg, NoPort, NoJob, NoResult,
           LegBuildTypeOK, Legs
      <3>4. FlipInv'
        BY <2>2, <3>1, LegBuildAssumption DEF LegInv, Taken, FlipInv, ApplyInv, BondWhole, OursOf,
           ShapeDone, Identity, NoLeg, NoPort, NoJob, NoResult, LegBuildTypeOK, Legs
      <3>5. BuiltAsDeclared'
        BY <3>1 DEF LegInv, FlipInv, NoResult, BuiltAsDeclared
      <3>6. FlipsUnlessCut'
        BY <3>1 DEF LegInv, FlipInv, NoResult, FlipsUnlessCut, Homeless
      <3> QED BY <3>2, <3>3, <3>4, <3>5, <3>6 DEF LegInv
    <2>3. CASE ports[w].kind = "none" /\ (w \notin there \/ Taken(w))
      <3>1. Ends("failed") /\ UNCHANGED <<shape, there, leg, ports, alien, upsets>>
        BY <1>16, <2>3 DEF AddBondPort, DropForeignPort, AddPort, Enslave, Refuses
      <3>2. alien = "no" /\ cut = "no" => job.undisturbed = "no"
        BY <1>16, <2>3, LegBuildAssumption DEF AddBondPort, LegInv, FlipInv, ApplyInv, BondWhole,
           OursOf, Identity, Taken, LegBuildTypeOK, Legs
      <3>3. job.at \notin {"idle", "done"}
        BY <1>16 DEF AddBondPort
      <3> QED BY <3>1, <3>2, <3>3, EndsKeeps
    <2>4. CASE ports[w].kind = "vlan" /\ ports[w].master = "else"
      <3>1. Ends("refused") /\ UNCHANGED <<shape, there, leg, ports, alien, upsets>>
        BY <1>16, <2>4 DEF AddBondPort, DropForeignPort, AddPort, Enslave, Refuses
      <3>2. alien = "no" /\ cut = "no" => job.undisturbed = "no"
        BY <1>16, <2>4, LegBuildAssumption DEF AddBondPort, LegInv, FlipInv, ApplyInv, BondWhole,
           OursOf, Identity, Taken, LegBuildTypeOK, Legs
      <3>3. job.at \notin {"idle", "done"}
        BY <1>16 DEF AddBondPort
      <3> QED BY <3>1, <3>2, <3>3, EndsKeeps
    <2>5. CASE ports[w].kind = "vlan" /\ ports[w].master = "none" /\ leg.kind = "bond"
      <3>1. /\ job.at = "port" /\ w \in job.todo
            /\ ports' = [ports EXCEPT ![w] = [kind |-> "vlan", master |-> "leg"]]
            /\ UNCHANGED <<shape, there, leg, job, result, cut, alien, upsets>>
        BY <1>16, <2>5 DEF AddBondPort, DropForeignPort, AddPort, Enslave, Refuses
      <3>2. LegBuildTypeOK'
        BY <2>5, <3>1, LegBuildAssumption DEF LegInv, Taken, LegBuildTypeOK, Legs, NoLeg, NoPort,
           NoJob, NoResult
      <3>3. ApplyInv'
        BY <2>5, <3>1, LegBuildAssumption DEF LegInv, Taken, ApplyInv, ShapeDone, BondWhole,
           OursOf, BondComplete, VlanComplete, Identity, NoLeg, NoPort, NoJob, NoResult,
           LegBuildTypeOK, Legs
      <3>4. FlipInv'
        BY <2>5, <3>1, LegBuildAssumption DEF LegInv, Taken, FlipInv, ApplyInv, BondWhole, OursOf,
           ShapeDone, Identity, NoLeg, NoPort, NoJob, NoResult, LegBuildTypeOK, Legs
      <3>5. BuiltAsDeclared'
        BY <3>1 DEF LegInv, FlipInv, NoResult, BuiltAsDeclared
      <3>6. FlipsUnlessCut'
        BY <3>1 DEF LegInv, FlipInv, NoResult, FlipsUnlessCut, Homeless
      <3> QED BY <3>2, <3>3, <3>4, <3>5, <3>6 DEF LegInv
    <2>6. CASE ports[w].kind = "vlan" /\ ports[w].master = "none" /\ leg.kind # "bond"
      <3>1. Ends("failed") /\ UNCHANGED <<shape, there, leg, ports, alien, upsets>>
        BY <1>16, <2>6 DEF AddBondPort, DropForeignPort, AddPort, Enslave, Refuses
      <3>2. alien = "no" /\ cut = "no" => job.undisturbed = "no"
        BY <1>16, <2>6, LegBuildAssumption DEF AddBondPort, LegInv, FlipInv, ApplyInv, BondWhole,
           OursOf, Identity, Taken, LegBuildTypeOK, Legs
      <3>3. job.at \notin {"idle", "done"}
        BY <1>16 DEF AddBondPort
      <3> QED BY <3>1, <3>2, <3>3, EndsKeeps
    <2>7. CASE ports[w].kind = "vlan" /\ ports[w].master = "leg"
      <3>1. /\ job.at = "port" /\ w \in job.todo /\ job' = [job EXCEPT !.todo = @ \ {w}]
            /\ UNCHANGED <<shape, there, leg, ports, result, cut, alien, upsets>>
        BY <1>16, <2>7 DEF AddBondPort, DropForeignPort, AddPort, Enslave, Refuses
      <3>2. LegBuildTypeOK'
        BY <2>7, <3>1, LegBuildAssumption DEF LegInv, Taken, LegBuildTypeOK, Legs, NoLeg, NoPort,
           NoJob, NoResult
      <3>3. ApplyInv'
        BY <2>7, <3>1, LegBuildAssumption DEF LegInv, Taken, ApplyInv, ShapeDone, BondWhole,
           OursOf, BondComplete, VlanComplete, Identity, NoLeg, NoPort, NoJob, NoResult,
           LegBuildTypeOK, Legs
      <3>4. FlipInv'
        BY <2>7, <3>1, LegBuildAssumption DEF LegInv, Taken, FlipInv, ApplyInv, BondWhole, OursOf,
           ShapeDone, Identity, NoLeg, NoPort, NoJob, NoResult, LegBuildTypeOK, Legs
      <3>5. BuiltAsDeclared'
        BY <3>1 DEF LegInv, FlipInv, NoResult, BuiltAsDeclared
      <3>6. FlipsUnlessCut'
        BY <3>1 DEF LegInv, FlipInv, NoResult, FlipsUnlessCut, Homeless
      <3> QED BY <3>2, <3>3, <3>4, <3>5, <3>6 DEF LegInv
    <2> QED
      BY <1>16, <2>1, <2>2, <2>3, <2>4, <2>5, <2>6, <2>7 DEF AddBondPort, DropForeignPort, AddPort,
         Enslave
  <1>17. ASSUME NEW w \in LegWires, WireGoes(w) PROVE LegInv'
    <2>1. LegBuildTypeOK'
      BY <1>17, LegBuildAssumption DEF LegInv, WireGoes, Disturbed, Upset, LegBuildTypeOK, Legs,
         NoLeg, NoPort, NoJob, NoResult
    <2>2. ApplyInv'
      BY <1>17, LegBuildAssumption DEF LegInv, WireGoes, Disturbed, Upset, ApplyInv, ShapeDone,
         BondWhole, OursOf, BondComplete, VlanComplete, Identity, NoLeg, NoPort, NoJob, NoResult,
         LegBuildTypeOK, Legs
    <2>3. FlipInv'
      BY <1>17, LegBuildAssumption DEF LegInv, WireGoes, Disturbed, Upset, FlipInv, ApplyInv,
         BondWhole, OursOf, ShapeDone, Identity, NoLeg, NoPort, NoJob, NoResult, LegBuildTypeOK,
         Legs
    <2>4. BuiltAsDeclared'
      BY <1>17, LegBuildAssumption DEF LegInv, WireGoes, Disturbed, Upset, BuiltAsDeclared,
         ApplyInv, ShapeDone, BondComplete, VlanComplete, NoLeg, NoPort, NoJob, NoResult,
         LegBuildTypeOK, Legs
    <2>5. FlipsUnlessCut'
      BY <1>17, LegBuildAssumption DEF LegInv, WireGoes, Disturbed, Upset, FlipsUnlessCut, Homeless, FlipInv,
         ApplyInv, BondWhole, OursOf, Identity, NoLeg, NoPort, NoJob, NoResult, LegBuildTypeOK, Legs
    <2> QED BY <2>1, <2>2, <2>3, <2>4, <2>5 DEF LegInv
  <1>18. ASSUME NEW w \in LegWires, WireReturns(w) PROVE LegInv'
    <2>1. LegBuildTypeOK'
      BY <1>18, LegBuildAssumption DEF LegInv, WireReturns, Disturbed, Upset, LegBuildTypeOK, Legs,
         NoLeg, NoPort, NoJob, NoResult
    <2>2. ApplyInv'
      BY <1>18, LegBuildAssumption DEF LegInv, WireReturns, Disturbed, Upset, ApplyInv, ShapeDone,
         BondWhole, OursOf, BondComplete, VlanComplete, Identity, NoLeg, NoPort, NoJob, NoResult,
         LegBuildTypeOK, Legs
    <2>3. FlipInv'
      BY <1>18, LegBuildAssumption DEF LegInv, WireReturns, Disturbed, Upset, FlipInv, ApplyInv,
         BondWhole, OursOf, ShapeDone, Identity, NoLeg, NoPort, NoJob, NoResult, LegBuildTypeOK,
         Legs
    <2>4. BuiltAsDeclared'
      BY <1>18, LegBuildAssumption DEF LegInv, WireReturns, Disturbed, Upset, BuiltAsDeclared,
         ApplyInv, ShapeDone, BondComplete, VlanComplete, NoLeg, NoPort, NoJob, NoResult,
         LegBuildTypeOK, Legs
    <2>5. FlipsUnlessCut'
      BY <1>18, LegBuildAssumption DEF LegInv, WireReturns, Disturbed, Upset, FlipsUnlessCut, Homeless,
         FlipInv, ApplyInv, BondWhole, OursOf, Identity, NoLeg, NoPort, NoJob, NoResult,
         LegBuildTypeOK, Legs
    <2> QED BY <2>1, <2>2, <2>3, <2>4, <2>5 DEF LegInv
  <1>19. ASSUME NEW w \in LegWires, StrangerTakesPort(w) PROVE LegInv'
    <2>1. LegBuildTypeOK'
      BY <1>19, LegBuildAssumption DEF LegInv, StrangerTakesPort, Disturbed, Upset, LegBuildTypeOK,
         Legs, NoLeg, NoPort, NoJob, NoResult
    <2>2. ApplyInv'
      BY <1>19, LegBuildAssumption DEF LegInv, StrangerTakesPort, Disturbed, Upset, ApplyInv,
         ShapeDone, BondWhole, OursOf, BondComplete, VlanComplete, Identity, NoLeg, NoPort, NoJob,
         NoResult, LegBuildTypeOK, Legs
    <2>3. FlipInv'
      BY <1>19, LegBuildAssumption DEF LegInv, StrangerTakesPort, Disturbed, Upset, FlipInv,
         ApplyInv, BondWhole, OursOf, ShapeDone, Identity, NoLeg, NoPort, NoJob, NoResult,
         LegBuildTypeOK, Legs
    <2>4. BuiltAsDeclared'
      BY <1>19, LegBuildAssumption DEF LegInv, StrangerTakesPort, Disturbed, Upset,
         BuiltAsDeclared, ApplyInv, ShapeDone, BondComplete, VlanComplete, NoLeg, NoPort, NoJob,
         NoResult, LegBuildTypeOK, Legs
    <2>5. FlipsUnlessCut'
      BY <1>19, LegBuildAssumption DEF LegInv, StrangerTakesPort, Disturbed, Upset, FlipsUnlessCut, Homeless,
         FlipInv, ApplyInv, BondWhole, OursOf, Identity, NoLeg, NoPort, NoJob, NoResult,
         LegBuildTypeOK, Legs
    <2> QED BY <2>1, <2>2, <2>3, <2>4, <2>5 DEF LegInv
  <1>20. CASE InstallDefault
    <2>1. CASE leg.kind # "none" /\ GoTo("done") /\ UNCHANGED <<result, cut>>
      <3>1. /\ job.at = "default" /\ job' = [job EXCEPT !.at = "done"]
            /\ UNCHANGED <<shape, there, leg, ports, result, cut, alien, upsets>>
        BY <1>20, <2>1 DEF InstallDefault, GoTo
      <3>2. LegBuildTypeOK'
        BY <3>1 DEF LegInv, LegBuildTypeOK
      <3>3. ApplyInv'
        BY <3>1 DEF LegInv, LegBuildTypeOK, ApplyInv, ShapeDone, BondComplete, VlanComplete
      <3>4. FlipInv'
        BY <2>1, <3>1 DEF LegInv, LegBuildTypeOK, Legs, FlipInv, ApplyInv
      <3>5. BuiltAsDeclared'
        BY <3>1 DEF LegInv, FlipInv, NoResult, BuiltAsDeclared
      <3>6. FlipsUnlessCut'
        BY <3>1 DEF LegInv, FlipInv, NoResult, FlipsUnlessCut
      <3> QED BY <3>2, <3>3, <3>4, <3>5, <3>6 DEF LegInv
    <2>2. CASE (leg.kind = "none" \/ leg.addr = "no") /\ Ends("failed")
      <3>1. /\ job.at = "default" /\ job.op = "apply" /\ Ends("failed") /\ cut' = cut
            /\ UNCHANGED <<shape, there, leg, ports, alien, upsets>>
        BY <1>20, <2>2 DEF InstallDefault, LegInv, FlipInv, Ends, CutNow
      <3>2. LegBuildTypeOK'
        BY <3>1 DEF LegInv, LegBuildTypeOK, Ends, NoJob
      <3>3. ApplyInv'
        BY <3>1 DEF Ends, NoJob, ApplyInv
      <3>4. FlipInv'
        BY <3>1 DEF LegInv, FlipInv, Ends, NoJob, LegBuildTypeOK
      <3>5. BuiltAsDeclared'
        BY <3>1 DEF Ends, BuiltAsDeclared
      <3>6. ASSUME job.undisturbed = "yes", alien = "no", cut = "no"
            PROVE  /\ shape = "vlan" /\ HomeWire \notin job.kept
                   /\ \A w \in LegWires : ports[w].kind = "none"
        <4>1. shape = "vlan" /\ HomeWire \notin job.kept
          BY <2>2, <3>1, <3>6 DEF LegInv, LegBuildTypeOK, ApplyInv, ShapeDone, BondComplete, VlanComplete
        <4>2. leg.kind # "bond"
          BY <3>1, <3>6, <4>1 DEF LegInv, FlipInv
        <4>3. \A w \in LegWires : ports[w].kind \in {"none", "vlan", "other"}
          BY DEF LegInv, LegBuildTypeOK
        <4> QED BY <3>1, <3>6, <4>1, <4>2, <4>3 DEF LegInv, FlipInv
      <3>7. FlipsUnlessCut'
        BY <3>1, <3>6 DEF Ends, FlipsUnlessCut, Homeless, LegInv, LegBuildTypeOK
      <3> QED BY <3>2, <3>3, <3>4, <3>5, <3>7 DEF LegInv
    <2> QED BY <1>20, <2>1, <2>2 DEF InstallDefault
  <1>21. CASE UNCHANGED lbVars
    BY <1>21 DEF LegInv, lbVars, LegBuildTypeOK, ApplyInv, ShapeDone, BondWhole, OursOf,
       BondComplete,
                VlanComplete, Identity, FlipInv, BuiltAsDeclared, FlipsUnlessCut, Homeless
  <1> QED
    BY <1>1, <1>2, <1>3, <1>4, <1>5, <1>6, <1>7, <1>8, <1>9, <1>10, <1>11, <1>12, <1>13, <1>14,
       <1>15, <1>16, <1>17, <1>18, <1>19, <1>20, <1>21 DEF LegBuildNext

\* The netdevs that mk_bond_leg, mk_vlan and remove_gw_leg make and delete, the job and its
\* result keep their types, for any wires and however much goes wrong.
THEOREM LegBuildTypes == LegBuildSpec => []LegBuildTypeOK
  <1>1. LegInv /\ [LegBuildNext]_lbVars => LegInv'
    BY LegStepKeeps
  <1>2. LegInv => LegBuildTypeOK
    BY DEF LegInv
  <1> QED BY LegInitHolds, <1>1, <1>2, PTL DEF LegBuildSpec

\* apply's success means what it says of the ingress leg (replace_a_wrong_shape_gw_leg and the
\* builders after it, apply.rs): declared shape, every port, primary, address, for any wires
\* and any past.
THEOREM LegIsWhole == LegBuildSpec => []BuiltAsDeclared
  <1>1. LegInv /\ [LegBuildNext]_lbVars => LegInv'
    BY LegStepKeeps
  <1>2. LegInv => BuiltAsDeclared
    BY DEF LegInv
  <1> QED BY LegInitHolds, <1>1, <1>2, PTL DEF LegBuildSpec

\* A declaration may be flipped and flipped back past every failure but one: a remove_gw_leg
\* (teardown.rs) that ended after the bond and before its last port.  An apply of the plain shape
\* without its home wire fails at the return default (apply.rs), and leaves the flip done.
THEOREM LegFlips == LegBuildSpec => []FlipsUnlessCut
  <1>1. LegInv /\ [LegBuildNext]_lbVars => LegInv'
    BY LegStepKeeps
  <1>2. LegInv => FlipsUnlessCut
    BY DEF LegInv
  <1> QED BY LegInitHolds, <1>1, <1>2, PTL DEF LegBuildSpec

\* Both at once: what the owner of a declaration relies on when the shape of an ingress leg
\* is changed (apply.rs, teardown.rs).
THEOREM LegStaysSound == LegBuildSpec => []LegSound
  BY LegIsWhole, LegFlips, PTL DEF LegSound

-----------------------------------------------------------------------------
(* check and apply. *)

Apt(r)   == "present" \in holds[r] => "aware" \in holds[r]
Whole(r) == holds[r] = Facts

\* The loop's own place, and the rows it has still to place.
WalkInv ==
    /\ verb = "none" => unseen = {} /\ atRow = {}
    /\ atRow = {} <=> probe = 0
    /\ atRow # {} => (\E r \in PfRows : atRow = {r}) /\ probe <= Len(FactReads)
    /\ atRow \cap unseen = {}

ApplyRuns == verb \in {"apply-preflight", "apply-pass"}

PlacedInv ==
    /\ ready \cap deferred = {}
    /\ ApplyRuns => said.apply = "nothing"
    /\ verb = "apply-preflight" => ready = {} /\ deferred = {}
    /\ verb = "apply-pass" => /\ ready \cup deferred = PfRows \ (unseen \cup atRow)
    /\ said.apply = "ok" => ready \cup deferred = PfRows

\* What an apply knows of a host that stands still.
ApplySteady ==
    "apply" \in steady =>
        /\ said.apply = "ok" => /\ \A r \in PfRows : Apt(r)
                                /\ \A r \in ready : Whole(r)
                                /\ \A r \in deferred : ~Whole(r)
        /\ said.apply = "refused" => \E r \in PfRows : ~Apt(r)
        /\ verb = "apply-preflight" =>
               /\ \A r \in PfRows \ (unseen \cup atRow) : Apt(r)
               /\ \A r \in atRow : probe = 2 => "present" \in holds[r]
        /\ verb = "apply-pass" =>
               /\ \A r \in PfRows : Apt(r)
               /\ \A r \in ready : Whole(r)
               /\ \A r \in deferred : ~Whole(r)
               /\ \A r \in atRow : \A k \in 1..(probe - 1) : PassReads[k] \in holds[r]

CheckSteady ==
    "check" \in steady =>
        /\ said.apply # "nothing" \/ ApplyRuns => "apply" \in steady
        /\ said.check = "ok" => \A r \in PfRows : Apt(r)
        /\ said.check = "refused" => \E r \in PfRows : ~Apt(r)
        /\ \A r \in warned : "local" \notin holds[r]
        /\ verb = "check-preflight" =>
               /\ \A r \in PfRows \ (unseen \cup atRow) : Apt(r)
               /\ \A r \in atRow : probe = 2 => "present" \in holds[r]
        /\ verb = "check-warnings" => \A r \in PfRows : Apt(r)

PreflightInv == PreflightTypeOK /\ WalkInv /\ PlacedInv /\ ApplySteady /\ CheckSteady

\* The reads, by verb.
LEMMA ReadsAre ==
    /\ verb \in {"check-preflight", "apply-preflight"} =>
           Len(FactReads) = 2 /\ FactReads[1] = "present" /\ FactReads[2] = "aware"
    /\ verb = "check-warnings" =>
           Len(FactReads) = 3 /\ FactReads[1] = "present" /\ FactReads[2] = "uplink" /\ FactReads[3] = "local"
    /\ verb \in {"none", "apply-pass"} => FactReads = PassReads
    /\ Len(PassReads) = 5 /\ PassReads[1] = "present" /\ PassReads[2] = "uplink"
    /\ PassReads[3] = "forwarding" /\ PassReads[4] = "unheld" /\ PassReads[5] = "local"
  BY DEF FactReads, PreflightReads, WarningReads, PassReads

\* Neither verb has begun.
LEMMA PreflightInitHolds == PreflightInit => PreflightInv
  <1> SUFFICES ASSUME PreflightInit PROVE PreflightInv
    OBVIOUS
  <1>1. PreflightTypeOK
    BY PreflightAssumption DEF PreflightInit, PreflightTypeOK, NoBridge, Facts
  <1>2. WalkInv /\ PlacedInv
    BY DEF PreflightInit, WalkInv, PlacedInv, ApplyRuns
  <1>3. ApplySteady /\ CheckSteady
    BY DEF PreflightInit, ApplySteady, CheckSteady
  <1> QED BY <1>1, <1>2, <1>3 DEF PreflightInv

\* A read that is answered.
LEMMA FindsKeeps ==
    ASSUME PreflightInv, Finds
    PROVE  PreflightInv'
  <1>0. PICK r \in PfRows : atRow = {r}
    BY DEF Finds, PreflightInv, WalkInv
  <1>1. probe \in 1..Len(FactReads) /\ Len(FactReads) \in {2, 3, 5} /\ FactReads[probe] \in holds[r]
    BY <1>0, ReadsAre DEF Finds, Answer, PreflightInv, PreflightTypeOK, WalkInv
  <1>2. PreflightTypeOK'
    <2>0. (probe < Len(FactReads) /\ probe' = probe + 1) \/ probe' = 0
      BY Zenon DEF Finds, NextRow
    <2>1. probe' \in 0..5
      <3>1. \A n \in {2, 3, 5} : \A p \in 1..n : p < n => p + 1 \in 0..5
        OBVIOUS
      <3>2. 0 \in 0..5
        OBVIOUS
      <3> QED BY <1>1, <2>0, <3>1, <3>2, ZenonT(60)
    <2>2. atRow' \subseteq PfRows /\ ready' \subseteq PfRows
      BY DEF Finds, NextRow, PreflightInv, PreflightTypeOK
    <2>3. UNCHANGED <<holds, verb, unseen, said, warned, deferred, steady, pfUpsets>>
      BY DEF Finds
    <2> QED BY <2>1, <2>2, <2>3 DEF PreflightInv, PreflightTypeOK
  <1>3. UNCHANGED <<holds, verb, unseen, said, warned, deferred, steady>> /\ FactReads' = FactReads
    BY DEF Finds, FactReads
  <1>4. CASE probe < Len(FactReads)
    <2>1. probe' = probe + 1 /\ UNCHANGED <<atRow, ready>>
      BY <1>4 DEF Finds
    <2>2. WalkInv'
      BY <1>0, <1>1, <1>3, <1>4, <2>1 DEF PreflightInv, WalkInv
    <2>3. PlacedInv'
      BY <1>3, <2>1 DEF PreflightInv, PlacedInv, ApplyRuns
    <2>4. ApplySteady'
      BY <1>0, <1>1, <1>3, <2>1, ReadsAre DEF PreflightInv, ApplySteady, Apt, Whole
    <2>5. CheckSteady'
      BY <1>0, <1>1, <1>3, <2>1, ReadsAre DEF PreflightInv, CheckSteady, ApplyRuns, Apt
    <2> QED BY <1>2, <2>2, <2>3, <2>4, <2>5 DEF PreflightInv
  <1>5. CASE ~(probe < Len(FactReads))
    <2>1. /\ probe' = 0 /\ atRow' = {} /\ probe = Len(FactReads)
          /\ ready' = IF verb = "apply-pass" THEN ready \cup {r} ELSE ready
      BY <1>0, <1>1, <1>5 DEF Finds, NextRow
    <2>2. WalkInv'
      BY <1>3, <2>1 DEF PreflightInv, WalkInv
    <2>3. PlacedInv'
      BY <1>0, <1>3, <2>1 DEF PreflightInv, PlacedInv, ApplyRuns, WalkInv, PreflightTypeOK
    <2>4. ApplySteady'
      <3>1. ASSUME verb = "apply-pass", "apply" \in steady PROVE Whole(r)
        <4>1. probe = 5 /\ FactReads = PassReads
          BY <2>1, <3>1, ReadsAre
        <4>2. \A k \in 1..4 : PassReads[k] \in holds[r]
          BY <1>0, <3>1, <4>1 DEF PreflightInv, ApplySteady
        <4>3. {"present", "uplink", "forwarding", "unheld", "local"} \subseteq holds[r]
          BY <1>1, <4>1, <4>2, ReadsAre
        <4>4. "aware" \in holds[r] /\ holds[r] \subseteq Facts
          BY <3>1, <4>3 DEF PreflightInv, ApplySteady, Apt, PreflightTypeOK
        <4> QED BY <4>3, <4>4 DEF Whole, Facts
      <3>2. verb = "apply-preflight" => FactReads[probe] = "aware"
        BY <2>1, ReadsAre
      <3> QED BY <1>0, <1>1, <1>3, <2>1, <3>1, <3>2 DEF PreflightInv, ApplySteady, Apt, Whole,
                 PlacedInv, ApplyRuns
    <2>5. CheckSteady'
      <3>1. verb = "check-preflight" => FactReads[probe] = "aware"
        BY <2>1, ReadsAre
      <3> QED BY <1>0, <1>1, <1>3, <2>1, <3>1 DEF PreflightInv, CheckSteady, ApplyRuns, Apt
    <2> QED BY <1>2, <2>2, <2>3, <2>4, <2>5 DEF PreflightInv
  <1> QED BY <1>4, <1>5

\* A read that is not answered, or not as the row needs; the host may be at work.
LEMMA LacksKeeps ==
    ASSUME PreflightInv, atRow # {}, Lacks(FactReads[probe]), UNCHANGED holds, pfUpsets' \in 0..MaxPfUpsets,
           steady' = {} \/ (steady' = steady /\ ~Answer(FactReads[probe]))
    PROVE  PreflightInv'
  <1>0. PICK r \in PfRows : atRow = {r}
    BY DEF PreflightInv, WalkInv
  <1>1. probe \in 1..Len(FactReads) /\ Len(FactReads) \in {2, 3, 5}
    BY <1>0, ReadsAre DEF PreflightInv, PreflightTypeOK, WalkInv
  <1>2. steady' # {} => steady' = steady /\ FactReads[probe] \notin holds[r]
    BY <1>0 DEF Answer
  <1>9. steady' \subseteq {"check", "apply"} /\ atRow \subseteq PfRows
    BY DEF PreflightInv, PreflightTypeOK
  <1>3. CASE verb \in {"check-preflight", "apply-preflight"} /\ FactReads[probe] = "present" /\ Skip
    <2>1. UNCHANGED <<holds, verb, unseen, said, warned, deferred, ready>> /\ atRow' = {} /\ probe' = 0
      BY <1>3 DEF Skip, NextRow
    <2>2. PreflightTypeOK'
      BY <1>9, <2>1 DEF PreflightInv, PreflightTypeOK
    <2>3. WalkInv' /\ PlacedInv'
      BY <1>0, <1>3, <2>1 DEF PreflightInv, WalkInv, PlacedInv, ApplyRuns
    <2>4. ApplySteady'
      BY <1>0, <1>2, <1>3, <2>1 DEF PreflightInv, ApplySteady, Apt, Whole
    <2>5. CheckSteady'
      BY <1>0, <1>2, <1>3, <2>1 DEF PreflightInv, CheckSteady, ApplyRuns, Apt
    <2> QED BY <2>2, <2>3, <2>4, <2>5 DEF PreflightInv
  <1>4. CASE verb \in {"check-preflight", "apply-preflight"} /\ FactReads[probe] = "aware" /\ Refuse
    <2>1. /\ UNCHANGED <<holds, warned, deferred, ready>> /\ atRow' = {} /\ probe' = 0
          /\ verb' = "none" /\ unseen' = {} /\ said' = [said EXCEPT ![Verb] = "refused"]
      BY <1>4 DEF Refuse, NextRow
    <2>2. PreflightTypeOK'
      BY <1>9, <2>1 DEF PreflightInv, PreflightTypeOK, Verb
    <2>3. WalkInv' /\ PlacedInv'
      BY <1>4, <2>1 DEF PreflightInv, PreflightTypeOK, WalkInv, PlacedInv, ApplyRuns, Verb
    <2>4. probe = 2
      BY <1>1, <1>4, ReadsAre
    <2>5. ApplySteady'
      BY <1>0, <1>2, <1>4, <2>1, <2>4 DEF PreflightInv, PreflightTypeOK, ApplySteady, Apt, Whole,
         Verb
    <2>6. CheckSteady'
      BY <1>0, <1>2, <1>4, <2>1, <2>4 DEF PreflightInv, PreflightTypeOK, CheckSteady, ApplyRuns,
         Apt, Verb
    <2> QED BY <2>2, <2>3, <2>5, <2>6 DEF PreflightInv
  <1>5. CASE verb = "check-warnings" /\ FactReads[probe] # "local" /\ Skip
    <2>1. UNCHANGED <<holds, verb, unseen, said, warned, deferred, ready>> /\ atRow' = {} /\ probe' = 0
      BY <1>5 DEF Skip, NextRow
    <2>2. PreflightTypeOK'
      BY <1>9, <2>1 DEF PreflightInv, PreflightTypeOK
    <2>3. WalkInv' /\ PlacedInv'
      BY <1>5, <2>1 DEF PreflightInv, WalkInv, PlacedInv, ApplyRuns
    <2>4. ApplySteady' /\ CheckSteady'
      BY <1>2, <1>5, <2>1 DEF PreflightInv, ApplySteady, CheckSteady, ApplyRuns, Apt, Whole
    <2> QED BY <2>2, <2>3, <2>4 DEF PreflightInv
  <1>6. CASE verb = "check-warnings" /\ FactReads[probe] = "local" /\ warned' = warned \cup atRow
             /\ NextRow /\ UNCHANGED <<verb, unseen, said, deferred, ready>>
    <2>2. PreflightTypeOK'
      BY <1>9, <1>6 DEF PreflightInv, PreflightTypeOK, NextRow
    <2>3. WalkInv' /\ PlacedInv'
      BY <1>6 DEF PreflightInv, WalkInv, PlacedInv, ApplyRuns, NextRow
    <2>4. ApplySteady' /\ CheckSteady'
      BY <1>0, <1>2, <1>6 DEF PreflightInv, ApplySteady, CheckSteady, ApplyRuns, Apt, Whole, NextRow
    <2> QED BY <2>2, <2>3, <2>4 DEF PreflightInv
  <1>7. CASE verb = "apply-pass" /\ deferred' = deferred \cup atRow
             /\ NextRow /\ UNCHANGED <<verb, unseen, said, warned, ready>>
    <2>2. PreflightTypeOK'
      BY <1>9, <1>7 DEF PreflightInv, PreflightTypeOK, NextRow
    <2>3. WalkInv' /\ PlacedInv'
      BY <1>0, <1>7 DEF PreflightInv, WalkInv, PlacedInv, ApplyRuns, NextRow, PreflightTypeOK
    <2>4. steady' # {} => ~Whole(r)
      <3>0. FactReads = PassReads /\ Len(FactReads) = 5
        BY <1>7, ReadsAre
      <3>1. probe \in {1, 2, 3, 4, 5} /\ FactReads = PassReads
        BY <1>1, <3>0
      <3>2. PassReads[probe] \in Facts
        BY <3>1, ReadsAre DEF Facts
      <3> QED BY <1>2, <3>1, <3>2 DEF Whole
    <2>5. ApplySteady' /\ CheckSteady'
      BY <1>0, <1>2, <1>7, <2>4 DEF PreflightInv, PlacedInv, ApplySteady, CheckSteady, ApplyRuns,
         Apt, Whole, NextRow
    <2> QED BY <2>2, <2>3, <2>5 DEF PreflightInv
  <1> QED BY <1>3, <1>4, <1>5, <1>6, <1>7 DEF Lacks

\* Every read and every change of the host keeps PreflightInv.
LEMMA PreflightStepKeeps ==
    ASSUME PreflightInv, [PreflightNext]_pfVars
    PROVE  PreflightInv'
  <1>1. CASE CheckStarts
    BY <1>1 DEF CheckStarts, PreflightInv, PreflightTypeOK, WalkInv, PlacedInv, ApplyRuns,
       ApplySteady, CheckSteady
  <1>2. CASE CheckNoMember
    BY <1>2 DEF CheckNoMember, PreflightInv, PreflightTypeOK, WalkInv, PlacedInv, ApplyRuns,
       ApplySteady, CheckSteady
  <1>3. CASE ApplyStarts
    <2>1. PreflightTypeOK' /\ WalkInv' /\ PlacedInv'
      BY <1>3 DEF ApplyStarts, PreflightInv, PreflightTypeOK, WalkInv, PlacedInv, ApplyRuns
    <2>2. ApplySteady' /\ CheckSteady'
      BY <1>3 DEF ApplyStarts, PreflightInv, PreflightTypeOK, WalkInv, ApplyRuns, ApplySteady,
         CheckSteady, Apt
    <2> QED BY <2>1, <2>2 DEF PreflightInv
  <1>4. CASE Finds
    BY <1>4, FindsKeeps
  <1>5. CASE Misses
    <2>1. pfUpsets' \in 0..MaxPfUpsets
      BY <1>5 DEF Misses, PreflightInv, PreflightTypeOK
    <2> QED BY <1>5, <2>1, LacksKeeps DEF Misses
  <1>6. CASE ProbeFails
    <2>1. pfUpsets' \in 0..MaxPfUpsets
      BY <1>6, PreflightAssumption DEF ProbeFails, PfUpset, PreflightInv, PreflightTypeOK
    <2> QED BY <1>6, <2>1, LacksKeeps DEF ProbeFails, PfUpset
  <1>7. CASE LoopEnds
    <2>1. PreflightTypeOK'
      BY <1>7 DEF LoopEnds, PreflightInv, PreflightTypeOK
    <2>2. WalkInv' /\ PlacedInv'
      BY <1>7 DEF LoopEnds, PreflightInv, PreflightTypeOK, WalkInv, PlacedInv, ApplyRuns
    <2>3. ApplySteady'
      BY <1>7 DEF LoopEnds, PreflightInv, PreflightTypeOK, ApplySteady, Apt, Whole, PlacedInv,
         ApplyRuns
    <2>4. CheckSteady'
      BY <1>7 DEF LoopEnds, PreflightInv, PreflightTypeOK, CheckSteady, Apt, PlacedInv, ApplyRuns
    <2> QED BY <2>1, <2>2, <2>3, <2>4 DEF PreflightInv
  <1>8. ASSUME NEW r \in PfRows, TakeRow(r) PROVE PreflightInv'
    <2>1. PreflightTypeOK'
      BY <1>8 DEF TakeRow, PreflightInv, PreflightTypeOK
    <2>2. WalkInv'
      <3>1. FactReads' = FactReads /\ verb # "none" /\ Len(FactReads) \in {2, 3, 5}
        BY <1>8, ReadsAre DEF TakeRow, FactReads, PreflightInv, WalkInv, PreflightTypeOK
      <3> QED BY <1>8, <3>1 DEF TakeRow, PreflightInv, WalkInv
    <2>3. PlacedInv'
      BY <1>8 DEF TakeRow, PreflightInv, PlacedInv, ApplyRuns
    <2>4. ApplySteady' /\ CheckSteady'
      BY <1>8 DEF TakeRow, PreflightInv, ApplySteady, CheckSteady, ApplyRuns, Apt, Whole
    <2> QED BY <2>1, <2>2, <2>3, <2>4 DEF PreflightInv
  <1>9. ASSUME NEW r \in PfRows, HostChanges(r) PROVE PreflightInv'
    <2>1. holds' \in [PfRows -> SUBSET Facts]
      BY <1>9 DEF HostChanges, PreflightInv, PreflightTypeOK, NoBridge, Facts
    <2>2. PreflightTypeOK'
      BY <1>9, <2>1, PreflightAssumption DEF HostChanges, PfUpset, PreflightInv, PreflightTypeOK
    <2>3. WalkInv' /\ PlacedInv'
      BY <1>9 DEF HostChanges, PreflightInv, WalkInv, PlacedInv, ApplyRuns, FactReads
    <2>4. ApplySteady' /\ CheckSteady'
      BY <1>9 DEF HostChanges, PfUpset, ApplySteady, CheckSteady
    <2> QED BY <2>2, <2>3, <2>4 DEF PreflightInv
  <1>10. CASE UNCHANGED pfVars
    BY <1>10 DEF pfVars, PreflightInv, PreflightTypeOK, WalkInv, PlacedInv, ApplyRuns, ApplySteady,
       CheckSteady,
                 Apt, Whole, FactReads
  <1> QED
    BY <1>1, <1>2, <1>3, <1>4, <1>5, <1>6, <1>7, <1>8, <1>9, <1>10 DEF PreflightNext

\* At the end of both verbs it says what the two have in common.
LEMMA PreflightInvGives == PreflightInv => SameVerdict /\ EachRowPlaced
  <1> SUFFICES ASSUME PreflightInv PROVE SameVerdict /\ EachRowPlaced
    OBVIOUS
  <1>1. SameVerdict
    BY DEF PreflightInv, PreflightTypeOK, SameVerdict, PlacedInv, ApplySteady, CheckSteady, Whole,
       Facts
  <1>2. EachRowPlaced
    BY DEF PreflightInv, PreflightTypeOK, EachRowPlaced, PlacedInv, ApplySteady, Apt, Whole
  <1> QED BY <1>1, <1>2

\* The places, verdicts and rows of host_preflight, host_warnings and pass 1 keep their types,
\* for any rows.
THEOREM PreflightTypes == PreflightSpec => []PreflightTypeOK
  <1>1. PreflightInv /\ [PreflightNext]_pfVars => PreflightInv'
    BY PreflightStepKeeps
  <1>2. PreflightInv => PreflightTypeOK
    BY DEF PreflightInv
  <1> QED BY PreflightInitHolds, <1>1, <1>2, PTL DEF PreflightSpec

\* What host_preflight and host_warnings say (check.rs) is what apply's pass 1 does, for any
\* rows of any host that has stood still in between.
THEOREM CheckForetells == PreflightSpec => []SameVerdict
  <1>1. PreflightInv /\ [PreflightNext]_pfVars => PreflightInv'
    BY PreflightStepKeeps
  <1> QED BY PreflightInitHolds, <1>1, PreflightInvGives, PTL DEF PreflightSpec

\* apply's pass 1 leaves every row ready or deferred, for any rows and whatever the host does
\* meanwhile.
THEOREM RowsArePlaced == PreflightSpec => []EachRowPlaced
  <1>1. PreflightInv /\ [PreflightNext]_pfVars => PreflightInv'
    BY PreflightStepKeeps
  <1> QED BY PreflightInitHolds, <1>1, PreflightInvGives, PTL DEF PreflightSpec

\* check, the refusals of apply and its pass 1 read the same bridges in three orders and
\* agree with each other and with the host.
THEOREM VerbsDoAgree == PreflightSpec => []VerbsAgree
  BY CheckForetells, RowsArePlaced, PTL DEF VerbsAgree

-----------------------------------------------------------------------------
(* The prober's socket. *)

\* The number used k requests before s.
Back(s, k) == IF s > k THEN s - k ELSE s + (SeqLimit - 1) - k

\* Who asks, and what has been answered so far.
CallInv ==
    /\ asked.step = "idle" => asked = NoCall
    /\ asked # NoCall => outcome = NoEnd
    /\ asked.step \in {"state", "port", "bond", "write"} => asked.port \in BondPorts
    /\ asked.phase = "wait" => asked.step # "idle"

\* On a socket that gives its answers, the queue holds those of the last requests, one each
\* and in order; that of a call under way is the last.
QueueInv ==
    /\ fd = "none" => replies = <<>>
    /\ seq = 0 => replies = <<>>
    /\ fd = "open" =>
        /\ \A i \in 1..Len(replies) : replies[i].seq = Back(seq, Len(replies) - i)
        /\ asked.phase = "wait" => /\ Len(replies) > 0 /\ seq > 0
                                   /\ replies[Len(replies)].word = answer

\* A request for a link is answered with a link, a write with none.
WordInv ==
    /\ answer.kind \in {"nothing", "link", "ack", "ENODEV", "EINVAL"}
    /\ asked.phase = "wait" =>
        IF asked.step = "write" THEN answer.kind \in {"ack", "ENODEV", "EINVAL"}
                                ELSE answer.kind \in {"link", "ENODEV"}

\* The index the operation has is the port's, or that of a netdev that is gone.
Bears(ix) == ix \in 1..indexes /\ \A p \in BondPorts : netdev[p].ix = ix => p = asked.port

IndexInv ==
    /\ \A n \in Names : netdev[n].ix <= indexes
    /\ \A m, n \in Names : netdev[m].ix = netdev[n].ix /\ netdev[m].ix # 0 => m = n
    /\ asked.step \in {"bond", "write"} => Bears(asked.portIx)
    /\ asked.step = "port" /\ asked.phase = "wait" /\ answer.kind = "link" => Bears(answer.ix)

WroteInv ==
    asked.step # "idle" =>
        wrote = IF asked.step = "write" /\ asked.phase = "wait" /\ answer.kind = "ack"
                THEN {asked.port} ELSE {}

NetlinkInv ==
    NetlinkTypeOK /\ CallInv /\ QueueInv /\ WordInv /\ IndexInv /\ WroteInv /\ OwnAnswer /\ MovesAsAsked

\* Counting backwards from a number that is new goes past the wrap as counting forwards did.
LEMMA BackIs ==
    ASSUME NEW s \in 1..(SeqLimit - 1), NEW k \in 0..RecvBuf
    PROVE  /\ Back(s, 0) = s
           /\ Back(s, k) = s => k = 0
           /\ Back(IF s + 1 = SeqLimit THEN 1 ELSE s + 1, k + 1) = Back(s, k)
  BY NetlinkAssumption DEF Back

\* No socket, no call.
LEMMA NetlinkInitHolds == NetlinkInit => NetlinkInv
  <1> SUFFICES ASSUME NetlinkInit PROVE NetlinkInv
    OBVIOUS
  <1>1. NetlinkTypeOK
    BY NetlinkAssumption DEF NetlinkInit, NetlinkTypeOK, NoEnd, NoWord, NoCall, Names, Words, Errnos,
       Steps
  <1>2. CallInv /\ QueueInv /\ WordInv /\ IndexInv /\ WroteInv
    BY DEF NetlinkInit, CallInv, QueueInv, WordInv, IndexInv, WroteInv, NoCall, NoWord
  <1>3. OwnAnswer /\ MovesAsAsked
    BY DEF NetlinkInit, OwnAnswer, MovesAsAsked, Heard, NoEnd
  <1> QED BY <1>1, <1>2, <1>3 DEF NetlinkInv

\* What happens to netdevs leaves the prober's side alone; an index stays its netdev's.
LEMMA KernelKeeps ==
    ASSUME NetlinkInv, UNCHANGED <<fd, replies, seq, asked, left, outcome, ghosts>>,
           netdev' \in [Names -> Netdevs], events' \in 0..MaxNetEvents,
           indexes' \in indexes..MaxNetdevs, activeIx' \in 0..MaxNetdevs,
           \A n \in Names : netdev'[n].ix \in {0, netdev[n].ix} \cup (indexes + 1)..indexes',
           \A m, n \in Names : netdev'[m].ix = netdev'[n].ix /\ netdev'[m].ix # 0 => m = n
    PROVE  NetlinkInv'
  <1>1. NetlinkTypeOK'
    BY DEF NetlinkInv, NetlinkTypeOK, ghosts
  <1>2. CallInv' /\ QueueInv' /\ WordInv' /\ WroteInv'
    BY DEF NetlinkInv, CallInv, QueueInv, WordInv, WroteInv, ghosts
  <1>3. OwnAnswer' /\ MovesAsAsked'
    BY DEF NetlinkInv, OwnAnswer, MovesAsAsked, Heard, ghosts
  <1>4. \A n \in Names : netdev[n].ix \in Nat /\ netdev'[n].ix \in Nat /\ BondPorts \subseteq Names
    BY DEF NetlinkInv, NetlinkTypeOK, Netdevs, Names
  <1>5. indexes \in Nat /\ indexes' \in Nat /\ indexes <= indexes'
    BY NetlinkAssumption DEF NetlinkInv, NetlinkTypeOK
  <1>6. \A n \in Names : netdev'[n].ix <= indexes'
    BY <1>4, <1>5 DEF NetlinkInv, IndexInv
  <1>7. ASSUME NEW ix, Bears(ix) PROVE Bears(ix)'
    <2>1. ix \in 1..indexes' /\ ix \in Nat /\ ix # 0 /\ ix <= indexes
      BY <1>5, <1>7 DEF Bears
    <2>2. ASSUME NEW p \in BondPorts, netdev'[p].ix = ix PROVE netdev[p].ix = ix
      <3>1. p \in Names
        BY DEF Names
      <3> QED BY <1>4, <1>5, <2>1, <2>2, <3>1
    <2> QED BY <1>7, <2>1, <2>2 DEF Bears
  <1>8. IndexInv'
    BY <1>6, <1>7 DEF NetlinkInv, IndexInv, Bears, ghosts
  <1> QED BY <1>1, <1>2, <1>3, <1>8 DEF NetlinkInv

Outcomes ==
    [of : Steps \cup {"none"}, port : Names, said : Errnos \cup {"nothing", "ok", "no-link"},
     carrier : {"yes", "no"}, link : {"none", "up", "going-back", "going-down", "down", "unknown"}]

\* An operation that ends in an error keeps the types.
LEMMA FailsTypes ==
    ASSUME NetlinkTypeOK, NEW e \in Errnos, Fails(e), asked.step # "idle",
           UNCHANGED <<kernelSide, left, ghosts>>,
           seq' \in 0..(SeqLimit - 1)
    PROVE  NetlinkTypeOK'
  <1>1. outcome' \in Outcomes
    <2>1. asked.step \in Steps /\ asked.port \in Names
      BY DEF NetlinkTypeOK
    <2> QED BY <2>1 DEF Fails, NoEnd, Outcomes
  <1>2. asked' \in [step : Steps \cup {"idle"}, port : Names, phase : {"call", "wait"},
                    portIx : 0..MaxNetdevs, bondIx : 0..MaxNetdevs]
    BY NetlinkAssumption DEF Fails, NoCall, Names
  <1>3. /\ fd' \in {"none", "open", "blind", "overrun"} /\ Len(replies') <= RecvBuf
        /\ replies' \in Seq([seq : 1..(SeqLimit - 1), word : Words])
    <2>1. /\ fd \in {"none", "open", "blind", "overrun"} /\ Len(replies) <= RecvBuf
          /\ replies \in Seq([seq : 1..(SeqLimit - 1), word : Words])
      BY DEF NetlinkTypeOK
    <2>2. CASE fd' = "none" /\ replies' = <<>>
      <3>1. Len(<<>>) <= RecvBuf
        BY NetlinkAssumption
      <3> QED BY <2>2, <3>1
    <2>3. CASE UNCHANGED <<fd, replies>>
      BY <2>1, <2>3
    <2> QED BY <2>2, <2>3 DEF Fails
  <1> QED BY <1>1, <1>2, <1>3 DEF NetlinkTypeOK, Outcomes, kernelSide, ghosts

\* What the kernel says to the request of a step, and that it makes a port active.
LEMMA SaysIs ==
    ASSUME NetlinkInv, asked.step # "idle"
    PROVE  /\ Says(Request) \in Words
           /\ asked.step = "write" => /\ Says(Request).kind \in {"ack", "ENODEV", "EINVAL"}
                                      /\ Request.type = "NewLink" /\ Request.port = asked.portIx
                                      /\ Says(Request).kind = "ack" =>
                                             \E p \in BondPorts : netdev[p].ix = asked.portIx
           /\ asked.step # "write" => /\ Says(Request).kind \in {"link", "ENODEV"}
                                      /\ Request.type = "GetLink"
           /\ asked.step = "port" /\ Says(Request).kind = "link" =>
                  Says(Request).ix = netdev[asked.port].ix /\ netdev[asked.port].ix # 0
  <1>1. CASE asked.step = "write"
    <2>1. Request = NewLink(asked.bondIx, asked.portIx)
      BY <1>1 DEF Request, SetActiveMsg
    <2>2. Request.type = "NewLink" /\ Request.port = asked.portIx
      BY <2>1 DEF NewLink
    <2>3. \/ Says(Request) = Word("ENODEV")
          \/ Says(Request) = Word("EINVAL")
          \/ Says(Request) = Word("ack") /\ \E p \in Usable : netdev[p].ix = Request.port
      BY <2>2 DEF Says
    <2> QED BY <1>1, <2>2, <2>3, NetlinkAssumption DEF Word, NoWord, Words, Errnos, Usable
  <1>2. CASE asked.step # "write"
    <2> DEFINE n == IF asked.step = "bond" THEN BondName ELSE asked.port
    <2>1. Request = GetLink(n) /\ n \in Names
      BY <1>2 DEF Request, Names, NetlinkInv, NetlinkTypeOK
    <2>2. Request.type = "GetLink" /\ Request.name = n
      BY <2>1 DEF GetLink
    <2>3. Says(Request) = IF netdev[n].ix = 0 THEN Word("ENODEV") ELSE Link(netdev[n])
      BY <2>2 DEF Says
    <2>4. netdev[n] \in Netdevs
      BY <2>1 DEF NetlinkInv, NetlinkTypeOK
    <2>5. Says(Request) \in Words /\ Says(Request).kind \in {"link", "ENODEV"}
          /\ (Says(Request).kind = "link" => Says(Request).ix = netdev[n].ix /\ netdev[n].ix # 0)
      BY <2>3, <2>4, NetlinkAssumption DEF Word, Link, NoWord, Words, Errnos, Netdevs
    <2> QED BY <1>2, <2>2, <2>5
  <1> QED BY <1>1, <1>2

\* A request is sent: its answer is the last of the queue, or the socket is of no more use.
LEMMA SendKeeps ==
    ASSUME NetlinkInv, SendRequest
    PROVE  NetlinkInv'
  <1> USE NetlinkAssumption
  <1>0. /\ asked.step # "idle" /\ asked.phase = "call" /\ asked' = [asked EXCEPT !.phase = "wait"]
        /\ seq' = NextSeq /\ left' = CallDeadline /\ answer' = Says(Request)
        /\ UNCHANGED <<netdev, indexes, events, outcome, taken>>
    BY DEF SendRequest
  <1>1. seq' \in 1..(SeqLimit - 1) /\ seq' = IF seq + 1 = SeqLimit THEN 1 ELSE seq + 1
    <2>1. seq \in 0..(SeqLimit - 1)
      BY DEF NetlinkInv, NetlinkTypeOK
    <2>2. SeqLimit \in Nat /\ SeqLimit > 2
      OBVIOUS
    <2>3. seq' = IF seq + 1 = SeqLimit THEN 1 ELSE seq + 1
      BY <1>0 DEF NextSeq
    <2> QED BY <2>1, <2>2, <2>3
  <1>2. answer' \in Words /\ answer'.kind \in {"link", "ack", "ENODEV", "EINVAL"}
    BY <1>0, SaysIs
  <1>3. /\ asked'.step = asked.step /\ asked'.port = asked.port /\ asked'.portIx = asked.portIx
        /\ asked'.phase = "wait"
        /\ asked' \in [step : Steps \cup {"idle"}, port : Names, phase : {"call", "wait"},
                       portIx : 0..MaxNetdevs, bondIx : 0..MaxNetdevs]
    BY <1>0 DEF NetlinkInv, NetlinkTypeOK
  <1>4. wrote = {} /\ wrote' = IF asked.step = "write" /\ answer'.kind = "ack" THEN {asked.port} ELSE {}
    <2>1. wrote = {}
      BY <1>0 DEF NetlinkInv, WroteInv
    <2>2. CASE asked.step = "write" /\ answer'.kind = "ack"
      <3>1. Moves(Request) /\ Request.port = asked.portIx
        BY <1>0, <2>2, SaysIs DEF Moves
      <3>2. wrote' = {p \in BondPorts : netdev[p].ix = asked.portIx}
        BY <3>1 DEF SendRequest
      <3>3. PICK q \in BondPorts : netdev[q].ix = asked.portIx
        BY <1>0, <2>2, SaysIs
      <3>4. \A p \in BondPorts : netdev[p].ix = asked.portIx => p = asked.port
        BY <2>2 DEF NetlinkInv, IndexInv, Bears
      <3> QED BY <2>1, <2>2, <3>2, <3>3, <3>4
    <2>3. CASE ~(asked.step = "write" /\ answer'.kind = "ack")
      <3>1. ~Moves(Request)
        BY <1>0, <2>3, SaysIs DEF Moves
      <3> QED BY <2>1, <2>3, <3>1 DEF SendRequest
    <2> QED BY <2>2, <2>3
  <1>5. activeIx' \in 0..MaxNetdevs
    <2>1. Moves(Request) => asked.step = "write"
      BY <1>0, SaysIs DEF Moves
    <2>2. asked.step = "write" => Request.port = asked.portIx
      BY <1>0, SaysIs
    <2> QED BY <2>1, <2>2 DEF SendRequest, NetlinkInv, NetlinkTypeOK
  <1>6. /\ fd' \in {"open", "blind", "overrun"} /\ Len(replies') <= RecvBuf
        /\ replies' \in Seq([seq : 1..(SeqLimit - 1), word : Words])
        /\ fd' = "open" => /\ fd \in {"none", "open"} /\ Len(replies) < RecvBuf
                           /\ replies' = Append(replies, [seq |-> seq', word |-> answer'])
    <2>1. /\ Len(replies) \in Nat /\ Len(replies) <= RecvBuf
          /\ replies \in Seq([seq : 1..(SeqLimit - 1), word : Words])
      BY DEF NetlinkInv, NetlinkTypeOK
    <2>2. CASE /\ fd \in {"none", "open"} /\ Len(replies) < RecvBuf
               /\ fd' = "open" /\ replies' = Append(replies, [seq |-> seq', word |-> answer'])
      <3>1. [seq |-> seq', word |-> answer'] \in [seq : 1..(SeqLimit - 1), word : Words]
        BY <1>1, <1>2
      <3>2. Len(replies') = Len(replies) + 1 /\ replies' \in Seq([seq : 1..(SeqLimit - 1), word : Words])
        BY <2>1, <2>2, <3>1
      <3> QED BY <2>1, <2>2, <3>2
    <2>3. CASE fd = "open" /\ Len(replies) = RecvBuf /\ fd' = "overrun" /\ UNCHANGED replies
      BY <2>1, <2>3
    <2>4. CASE fd \in {"blind", "overrun"} /\ UNCHANGED <<fd, replies>>
      BY <2>1, <2>4
    <2> QED BY <2>2, <2>3, <2>4 DEF SendRequest
  <1>7. NetlinkTypeOK'
    <2>1. seq' \in 0..(SeqLimit - 1) /\ left' \in 0..CallDeadline
      BY <1>0, <1>1
    <2>2. wrote' \subseteq BondPorts
      BY <1>0, <1>4 DEF NetlinkInv, CallInv
    <2>3. netdev' = netdev /\ indexes' = indexes /\ events' = events /\ outcome' = outcome /\ taken' = taken
      BY <1>0
    <2>4. answer' \in Words
      BY <1>2
    <2> QED BY <1>3, <1>5, <1>6, <2>1, <2>2, <2>3, <2>4 DEF NetlinkInv, NetlinkTypeOK
  <1>8. CallInv' /\ WroteInv'
    BY <1>0, <1>3, <1>4 DEF NetlinkInv, CallInv, WroteInv, NoCall
  <1>9. QueueInv'
    <2>1. CASE fd' = "open"
      <3> DEFINE n == Len(replies)
      <3>1. /\ n \in Nat /\ n < RecvBuf /\ replies' = Append(replies, [seq |-> seq', word |-> answer'])
            /\ replies \in Seq([seq : 1..(SeqLimit - 1), word : Words])
        BY <1>6, <2>1 DEF NetlinkInv, NetlinkTypeOK
      <3>2. /\ Len(replies') = n + 1 /\ replies'[n + 1] = [seq |-> seq', word |-> answer']
            /\ \A i \in 1..n : replies'[i] = replies[i]
        BY <3>1
      <3>3. ASSUME NEW i \in 1..n PROVE replies'[i].seq = Back(seq', (n + 1) - i)
        <4>1. n # 0 /\ seq # 0 /\ fd = "open"
          BY <1>6, <2>1, <3>1, <3>3 DEF NetlinkInv, QueueInv
        <4>2. replies[i].seq = Back(seq, n - i) /\ seq \in 1..(SeqLimit - 1) /\ n - i \in 0..RecvBuf
          BY <3>1, <3>3, <4>1 DEF NetlinkInv, QueueInv, NetlinkTypeOK
        <4>3. Back(seq', (n - i) + 1) = Back(seq, n - i)
          BY <1>1, <4>2, BackIs
        <4>4. (n - i) + 1 = (n + 1) - i
          BY <3>1, <3>3
        <4> QED BY <3>2, <4>2, <4>3, <4>4
      <3>4. replies'[n + 1].seq = Back(seq', (n + 1) - (n + 1))
        <4>1. Back(seq', 0) = seq'
          BY <1>1 DEF Back
        <4>2. (n + 1) - (n + 1) = 0
          BY <3>1
        <4> QED BY <3>2, <4>1, <4>2
      <3>5. \A i \in 1..Len(replies') : replies'[i].seq = Back(seq', Len(replies') - i)
        <4> SUFFICES ASSUME NEW i \in 1..(n + 1) PROVE replies'[i].seq = Back(seq', (n + 1) - i)
          BY <3>2
        <4>1. i \in 1..n \/ i = n + 1
          BY <3>1
        <4> QED BY <3>3, <3>4, <4>1
      <3>6. Len(replies') > 0 /\ seq' > 0 /\ replies'[Len(replies')].word = answer'
        BY <1>1, <3>1, <3>2
      <3> QED BY <1>1, <2>1, <3>5, <3>6 DEF QueueInv
    <2>2. CASE fd' # "open"
      BY <1>1, <1>6, <2>2 DEF QueueInv
    <2> QED BY <2>1, <2>2
  <1>10. WordInv'
    BY <1>0, <1>2, <1>3, SaysIs DEF WordInv
  <1>11. IndexInv'
    <2>1. asked.step = "port" /\ answer'.kind = "link" =>
              answer'.ix = netdev[asked.port].ix /\ netdev[asked.port].ix # 0
      BY <1>0, SaysIs
    <2>2. asked.step = "port" /\ answer'.kind = "link" => Bears(answer'.ix)
      <3>1. asked.port \in Names /\ BondPorts \subseteq Names
        BY DEF NetlinkInv, NetlinkTypeOK, Names
      <3>2. netdev[asked.port].ix \in Nat /\ indexes \in Nat
        BY <3>1 DEF NetlinkInv, NetlinkTypeOK, Netdevs
      <3> QED BY <2>1, <3>1, <3>2 DEF Bears, NetlinkInv, IndexInv
    <2> QED BY <1>0, <1>3, <2>2 DEF NetlinkInv, IndexInv, Bears
  <1>12. OwnAnswer' /\ MovesAsAsked'
    BY <1>0 DEF NetlinkInv, CallInv, NoEnd, NoCall, OwnAnswer, MovesAsAsked, Heard
  <1> QED BY <1>7, <1>8, <1>9, <1>10, <1>11, <1>12 DEF NetlinkInv

\* The loop of call: the head of the queue is the answer if and only if it is the last.
LEMMA ReceivesKeeps ==
    ASSUME NetlinkInv, Receives
    PROVE  NetlinkInv'
  <1> USE NetlinkAssumption
  <1> DEFINE n == Len(replies)
  <1>0. /\ asked.phase = "wait" /\ fd = "open" /\ replies # <<>> /\ asked.step # "idle" /\ asked # NoCall
        /\ outcome = NoEnd /\ UNCHANGED <<kernelSide, seq, left, answer, wrote>>
    BY DEF Receives, Waiting, NetlinkInv, CallInv, NoCall
  <1>1. /\ n \in Nat /\ n > 0 /\ n <= RecvBuf /\ seq \in 1..(SeqLimit - 1)
        /\ replies \in Seq([seq : 1..(SeqLimit - 1), word : Words]) /\ Head(replies) = replies[1]
        /\ replies[1] \in [seq : 1..(SeqLimit - 1), word : Words]
    <2>1. /\ replies \in Seq([seq : 1..(SeqLimit - 1), word : Words]) /\ n <= RecvBuf
          /\ seq \in 0..(SeqLimit - 1)
      BY DEF NetlinkInv, NetlinkTypeOK
    <2>2. n > 0 /\ seq > 0
      BY <1>0 DEF NetlinkInv, QueueInv
    <2>3. n \in Nat /\ Head(replies) = replies[1] /\ 1 \in 1..n
      BY <2>1, <2>2
    <2>4. replies[1] \in [seq : 1..(SeqLimit - 1), word : Words]
      <3> HIDE DEF n
      <3>1. 1 \in 1..Len(replies)
        BY <2>3 DEF n
      <3>2. \A S : replies \in Seq(S) => replies[1] \in S
        BY <3>1
      <3> QED BY <2>1, <3>2
    <2> QED BY <2>1, <2>2, <2>3, <2>4
  <1>2. /\ Len(Tail(replies)) = n - 1 /\ Tail(replies) \in Seq([seq : 1..(SeqLimit - 1), word : Words])
        /\ \A i \in 1..(n - 1) : Tail(replies)[i] = replies[i + 1]
    BY <1>1
  <1>3. Head(replies).seq = seq => n = 1 /\ Head(replies).word = answer /\ Tail(replies) = <<>>
    <2>1. replies[1].seq = Back(seq, n - 1) /\ n - 1 \in 0..RecvBuf
      BY <1>0, <1>1 DEF NetlinkInv, QueueInv
    <2>2. Back(seq, n - 1) = seq => n - 1 = 0
      BY <1>1, <2>1, BackIs
    <2>3. replies[n].word = answer
      BY <1>0 DEF NetlinkInv, QueueInv
    <2> QED BY <1>1, <1>2, <2>1, <2>2, <2>3
  <1>4. CASE StepOf(Head(replies)) = "Expired"
    <2>1. Fails("ETIMEDOUT") /\ UNCHANGED taken
      BY <1>4 DEF Receives
    <2>2. NetlinkTypeOK'
      <3>1. "ETIMEDOUT" \in Errnos /\ seq' \in 0..(SeqLimit - 1)
        BY <1>0, <1>1 DEF Errnos
      <3> QED BY <1>0, <2>1, <3>1, FailsTypes DEF NetlinkInv, ghosts
    <2>3. CallInv' /\ QueueInv' /\ WordInv' /\ WroteInv'
      BY <1>0, <2>1 DEF Fails, DropsSocket, NetlinkInv, CallInv, QueueInv, WordInv, WroteInv, NoCall
    <2>4. IndexInv'
      BY <1>0, <2>1 DEF Fails, kernelSide, NetlinkInv, IndexInv, Bears, NoCall
    <2>5. OwnAnswer' /\ MovesAsAsked'
      BY <2>1 DEF Fails, DropsSocket, OwnAnswer, MovesAsAsked, Heard, NoEnd
    <2> QED BY <2>2, <2>3, <2>4, <2>5 DEF NetlinkInv
  <1>5. CASE StepOf(Head(replies)) = "Discard"
    <2>1. replies' = Tail(replies) /\ UNCHANGED <<fd, asked, outcome, taken>>
      BY <1>5 DEF Receives
    <2>2. Head(replies).seq # seq
      BY <1>1, <1>5, SMTT(60) DEF StepOf, NetlinkInv, NetlinkTypeOK
    <2>3. n > 1
      <3>1. n = 1 => Head(replies).seq = Back(seq, 0)
        BY <1>0, <1>1 DEF NetlinkInv, QueueInv
      <3>2. Back(seq, 0) = seq
        BY <1>1 DEF Back
      <3>3. Len(replies) \in Nat /\ Len(replies) > 0
        BY <1>1
      <3>4. Len(replies) # 1
        BY <2>2, <3>1, <3>2
      <3> QED
        <4> HIDE DEF n
        <4>1. \A k \in Nat : k > 0 /\ k # 1 => k > 1
          OBVIOUS
        <4> QED BY <3>3, <3>4, <4>1 DEF n
    <2>4. NetlinkTypeOK'
      BY <1>0, <1>1, <1>2, <2>1 DEF kernelSide, NetlinkInv, NetlinkTypeOK
    <2>5. QueueInv'
      <3>1. ASSUME NEW i \in 1..(n - 1) PROVE Tail(replies)[i].seq = Back(seq, (n - 1) - i)
        <4>1. i + 1 \in 1..n /\ n - (i + 1) = (n - 1) - i
          BY <1>1, <3>1
        <4>2. replies[i + 1].seq = Back(seq, n - (i + 1))
          BY <1>0, <4>1 DEF NetlinkInv, QueueInv
        <4> QED BY <1>2, <3>1, <4>1, <4>2
      <3>2. Tail(replies)[n - 1].word = answer
        <4>1. n - 1 \in 1..(n - 1) /\ (n - 1) + 1 = n
          BY <1>1, <2>3
        <4>2. replies[n].word = answer
          BY <1>0 DEF NetlinkInv, QueueInv
        <4> QED BY <1>2, <4>1, <4>2
      <3>3. n - 1 > 0 /\ seq > 0 /\ seq # 0
        BY <1>1, <2>3
      <3> QED BY <1>0, <1>2, <2>1, <3>1, <3>2, <3>3 DEF QueueInv
    <2>6. CallInv' /\ WordInv' /\ WroteInv'
      BY <1>0, <2>1 DEF NetlinkInv, CallInv, WordInv, WroteInv
    <2>7. IndexInv'
      BY <1>0, <2>1 DEF kernelSide, NetlinkInv, IndexInv, Bears
    <2>8. OwnAnswer' /\ MovesAsAsked'
      BY <1>0, <2>1 DEF OwnAnswer, MovesAsAsked, Heard, NoEnd
    <2> QED BY <2>4, <2>5, <2>6, <2>7, <2>8 DEF NetlinkInv
  <1>6. CASE StepOf(Head(replies)) = "Accept"
    <2>1. /\ Head(replies).seq = seq
      BY <1>1, <1>6, SMTT(60) DEF StepOf, NetlinkInv, NetlinkTypeOK
    <2>2. /\ taken' = answer /\ replies' = <<>> /\ fd' = "open" /\ Head(replies).word = answer
      BY <1>0, <1>3, <1>6, <2>1 DEF Receives
    <2>3. IF answer.kind \in {"link", "ack"} THEN Answered(answer)
          ELSE outcome' = [NoEnd EXCEPT !.of = asked.step, !.port = asked.port, !.said = answer.kind]
               /\ asked' = NoCall
      BY <1>6, <2>2 DEF Receives
    <2>4. answer \in Words /\ asked.step \in Steps /\ asked.port \in Names /\ WordInv /\ WroteInv
      BY <1>0 DEF NetlinkInv, NetlinkTypeOK
    <2>5. \/ /\ asked.step \in {"port", "bond"} /\ answer.kind = "link" /\ outcome' = NoEnd
             /\ asked' = IF asked.step = "port"
                         THEN [asked EXCEPT !.step = "bond", !.phase = "call", !.portIx = answer.ix]
                         ELSE [asked EXCEPT !.step = "write", !.phase = "call", !.bondIx = answer.ix]
          \/ /\ asked.step \in {"state", "write"} /\ answer.kind \in {"link", "ack"} /\ asked' = NoCall
             /\ outcome' = [of |-> asked.step, port |-> asked.port, said |-> "ok",
                            carrier |-> answer.lower, link |-> BondLinkOf(answer.rung)]
          \/ /\ answer.kind \in {"ENODEV", "EINVAL"} /\ asked' = NoCall
             /\ outcome' = [NoEnd EXCEPT !.of = asked.step, !.port = asked.port, !.said = answer.kind]
      BY <1>0, <2>3, <2>4 DEF WordInv, Answered, Steps
    <2>6. asked' = NoCall \/ (asked'.phase = "call" /\ outcome' = NoEnd /\ asked'.port = asked.port
                            /\ asked'.step \in {"bond", "write"} /\ asked.step \in {"port", "bond"})
      BY <2>5 DEF NetlinkInv, NetlinkTypeOK
    <2>7. NetlinkTypeOK'
      <3>1. outcome' \in Outcomes
        <4>1. answer.lower \in {"yes", "no"}
          BY <2>4 DEF Words
        <4>2. BondLinkOf(answer.rung) \in {"none", "up", "going-back", "going-down", "down", "unknown"}
          BY DEF BondLinkOf
        <4>3. CASE outcome' = NoEnd
          BY <4>3 DEF Outcomes, NoEnd, Names, Errnos
        <4>4. CASE outcome' = [of |-> asked.step, port |-> asked.port, said |-> "ok",
                               carrier |-> answer.lower, link |-> BondLinkOf(answer.rung)]
          BY <2>4, <4>1, <4>2, <4>4 DEF Outcomes
        <4>5. CASE /\ answer.kind \in {"ENODEV", "EINVAL"}
                   /\ outcome' = [NoEnd EXCEPT !.of = asked.step, !.port = asked.port, !.said = answer.kind]
          BY <2>4, <4>5 DEF Outcomes, NoEnd, Errnos
        <4> QED BY <2>5, <4>3, <4>4, <4>5
      <3>2. asked' \in [step : Steps \cup {"idle"}, port : Names, phase : {"call", "wait"},
                        portIx : 0..MaxNetdevs, bondIx : 0..MaxNetdevs]
        <4>1. answer.ix \in 0..MaxNetdevs
          BY <2>4 DEF Words
        <4>2. asked \in [step : Steps \cup {"idle"}, port : Names, phase : {"call", "wait"},
                         portIx : 0..MaxNetdevs, bondIx : 0..MaxNetdevs]
          BY DEF NetlinkInv, NetlinkTypeOK
        <4>3. CASE asked' = NoCall
          BY <4>3 DEF NoCall, Names
        <4>4. CASE asked' = [asked EXCEPT !.step = "bond", !.phase = "call", !.portIx = answer.ix]
          BY <4>1, <4>2, <4>4 DEF Steps
        <4>5. CASE asked' = [asked EXCEPT !.step = "write", !.phase = "call", !.bondIx = answer.ix]
          BY <4>1, <4>2, <4>5 DEF Steps
        <4> QED BY <2>5, <4>3, <4>4, <4>5
      <3>3. replies' \in Seq([seq : 1..(SeqLimit - 1), word : Words]) /\ Len(replies') <= RecvBuf
        BY <2>2
      <3> QED BY <1>0, <2>2, <2>4, <3>1, <3>2, <3>3 DEF kernelSide, NetlinkInv, NetlinkTypeOK,
                 Outcomes
    <2>8. CallInv'
      BY <1>0, <2>6 DEF NetlinkInv, CallInv, NoCall
    <2>9. QueueInv'
      BY <1>0, <1>1, <2>2, <2>6 DEF QueueInv, NoCall
    <2>10. WordInv'
      BY <1>0, <2>4, <2>6 DEF WordInv, NoCall
    <2>11. WroteInv'
      BY <1>0, <2>4, <2>6 DEF WroteInv, NoCall
    <2>12. IndexInv'
      <3>1. asked' # NoCall => Bears(asked'.portIx) /\ asked'.port = asked.port
        BY <1>0, <2>5, <2>6 DEF NetlinkInv, NetlinkTypeOK, IndexInv
      <3> QED BY <1>0, <2>6, <3>1 DEF NetlinkInv, IndexInv, Bears, kernelSide, NoCall
    <2>13. OwnAnswer'
      <3>1. outcome'.said \notin {"EAGAIN", "ETIMEDOUT", "ENOBUFS", "no-errno"}
        <4>1. \/ outcome'.said \in {"nothing", "ok"}
              \/ answer.kind \in {"ENODEV", "EINVAL"} /\ outcome'.said = answer.kind
          <5>1. \/ outcome' = NoEnd
                \/ outcome' = [of |-> asked.step, port |-> asked.port, said |-> "ok",
                               carrier |-> answer.lower, link |-> BondLinkOf(answer.rung)]
                \/ /\ answer.kind \in {"ENODEV", "EINVAL"}
                   /\ outcome' = [NoEnd EXCEPT !.of = asked.step, !.port = asked.port, !.said = answer.kind]
            BY <2>5
          <5>2. CASE outcome' = NoEnd
            BY <5>2 DEF NoEnd
          <5>3. CASE outcome' = [of |-> asked.step, port |-> asked.port, said |-> "ok",
                                 carrier |-> answer.lower, link |-> BondLinkOf(answer.rung)]
            BY <5>3
          <5>4. CASE /\ answer.kind \in {"ENODEV", "EINVAL"}
                     /\ outcome' = [NoEnd EXCEPT !.of = asked.step, !.port = asked.port, !.said = answer.kind]
            BY <5>4 DEF NoEnd
          <5> QED BY <5>1, <5>2, <5>3, <5>4
        <4> QED BY <4>1
      <3> QED BY <1>0, <2>2, <3>1 DEF OwnAnswer, Heard
    <2>14. MovesAsAsked'
      <3>1. wrote' = IF asked.step = "write" /\ answer.kind = "ack" THEN {asked.port} ELSE {}
        BY <1>0, <2>4 DEF WroteInv
      <3>2. asked.step = "write" => answer.kind # "link"
        BY <1>0, <2>4 DEF WordInv
      <3>3. CASE outcome' = NoEnd
        BY <3>3 DEF MovesAsAsked, NoEnd
      <3>4. CASE /\ asked.step \in {"state", "write"} /\ answer.kind \in {"link", "ack"}
                 /\ outcome' = [of |-> asked.step, port |-> asked.port, said |-> "ok",
                                carrier |-> answer.lower, link |-> BondLinkOf(answer.rung)]
        <4>1. outcome'.of = asked.step /\ outcome'.port = asked.port /\ outcome'.said = "ok"
          BY <3>4
        <4> QED BY <3>1, <3>2, <3>4, <4>1 DEF MovesAsAsked
      <3>5. CASE /\ answer.kind \in {"ENODEV", "EINVAL"}
                 /\ outcome' = [NoEnd EXCEPT !.of = asked.step, !.port = asked.port, !.said = answer.kind]
        <4>1. outcome'.said = answer.kind
          BY <3>5 DEF NoEnd
        <4> QED BY <3>1, <3>5, <4>1 DEF MovesAsAsked
      <3> QED BY <2>5, <3>3, <3>4, <3>5
    <2> QED BY <2>7, <2>8, <2>9, <2>10, <2>11, <2>12, <2>13, <2>14 DEF NetlinkInv
  <1>7. StepOf(Head(replies)) \in {"Expired", "Discard", "Accept"}
    BY DEF StepOf, NetlinkInv, NetlinkTypeOK
  <1> QED BY <1>4, <1>5, <1>6, <1>7

\* Every call, answer, loss and netdev keeps NetlinkInv.
LEMMA NetlinkStepKeeps ==
    ASSUME NetlinkInv, [NetlinkNext]_nlVars
    PROVE  NetlinkInv'
  <1> USE NetlinkAssumption
  <1>1. ASSUME NEW n \in Names, NetdevAppears(n) PROVE NetlinkInv'
    <2>1. netdev' \in [Names -> Netdevs] /\ events' \in 0..MaxNetEvents /\ indexes' \in indexes..MaxNetdevs
      BY <1>1 DEF NetdevAppears, Happens, NetlinkInv, NetlinkTypeOK, Netdevs
    <2>2. \A m \in Names : netdev'[m].ix = IF m = n THEN indexes + 1 ELSE netdev[m].ix
      BY <1>1 DEF NetdevAppears, NetlinkInv, NetlinkTypeOK
    <2>3. /\ indexes \in Nat /\ indexes' = indexes + 1
          /\ \A m \in Names : netdev[m].ix \in Nat /\ netdev[m].ix <= indexes
      BY <1>1 DEF NetdevAppears, NetlinkInv, NetlinkTypeOK, Netdevs, IndexInv
    <2>4. \A m \in Names : netdev'[m].ix \in {0, netdev[m].ix} \cup (indexes + 1)..indexes'
      BY <2>2, <2>3
    <2>5. \A k, m \in Names : netdev'[k].ix = netdev'[m].ix /\ netdev'[k].ix # 0 => k = m
      BY <2>2, <2>3 DEF NetlinkInv, IndexInv
    <2>6. activeIx' \in 0..MaxNetdevs /\ UNCHANGED <<fd, replies, seq, asked, left, outcome, ghosts>>
      BY <1>1 DEF NetdevAppears, NetlinkInv, NetlinkTypeOK
    <2> QED BY <2>1, <2>4, <2>5, <2>6, KernelKeeps
  <1>2. ASSUME NEW n \in Names, NetdevGoes(n) PROVE NetlinkInv'
    <2>0. ASSUME NEW m \in Names
          PROVE  netdev'[m] \in Netdevs /\ netdev'[m].ix = IF m = n THEN 0 ELSE netdev[m].ix
      <3>1. netdev[m] \in Netdevs
        BY DEF NetlinkInv, NetlinkTypeOK
      <3>2. netdev'[m] = CASE m = n -> NoDev
                           [] m # n /\ n = BondName -> [netdev[m] EXCEPT !.rung = "none"]
                           [] OTHER -> netdev[m]
        BY <1>2 DEF NetdevGoes
      <3> QED BY <3>1, <3>2 DEF NoDev, Netdevs
    <2>1. netdev' \in [Names -> Netdevs] /\ \A m \in Names : netdev'[m].ix = IF m = n THEN 0 ELSE netdev[m].ix
      BY <1>2, <2>0 DEF NetdevGoes
    <2>2. events' \in 0..MaxNetEvents /\ indexes' \in indexes..MaxNetdevs /\ activeIx' \in 0..MaxNetdevs
      BY <1>2 DEF NetdevGoes, Happens, NetlinkInv, NetlinkTypeOK
    <2>3. \A k, m \in Names : netdev'[k].ix = netdev'[m].ix /\ netdev'[k].ix # 0 => k = m
      BY <2>1 DEF NetlinkInv, IndexInv
    <2>4. UNCHANGED <<fd, replies, seq, asked, left, outcome, ghosts>>
      BY <1>2 DEF NetdevGoes
    <2> QED BY <2>1, <2>2, <2>3, <2>4, KernelKeeps
  <1>3. ASSUME NEW p \in BondPorts, NEW l \in {"yes", "no"}, NEW g \in Rungs, PortChanges(p, l, g)
        PROVE  NetlinkInv'
    <2>1. netdev' \in [Names -> Netdevs] /\ \A m \in Names : netdev'[m].ix = netdev[m].ix
      BY <1>3 DEF PortChanges, NetlinkInv, NetlinkTypeOK, Netdevs, Names
    <2>2. events' \in 0..MaxNetEvents /\ indexes' \in indexes..MaxNetdevs /\ activeIx' \in 0..MaxNetdevs
      BY <1>3 DEF PortChanges, Happens, NetlinkInv, NetlinkTypeOK
    <2>3. \A k, m \in Names : netdev'[k].ix = netdev'[m].ix /\ netdev'[k].ix # 0 => k = m
      BY <2>1 DEF NetlinkInv, IndexInv
    <2>4. UNCHANGED <<fd, replies, seq, asked, left, outcome, ghosts>>
      BY <1>3 DEF PortChanges
    <2> QED BY <2>1, <2>2, <2>3, <2>4, KernelKeeps
  <1>4. ASSUME NEW p \in BondPorts, Reselects(p) PROVE NetlinkInv'
    <2>1. events' \in 0..MaxNetEvents /\ indexes' \in indexes..MaxNetdevs /\ activeIx' \in 0..MaxNetdevs
      BY <1>4 DEF Reselects, Happens, NetlinkInv, NetlinkTypeOK, Netdevs, Names
    <2>2. \A k, m \in Names : netdev[k].ix = netdev[m].ix /\ netdev[k].ix # 0 => k = m
      BY DEF NetlinkInv, IndexInv
    <2>3. netdev' = netdev /\ netdev \in [Names -> Netdevs]
          /\ UNCHANGED <<fd, replies, seq, asked, left, outcome, ghosts>>
      BY <1>4 DEF Reselects, NetlinkInv, NetlinkTypeOK
    <2> QED BY <2>1, <2>2, <2>3, KernelKeeps
  <1>5. CASE GoesBlind
    <2>1. NetlinkTypeOK'
      BY <1>5 DEF GoesBlind, Happens, ghosts, NetlinkInv, NetlinkTypeOK
    <2>2. CallInv' /\ QueueInv' /\ WordInv' /\ WroteInv'
      BY <1>5 DEF GoesBlind, ghosts, NetlinkInv, CallInv, QueueInv, WordInv, WroteInv
    <2>3. IndexInv'
      BY <1>5 DEF GoesBlind, ghosts, NetlinkInv, IndexInv, Bears
    <2>4. OwnAnswer' /\ MovesAsAsked'
      BY <1>5 DEF GoesBlind, ghosts, NetlinkInv, CallInv, OwnAnswer, MovesAsAsked, Heard
    <2> QED BY <2>1, <2>2, <2>3, <2>4 DEF NetlinkInv
  <1>6. CASE SendRequest
    BY <1>6, SendKeeps
  <1>7. CASE CannotOpen
    <2>1. NetlinkTypeOK'
      <3>1. seq' \in 0..(SeqLimit - 1) /\ "EMFILE" \in Errnos
        BY <1>7 DEF CannotOpen, NextSeq, NetlinkInv, NetlinkTypeOK, Errnos
      <3> QED BY <1>7, <3>1, FailsTypes DEF CannotOpen, NetlinkInv
    <2>2. CallInv' /\ QueueInv' /\ WordInv' /\ WroteInv'
      BY <1>7 DEF CannotOpen, Fails, DropsSocket, kernelSide, ghosts, NetlinkInv, CallInv,
         QueueInv, WordInv, WroteInv, NoCall
    <2>3. IndexInv'
      BY <1>7 DEF CannotOpen, Fails, kernelSide, ghosts, NetlinkInv, IndexInv, Bears, NoCall
    <2>4. OwnAnswer' /\ MovesAsAsked'
      BY <1>7 DEF CannotOpen, Fails, kernelSide, ghosts, NetlinkInv, WroteInv, OwnAnswer,
         MovesAsAsked, Heard, NoEnd
    <2> QED BY <2>1, <2>2, <2>3, <2>4 DEF NetlinkInv
  <1>8. CASE NetlinkClock
    <2>1. NetlinkTypeOK'
      BY <1>8 DEF NetlinkClock, kernelSide, ghosts, NetlinkInv, NetlinkTypeOK
    <2>2. CallInv' /\ QueueInv' /\ WordInv' /\ WroteInv'
      BY <1>8 DEF NetlinkClock, kernelSide, ghosts, NetlinkInv, CallInv, QueueInv, WordInv, WroteInv
    <2>3. IndexInv'
      BY <1>8 DEF NetlinkClock, kernelSide, ghosts, NetlinkInv, IndexInv, Bears
    <2>4. OwnAnswer' /\ MovesAsAsked'
      BY <1>8 DEF NetlinkClock, kernelSide, ghosts, NetlinkInv, OwnAnswer, MovesAsAsked, Heard
    <2> QED BY <2>1, <2>2, <2>3, <2>4 DEF NetlinkInv
  <1>9. CASE Receives
    BY <1>9, ReceivesKeeps
  <1>10. ASSUME NEW e \in {"EAGAIN", "ENOBUFS", "EINTR", "no-errno"}, RecvFails(e) PROVE NetlinkInv'
    <2>0. /\ Fails(e) /\ UNCHANGED <<kernelSide, seq, left, ghosts>> /\ asked.phase = "wait"
          /\ e # "EINTR" <=> DropsSocket(e)
      BY <1>10 DEF RecvFails, Waiting, DropsSocket
    <2>1. NetlinkTypeOK'
      <3>1. seq' \in 0..(SeqLimit - 1) /\ e \in Errnos /\ asked.step # "idle"
        BY <2>0 DEF NetlinkInv, NetlinkTypeOK, Errnos, CallInv
      <3> QED BY <2>0, <3>1, FailsTypes DEF NetlinkInv
    <2>2. CallInv' /\ QueueInv' /\ WordInv' /\ WroteInv'
      BY <2>0 DEF Fails, DropsSocket, kernelSide, ghosts, NetlinkInv, CallInv, QueueInv, WordInv,
         WroteInv, NoCall
    <2>3. IndexInv'
      BY <2>0 DEF Fails, kernelSide, ghosts, NetlinkInv, IndexInv, Bears, NoCall
    <2>4. OwnAnswer' /\ MovesAsAsked'
      BY <2>0 DEF Fails, DropsSocket, OwnAnswer, MovesAsAsked, Heard, NoEnd
    <2> QED BY <2>1, <2>2, <2>3, <2>4 DEF NetlinkInv
  <1>11. ASSUME NEW p \in BondPorts, PortState(p) \/ SetActivePort(p) PROVE NetlinkInv'
    <2>0. PICK step \in {"state", "port"} : Begins(step, p)
      BY <1>11 DEF PortState, SetActivePort
    <2>1. NetlinkTypeOK'
      BY <2>0 DEF Begins, kernelSide, NetlinkInv, NetlinkTypeOK, Steps, NoEnd, NoWord, NoCall, Names,
         Words
    <2>2. CallInv' /\ QueueInv' /\ WordInv' /\ WroteInv'
      BY <2>0 DEF Begins, kernelSide, NetlinkInv, CallInv, QueueInv, WordInv, WroteInv, NoCall, NoWord
    <2>3. IndexInv'
      BY <2>0 DEF Begins, kernelSide, NetlinkInv, IndexInv, Bears, NoCall
    <2>4. OwnAnswer' /\ MovesAsAsked'
      BY <2>0 DEF Begins, OwnAnswer, MovesAsAsked, Heard, NoEnd
    <2> QED BY <2>1, <2>2, <2>3, <2>4 DEF NetlinkInv
  <1>12. CASE UNCHANGED nlVars
    <2>1. NetlinkTypeOK' /\ CallInv' /\ QueueInv' /\ WordInv'
      BY <1>12 DEF nlVars, kernelSide, ghosts, NetlinkInv, NetlinkTypeOK, CallInv, QueueInv, WordInv
    <2>2. IndexInv' /\ WroteInv' /\ OwnAnswer' /\ MovesAsAsked'
      BY <1>12 DEF nlVars, kernelSide, ghosts, NetlinkInv, IndexInv, Bears, WroteInv, OwnAnswer,
         MovesAsAsked, Heard
    <2> QED BY <2>1, <2>2 DEF NetlinkInv
  <1> QED
    BY <1>1, <1>2, <1>3, <1>4, <1>5, <1>6, <1>7, <1>8, <1>9, <1>10, <1>11, <1>12 DEF NetlinkNext

\* So it always holds.
LEMMA NetlinkHolds == NetlinkSpec => []NetlinkInv
  <1>1. NetlinkInit => NetlinkInv
    BY NetlinkInitHolds
  <1>2. NetlinkInv /\ [NetlinkNext]_nlVars => NetlinkInv'
    BY NetlinkStepKeeps
  <1> QED BY <1>1, <1>2, PTL DEF NetlinkSpec

\* The prober's netlink socket, its queue and the operation under way keep their types:
\* no more answers wait than the receive buffer holds, no number leaves its 32 bits, and
\* the budget of a call never runs below zero (call, netlink.rs).
THEOREM NetlinkTypes == NetlinkSpec => []NetlinkTypeOK
  <1>1. NetlinkInv => NetlinkTypeOK
    BY DEF NetlinkInv
  <1> QED BY <1>1, NetlinkHolds, PTL

\* What ends an operation of the prober is the kernel's answer to its last request, though
\* calls cut short by a signal leave theirs in the queue and the number wraps (call, step
\* and call_fresh, netlink.rs): the queue of a socket still in use holds the answers to the
\* last requests, one each, and they are fewer than the numbers there are.
THEOREM AnswersAreOwn == NetlinkSpec => []OwnAnswer
  <1>1. NetlinkInv => OwnAnswer
    BY DEF NetlinkInv
  <1> QED BY <1>1, NetlinkHolds, PTL

\* set_active_port, three requests long: a move it reports was made, to the netdev that
\* bore the port's name when the bond was told; one reported refused was not made.
THEOREM MovesGoAsAsked == NetlinkSpec => []MovesAsAsked
  <1>1. NetlinkInv => MovesAsAsked
    BY DEF NetlinkInv
  <1> QED BY <1>1, NetlinkHolds, PTL

\* Both at once: what a tick of the prober may build on after port_state and
\* set_active_port have returned.
THEOREM KernelTalkHolds == NetlinkSpec => []KernelTalkSound
  BY AnswersAreOwn, MovesGoAsAsked, PTL DEF KernelTalkSound

-----------------------------------------------------------------------------
(* The engine process. *)

Process  == [at : Places, client : Askers \cup {NoAsker}, reply : Replies, timer : Nat, away : Nat]
Client   == [at : {"away", "queue", "open", "deserted", "left"}, says : Manners \cup {"nothing"},
             wait : 0..Patience, got : Replies \cup {"nothing", "closed", "timeout"},
             met : {"nobody", "others"}]
Route    == [of : Engines \cup {Stale}, proto : Protos]
Sweeping == [at : {"idle", "list", "delete", "swept", "failed"}, proto : Nat,
             shown : SUBSET Route, beside : SUBSET (Engines \cup {NoEngine})]

\* What of a process's conversation is its time, part by part.
Paced(x) ==
    /\ x.at = "read"   => x.away = x.timer /\ x.timer <= ClientIO
    /\ x.at = "state"  => x.away <= ClientIO + x.timer /\ x.timer <= StateTimeout
    /\ x.at = "change" => x.away <= ClientIO
    /\ x.at = "write"  => x.away <= (ClientIO + StateTimeout) + x.timer /\ x.timer <= ClientIO
    /\ x.at \notin {"read", "state", "change", "write"} => x.away = 0

PaceInv == \A e \in Engines : Paced(eng[e])

\* A process that has gone on to a place where it has no client.
LEMMA GoOnIs ==
    ASSUME ServeTypeOK, PaceInv, NEW e \in Engines,
           NEW place \in Places \ {"read", "state", "change", "write"}, StepTo(e, place)
    PROVE  /\ eng' \in [Engines -> Process] /\ PaceInv'
           /\ \A f \in Engines : eng'[f].at = IF f = e THEN place ELSE eng[f].at
           /\ \A f \in Engines \ {e} : eng'[f] = eng[f]
  <1> DEFINE rec == [Gone EXCEPT !.at = place]
  <1>1. eng \in [Engines -> Process]
    BY DEF ServeTypeOK, Process
  <1>2. rec \in Process /\ rec.at = place /\ rec.away = 0
    BY DEF Gone, Process, Replies
  <1>3. eng' = [eng EXCEPT ![e] = rec]
    BY DEF StepTo
  <1>4. Paced(rec)
    <2> HIDE DEF rec
    <2> QED BY <1>2 DEF Paced
  <1> HIDE DEF rec
  <1>5. \A f \in Engines : eng'[f] = IF f = e THEN rec ELSE eng[f]
    BY <1>1, <1>3
  <1>6. eng' \in [Engines -> Process]
    BY <1>1, <1>2, <1>3
  <1>7. PaceInv'
    BY <1>4, <1>5 DEF PaceInv, Paced
  <1> QED BY <1>2, <1>5, <1>6, <1>7

\* The next part of a conversation; the time of the one before counts on.
LEMMA TurnIs ==
    ASSUME ServeTypeOK, PaceInv, NEW e \in Engines, NEW place \in {"state", "change", "write"},
           NEW reply \in Replies, Turn(e, place, reply),
           \/ eng[e].at = "read"
           \/ eng[e].at \in {"state", "change"} /\ place = "write"
    PROVE  /\ eng' \in [Engines -> Process] /\ PaceInv'
           /\ \A f \in Engines : eng'[f].at = IF f = e THEN place ELSE eng[f].at
           /\ \A f \in Engines \ {e} : eng'[f] = eng[f]
           /\ eng'[e].client = eng[e].client /\ eng'[e].timer = 0
  <1> DEFINE rec == [eng[e] EXCEPT !.at = place, !.reply = reply, !.timer = 0]
  <1>1. eng \in [Engines -> Process] /\ eng[e] \in Process
    BY DEF ServeTypeOK, Process
  <1>2. rec \in Process
    BY <1>1 DEF Process, Places, Serving
  <1>3. /\ rec.at = place /\ rec.away = eng[e].away /\ rec.timer = 0 /\ rec.client = eng[e].client
        /\ eng[e].away \in Nat /\ eng[e].timer \in Nat
    BY <1>1 DEF Process
  <1>4. eng' = [eng EXCEPT ![e] = rec]
    BY DEF Turn
  <1>5. Paced(rec)
    <2>1. Paced(eng[e])
      BY DEF PaceInv
    <2> HIDE DEF rec
    <2>2. eng[e].at = "read" => eng[e].away <= ClientIO
      BY <1>3, <2>1, ServeAssumption DEF Paced
    <2>3. eng[e].at = "state" => eng[e].away <= ClientIO + StateTimeout
      BY <1>3, <2>1, ServeAssumption DEF Paced
    <2>4. eng[e].at = "change" => eng[e].away <= ClientIO
      BY <2>1 DEF Paced
    <2>5. eng[e].away <= ClientIO + StateTimeout /\ (place \in {"state", "change"} => eng[e].away <= ClientIO)
      BY <1>3, <2>2, <2>3, <2>4, ServeAssumption
    <2> QED BY <1>3, <2>5, ServeAssumption DEF Paced
  <1> HIDE DEF rec
  <1>6. \A f \in Engines : eng'[f] = IF f = e THEN rec ELSE eng[f]
    BY <1>1, <1>4
  <1>7. eng' \in [Engines -> Process]
    BY <1>1, <1>2, <1>4
  <1>8. PaceInv'
    BY <1>5, <1>6 DEF PaceInv, Paced
  <1> QED BY <1>3, <1>6, <1>7, <1>8

\* The next client of a process in its loop.
LEMMA AcceptIs ==
    ASSUME ServeTypeOK, PaceInv, NEW e \in Engines, NEW c \in Askers, AcceptAsker(e, c)
    PROVE  /\ eng' \in [Engines -> Process] /\ PaceInv'
           /\ \A f \in Engines : eng'[f].at = IF f = e THEN "read" ELSE eng[f].at
           /\ \A f \in Engines \ {e} : eng'[f] = eng[f]
           /\ eng'[e].client = c
  <1> DEFINE rec == [Gone EXCEPT !.at = "read", !.client = c]
  <1>1. eng \in [Engines -> Process]
    BY DEF ServeTypeOK, Process
  <1>2. rec \in Process /\ rec.at = "read" /\ rec.away = 0 /\ rec.timer = 0 /\ rec.client = c
    BY DEF Gone, Process, Replies, Places, Serving
  <1>3. eng' = [eng EXCEPT ![e] = rec]
    BY DEF AcceptAsker
  <1>4. Paced(rec)
    <2> HIDE DEF rec
    <2> QED BY <1>2, ServeAssumption DEF Paced
  <1> HIDE DEF rec
  <1>5. \A f \in Engines : eng'[f] = IF f = e THEN rec ELSE eng[f]
    BY <1>1, <1>3
  <1>6. eng' \in [Engines -> Process]
    BY <1>1, <1>2, <1>3
  <1>7. PaceInv'
    BY <1>4, <1>5 DEF PaceInv, Paced
  <1> QED BY <1>2, <1>5, <1>6, <1>7

\* A second more, for those whose time is not up.
LEMMA ClockIs ==
    ASSUME ServeTypeOK, PaceInv, ServeClock
    PROVE  /\ eng' \in [Engines -> Process] /\ PaceInv'
           /\ \A f \in Engines : eng'[f].at = eng[f].at /\ eng'[f].client = eng[f].client
           /\ \A f \in Engines : eng[f].at = "state" => eng'[f].timer = eng[f].timer + 1
  <1>1. eng \in [Engines -> Process]
    BY DEF ServeTypeOK, Process
  <1>2. ASSUME NEW f \in Engines
        PROVE  /\ eng'[f] \in Process /\ Paced(eng'[f]) /\ eng'[f].at = eng[f].at
               /\ eng'[f].client = eng[f].client
               /\ eng[f].at = "state" => eng'[f].timer = eng[f].timer + 1
    <2>1. eng[f] \in Process /\ Paced(eng[f])
      BY <1>1 DEF PaceInv
    <2>2. eng[f].timer \in Nat /\ eng[f].away \in Nat
      BY <2>1 DEF Process
    <2>3. CASE eng[f].at \in {"read", "state", "write"}
      <3>1. eng'[f] = [eng[f] EXCEPT !.timer = eng[f].timer + 1, !.away = eng[f].away + 1]
        BY <2>3 DEF ServeClock
      <3>2. /\ eng'[f].at = eng[f].at /\ eng'[f].client = eng[f].client
            /\ eng'[f].timer = eng[f].timer + 1 /\ eng'[f].away = eng[f].away + 1
        BY <2>1, <3>1 DEF Process
      <3>3. eng'[f] \in Process
        <4>1. \A t, a \in Nat : [eng[f] EXCEPT !.timer = t, !.away = a] \in Process
          BY <2>1 DEF Process
        <4>2. eng[f].timer + 1 \in Nat /\ eng[f].away + 1 \in Nat
          BY <2>2
        <4> QED BY <3>1, <4>1, <4>2
      <3>4. eng[f].timer # Limit(eng[f].at)
        BY <2>3 DEF ServeClock, Expired
      <3>5. eng[f].timer # IF eng[f].at = "state" THEN StateTimeout ELSE ClientIO
        BY <3>4 DEF Limit
      <3>6. Paced(eng'[f])
        <4>1. CASE eng[f].at = "read"
          BY <2>1, <2>2, <3>2, <3>5, <4>1, ServeAssumption DEF Paced
        <4>2. CASE eng[f].at = "state"
          BY <2>1, <2>2, <3>2, <3>5, <4>2, ServeAssumption DEF Paced
        <4>3. CASE eng[f].at = "write"
          BY <2>1, <2>2, <3>2, <3>5, <4>3, ServeAssumption DEF Paced
        <4> QED BY <2>3, <4>1, <4>2, <4>3
      <3> QED BY <3>2, <3>3, <3>6
    <2>4. CASE eng[f].at \notin {"read", "state", "write"}
      <3>1. eng'[f] = eng[f]
        BY <2>4 DEF ServeClock
      <3> QED BY <2>1, <2>4, <3>1
    <2> QED BY <2>3, <2>4
  <1>3. eng' \in [Engines -> Process]
    BY <1>2 DEF ServeClock
  <1>4. PaceInv'
    BY <1>2 DEF PaceInv, Paced
  <1> QED BY <1>2, <1>3, <1>4

\* Where a process holds the lock.
Held == Places \ {"gone", "lock"}

\* One process holds the lock; what the path and the routes are says where it is.
OwnerInv ==
    /\ \A e \in Engines : eng[e].at \in Held <=> engLock = e
    /\ engLock = NoEngine => sockPath \in {NoEngine, Stale} /\ \A r \in kroutes : r.of = Stale
    /\ \A e \in Engines :
          /\ eng[e].at \in {"start", "commit", "bind"} => sockPath \in {NoEngine, Stale}
          /\ eng[e].at \in Serving => sockPath = e
          /\ eng[e].at = "cleanup" => sockPath \in {e, NoEngine, Stale}
          /\ eng[e].at \in {"shutdown", "exit"} => sockPath = NoEngine
          /\ eng[e].at = "start" => \A r \in kroutes : r.of = Stale
          /\ eng[e].at \in Held \ {"start"} => \A r \in kroutes : r.of = e
          /\ eng[e].at = "exit" => kroutes = {}

\* A client connected that met nobody is the only one, and where it stands in its
\* conversation bounds how long it has waited.
Lonely(c) == asker[c].at # "away" /\ asker[c].met = "nobody"

Alone(c) ==
    Lonely(c) =>
        /\ \A d \in Askers \ {c} : asker[d].at = "away"
        /\ sockPath \in Engines /\ asker[c].at # "deserted"
        /\ asker[c].at = "queue" => eng[sockPath].at = "loop" /\ asker[c].wait = 0
        /\ asker[c].at \in {"open", "left"} =>
               eng[sockPath].at \in Serving \ {"loop"} /\ eng[sockPath].client = c
        /\ asker[c].at = "open" /\ asker[c].says \in {"state", "junk"} =>
               /\ eng[sockPath].at # "change"
               /\ eng[sockPath].at = "read"  => asker[c].wait = 0
               /\ eng[sockPath].at = "state" => asker[c].wait <= eng[sockPath].timer
               /\ eng[sockPath].at = "write" => asker[c].wait <= StateTimeout

HeardInv == HeardAlone /\ \A c \in Askers : Alone(c)

\* A sweep knows of every process that lives beside it; with none, the routes of the
\* protocols it has passed are gone, and no new one has come.
SweepInv ==
    /\ sweep.at # "idle" => \A e \in Engines : Lives(e) => e \in sweep.beside
    /\ sweep.beside = {} /\ sweep.at \in {"list", "delete"} =>
          /\ \A r \in kroutes : r.proto >= sweep.proto
          /\ sweep.at = "delete" => \A r \in kroutes : r.proto = sweep.proto => r \in sweep.shown
    /\ SweepsAll

ServeInv == ServeTypeOK /\ PaceInv /\ OwnerInv /\ HeardInv /\ SweepInv

-----------------------------------------------------------------------------
(* What the parts of a step keep. *)

\* A client whose connection ends; what it was told is not its own timeout.
Departs(c) ==
    /\ asker'[c].at = "away" /\ asker'[c].says = asker[c].says /\ asker'[c].met = asker[c].met
    /\ asker'[c].got = "timeout" => asker[c].got = "timeout"

\* An answer reaches the client the engine serves and nobody else.
LEMMA TellIs ==
    ASSUME ServeTypeOK, NEW e \in Engines, NEW got \in Replies \cup {"closed"}, Tell(e, got)
    PROVE  /\ asker' \in [Askers -> Client]
           /\ \A c \in Askers : asker'[c] = asker[c] \/ Departs(c)
           /\ \A c \in Askers : c = eng[e].client => Departs(c)
  <1>1. asker \in [Askers -> Client]
    BY DEF ServeTypeOK, Client
  <1>2. ASSUME NEW c \in Askers, c = eng[e].client
        PROVE  asker'[c] \in Client /\ Departs(c)
    <2> DEFINE g == IF asker[c].at = "open" THEN got ELSE asker[c].got
    <2>1. asker[c] \in Client
      BY <1>1
    <2>2. g \in Replies \cup {"nothing", "closed", "timeout"} /\ (g = "timeout" => asker[c].got = "timeout")
      BY <2>1 DEF Client, Replies
    <2>3. asker'[c] = [asker[c] EXCEPT !.at = "away", !.wait = 0, !.got = g]
      BY <1>2 DEF Tell
    <2> HIDE DEF g
    <2>4. /\ asker'[c] \in Client /\ asker'[c].at = "away" /\ asker'[c].says = asker[c].says
          /\ asker'[c].met = asker[c].met /\ asker'[c].got = g
      <3>1. 0 \in 0..Patience
        BY ServeAssumption
      <3> QED BY <2>1, <2>2, <2>3, <3>1 DEF Client
    <2> QED BY <2>2, <2>4 DEF Departs
  <1>3. ASSUME NEW c \in Askers, c # eng[e].client PROVE asker'[c] = asker[c]
    BY <1>3 DEF Tell
  <1>4. \A c \in Askers : asker'[c] \in Client
    BY <1>1, <1>2, <1>3
  <1>5. asker' = [c \in Askers |-> asker'[c]]
    BY DEF Tell
  <1>6. asker' \in [Askers -> Client]
    BY <1>4, <1>5
  <1> QED BY <1>2, <1>3, <1>6

\* Clients whose engine is gone leave; the others stay as they were.
LEMMA CutOffIs ==
    ASSUME ServeTypeOK, NEW gone, CutOff(gone)
    PROVE  /\ asker' \in [Askers -> Client]
           /\ \A c \in Askers : asker'[c] = asker[c] \/ Departs(c)
           /\ gone => \A c \in Askers : asker'[c].at = "away"
  <1>1. asker \in [Askers -> Client]
    BY DEF ServeTypeOK, Client
  <1>2. ASSUME NEW c \in Askers, gone, asker[c].at # "away"
        PROVE  asker'[c] \in Client /\ Departs(c)
    <2> DEFINE g == IF asker[c].at \in {"queue", "open"} THEN "closed" ELSE asker[c].got
    <2>1. asker[c] \in Client
      BY <1>1
    <2>2. g \in Replies \cup {"nothing", "closed", "timeout"} /\ (g = "timeout" => asker[c].got = "timeout")
      BY <2>1 DEF Client, Replies
    <2>3. asker'[c] = [asker[c] EXCEPT !.at = "away", !.wait = 0, !.got = g]
      BY <1>2 DEF CutOff
    <2> HIDE DEF g
    <2>4. /\ asker'[c] \in Client /\ asker'[c].at = "away" /\ asker'[c].says = asker[c].says
          /\ asker'[c].met = asker[c].met /\ asker'[c].got = g
      <3>1. 0 \in 0..Patience
        BY ServeAssumption
      <3> QED BY <2>1, <2>2, <2>3, <3>1 DEF Client
    <2> QED BY <2>2, <2>4 DEF Departs
  <1>3. ASSUME NEW c \in Askers, ~gone \/ asker[c].at = "away" PROVE asker'[c] = asker[c]
    BY <1>3 DEF CutOff
  <1>4. \A c \in Askers : asker'[c] \in Client
    BY <1>1, <1>2, <1>3
  <1>5. asker' = [c \in Askers |-> asker'[c]]
    BY DEF CutOff
  <1>6. asker' \in [Askers -> Client]
    BY <1>4, <1>5
  <1>7. gone => \A c \in Askers : asker'[c].at = "away"
    BY <1>2, <1>3 DEF Departs
  <1>8. \A c \in Askers : asker'[c] = asker[c] \/ Departs(c)
    BY <1>2, <1>3
  <1> QED BY <1>6, <1>7, <1>8

\* A conversation that goes on under another process, or ends, leaves the others as they were.
LEMMA HeardAside ==
    ASSUME HeardInv, \A c \in Askers : asker'[c] = asker[c] \/ Departs(c),
           \A c \in Askers : Lonely(c) /\ asker'[c].at # "away" =>
               sockPath' = sockPath /\ eng'[sockPath] = eng[sockPath]
    PROVE  HeardInv'
  <1>1. HeardAlone'
    BY DEF HeardInv, HeardAlone, Departs
  <1>2. ASSUME NEW c \in Askers, Lonely(c)' PROVE Alone(c)'
    <2>1. asker'[c] = asker[c] /\ asker'[c].at # "away"
      BY <1>2 DEF Lonely, Departs
    <2>2. Lonely(c) /\ Alone(c)
      BY <1>2, <2>1 DEF Lonely, HeardInv
    <2>3. sockPath' = sockPath /\ eng'[sockPath] = eng[sockPath]
      BY <2>1, <2>2
    <2>4. \A d \in Askers \ {c} : asker'[d].at = "away"
      BY <2>2 DEF Alone, Departs
    <2> QED BY <2>1, <2>2, <2>3, <2>4 DEF Alone
  <1>3. \A c \in Askers : Alone(c)'
    BY <1>2 DEF Alone
  <1> QED BY <1>1, <1>3 DEF HeardInv

\* The lock, the path and the routes when a process moves within its loop, if at all.
LEMMA OwnerAside ==
    ASSUME OwnerInv, UNCHANGED <<engLock, sockPath>>,
           \A f \in Engines : eng'[f].at = eng[f].at \/ (eng'[f].at \in Serving /\ eng[f].at \in Serving),
           \A r \in kroutes' : r \in kroutes \/ \E f \in Engines : eng[f].at \in Serving /\ r.of = f
    PROVE  OwnerInv'
  <1>1. /\ Serving \subseteq Held
        /\ \A at \in Serving : 
               at \notin {"gone", "lock", "start", "commit", "bind", "cleanup", "shutdown", "exit"}
    BY DEF Held, Places, Serving
  <1>2. ASSUME NEW f \in Engines, eng[f].at \in Serving
        PROVE  engLock = f /\ sockPath = f /\ \A r \in kroutes' : r.of = f
    <2>1. engLock = f /\ sockPath = f /\ \A r \in kroutes : r.of = f
      BY <1>1, <1>2 DEF OwnerInv
    <2>2. \A g \in Engines : eng[g].at \in Serving => g = f
      BY <1>1, <2>1 DEF OwnerInv
    <2> QED BY <2>1, <2>2
  <1>3. (\A f \in Engines : eng[f].at \notin Serving) => \A r \in kroutes' : r \in kroutes
    OBVIOUS
  <1>4. (\E f \in Engines : eng[f].at \in Serving) => engLock # NoEngine
    BY <1>2, ServeAssumption
  <1>5. \A f \in Engines : eng'[f].at \in Held <=> engLock' = f
    BY <1>1 DEF OwnerInv
  <1>6. engLock' = NoEngine => sockPath' \in {NoEngine, Stale} /\ \A r \in kroutes' : r.of = Stale
    BY <1>3, <1>4 DEF OwnerInv
  <1>7. ASSUME NEW e \in Engines, eng[e].at \in Held
        PROVE  \A f \in Engines : eng[f].at \in Serving => f = e
    BY <1>1, <1>7 DEF OwnerInv
  <1>8. ASSUME NEW e \in Engines
        PROVE  /\ eng'[e].at \in {"start", "commit", "bind"} => sockPath' \in {NoEngine, Stale}
               /\ eng'[e].at \in Serving => sockPath' = e
               /\ eng'[e].at = "cleanup" => sockPath' \in {e, NoEngine, Stale}
               /\ eng'[e].at \in {"shutdown", "exit"} => sockPath' = NoEngine
               /\ eng'[e].at = "start" => \A r \in kroutes' : r.of = Stale
               /\ eng'[e].at \in Held \ {"start"} => \A r \in kroutes' : r.of = e
               /\ eng'[e].at = "exit" => kroutes' = {}
    <2>1. CASE eng[e].at \in Serving
      <3>1. eng'[e].at \in Serving
        BY <2>1
      <3> QED BY <1>1, <1>2, <2>1, <3>1
    <2>2. CASE eng[e].at \notin Serving
      <3>1. eng'[e].at = eng[e].at
        BY <2>2
      <3>2. eng[e].at \in Held => \A r \in kroutes' : r \in kroutes
        BY <1>7, <2>2
      <3>3. {"start", "exit"} \subseteq Held
        BY DEF Held, Places, Serving
      <3>4. eng[e].at \in {"start", "exit"} => \A r \in kroutes' : r \in kroutes
        BY <3>2, <3>3
      <3>5. eng[e].at = "exit" => kroutes' = {}
        BY <3>4 DEF OwnerInv
      <3>6. eng[e].at = "start" => \A r \in kroutes' : r.of = Stale
        BY <3>4 DEF OwnerInv
      <3>7. eng[e].at \in Held \ {"start"} => \A r \in kroutes' : r.of = e
        BY <3>2 DEF OwnerInv
      <3> QED BY <2>2, <3>1, <3>5, <3>6, <3>7 DEF OwnerInv
    <2> QED BY <2>1, <2>2
  <1> QED BY <1>5, <1>6, <1>8 DEF OwnerInv

\* A sweep and the steps beside it.
LEMMA SweepAside ==
    ASSUME SweepInv, sweep' = sweep, \A e \in Engines : Lives(e)' => Lives(e),
           kroutes' \subseteq kroutes \/ \E e \in Engines : Lives(e)
    PROVE  SweepInv'
  <1>1. CASE kroutes' \subseteq kroutes
    BY <1>1 DEF SweepInv, SweepsAll
  <1>2. CASE \E e \in Engines : Lives(e)
    <2>1. sweep.at # "idle" => sweep.beside # {}
      BY <1>2 DEF SweepInv
    <2> QED BY <2>1 DEF SweepInv, SweepsAll
  <1> QED BY <1>1, <1>2

\* The next part of a conversation, and how long its client has waited.
LEMMA HeardTurns ==
    ASSUME HeardInv, UNCHANGED <<asker, sockPath>>, NEW e \in Engines,
           eng[e].at \in Serving \ {"loop"}, eng'[e].at \in Serving \ {"loop", "read"},
           eng'[e].client = eng[e].client, \A f \in Engines \ {e} : eng'[f] = eng[f],
           \A c \in Askers :
               /\ Lonely(c) /\ c = eng[e].client /\ sockPath = e
               /\ asker[c].at = "open" /\ asker[c].says \in {"state", "junk"}
               => /\ eng'[e].at # "change"
                  /\ eng'[e].at = "state" => asker[c].wait <= eng'[e].timer
                  /\ eng'[e].at = "write" => asker[c].wait <= StateTimeout
    PROVE  HeardInv'
  <1>1. HeardAlone'
    BY DEF HeardInv, HeardAlone
  <1>2. ASSUME NEW c \in Askers, Lonely(c)' PROVE Alone(c)'
    <2>1. Lonely(c) /\ Alone(c)
      BY <1>2 DEF Lonely, HeardInv
    <2>2. CASE sockPath = e
      BY <2>1, <2>2 DEF Alone, Lonely, Serving
    <2>3. CASE sockPath # e
      <3>1. sockPath \in Engines \ {e}
        BY <2>1, <2>3 DEF Alone
      <3>2. eng'[sockPath] = eng[sockPath]
        BY <3>1
      <3> QED BY <2>1, <3>2 DEF Alone, Lonely
    <2> QED BY <2>2, <2>3
  <1>3. \A c \in Askers : Alone(c)'
    BY <1>2 DEF Alone
  <1> QED BY <1>1, <1>3 DEF HeardInv

\* A client that asks meets those that are there.
LEMMA HeardAsks ==
    ASSUME ServeTypeOK, HeardInv, NEW c \in Askers, NEW says \in Manners, Asks(c, says)
    PROVE  asker' \in [Askers -> Client] /\ HeardInv'
  <1>0. asker \in [Askers -> Client] /\ UNCHANGED <<eng, sockPath>> /\ Listened
    BY DEF ServeTypeOK, Client, Asks
  <1> DEFINE met == IF Unhindered(c) THEN "nobody" ELSE "others"
  <1>1. asker'[c] = [Away EXCEPT !.at = "queue", !.says = says, !.met = met]
    BY DEF Asks
  <1>2. /\ asker'[c] \in Client /\ asker'[c].at = "queue" /\ asker'[c].wait = 0
        /\ asker'[c].got = "nothing" /\ asker'[c].met = met
    <2>1. 0 \in 0..Patience
      BY ServeAssumption
    <2> QED BY <1>1, <2>1 DEF Away, Client
  <1>3. ASSUME NEW d \in Askers \ {c}
        PROVE  /\ asker'[d] \in Client /\ asker'[d].at = asker[d].at /\ asker'[d].says = asker[d].says
               /\ asker'[d].got = asker[d].got
               /\ asker'[d].met = IF asker[d].at = "away" THEN asker[d].met ELSE "others"
    <2>1. asker'[d] = [asker[d] EXCEPT !.met = IF asker[d].at = "away" THEN asker[d].met ELSE "others"]
      BY <1>3 DEF Asks
    <2>2. asker[d] \in Client
      BY <1>0, <1>3
    <2> QED BY <2>1, <2>2 DEF Client
  <1>4. asker' \in [Askers -> Client]
    <2>1. asker' = [d \in Askers |-> asker'[d]]
      BY DEF Asks
    <2>2. \A d \in Askers : asker'[d] \in Client
      BY <1>2, <1>3
    <2> QED BY <2>1, <2>2
  <1>5. HeardAlone'
    BY <1>2, <1>3 DEF HeardInv, HeardAlone
  <1>6. ASSUME NEW d \in Askers, Lonely(d)' PROVE Alone(d)'
    <2>1. d = c /\ Unhindered(c)
      BY <1>2, <1>3, <1>6 DEF Lonely
    <2>2. \A x \in Askers \ {c} : asker'[x].at = "away"
      BY <1>3, <2>1 DEF Unhindered
    <2>3. sockPath \in Engines /\ eng[sockPath].at = "loop"
      BY <1>0, <2>1 DEF Unhindered, Listened
    <2> QED BY <1>0, <1>2, <2>1, <2>2, <2>3 DEF Alone
  <1>7. \A d \in Askers : Alone(d)'
    BY <1>6 DEF Alone
  <1> QED BY <1>4, <1>5, <1>7 DEF HeardInv

\* The engine takes the client that is alone, or one that is not.
LEMMA HeardAccept ==
    ASSUME ServeTypeOK, PaceInv, HeardInv, NEW e \in Engines, NEW c \in Askers, AcceptAsker(e, c)
    PROVE  asker' \in [Askers -> Client] /\ HeardInv'
  <1>0. /\ asker \in [Askers -> Client] /\ sockPath = e /\ sockPath' = e /\ eng[e].at = "loop"
        /\ asker[c].at \in {"queue", "deserted"}
    BY DEF ServeTypeOK, Client, AcceptAsker
  <1>1. eng'[e].at = "read" /\ eng'[e].client = c
    BY AcceptIs
  <1> DEFINE at == IF asker[c].at = "queue" THEN "open" ELSE "left"
  <1>2. asker' = [asker EXCEPT ![c] = [asker[c] EXCEPT !.at = at]]
    BY DEF AcceptAsker
  <1>3. /\ asker'[c] \in Client /\ asker'[c].at = at /\ asker'[c].says = asker[c].says
        /\ asker'[c].got = asker[c].got /\ asker'[c].met = asker[c].met /\ asker'[c].wait = asker[c].wait
    <2>1. asker'[c] = [asker[c] EXCEPT !.at = at] /\ asker[c] \in Client
      BY <1>0, <1>2
    <2> QED BY <2>1 DEF Client
  <1>4. \A d \in Askers \ {c} : asker'[d] = asker[d]
    BY <1>0, <1>2
  <1>5. asker' \in [Askers -> Client]
    BY <1>0, <1>2, <1>3
  <1>6. HeardAlone'
    BY <1>3, <1>4 DEF HeardInv, HeardAlone
  <1>7. ASSUME NEW d \in Askers, Lonely(d)' PROVE Alone(d)'
    <2>1. Lonely(d) /\ Alone(d)
      BY <1>0, <1>3, <1>4, <1>7 DEF Lonely, HeardInv
    <2>2. d = c
      BY <1>0, <2>1 DEF Alone
    <2>3. asker[c].at = "queue" /\ asker[c].wait = 0
      BY <1>0, <2>1, <2>2 DEF Alone
    <2>4. \A x \in Askers \ {c} : asker'[x].at = "away"
      BY <1>4, <2>1, <2>2 DEF Alone
    <2> QED BY <1>0, <1>1, <1>3, <2>2, <2>3, <2>4 DEF Alone, Serving
  <1>8. \A d \in Askers : Alone(d)'
    BY <1>7 DEF Alone
  <1> QED BY <1>5, <1>6, <1>8 DEF HeardInv

\* A second passes only for a client whose answer the providers owe.
LEMMA HeardClock ==
    ASSUME ServeTypeOK, PaceInv, HeardInv, ServeClock
    PROVE  asker' \in [Askers -> Client] /\ HeardInv'
  <1>0. asker \in [Askers -> Client] /\ sockPath' = sockPath
    BY DEF ServeTypeOK, Client, ServeClock
  <1>1. ASSUME NEW c \in Askers
        PROVE  /\ asker'[c] \in Client /\ asker'[c].at = asker[c].at /\ asker'[c].says = asker[c].says
               /\ asker'[c].got = asker[c].got /\ asker'[c].met = asker[c].met
               /\ asker'[c].wait \in {asker[c].wait, asker[c].wait + 1} /\ asker[c].wait \in Nat
    <2>1. asker[c] \in Client /\ asker[c].wait \in 0..Patience
      BY <1>0 DEF Client
    <2>2. CASE c \in Patient
      <3> DEFINE w == asker[c].wait + 1
      <3>1. asker'[c] = [asker[c] EXCEPT !.wait = w]
        BY <2>2 DEF ServeClock
      <3>2. w \in 0..Patience /\ asker[c].wait \in Nat
        <4>1. asker[c].wait < Patience
          BY <2>2 DEF ServeClock
        <4> QED BY <2>1, <4>1, ServeAssumption
      <3> HIDE DEF w
      <3>3. /\ asker'[c] \in Client /\ asker'[c].at = asker[c].at /\ asker'[c].says = asker[c].says
            /\ asker'[c].got = asker[c].got /\ asker'[c].met = asker[c].met /\ asker'[c].wait = w
        BY <2>1, <3>1, <3>2 DEF Client
      <3> QED BY <3>2, <3>3 DEF w
    <2>3. CASE c \notin Patient
      <3>1. asker'[c] = asker[c]
        BY <2>3 DEF ServeClock
      <3> QED BY <2>1, <3>1, ServeAssumption
    <2> QED BY <2>2, <2>3
  <1>2. asker' \in [Askers -> Client]
    <2>1. asker' = [c \in Askers |-> asker'[c]]
      BY DEF ServeClock
    <2> QED BY <1>1, <2>1
  <1>3. HeardAlone'
    BY <1>1 DEF HeardInv, HeardAlone
  <1>4. ASSUME NEW c \in Askers, Lonely(c)' PROVE Alone(c)'
    <2>1. Lonely(c) /\ Alone(c)
      BY <1>1, <1>4 DEF Lonely, HeardInv
    <2> DEFINE e == sockPath
    <2>2. e \in Engines /\ Resting(e)
      BY <2>1 DEF Alone, ServeClock
    <2>3. /\ eng[e].at = "loop" => asker[c].at # "queue"
          /\ eng[e].at = "read" /\ eng[e].client = c => asker[c].says = "mute"
          /\ eng[e].at = "write" /\ eng[e].client = c => asker[c].says = "deaf"
      BY <2>2 DEF Resting
    <2>4. eng'[e].at = eng[e].at /\ eng'[e].client = eng[e].client
          /\ (eng[e].at = "state" => eng'[e].timer = eng[e].timer + 1)
      BY <2>2, ClockIs
    <2>5. asker[c].at # "queue"
      BY <2>1, <2>3 DEF Alone
    <2>6. \A d \in Askers \ {c} : asker'[d].at = "away"
      BY <1>1, <2>1 DEF Alone
    <2>7. asker'[c].at = "open" /\ asker'[c].says \in {"state", "junk"} =>
              eng'[e].at = "state" /\ asker'[c].wait <= eng'[e].timer
      <3> SUFFICES ASSUME asker'[c].at = "open", asker'[c].says \in {"state", "junk"}
                   PROVE  eng'[e].at = "state" /\ asker'[c].wait <= eng'[e].timer
        OBVIOUS
      <3>1. asker[c].at = "open" /\ asker[c].says \in {"state", "junk"}
        BY <1>1
      <3>2. eng[e].at = "state"
        BY <2>1, <2>3, <3>1 DEF Alone, Serving
      <3>3. asker[c].wait <= eng[e].timer /\ eng[e].timer \in Nat
        BY <2>1, <2>2, <3>1, <3>2 DEF Alone, ServeTypeOK
      <3>4. asker'[c].wait <= eng[e].timer + 1
        BY <1>1, <3>3
      <3> QED BY <2>4, <3>2, <3>4
    <2> QED BY <1>0, <1>1, <2>1, <2>2, <2>4, <2>5, <2>6, <2>7 DEF Alone
  <1>5. \A c \in Askers : Alone(c)'
    BY <1>4 DEF Alone
  <1> QED BY <1>2, <1>3, <1>5 DEF HeardInv

\* Who gives up was not alone, or asked for nothing.
LEMMA HeardGivesUp ==
    ASSUME ServeTypeOK, PaceInv, HeardInv, NEW c \in Askers, GivesUp(c)
    PROVE  asker' \in [Askers -> Client] /\ HeardInv'
  <1>0. /\ asker \in [Askers -> Client] /\ UNCHANGED <<eng, sockPath>>
        /\ asker[c].at \in {"queue", "open"} /\ asker[c].wait = Patience
    BY DEF ServeTypeOK, Client, GivesUp, Patient
  <1> DEFINE at == IF asker[c].at = "queue" THEN "deserted" ELSE "left"
  <1>1. asker' = [asker EXCEPT ![c] = [asker[c] EXCEPT !.at = at, !.got = "timeout"]]
    BY DEF GivesUp
  <1>2. /\ asker'[c] \in Client /\ asker'[c].at = at /\ asker'[c].says = asker[c].says
        /\ asker'[c].got = "timeout" /\ asker'[c].met = asker[c].met
    <2>1. asker'[c] = [asker[c] EXCEPT !.at = at, !.got = "timeout"] /\ asker[c] \in Client
      BY <1>0, <1>1
    <2> QED BY <2>1 DEF Client
  <1>3. \A d \in Askers \ {c} : asker'[d] = asker[d]
    BY <1>0, <1>1
  <1>4. asker' \in [Askers -> Client]
    BY <1>0, <1>1, <1>2
  <1>5. ASSUME asker[c].met = "nobody"
        PROVE  /\ Lonely(c) /\ Alone(c) /\ asker[c].at = "open"
               /\ asker[c].says \notin {"state", "junk"}
    <2>1. Lonely(c) /\ Alone(c)
      BY <1>0, <1>5 DEF Lonely, HeardInv
    <2>2. Patience > StateTimeout /\ Patience \in Nat /\ StateTimeout \in Nat /\ Patience # 0
      BY ServeAssumption
    <2>3. asker[c].at = "open"
      BY <1>0, <2>1, <2>2 DEF Alone
    <2>4. ASSUME asker[c].says \in {"state", "junk"} PROVE FALSE
      <3>1. sockPath \in Engines /\ eng[sockPath].at \in {"read", "state", "write"}
        BY <2>1, <2>3, <2>4 DEF Alone, Serving
      <3>2. eng[sockPath].at = "read" => asker[c].wait = 0
        BY <2>1, <2>3, <2>4 DEF Alone
      <3>3. eng[sockPath].at = "state" => asker[c].wait <= StateTimeout
        <4>1. eng[sockPath].at = "state" => asker[c].wait <= eng[sockPath].timer
          BY <2>1, <2>3, <2>4 DEF Alone
        <4>2. eng[sockPath].at = "state" => eng[sockPath].timer <= StateTimeout
          BY <3>1 DEF PaceInv, Paced
        <4>3. eng[sockPath].timer \in Nat
          BY <3>1 DEF ServeTypeOK
        <4> QED BY <1>0, <2>2, <4>1, <4>2, <4>3
      <3>4. eng[sockPath].at = "write" => asker[c].wait <= StateTimeout
        BY <2>1, <2>3, <2>4 DEF Alone
      <3> QED BY <1>0, <2>2, <3>1, <3>2, <3>3, <3>4
    <2> QED BY <2>1, <2>3, <2>4
  <1>6. HeardAlone'
    <2>1. asker[c].met \in {"nobody", "others"}
      BY <1>0 DEF Client
    <2> QED BY <1>2, <1>3, <1>5, <2>1 DEF HeardInv, HeardAlone
  <1>7. ASSUME NEW d \in Askers, Lonely(d)' PROVE Alone(d)'
    <2>1. Lonely(d) /\ Alone(d)
      BY <1>0, <1>2, <1>3, <1>7 DEF Lonely, HeardInv
    <2>2. d = c
      BY <1>0, <2>1 DEF Alone
    <2>3. asker[c].at = "open" /\ asker'[c].at = "left"
      BY <1>2, <1>5, <2>1, <2>2 DEF Lonely
    <2>4. \A x \in Askers \ {c} : asker'[x].at = "away"
      BY <1>3, <2>1, <2>2 DEF Alone
    <2> QED BY <1>0, <2>1, <2>2, <2>3, <2>4 DEF Alone
  <1>8. \A d \in Askers : Alone(d)'
    BY <1>7 DEF Alone
  <1> QED BY <1>4, <1>6, <1>8 DEF HeardInv

-----------------------------------------------------------------------------
(* Every step. *)

\* No engine, no client.
LEMMA ServeInitHolds == EngineServeInit => ServeInv
  <1> SUFFICES ASSUME EngineServeInit PROVE ServeInv
    OBVIOUS
  <1>0. /\ \A e \in Engines : eng[e] = Gone
        /\ \A c \in Askers : asker[c] = Away
        /\ engLock = NoEngine /\ sockPath = NoEngine /\ kroutes = {} /\ sweep = NoSweep
    BY DEF EngineServeInit
  <1>1. Gone \in Process /\ Gone.at = "gone" /\ Gone.away = 0
    BY DEF Gone, Process, Places, Replies
  <1>2. Away \in Client /\ Away.at = "away" /\ Away.got = "nothing"
    <2>1. 0 \in 0..Patience
      BY ServeAssumption
    <2> QED BY <2>1 DEF Away, Client
  <1>3. NoSweep \in Sweeping /\ NoSweep.at = "idle"
    BY DEF NoSweep, Sweeping
  <1>4. ServeTypeOK
    <2>1. eng \in [Engines -> Process] /\ asker \in [Askers -> Client] /\ sweep \in Sweeping
      BY <1>1, <1>2, <1>3 DEF EngineServeInit
    <2> QED BY <2>1, ServeAssumption DEF EngineServeInit, ServeTypeOK, Process, Client, Sweeping,
               Route
  <1>5. PaceInv
    BY <1>0, <1>1 DEF PaceInv, Paced
  <1>6. OwnerInv
    <2>1. \A e \in Engines : eng[e].at = "gone" /\ engLock # e
      BY <1>0, <1>1, ServeAssumption
    <2> QED BY <1>0, <2>1 DEF OwnerInv, Held, Serving
  <1>7. HeardInv
    BY <1>0, <1>2 DEF HeardInv, HeardAlone, Alone, Lonely
  <1>8. SweepInv
    BY <1>0, <1>3 DEF SweepInv, SweepsAll
  <1> QED BY <1>4, <1>5, <1>6, <1>7, <1>8 DEF ServeInv

\* A process outside its loop is not the one a lonely client talks to.
LEMMA NotTalking ==
    ASSUME ServeInv, NEW e \in Engines, eng[e].at \notin Serving, NEW c \in Askers, Lonely(c)
    PROVE  /\ sockPath \in Engines /\ sockPath # e /\ eng[sockPath].at \in Serving
           /\ engLock = sockPath /\ eng[e].at \notin Held
  <1>1. asker[c].at \in {"queue", "open", "left", "deserted"} /\ Alone(c)
    BY DEF Lonely, ServeInv, ServeTypeOK, HeardInv
  <1>2. sockPath \in Engines /\ eng[sockPath].at \in Serving
    BY <1>1 DEF Alone, Serving
  <1>3. Serving \subseteq Held
    BY DEF Serving, Held, Places
  <1>4. engLock = sockPath
    BY <1>2, <1>3 DEF ServeInv, OwnerInv
  <1> QED BY <1>2, <1>4 DEF ServeInv, OwnerInv

\* A process that starts, holds the lock, or is refused it.
LEMMA BeginKeeps ==
    ASSUME ServeInv, NEW e \in Engines,
           \/ SpawnProcess(e) \/ HoldEngineLock(e)
           \/ /\ eng[e].at = "lock" /\ StepTo(e, "gone") /\ signalled' \subseteq Engines
              /\ mishaps' \in 0..MaxServeFaults
              /\ UNCHANGED <<engLock, sockPath, kroutes, provider, asker, sweep>>
    PROVE  ServeInv'
  <1>0. /\ eng[e].at \in {"gone", "lock"} /\ UNCHANGED <<sockPath, kroutes, provider, asker>>
        /\ mishaps' \in 0..MaxServeFaults
    BY DEF SpawnProcess, HoldEngineLock, Lives, ServeInv, ServeTypeOK
  <1>1. PICK place \in {"lock", "start", "gone"} :
            /\ StepTo(e, place)
            /\ place = "start" => engLock = NoEngine /\ engLock' = e
            /\ place # "start" => engLock' = engLock
            /\ place = "lock" => sweep'.at = sweep.at /\ sweep'.beside \in {sweep.beside, sweep.beside \cup {e}}
            /\ place # "lock" => sweep' = sweep /\ eng[e].at = "lock"
    <2>1. CASE SpawnProcess(e)
      <3>1. StepTo(e, "lock") /\ engLock' = engLock
        BY <2>1 DEF SpawnProcess
      <3>2. sweep'.at = sweep.at /\ sweep'.beside \in {sweep.beside, sweep.beside \cup {e}}
        BY <2>1 DEF SpawnProcess, ServeInv, ServeTypeOK
      <3> QED BY <3>1, <3>2
    <2>2. CASE HoldEngineLock(e)
      BY <2>2 DEF HoldEngineLock
    <2>3. CASE eng[e].at = "lock" /\ StepTo(e, "gone") /\ UNCHANGED <<engLock, sweep>>
      BY <2>3
    <2> QED BY <2>1, <2>2, <2>3
  <1>2. place \in Places \ {"read", "state", "change", "write"}
    BY DEF Places, Serving
  <1>3. /\ eng' \in [Engines -> Process] /\ PaceInv'
        /\ \A f \in Engines : eng'[f].at = IF f = e THEN place ELSE eng[f].at
        /\ \A f \in Engines \ {e} : eng'[f] = eng[f]
    BY <1>1, <1>2, GoOnIs DEF ServeInv
  <1>4. sweep' \in Sweeping /\ signalled' \subseteq Engines
    <2>1. sweep \in Sweeping /\ signalled \subseteq Engines
      BY DEF ServeInv, ServeTypeOK, Sweeping, Route
    <2>2. [sweep EXCEPT !.beside = sweep.beside \cup {e}] \in Sweeping
      BY <2>1 DEF Sweeping
    <2> QED BY <2>1, <2>2 DEF SpawnProcess, HoldEngineLock
  <1>5. ServeTypeOK'
    BY <1>0, <1>1, <1>3, <1>4 DEF ServeInv, ServeTypeOK, Process, Sweeping, Route
  <1>6. OwnerInv'
    <2>1. eng[e].at \notin Held /\ engLock # e
      BY <1>0 DEF Held, ServeInv, OwnerInv
    <2>2. "start" \in Held /\ "lock" \notin Held /\ "gone" \notin Held
      BY DEF Held, Places
    <2>3. CASE place = "start"
      <3>1. engLock = NoEngine /\ engLock' = e /\ \A f \in Engines : eng[f].at \notin Held
        BY <1>1, <2>3, ServeAssumption DEF ServeInv, OwnerInv
      <3>2. \A f \in Engines : eng'[f].at \in Held <=> engLock' = f
        BY <1>3, <2>2, <2>3, <3>1
      <3>3. {"start", "commit", "bind", "cleanup", "shutdown", "exit"} \cup Serving \subseteq Held
        BY DEF Held, Places, Serving
      <3>4. sockPath' \in {NoEngine, Stale} /\ \A r \in kroutes' : r.of = Stale
        BY <1>0, <3>1 DEF ServeInv, OwnerInv
      <3>5. ASSUME NEW f \in Engines, f # e PROVE eng'[f].at \notin Held
        BY <1>3, <3>1, <3>5
      <3>6. eng'[e].at = "start" /\ "start" \notin Serving /\ engLock' # NoEngine
        BY <1>3, <2>3, <3>1, ServeAssumption DEF Serving
      <3> QED BY <3>2, <3>3, <3>4, <3>5, <3>6 DEF OwnerInv
    <2>4. CASE place # "start"
      <3>1. engLock' = engLock /\ eng'[e].at \in {"lock", "gone"}
        BY <1>1, <1>3, <2>4
      <3>2. \A f \in Engines : eng'[f].at \in Held <=> engLock' = f
        BY <1>3, <2>1, <2>2, <3>1 DEF ServeInv, OwnerInv
      <3>3. \A f \in Engines \ {e} : eng'[f].at = eng[f].at
        BY <1>3
      <3>4. eng'[e].at \notin Serving
        BY <3>1 DEF Serving
      <3> QED BY <1>0, <2>2, <3>1, <3>2, <3>3, <3>4 DEF ServeInv, OwnerInv
    <2> QED BY <2>3, <2>4
  <1>7. HeardInv'
    <2>1. \A c \in Askers : Lonely(c) => eng'[sockPath] = eng[sockPath]
      <3>1. eng[e].at \notin Serving
        BY <1>0 DEF Serving
      <3> QED BY <1>3, <3>1, NotTalking
    <2> QED BY <1>0, <2>1, HeardAside DEF ServeInv
  <1>8. SweepInv'
    <2>1. CASE place = "lock"
      <3>1. sweep'.at # "idle" => \A f \in Engines : eng'[f].at # "gone" => f \in sweep'.beside
        <4>1. sweep.at # "idle" => e \in sweep'.beside
          <5>1. CASE SpawnProcess(e)
            BY <5>1 DEF SpawnProcess, ServeInv, ServeTypeOK
          <5>2. CASE ~SpawnProcess(e)
            <6>1. eng[e].at = "lock"
              BY <5>2 DEF HoldEngineLock
            <6> QED BY <1>1, <2>1, <6>1 DEF ServeInv, SweepInv, Lives
          <5> QED BY <5>1, <5>2
        <4> QED BY <1>1, <1>3, <2>1, <4>1 DEF ServeInv, SweepInv, Lives
      <3>2. sweep'.at # "idle" => sweep'.beside # {}
        BY <1>3, <2>1, <3>1
      <3> QED BY <3>1, <3>2 DEF SweepInv, SweepsAll, Lives
    <2>2. CASE place # "lock"
      <3>1. sweep' = sweep /\ \A f \in Engines : Lives(f)' => Lives(f)
        BY <1>1, <1>3, <2>2 DEF Lives
      <3> QED BY <1>0, <3>1, SweepAside DEF ServeInv
    <2> QED BY <2>1, <2>2
  <1> QED BY <1>3, <1>5, <1>6, <1>7, <1>8 DEF ServeInv

\* The holder of the lock goes on to a place outside its conversations.
LEMMA HolderKeeps ==
    ASSUME ServeInv, NEW e \in Engines, eng[e].at \in Held,
           NEW place \in Places \ {"lock", "read", "state", "change", "write"}, StepTo(e, place),
           IF place = "gone" THEN engLock' = NoEngine ELSE engLock' = engLock,
           sockPath' \in Engines \cup {NoEngine, Stale}, kroutes' \subseteq Route,
           provider' \in {"well", "hung", "gone"}, signalled' \subseteq Engines,
           mishaps' \in 0..MaxServeFaults, sweep' = sweep,
           asker' \in [Askers -> Client], \A c \in Askers : asker'[c] = asker[c] \/ Departs(c),
           eng[e].at \in Serving => \A c \in Askers : asker'[c].at = "away",
           place \in {"start", "commit", "bind", "gone"} => sockPath' \in {NoEngine, Stale},
           place = "loop" => sockPath' = e,
           place = "cleanup" => sockPath' \in {e, NoEngine, Stale},
           place \in {"shutdown", "exit"} => sockPath' = NoEngine,
           place = "exit" => kroutes' = {},
           \A r \in kroutes' : r.of = IF place \in {"start", "gone"} THEN Stale ELSE e
    PROVE  ServeInv'
  <1>0. Serving \subseteq Held /\ {"start", "commit", "bind", "cleanup", "shutdown", "exit"} \subseteq Held
    BY DEF Held, Places, Serving
  <1>1. engLock = e /\ (\A f \in Engines \ {e} : eng[f].at \notin Held) /\ eng[e].at # "gone"
    BY DEF ServeInv, OwnerInv, Held
  <1>2. /\ eng' \in [Engines -> Process] /\ PaceInv'
        /\ \A f \in Engines : eng'[f].at = IF f = e THEN place ELSE eng[f].at
        /\ \A f \in Engines \ {e} : eng'[f] = eng[f]
    BY GoOnIs DEF ServeInv
  <1>3. ServeTypeOK'
    <2>1. engLock' \in Engines \cup {NoEngine}
      BY <1>1
    <2> QED BY <1>2, <2>1 DEF ServeInv, ServeTypeOK, Process, Client, Route
  <1>4. OwnerInv'
    <2>1. \A f \in Engines \ {e} : eng'[f].at \notin Held
      BY <1>1, <1>2
    <2>2. eng'[e].at = place /\ (place \in Held <=> place # "gone")
      BY <1>2 DEF Held
    <2>3. \A f \in Engines : eng'[f].at \in Held <=> engLock' = f
      BY <1>1, <2>1, <2>2, ServeAssumption
    <2>4. place \in Serving => place = "loop"
      BY DEF Serving
    <2>5. engLock' = NoEngine => place = "gone"
      BY <1>1, ServeAssumption
    <2>6. "gone" \notin Held
      BY DEF Held
    <2>7. ASSUME NEW f \in Engines, eng'[f].at \in Held PROVE f = e /\ place # "gone"
      BY <2>1, <2>2, <2>7
    <2>8. ASSUME NEW f \in Engines
          PROVE  /\ eng'[f].at \in {"start", "commit", "bind"} => sockPath' \in {NoEngine, Stale}
                 /\ eng'[f].at \in Serving => sockPath' = f
                 /\ eng'[f].at = "cleanup" => sockPath' \in {f, NoEngine, Stale}
                 /\ eng'[f].at \in {"shutdown", "exit"} => sockPath' = NoEngine
                 /\ eng'[f].at = "start" => \A r \in kroutes' : r.of = Stale
                 /\ eng'[f].at \in Held \ {"start"} => \A r \in kroutes' : r.of = f
                 /\ eng'[f].at = "exit" => kroutes' = {}
      <3>1. CASE f = e
        BY <2>2, <2>4, <2>6, <3>1
      <3>2. CASE f # e
        BY <1>0, <2>7, <3>2
      <3> QED BY <3>1, <3>2
    <2> QED BY <2>3, <2>5, <2>8 DEF OwnerInv
  <1>5. HeardInv'
    <2>1. ASSUME NEW c \in Askers, Lonely(c), asker'[c].at # "away" PROVE FALSE
      BY <2>1, NotTalking
    <2> QED BY <2>1, HeardAside DEF ServeInv
  <1>6. SweepInv'
    <2>1. Lives(e) /\ \A f \in Engines : Lives(f)' => Lives(f)
      BY <1>1, <1>2 DEF Lives
    <2> QED BY <2>1, SweepAside DEF ServeInv
  <1> QED BY <1>2, <1>3, <1>4, <1>5, <1>6 DEF ServeInv

\* What the lock's holder has.
LEMMA HolderHas ==
    ASSUME ServeInv, NEW e \in Engines, eng[e].at \in Held
    PROVE  /\ engLock = e /\ sockPath \in {e, NoEngine, Stale} /\ kroutes \subseteq Route
           /\ eng[e].at # "start" => \A r \in kroutes : r.of = e
           /\ eng[e].at = "start" => \A r \in kroutes : r.of = Stale
           /\ asker \in [Askers -> Client]
           /\ provider \in {"well", "hung", "gone"} /\ signalled \subseteq Engines
           /\ mishaps \in 0..MaxServeFaults
  <1>1. eng[e].at \in {"start", "commit", "bind", "cleanup", "shutdown", "exit"} \cup Serving
    BY DEF Held, Places
  <1>2. sockPath \in {e, NoEngine, Stale}
    BY <1>1 DEF ServeInv, OwnerInv
  <1> QED BY <1>2 DEF ServeInv, OwnerInv, ServeTypeOK, Route, Client

\* run up to the loop, and every exit.
LEMMA CourseKeeps ==
    ASSUME ServeInv, NEW e \in Engines,
           \/ StartProviders(e) \/ FirstCommit(e) \/ BindEngineSock(e)
           \/ Cleanup(e) \/ Shutdown(e) \/ DropLock(e)
    PROVE  ServeInv'
  <1>0. /\ eng[e].at \in {"start", "commit", "bind", "cleanup", "shutdown", "exit"}
        /\ UNCHANGED <<signalled, asker, sweep, mishaps>>
    BY DEF StartProviders, FirstCommit, BindEngineSock, Cleanup, Shutdown, DropLock
  <1>1. eng[e].at \in Held /\ eng[e].at \notin Serving
    BY <1>0 DEF Held, Places, Serving
  <1>2. {"commit", "bind", "cleanup", "loop", "shutdown", "exit", "gone"}
            \subseteq Places \ {"lock", "read", "state", "change", "write"}
    BY DEF Places, Serving
  <1>3. \A c \in Askers : asker'[c] = asker[c] \/ Departs(c)
    BY <1>0
  <1>4. CASE StartProviders(e)
    <2>1. StepTo(e, "commit") /\ kroutes' = {} /\ provider' = "well" /\ UNCHANGED <<engLock, sockPath>>
      BY <1>4 DEF StartProviders
    <2>2. sockPath \in {NoEngine, Stale}
      BY <1>4 DEF StartProviders, ServeInv, OwnerInv
    <2> QED BY <1>0, <1>1, <1>2, <1>3, <2>1, <2>2, HolderHas, HolderKeeps
  <1>5. CASE FirstCommit(e)
    <2>1. PICK place \in {"bind", "cleanup"} :
              /\ StepTo(e, place)
              /\ kroutes' = kroutes \/ \E routes \in SUBSET RoutesOf(e) : kroutes' = kroutes \cup routes
      BY <1>5 DEF FirstCommit
    <2>2. eng[e].at = "commit" /\ sockPath \in {NoEngine, Stale} /\ UNCHANGED <<engLock, sockPath, provider>>
      BY <1>5 DEF FirstCommit, ServeInv, OwnerInv
    <2>3. kroutes' \subseteq Route /\ \A r \in kroutes' : r.of = e
      BY <1>1, <2>1, <2>2, HolderHas DEF RoutesOf, Route
    <2> QED BY <1>0, <1>1, <1>2, <1>3, <2>1, <2>2, <2>3, HolderHas, HolderKeeps
  <1>6. CASE BindEngineSock(e)
    <2>1. eng[e].at = "bind" /\ sockPath \in {NoEngine, Stale} /\ UNCHANGED <<engLock, kroutes, provider>>
      BY <1>6 DEF BindEngineSock, ServeInv, OwnerInv
    <2>2. \/ StepTo(e, "cleanup") /\ sockPath' = sockPath
          \/ StepTo(e, "loop") /\ sockPath' = e
      BY <1>6 DEF BindEngineSock
    <2>3. CASE StepTo(e, "cleanup") /\ sockPath' = sockPath
      BY <1>0, <1>1, <1>2, <1>3, <2>1, <2>3, HolderHas, HolderKeeps
    <2>4. CASE StepTo(e, "loop") /\ sockPath' = e
      BY <1>0, <1>1, <1>2, <1>3, <2>1, <2>4, HolderHas, HolderKeeps
    <2> QED BY <2>2, <2>3, <2>4
  <1>7. CASE Cleanup(e)
    <2>1. /\ eng[e].at = "cleanup" /\ StepTo(e, "shutdown") /\ sockPath' = NoEngine
          /\ UNCHANGED <<engLock, kroutes, provider>>
      BY <1>7 DEF Cleanup
    <2> QED BY <1>0, <1>1, <1>2, <1>3, <2>1, HolderHas, HolderKeeps
  <1>8. CASE Shutdown(e)
    <2>1. /\ eng[e].at = "shutdown" /\ StepTo(e, "exit") /\ kroutes' = kroutes \ RoutesOf(e)
          /\ UNCHANGED <<engLock, sockPath, provider>>
      BY <1>8 DEF Shutdown
    <2>2. sockPath = NoEngine
      BY <2>1 DEF ServeInv, OwnerInv
    <2>3. kroutes' = {}
      <3>1. kroutes \subseteq Route /\ \A r \in kroutes : r.of = e
        BY <1>1, <2>1, HolderHas
      <3>2. kroutes \subseteq RoutesOf(e)
        BY <3>1 DEF Route, RoutesOf
      <3> QED BY <2>1, <3>2
    <2> QED BY <1>0, <1>1, <1>2, <1>3, <2>1, <2>2, <2>3, HolderHas, HolderKeeps
  <1>9. CASE DropLock(e)
    <2>1. /\ eng[e].at = "exit" /\ StepTo(e, "gone") /\ engLock' = NoEngine
          /\ UNCHANGED <<sockPath, kroutes, provider>>
      BY <1>9 DEF DropLock
    <2>2. sockPath = NoEngine /\ kroutes = {}
      BY <2>1 DEF ServeInv, OwnerInv
    <2> QED BY <1>0, <1>1, <1>2, <1>3, <2>1, <2>2, HolderHas, HolderKeeps
  <1> QED BY <1>4, <1>5, <1>6, <1>7, <1>8, <1>9

\* serve returns: its listener is gone, and with it everybody who was connected.
LEMMA ReturnKeeps ==
    ASSUME ServeInv, NEW e \in Engines, TakeSignal(e) \/ ProvidersExited(e)
    PROVE  ServeInv'
  <1>1. /\ eng[e].at = "loop" /\ StepTo(e, "cleanup") /\ CutOff(sockPath = e)
        /\ UNCHANGED <<engLock, sockPath, kroutes, provider, signalled, sweep, mishaps>>
    BY DEF TakeSignal, ProvidersExited, ServeReturns
  <1>2. /\ eng[e].at \in Held /\ eng[e].at \in Serving
        /\ "cleanup" \in Places \ {"lock", "read", "state", "change", "write"}
    BY <1>1 DEF Held, Places, Serving
  <1>3. sockPath = e
    BY <1>2 DEF ServeInv, OwnerInv
  <1>4. /\ asker' \in [Askers -> Client] /\ \A c \in Askers : asker'[c] = asker[c] \/ Departs(c)
        /\ \A c \in Askers : asker'[c].at = "away"
    BY <1>1, <1>3, CutOffIs DEF ServeInv
  <1> QED BY <1>1, <1>2, <1>3, <1>4, HolderHas, HolderKeeps

\* A process is killed, or ends of a signal it does not listen for yet.
LEMMA DiesKeeps ==
    ASSUME ServeInv, NEW e \in Engines, Lives(e), Dies(e), UNCHANGED <<provider, sweep>>,
           signalled' \subseteq Engines, mishaps' \in 0..MaxServeFaults
    PROVE  ServeInv'
  <1>0. /\ asker' \in [Askers -> Client] /\ \A c \in Askers : asker'[c] = asker[c] \/ Departs(c)
        /\ sockPath = e => \A c \in Askers : asker'[c].at = "away"
    BY CutOffIs DEF Dies, ServeInv
  <1>1. CASE eng[e].at \in Held
    <2>1. engLock' = NoEngine /\ sockPath' \in {NoEngine, Stale} /\ StepTo(e, "gone")
      BY <1>1, HolderHas DEF Dies
    <2>2. kroutes' \subseteq Route /\ \A r \in kroutes' : r.of = Stale
      <3>1. \A r \in kroutes : r \in Route /\ r.of \in {e, Stale}
        BY <1>1, HolderHas
      <3>2. ASSUME NEW q \in kroutes' PROVE q \in Route /\ q.of = Stale
        <4>1. PICK r \in kroutes : q = [r EXCEPT !.of = IF r.of = e THEN Stale ELSE r.of]
          BY <3>2 DEF Dies
        <4> QED BY <3>1, <4>1 DEF Route
      <3> QED BY <3>2
    <2>3. eng[e].at \in Serving => sockPath = e
      BY DEF ServeInv, OwnerInv
    <2>4. "gone" \in Places \ {"lock", "read", "state", "change", "write"}
      BY DEF Places
    <2>5. provider' \in {"well", "hung", "gone"}
      BY <1>1, HolderHas
    <2> QED BY <1>0, <1>1, <2>1, <2>2, <2>3, <2>4, <2>5, HolderKeeps
  <1>2. CASE eng[e].at \notin Held
    <2>1. eng[e].at = "lock"
      BY <1>2 DEF Held, Lives, ServeInv, ServeTypeOK
    <2>2. engLock # e /\ sockPath # e /\ \A r \in kroutes : r.of # e
      <3>1. engLock # e
        BY <1>2 DEF ServeInv, OwnerInv
      <3>2. CASE engLock = NoEngine
        BY <3>1, <3>2, ServeAssumption DEF ServeInv, OwnerInv
      <3>3. CASE engLock # NoEngine
        <4>1. engLock \in Engines /\ eng[engLock].at \in Held
          BY <3>3 DEF ServeInv, ServeTypeOK, OwnerInv
        <4>2. sockPath \in {engLock, NoEngine, Stale} /\ \A r \in kroutes : r.of \in {engLock, Stale}
          BY <4>1, HolderHas
        <4> QED BY <3>1, <4>1, <4>2, ServeAssumption
      <3> QED BY <3>2, <3>3
    <2>3. engLock' = engLock /\ sockPath' = sockPath /\ StepTo(e, "gone")
      BY <2>2 DEF Dies
    <2>4. kroutes' = kroutes
      <3>1. \A r \in kroutes : r = [r EXCEPT !.of = IF r.of = e THEN Stale ELSE r.of]
        BY <2>2 DEF ServeInv, ServeTypeOK
      <3>2. kroutes' = {[r EXCEPT !.of = IF r.of = e THEN Stale ELSE r.of] : r \in kroutes}
        BY DEF Dies
      <3> QED BY <3>1, <3>2
    <2>5. asker' = asker
      <3>1. \A c \in Askers : asker'[c] = asker[c]
        BY <2>2 DEF Dies, CutOff
      <3>2. asker \in [Askers -> Client]
        BY DEF ServeInv, ServeTypeOK, Client
      <3> QED BY <1>0, <3>1, <3>2
    <2> QED BY <2>1, <2>3, <2>4, <2>5, BeginKeeps
  <1> QED BY <1>1, <1>2

\* A process within its loop, and its client.
LEMMA ServingKeeps ==
    ASSUME ServeInv, NEW e \in Engines, eng[e].at \in Serving,
           eng' \in [Engines -> Process], PaceInv', eng'[e].at \in Serving,
           \A f \in Engines \ {e} : eng'[f] = eng[f],
           asker' \in [Askers -> Client], HeardInv',
           \A r \in kroutes' : r \in kroutes \/ r \in RoutesOf(e),
           UNCHANGED <<engLock, sockPath, provider, signalled, sweep, mishaps>>
    PROVE  ServeInv'
  <1>1. ServeTypeOK'
    <2>1. kroutes' \subseteq Route
      BY DEF ServeInv, ServeTypeOK, RoutesOf, Route
    <2> QED BY <2>1 DEF ServeInv, ServeTypeOK, Process, Client, Route
  <1>2. OwnerInv'
    <2>1. \A r \in RoutesOf(e) : r.of = e
      BY DEF RoutesOf
    <2>2. \A f \in Engines : eng'[f].at = eng[f].at \/ (eng'[f].at \in Serving /\ eng[f].at \in Serving)
      OBVIOUS
    <2> QED BY <2>1, <2>2, OwnerAside DEF ServeInv
  <1>3. SweepInv'
    <2>1. Lives(e) /\ \A f \in Engines : Lives(f)' => Lives(f)
      BY DEF Lives, Serving
    <2> QED BY <2>1, SweepAside DEF ServeInv
  <1> QED BY <1>1, <1>2, <1>3 DEF ServeInv

\* The conversation goes on.
LEMMA TurnKeeps ==
    ASSUME ServeInv, NEW e \in Engines,
           \/ ReadLine(e) \/ StateRead(e) \/ ChangeCommitted(e)
           \/ TimesOut(e) /\ eng[e].at = "state"
    PROVE  ServeInv'
  <1>1. PICK place \in {"state", "change", "write"}, reply \in Replies :
            /\ Turn(e, place, reply)
            /\ \/ eng[e].at = "read"
               \/ eng[e].at \in {"state", "change"} /\ place = "write"
            /\ eng[e].at = "read" /\ place = "change" => asker[eng[e].client].says = "change"
    BY DEF ReadLine, StateRead, ChangeCommitted, TimesOut, Replies
  <1>2. /\ UNCHANGED <<engLock, sockPath, provider, signalled, asker, sweep, mishaps>>
        /\ \A r \in kroutes' : r \in kroutes \/ r \in RoutesOf(e)
    BY DEF ReadLine, StateRead, ChangeCommitted, TimesOut
  <1>3. /\ eng' \in [Engines -> Process] /\ PaceInv'
        /\ eng'[e].at = place
        /\ \A f \in Engines \ {e} : eng'[f] = eng[f]
        /\ eng'[e].client = eng[e].client /\ eng'[e].timer = 0
    BY <1>1, TurnIs DEF ServeInv
  <1>4. eng[e].at \in Serving \ {"loop"} /\ eng'[e].at \in Serving \ {"loop", "read"}
    BY <1>1, <1>3 DEF Serving
  <1>5. asker' \in [Askers -> Client]
    BY <1>2 DEF ServeInv, ServeTypeOK, Client
  <1>6. HeardInv'
    <2>1. ASSUME NEW c \in Askers, Lonely(c), c = eng[e].client, sockPath = e,
                 asker[c].at = "open", asker[c].says \in {"state", "junk"}
          PROVE  /\ eng'[e].at # "change"
                 /\ eng'[e].at = "state" => asker[c].wait <= eng'[e].timer
                 /\ eng'[e].at = "write" => asker[c].wait <= StateTimeout
      <3>1. Alone(c) /\ StateTimeout \in Nat
        BY ServeAssumption DEF ServeInv, HeardInv
      <3>2. CASE eng[e].at = "read"
        <4>1. asker[c].wait = 0 /\ place # "change"
          BY <1>1, <2>1, <3>1, <3>2 DEF Alone
        <4> QED BY <1>3, <3>1, <4>1
      <3>3. CASE eng[e].at = "state"
        <4>1. asker[c].wait <= eng[e].timer
          BY <2>1, <3>1, <3>3 DEF Alone
        <4>2. eng[e].timer <= StateTimeout
          BY <3>3 DEF ServeInv, PaceInv, Paced
        <4>3. eng[e].timer \in Nat /\ asker[c].wait \in Nat
          BY ServeAssumption DEF ServeInv, ServeTypeOK
        <4>4. asker[c].wait <= StateTimeout
          BY <3>1, <4>1, <4>2, <4>3
        <4> QED BY <1>1, <1>3, <3>3, <4>4
      <3>4. CASE eng[e].at = "change"
        BY <2>1, <3>1, <3>4 DEF Alone
      <3> QED BY <1>1, <3>2, <3>3, <3>4
    <2> QED BY <1>2, <1>3, <1>4, <2>1, HeardTurns DEF ServeInv
  <1> QED BY <1>2, <1>3, <1>4, <1>5, <1>6, ServingKeeps

\* The conversation ends and the loop goes round.
LEMMA EndKeeps ==
    ASSUME ServeInv, NEW e \in Engines,
           WriteReply(e) \/ (TimesOut(e) /\ eng[e].at # "state")
    PROVE  ServeInv'
  <1>1. PICK got \in Replies \cup {"closed"} : Tell(e, got)
    BY DEF WriteReply, TimesOut, ServeInv, ServeTypeOK
  <1>2. /\ eng[e].at \in {"read", "write"} /\ StepTo(e, "loop")
        /\ UNCHANGED <<engLock, sockPath, kroutes, provider, signalled, sweep, mishaps>>
    BY DEF WriteReply, TimesOut, Expired
  <1>3. /\ asker' \in [Askers -> Client]
        /\ \A c \in Askers : asker'[c] = asker[c] \/ Departs(c)
        /\ \A c \in Askers : c = eng[e].client => Departs(c)
    BY <1>1, TellIs DEF ServeInv
  <1>4. /\ eng' \in [Engines -> Process] /\ PaceInv' /\ eng'[e].at = "loop"
        /\ \A f \in Engines \ {e} : eng'[f] = eng[f]
    <2>1. "loop" \in Places \ {"read", "state", "change", "write"}
      BY DEF Places, Serving
    <2> QED BY <1>2, <2>1, GoOnIs DEF ServeInv
  <1>5. eng[e].at \in Serving /\ eng'[e].at \in Serving
    BY <1>2, <1>4 DEF Serving
  <1>6. HeardInv'
    <2>1. ASSUME NEW c \in Askers, Lonely(c), asker'[c].at # "away" PROVE FALSE
      <3>1. sockPath = e /\ Alone(c)
        BY <1>5 DEF ServeInv, OwnerInv, HeardInv
      <3>2. asker[c].at \in {"queue", "open", "left"}
        BY <2>1, <3>1 DEF Alone, Lonely, ServeInv, ServeTypeOK
      <3>3. c = eng[e].client
        BY <1>2, <2>1, <3>1, <3>2 DEF Alone
      <3> QED BY <1>3, <2>1, <3>3 DEF Departs
    <2> QED BY <1>3, <2>1, HeardAside DEF ServeInv
  <1> QED BY <1>2, <1>3, <1>4, <1>5, <1>6, ServingKeeps

\* An engine takes a client only when it has none.
LEMMA AcceptKeeps ==
    ASSUME ServeInv, NEW e \in Engines, NEW c \in Askers, AcceptAsker(e, c)
    PROVE  ServeInv'
  <1>1. asker' \in [Askers -> Client] /\ HeardInv'
    BY HeardAccept DEF ServeInv
  <1>2. /\ eng' \in [Engines -> Process] /\ PaceInv' /\ eng'[e].at = "read"
        /\ \A f \in Engines \ {e} : eng'[f] = eng[f]
    BY AcceptIs DEF ServeInv
  <1>3. eng[e].at \in Serving /\ eng'[e].at \in Serving
    BY <1>2 DEF AcceptAsker, Serving
  <1>4. UNCHANGED <<engLock, sockPath, kroutes, provider, signalled, sweep, mishaps>>
    BY DEF AcceptAsker
  <1> QED BY <1>1, <1>2, <1>3, <1>4, ServingKeeps

\* The clients' own steps, the providers', a signal that is heard later, and time.
LEMMA OutsideKeeps ==
    ASSUME ServeInv,
           \/ \E c \in Askers : GivesUp(c) \/ \E says \in Manners : Asks(c, says)
           \/ \E state \in {"well", "hung", "gone"} : ProviderChanges(state)
           \/ ServeClock
           \/ /\ \E e \in Engines : signalled' = signalled \cup {e}
              /\ UNCHANGED <<eng, engLock, sockPath, kroutes, provider, asker, sweep, mishaps>>
           \/ UNCHANGED esVars
    PROVE  ServeInv'
  <1>1. asker' \in [Askers -> Client] /\ HeardInv' /\ UNCHANGED <<engLock, sockPath, kroutes, sweep>>
    <2>1. CASE \E c \in Askers : GivesUp(c)
      BY <2>1, HeardGivesUp DEF ServeInv, GivesUp
    <2>2. CASE \E c \in Askers : \E says \in Manners : Asks(c, says)
      BY <2>2, HeardAsks DEF ServeInv, Asks
    <2>3. CASE ServeClock
      BY <2>3, HeardClock DEF ServeInv, ServeClock
    <2>4. CASE UNCHANGED <<eng, engLock, sockPath, kroutes, asker, sweep>>
      <3>1. asker \in [Askers -> Client]
        BY DEF ServeInv, ServeTypeOK, Client
      <3> QED BY <2>4, <3>1, HeardAside DEF ServeInv
    <2> QED BY <2>1, <2>2, <2>3, <2>4 DEF ProviderChanges, esVars
  <1>2. /\ eng' \in [Engines -> Process] /\ PaceInv'
        /\ \A f \in Engines : eng'[f].at = eng[f].at
    <2>1. CASE ServeClock
      BY <2>1, ClockIs DEF ServeInv
    <2>2. CASE UNCHANGED eng
      BY <2>2 DEF ServeInv, ServeTypeOK, Process, PaceInv, Paced
    <2> QED BY <2>1, <2>2 DEF GivesUp, Asks, ProviderChanges, esVars
  <1>3. provider' \in {"well", "hung", "gone"} /\ signalled' \subseteq Engines /\ mishaps' \in 0..MaxServeFaults
    <2>0. provider \in {"well", "hung", "gone"} /\ signalled \subseteq Engines /\ mishaps \in 0..MaxServeFaults
      BY DEF ServeInv, ServeTypeOK
    <2>1. CASE \E state \in {"well", "hung", "gone"} : ProviderChanges(state)
      BY <2>0, <2>1, ServeAssumption DEF ProviderChanges, Mishap
    <2>2. CASE UNCHANGED <<provider, mishaps>> /\ signalled' \subseteq Engines
      BY <2>0, <2>2
    <2> QED BY <2>0, <2>1, <2>2 DEF GivesUp, Asks, ServeClock, esVars
  <1>4. ServeTypeOK'
    BY <1>1, <1>2, <1>3 DEF ServeInv, ServeTypeOK, Process, Client
  <1>5. OwnerInv'
    BY <1>1, <1>2, OwnerAside DEF ServeInv
  <1>6. SweepInv'
    <2>1. \A f \in Engines : Lives(f)' => Lives(f)
      BY <1>2 DEF Lives
    <2> QED BY <1>1, <2>1, SweepAside DEF ServeInv
  <1> QED BY <1>1, <1>2, <1>4, <1>5, <1>6 DEF ServeInv

\* The sweep goes through the protocols.
LEMMA SweepKeeps ==
    ASSUME ServeInv, SweepStarts \/ SweepLists \/ SweepDeletes \/ SweepOver
    PROVE  ServeInv'
  <1>0. /\ UNCHANGED <<eng, engLock, sockPath, provider, signalled, asker, mishaps>>
        /\ kroutes' \subseteq kroutes
    BY DEF SweepStarts, SweepLists, SweepDeletes, SweepOver
  <1>1. sweep \in Sweeping /\ kroutes \subseteq Route /\ sweep.proto \in Nat
    BY DEF ServeInv, ServeTypeOK, Sweeping, Route
  <1>2. PaceInv' /\ OwnerInv' /\ HeardInv'
    <2>1. PaceInv'
      BY <1>0 DEF ServeInv, PaceInv, Paced
    <2>2. OwnerInv'
      BY <1>0, OwnerAside DEF ServeInv
    <2>3. HeardInv'
      BY <1>0, HeardAside DEF ServeInv
    <2> QED BY <2>1, <2>2, <2>3
  <1>3. sweep' \in Sweeping => ServeTypeOK'
    BY <1>0 DEF ServeInv, ServeTypeOK, Sweeping, Route
  <1>4. CASE SweepStarts
    <2> DEFINE beside == {e \in Engines : Lives(e)}
    <2>1. sweep' = [at |-> "list", proto |-> 0, shown |-> {}, beside |-> beside]
      BY <1>4 DEF SweepStarts
    <2>2. /\ sweep' \in Sweeping /\ sweep'.at = "list" /\ sweep'.proto = 0 /\ sweep'.beside = beside
      BY <2>1 DEF Sweeping
    <2>3. \A r \in kroutes' : r.proto >= 0
      BY <1>0, <1>1, ServeAssumption DEF Route, Protos
    <2>4. SweepInv'
      BY <1>0, <2>2, <2>3 DEF SweepInv, SweepsAll, Lives
    <2> QED BY <1>2, <1>3, <2>2, <2>4 DEF ServeInv
  <1>5. CASE SweepLists
    <2>0. sweep.at = "list" /\ kroutes' = kroutes
      BY <1>5 DEF SweepLists
    <2>1. CASE sweep.proto \in Protos
      <3> DEFINE shown == {r \in kroutes : r.proto = sweep.proto}
      <3>1. sweep' = [sweep EXCEPT !.at = "delete", !.shown = shown]
        BY <1>5, <2>1 DEF SweepLists, SweepRange
      <3>2. shown \in SUBSET Route
        BY <1>1
      <3>3. /\ sweep' \in Sweeping /\ sweep'.at = "delete" /\ sweep'.proto = sweep.proto
            /\ sweep'.shown = shown /\ sweep'.beside = sweep.beside
        BY <1>1, <3>1, <3>2 DEF Sweeping
      <3>4. SweepInv'
        BY <1>0, <2>0, <3>3 DEF ServeInv, SweepInv, SweepsAll, Lives
      <3> QED BY <1>2, <1>3, <3>3, <3>4 DEF ServeInv
    <2>2. CASE sweep.proto \notin Protos
      <3>1. sweep' = [sweep EXCEPT !.at = "swept"]
        BY <1>5, <2>2 DEF SweepLists, SweepRange
      <3>2. sweep' \in Sweeping /\ sweep'.at = "swept" /\ sweep'.beside = sweep.beside
        BY <1>1, <3>1 DEF Sweeping
      <3>3. sweep.beside = {} => kroutes = {}
        <4>1. \A r \in kroutes : r.proto \in Nat /\ r.proto < sweep.proto
          BY <1>1, <2>2, ServeAssumption DEF Route, Protos
        <4>2. sweep.beside = {} => \A r \in kroutes : r.proto >= sweep.proto
          BY <2>0 DEF ServeInv, SweepInv
        <4> QED BY <1>1, <4>1, <4>2
      <3>4. SweepInv'
        BY <1>0, <2>0, <3>2, <3>3 DEF ServeInv, SweepInv, SweepsAll, Lives
      <3> QED BY <1>2, <1>3, <3>2, <3>4 DEF ServeInv
    <2> QED BY <2>1, <2>2
  <1>6. CASE SweepDeletes
    <2>0. sweep.at = "delete"
      BY <1>6 DEF SweepDeletes
    <2>1. CASE sweep.shown = {} /\ sweep' = [sweep EXCEPT !.at = "list", !.proto = sweep.proto + 1]
      <3> DEFINE next == sweep.proto + 1
      <3>1. next \in Nat
        BY <1>1
      <3>2. sweep' = [sweep EXCEPT !.at = "list", !.proto = next]
        BY <2>1
      <3> HIDE DEF next
      <3>3. sweep' \in Sweeping /\ sweep'.at = "list" /\ sweep'.proto = next /\ sweep'.beside = sweep.beside
        BY <1>1, <3>1, <3>2 DEF Sweeping
      <3>4. sweep.beside = {} => \A r \in kroutes : r.proto >= next
        <4>1. \A r \in kroutes : r.proto \in Nat
          BY <1>1, ServeAssumption DEF Route, Protos
        <4>2. sweep.beside = {} => \A r \in kroutes : r.proto >= sweep.proto /\ r.proto # sweep.proto
          BY <2>0, <2>1 DEF ServeInv, SweepInv
        <4> QED BY <1>1, <4>1, <4>2 DEF next
      <3>5. SweepInv'
        BY <1>0, <2>0, <3>3, <3>4 DEF ServeInv, SweepInv, SweepsAll, Lives
      <3> QED BY <1>2, <1>3, <3>3, <3>5 DEF ServeInv
    <2>2. CASE \E r \in sweep.shown :
                  kroutes' = kroutes \ {r} /\ sweep' = [sweep EXCEPT !.shown = sweep.shown \ {r}]
      <3>1. PICK r \in sweep.shown :
                kroutes' = kroutes \ {r} /\ sweep' = [sweep EXCEPT !.shown = sweep.shown \ {r}]
        BY <2>2
      <3>2. /\ sweep' \in Sweeping /\ sweep'.at = "delete" /\ sweep'.proto = sweep.proto
            /\ sweep'.shown = sweep.shown \ {r} /\ sweep'.beside = sweep.beside
        BY <1>1, <2>0, <3>1 DEF Sweeping
      <3>3. SweepInv'
        BY <1>0, <2>0, <3>1, <3>2 DEF ServeInv, SweepInv, SweepsAll, Lives
      <3> QED BY <1>2, <1>3, <3>2, <3>3 DEF ServeInv
    <2>3. CASE sweep' = [sweep EXCEPT !.at = "failed"]
      <3>1. sweep' \in Sweeping /\ sweep'.at = "failed" /\ sweep'.beside = sweep.beside
        BY <1>1, <2>3 DEF Sweeping
      <3>2. SweepInv'
        BY <1>0, <2>0, <3>1 DEF ServeInv, SweepInv, SweepsAll, Lives
      <3> QED BY <1>2, <1>3, <3>1, <3>2 DEF ServeInv
    <2> QED BY <1>6, <2>1, <2>2, <2>3 DEF SweepDeletes
  <1>7. CASE SweepOver
    <2>1. sweep' \in Sweeping /\ sweep'.at = "idle"
      BY <1>7 DEF SweepOver, NoSweep, Sweeping
    <2>2. SweepInv'
      BY <2>1 DEF SweepInv, SweepsAll
    <2> QED BY <1>2, <1>3, <2>1, <2>2 DEF ServeInv
  <1> QED BY <1>4, <1>5, <1>6, <1>7

\* A listing that failed is on the sweep's record.
LEMMA SweepMissesKeeps ==
    ASSUME ServeInv, SweepMisses
    PROVE  ServeInv'
  <1>0. UNCHANGED <<eng, engLock, sockPath, kroutes, provider, signalled, asker>>
    BY DEF SweepMisses
  <1>1. sweep \in Sweeping
    BY DEF ServeInv, ServeTypeOK, Sweeping, Route
  <1> DEFINE beside == sweep.beside \cup {NoEngine}
  <1>2. sweep' = [sweep EXCEPT !.at = "delete", !.shown = {}, !.beside = beside] /\ sweep.at = "list"
    BY DEF SweepMisses
  <1>3. beside \in SUBSET (Engines \cup {NoEngine}) /\ beside # {}
    BY <1>1 DEF Sweeping
  <1>4. sweep' \in Sweeping /\ sweep'.at = "delete" /\ sweep'.beside = beside
    BY <1>1, <1>2, <1>3 DEF Sweeping
  <1>5. mishaps' \in 0..MaxServeFaults
    BY ServeAssumption DEF SweepMisses, Mishap, ServeInv, ServeTypeOK
  <1>6. ServeTypeOK'
    BY <1>0, <1>4, <1>5 DEF ServeInv, ServeTypeOK, Sweeping, Route
  <1>7. PaceInv'
    BY <1>0 DEF ServeInv, PaceInv, Paced
  <1>8. OwnerInv'
    BY <1>0, OwnerAside DEF ServeInv
  <1>9. HeardInv'
    BY <1>0, HeardAside DEF ServeInv
  <1>10. SweepInv'
    <2>1. \A e \in Engines : Lives(e)' => e \in sweep'.beside
      BY <1>0, <1>2, <1>4 DEF ServeInv, SweepInv, Lives
    <2> QED BY <1>3, <1>4, <2>1 DEF SweepInv, SweepsAll
  <1> QED BY <1>6, <1>7, <1>8, <1>9, <1>10 DEF ServeInv

\* Every step of an engine, a client, a provider or a sweep keeps ServeInv.
LEMMA ServeStepKeeps ==
    ASSUME ServeInv, [EngineServeNext]_esVars
    PROVE  ServeInv'
  <1>1. ASSUME NEW e \in Engines, SpawnProcess(e) \/ HoldEngineLock(e) PROVE ServeInv'
    BY <1>1, BeginKeeps
  <1>2. ASSUME NEW e \in Engines,
               \/ StartProviders(e) \/ FirstCommit(e) \/ BindEngineSock(e)
               \/ Cleanup(e) \/ Shutdown(e) \/ DropLock(e)
        PROVE  ServeInv'
    BY <1>2, CourseKeeps
  <1>3. ASSUME NEW e \in Engines, ReadLine(e) \/ StateRead(e) \/ ChangeCommitted(e) PROVE ServeInv'
    BY <1>3, TurnKeeps
  <1>4. ASSUME NEW e \in Engines, WriteReply(e) \/ TimesOut(e) PROVE ServeInv'
    BY <1>4, TurnKeeps, EndKeeps
  <1>5. ASSUME NEW e \in Engines, TakeSignal(e) \/ ProvidersExited(e) PROVE ServeInv'
    BY <1>5, ReturnKeeps
  <1>6. ASSUME NEW e \in Engines, KillEngine(e) PROVE ServeInv'
    <2>1. Lives(e) /\ Dies(e) /\ UNCHANGED <<provider, sweep>> /\ signalled' \subseteq Engines
      BY <1>6 DEF KillEngine, ServeInv, ServeTypeOK
    <2>2. mishaps' \in 0..MaxServeFaults
      BY <1>6, ServeAssumption DEF KillEngine, Mishap, ServeInv, ServeTypeOK
    <2> QED BY <2>1, <2>2, DiesKeeps
  <1>7. ASSUME NEW e \in Engines, SendSignal(e) PROVE ServeInv'
    <2>1. CASE Dies(e) /\ UNCHANGED signalled
      <3>1. /\ Lives(e) /\ UNCHANGED <<provider, sweep>> /\ signalled' \subseteq Engines
            /\ mishaps' \in 0..MaxServeFaults
        BY <1>7, <2>1 DEF SendSignal, ServeInv, ServeTypeOK
      <3> QED BY <2>1, <3>1, DiesKeeps
    <2>2. CASE signalled' = signalled \cup {e} /\ UNCHANGED <<eng, engLock, sockPath, kroutes, asker>>
      BY <1>7, <2>2, OutsideKeeps DEF SendSignal
    <2> QED BY <1>7, <2>1, <2>2 DEF SendSignal
  <1>8. ASSUME NEW e \in Engines, NEW c \in Askers, AcceptAsker(e, c) PROVE ServeInv'
    BY <1>8, AcceptKeeps
  <1>9. CASE \/ \E c \in Askers : GivesUp(c) \/ \E says \in Manners : Asks(c, says)
             \/ \E state \in {"well", "hung", "gone"} : ProviderChanges(state)
             \/ ServeClock \/ UNCHANGED esVars
    BY <1>9, OutsideKeeps
  <1>10. CASE SweepStarts \/ SweepLists \/ SweepMisses \/ SweepDeletes \/ SweepOver
    BY <1>10, SweepKeeps, SweepMissesKeeps
  <1> QED
    BY <1>1, <1>2, <1>3, <1>4, <1>5, <1>6, <1>7, <1>8, <1>9, <1>10 DEF EngineServeNext

\* So it always holds.
LEMMA ServeHolds == EngineServeSpec => []ServeInv
  <1>1. EngineServeInit => ServeInv
    BY ServeInitHolds
  <1>2. ServeInv /\ [EngineServeNext]_esVars => ServeInv'
    BY ServeStepKeeps
  <1> QED BY <1>1, <1>2, PTL DEF EngineServeSpec

\* The types of the engine's process, its lock, its socket, its clients and the sweep, for
\* any number of each (run and serve, engine/mod.rs).
THEOREM EngineServeTypes == EngineServeSpec => []ServeTypeOK
  <1>1. ServeInv => ServeTypeOK
    BY DEF ServeInv
  <1> QED BY <1>1, ServeHolds, PTL

\* Whoever answers on engine.sock holds engine.lock, has the path and the private protocols
\* to itself, and an orderly exit leaves neither path nor routes before the lock is free
\* (run, serve and cleanup, engine/mod.rs), whatever is killed and when.
THEOREM ReadyOwns == EngineServeSpec => []ReadyIsOwner
  <1>1. ServeInv => ReadyIsOwner
    <2>1. "start" \notin Serving /\ Serving \subseteq Held
      BY DEF Serving, Held, Places
    <2> QED BY <2>1 DEF ServeInv, OwnerInv, ReadyIsOwner
  <1> QED BY <1>1, ServeHolds, PTL

\* A conversation keeps serve from its signals at most the read, the providers' answer and
\* the write (CLIENT_IO and STATE_TIMEOUT, engine/mod.rs), for every value of the two.
THEOREM NeverWedged == EngineServeSpec => []NotWedged
  <1>1. ServeInv => NotWedged
    <2> SUFFICES ASSUME ServeInv, NEW e \in Engines PROVE eng[e].away <= 2 * ClientIO + StateTimeout
      BY DEF NotWedged
    <2>1. Paced(eng[e]) /\ eng[e].away \in Nat /\ eng[e].timer \in Nat
      BY DEF ServeInv, PaceInv, ServeTypeOK
    <2> QED BY <2>1, ServeAssumption DEF Paced
  <1> QED BY <1>1, ServeHolds, PTL

\* A client that finds the engine free and meets nobody is answered before its own timeout,
\* by an error if the providers hang: STATE_TIMEOUT is below the read timeout of unix_request
\* (engine/mod.rs and sys.rs), for every pair of such values.
THEOREM AloneIsHeard == EngineServeSpec => []HeardAlone
  <1>1. ServeInv => HeardAlone
    BY DEF ServeInv, HeardInv
  <1> QED BY <1>1, ServeHolds, PTL

\* A sweep with no engine beside it and no failed listing leaves no route of any private protocol
\* (sweep_routes, engine_ctl.rs), for every width of the range.
THEOREM SweepIsWhole == EngineServeSpec => []SweepsAll
  <1>1. ServeInv => SweepsAll
    BY DEF ServeInv, SweepInv
  <1> QED BY <1>1, ServeHolds, PTL

\* One engine has the lock, the path and the routes, and after a killed one the sweep leaves
\* none (engine/mod.rs, engine_ctl.rs).
THEOREM OneEngineOwns == EngineServeSpec => []EngineOwns
  BY ReadyOwns, SweepIsWhole, PTL DEF EngineOwns

\* serve is back at its signals in time, and a client alone with it has its answer in time,
\* for every choice of the timeouts that keeps their order.
THEOREM BothAreAnswered == EngineServeSpec => []ConversationsEnd
  BY NeverWedged, AloneIsHeard, PTL DEF ConversationsEnd

-----------------------------------------------------------------------------
(* The announcer's schedule.  A burst that was armed keeps to its instants  *)
(* however late the loop is, so of two bursts that started a Period apart   *)
(* the frames within any Period are those of one; the beacon adds one.      *)

\* A set of numbers has a least one.
LEMMA LeastOf ==
    ASSUME NEW T \in SUBSET Nat, T # {}
    PROVE  \E n \in T : \A k \in T : n <= k
<1> DEFINE less == OpToRel(<, Nat)
<1>1. IsWellFoundedOn(less, Nat)
  BY NatLessThanWellFounded
<1>2. \A i, j \in Nat : <<i, j>> \notin less => j <= i
  BY DEF OpToRel
<1> HIDE DEF less
<1>3. PICK n \in T : \A k \in T : <<k, n>> \notin less
  BY <1>1, WFMin
<1> QED BY <1>2, <1>3

\* Induction up to N, over a set.
LEMMA UpTo ==
    ASSUME NEW N \in Nat, NEW G, 0 \in G, \A n \in 0..(N - 1) : n \in G => n + 1 \in G
    PROVE  0..N \subseteq G
<1> DEFINE T == (0..N) \ G
<1> SUFFICES ASSUME T # {} PROVE FALSE
  OBVIOUS
<1>1. PICK n \in T : \A k \in T : n <= k
  <2>1. T \in SUBSET Nat
    OBVIOUS
  <2> HIDE DEF T
  <2> QED BY <2>1, LeastOf
<1>2. n # 0 /\ n - 1 \in 0..(N - 1) /\ n - 1 \notin T
  BY <1>1
<1>3. n - 1 \in G
  BY <1>2
<1>4. (n - 1) + 1 \in G
  BY <1>2, <1>3
<1> QED BY <1>1, <1>4

\* The running sum of P numbers, and that there is one.
SumOf(P, f) == CHOOSE h : h = [n \in 0..P |-> IF n = 0 THEN 0 ELSE h[n - 1] + f[n - 1]]

\* The sum up to a place, by one step of its definition.
LEMMA RunningSum ==
    ASSUME NEW P \in Nat, NEW f \in [0..(P - 1) -> Nat]
    PROVE  SumOf(P, f)[0] = 0 /\ \A n \in 0..(P - 1) : SumOf(P, f)[n + 1] = SumOf(P, f)[n] + f[n]
<1> DEFINE Sums(h, m) == h = [n \in 0..m |-> IF n = 0 THEN 0 ELSE h[n - 1] + f[n - 1]]
           J == {m \in 0..P : \E h : Sums(h, m)}
           g == SumOf(P, f)
<1>1. P \in J
  <2>1. 0 \in J
    <3>1. Sums([n \in 0..0 |-> 0], 0)
      OBVIOUS
    <3>2. 0 \in 0..P
      OBVIOUS
    <3> HIDE DEF Sums
    <3> QED BY <3>1, <3>2
  <2>2. ASSUME NEW m \in 0..(P - 1), m \in J PROVE m + 1 \in J
    <3>1. PICK h : Sums(h, m)
      BY <2>2
    <3> DEFINE k == [n \in 0..(m + 1) |-> IF n = m + 1 THEN h[m] + f[m] ELSE h[n]]
               K(n) == IF n = 0 THEN 0 ELSE k[n - 1] + f[n - 1]
    <3>2. ASSUME NEW n \in 0..(m + 1) PROVE k[n] = K(n)
      <4>1. CASE n = m + 1
        <5>1. n # 0 /\ n - 1 = m /\ m \in 0..(m + 1) /\ m # m + 1
          BY <4>1
        <5>2. k[n] = h[m] + f[m] /\ k[m] = h[m]
          BY <4>1, <5>1
        <5> QED BY <4>1, <5>1, <5>2
      <4>2. CASE n # m + 1
        <5>1. n \in 0..m
          BY <4>2
        <5>2. h[n] = IF n = 0 THEN 0 ELSE h[n - 1] + f[n - 1]
          BY <3>1, <5>1
        <5>3. k[n] = h[n] /\ (n # 0 => k[n - 1] = h[n - 1])
          BY <4>2, <5>1
        <5> QED BY <5>2, <5>3
      <4> QED BY <4>1, <4>2
    <3>3. k = [n \in 0..(m + 1) |-> K(n)]
      <4>1. k = [n \in 0..(m + 1) |-> k[n]]
        OBVIOUS
      <4> HIDE DEF k, K
      <4> QED BY <3>2, <4>1
    <3>4. Sums(k, m + 1)
      BY <3>3
    <3>5. m + 1 \in 0..P
      OBVIOUS
    <3> HIDE DEF k, Sums
    <3> QED BY <3>4, <3>5
  <2> HIDE DEF J
  <2>3. 0..P \subseteq J
    BY <2>1, <2>2, UpTo
  <2>4. P \in 0..P
    OBVIOUS
  <2> QED BY <2>3, <2>4, SMTT(30)
<1>2. \E h : Sums(h, P)
  BY <1>1
<1>3. g = CHOOSE h : Sums(h, P)
  BY DEF SumOf
<1> HIDE DEF g
<1>4. Sums(g, P)
  <2> HIDE DEF Sums
  <2> QED BY <1>2, <1>3
<1>5. \A n \in 0..P : g[n] = IF n = 0 THEN 0 ELSE g[n - 1] + f[n - 1]
  BY <1>4
<1>6. 0 \in 0..P /\ \A n \in 0..(P - 1) : n + 1 \in 0..P /\ n + 1 # 0 /\ (n + 1) - 1 = n
  OBVIOUS
<1>7. ASSUME NEW n \in 0..(P - 1) PROVE g[n + 1] = g[n] + f[n]
  <2>1. g[n + 1] = IF n + 1 = 0 THEN 0 ELSE g[(n + 1) - 1] + f[(n + 1) - 1]
    BY <1>5, <1>6
  <2> QED BY <1>6, <2>1
<1>8. g[0] = 0
  BY <1>5, <1>6
<1> QED BY <1>7, <1>8 DEF g

AnnTypeOK ==
    /\ since \in 0..Never /\ calm \in 0..Never /\ owed \in 0..Never
    /\ beacon \in Int /\ beacon <= Period
    /\ burst \in [left : 0..BurstLen, due : Int]
    /\ sent \in [0..(Period - 1) -> Nat]
    /\ started \in BOOLEAN /\ (~started => beacon = 0 /\ burst.left = 0)

\* A burst keeps to the schedule it was armed with, and a loop that was on time has
\* missed no deadline.
OnSchedule ==
    /\ burst.left = 0 => burst.due = Never
    /\ burst.left > 0 => since + burst.due <= BurstLen - burst.left
    /\ burst.left > 0 /\ since # Never => since + burst.due = BurstLen - burst.left
    /\ calm > 0 => beacon >= 0 /\ burst.due >= 0

One(b) == IF b THEN 1 ELSE 0

\* At most the last beacon, the frames of the last burst and those of the one before it, a
\* Period earlier at least.
Explained(frames, next, rest, a, last, prev) ==
    frames <= One(a = Period - next)
              + One(0 <= last - a /\ last - a < BurstLen - rest)
              + One(0 <= prev - a /\ prev - a < BurstLen)

BurstAt(s, last) == IF s = Never THEN last >= Never ELSE last = s

FramesExplained ==
    \E last, prev \in Nat :
        /\ BurstAt(since, last) /\ prev >= last + Period
        /\ \A a \in 0..(Period - 1) : a < calm => Explained(sent[a], beacon, burst.left, a, last, prev)

\* What is owed since the loop has been on time waits for the next beacon at most.
OwedSoon == owed # Never /\ owed < calm => started /\ owed + beacon <= Period

AnnInv == AnnTypeOK /\ OnSchedule /\ FramesExplained /\ OwedSoon

\* The constants of announce.rs, as numbers.
LEMMA AnnNumbers == Period \in Nat \ {0} /\ BurstLen \in 1..Period /\ Never = Period + 1 /\ Never \in Nat
  BY AnnouncerAssumption DEF Never

\* Nothing was sent and nothing is owed.
LEMMA AnnStart == AnnInit => AnnInv
  <1> SUFFICES ASSUME AnnInit PROVE AnnInv
    OBVIOUS
  <1> USE AnnNumbers
  <1>1. AnnTypeOK
    <2>1. started \in BOOLEAN /\ beacon = 0
      BY DEF AnnInit
    <2>2. burst \in [left : 0..BurstLen, due : Int] /\ burst.left = 0
      BY DEF AnnInit, NoBurst
    <2>3. since = Never /\ calm = Never /\ owed = Never /\ sent = [a \in 0..(Period - 1) |-> 0]
      BY DEF AnnInit
    <2> QED BY <2>1, <2>2, <2>3 DEF AnnTypeOK
  <1>2. OnSchedule /\ OwedSoon
    BY DEF AnnInit, OnSchedule, OwedSoon, NoBurst
  <1>3. FramesExplained
    <2>1. BurstAt(since, Never) /\ Never + Period \in Nat /\ Never + Period >= Never + Period
      BY DEF AnnInit, BurstAt
    <2>2. \A a \in 0..(Period - 1) : Explained(sent[a], beacon, burst.left, a, Never, Never + Period)
      BY DEF AnnInit, Explained, One
    <2> QED BY <2>1, <2>2 DEF FramesExplained
  <1> QED BY <1>1, <1>2, <1>3 DEF AnnInv

\* A running announcer starts a burst.
Arming ==
    started' /\ OnEvent(burst, since) /\ burst' = [left |-> BurstLen, due |-> 0] /\ since' = 0

\* An event arms a burst, or leaves everything as it is.
LEMMA ArmedKeeps ==
    ASSUME AnnInv, UNCHANGED <<beacon, sent, calm, owed>>, started' \in BOOLEAN, started => started',
           UNCHANGED <<burst, since>> \/ Arming
    PROVE  AnnInv'
  <1> USE AnnNumbers
  <1>1. CASE UNCHANGED <<burst, since>>
    <2>1. UNCHANGED <<burst, since, beacon, sent, calm, owed>>
      BY <1>1
    <2>2. AnnTypeOK'
      BY <2>1 DEF AnnInv, AnnTypeOK
    <2>4. OnSchedule' /\ OwedSoon'
      BY <2>1 DEF AnnInv, OnSchedule, OwedSoon
    <2>3. FramesExplained'
      BY <2>1 DEF AnnInv, FramesExplained, BurstAt, Explained
    <2> QED BY <2>2, <2>3, <2>4 DEF AnnInv
  <1>2. CASE Arming
    <2>1. burst' = [left |-> BurstLen, due |-> 0] /\ since' = 0 /\ burst.left = 0 /\ since >= Period
      BY <1>2 DEF Arming, OnEvent
    <2>2. AnnTypeOK'
      <3>1. started'
        BY <1>2 DEF Arming
      <3> QED BY <2>1, <3>1 DEF AnnInv, AnnTypeOK
    <2>4. OnSchedule' /\ OwedSoon'
      BY <2>1 DEF AnnInv, AnnTypeOK, OnSchedule, OwedSoon
    <2>3. FramesExplained'
      <3>1. PICK last \in Nat, prev \in Nat :
                /\ BurstAt(since, last) /\ prev >= last + Period
                /\ \A a \in 0..(Period - 1) : a < calm => Explained(sent[a], beacon, burst.left, a, last, prev)
        BY DEF AnnInv, FramesExplained
      <3>2. last >= Period
        BY <2>1, <3>1 DEF BurstAt
      <3>3. BurstAt(since', 0) /\ last >= 0 + Period
        BY <2>1, <3>2 DEF BurstAt
      <3>4. ASSUME NEW a \in 0..(Period - 1), a < calm' PROVE Explained(sent'[a], beacon', burst'.left, a, 0, last)
        <4>1. sent[a] \in Nat /\ Explained(sent[a], beacon, burst.left, a, last, prev)
          BY <3>1, <3>4 DEF AnnInv, AnnTypeOK
        <4> QED BY <2>1, <3>1, <3>2, <4>1 DEF Explained, One, AnnInv, AnnTypeOK
      <3>5. \E l, p \in Nat : /\ BurstAt(since', l) /\ p >= l + Period
                              /\ \A a \in 0..(Period - 1) : a < calm' => Explained(sent'[a], beacon', burst'.left, a, l, p)
        BY <3>3, <3>4
      <3> QED BY <3>5 DEF FramesExplained
    <2> QED BY <2>2, <2>3, <2>4 DEF AnnInv
  <1> QED BY <1>1, <1>2

\* The beacon after a fire: unmoved, or by whole periods past now.
LEMMA BeaconNext ==
    ASSUME AnnTypeOK
    PROVE  /\ NextBeacon \in 1..Period
           /\ beacon > 0 => NextBeacon = beacon
           /\ beacon = 0 => NextBeacon = Period
  <1> USE AnnNumbers
  <1>1. CASE beacon > 0
    BY <1>1 DEF NextBeacon, AnnTypeOK
  <1>2. CASE beacon <= 0
    <2> DEFINE n == -beacon
    <2>1. n \in Nat
      BY <1>2 DEF AnnTypeOK
    <2>2. NextBeacon = Period - (n % Period)
      BY <1>2 DEF NextBeacon, AnnTypeOK
    <2>3. n % Period \in 0..(Period - 1) /\ (n = 0 => n % Period = 0)
      <3> HIDE DEF n
      <3> QED BY <2>1
    <2>4. beacon \in Int /\ n = 0 - beacon
      BY DEF AnnTypeOK
    <2> HIDE DEF n
    <2>5. NextBeacon \in 1..Period /\ (n = 0 => NextBeacon = Period)
      BY <2>2, <2>3
    <2>6. beacon = 0 => n = 0
      BY <2>4
    <2> QED BY <1>2, <2>4, <2>5, <2>6
  <1> QED BY <1>1, <1>2 DEF AnnTypeOK

\* A burst that is due sends one frame and is armed for the next, or over.
LEMMA FiredIs ==
    ASSUME NEW b \in [left : 0..BurstLen, due : Int], b.left = 0 => b.due = Never
    PROVE  /\ Fired(b) \in [left : 0..BurstLen, due : Int]
           /\ b.due > 0 => Fired(b) = b
           /\ b.due <= 0 => /\ b.left > 0 /\ Fired(b).left = b.left - 1
                            /\ Fired(b).due = IF b.left = 1 THEN Never ELSE b.due + 1
  <1> USE AnnNumbers
  <1>1. CASE b.due > 0
    BY <1>1 DEF Fired
  <1>2. CASE b.due <= 0
    <2>1. b.left > 0 /\ b.left \in 1..BurstLen
      BY <1>2
    <2>2. CASE b.left = 1
      BY <1>2, <2>1, <2>2 DEF Fired, NoBurst
    <2>3. CASE b.left # 1
      BY <1>2, <2>1, <2>3 DEF Fired
    <2> QED BY <2>2, <2>3
  <1> QED BY <1>1, <1>2

\* After a disturbance there is nothing to explain.
LEMMA NothingToExplain ==
    ASSUME AnnTypeOK', calm' = 0
    PROVE  FramesExplained' /\ OwedSoon'
  <1> USE AnnNumbers
  <1>0. since' \in Nat /\ owed' \in Nat /\ since' <= Never
    BY DEF AnnTypeOK
  <1>1. PICK last \in Nat : last = since' /\ BurstAt(since', last)
    BY <1>0 DEF BurstAt
  <1>2. \A a \in 0..(Period - 1) : ~(a < calm')
    OBVIOUS
  <1>3. \E l, p \in Nat : /\ BurstAt(since', l) /\ p >= l + Period
                          /\ \A a \in 0..(Period - 1) : a < calm' => Explained(sent'[a], beacon', burst'.left, a, l, p)
    <2>0. last + Period \in Nat /\ last + Period >= last + Period
      OBVIOUS
    <2>1. PICK prev \in Nat : prev >= last + Period
      BY <2>0
    <2> QED BY <1>1, <1>2, <2>1
  <1>4. FramesExplained'
    BY <1>3 DEF FramesExplained
  <1>5. OwedSoon'
    BY <1>0 DEF OwedSoon
  <1> QED BY <1>4, <1>5

\* The frames of one age, as a fire finds the next beacon n ahead and leaves it m ahead ...
Refired(n, m) == n \in Nat /\ m \in 1..Period /\ (n > 0 => m = n) /\ (n = 0 => m = Period)

\* A frame sent earlier is explained as before by a beacon and a burst that went on.
LEMMA OlderFit ==
    ASSUME NEW f \in Nat, NEW n, NEW m, Refired(n, m), NEW a \in 1..(Period - 1),
           NEW rest \in 0..BurstLen, NEW less \in 0..rest, NEW last \in Nat, NEW prev \in Nat,
           Explained(f, n, rest, a, last, prev)
    PROVE  Explained(f, m, less, a, last, prev)
  BY AnnNumbers DEF Explained, One, Refired

\* ... and by a burst armed now, which makes the last one the one before.
LEMMA OlderFitArmed ==
    ASSUME NEW f \in Nat, NEW n, NEW m, Refired(n, m), NEW a \in 1..(Period - 1),
           NEW last \in Nat, NEW prev \in Nat, last >= Period, prev >= last + Period,
           Explained(f, n, 0, a, last, prev)
    PROVE  Explained(f, m, BurstLen - 1, a, 0, last)
  BY AnnNumbers DEF Explained, One, Refired

\* ... and those of now.
LEMMA NowFits ==
    ASSUME NEW f \in Nat, NEW n, NEW m, Refired(n, m),
           NEW rest \in 0..BurstLen, NEW less \in 0..rest, NEW last \in Nat, NEW prev \in Nat,
           Explained(f, n, rest, 0, last, prev)
    PROVE  /\ Explained(f, m, less, 0, last, prev)
           /\ n = 0 => Explained(f + 1, m, less, 0, last, prev)
           /\ last = BurstLen - rest /\ rest > 0 /\ less = rest - 1 => Explained(f + 1, m, less, 0, last, prev)
  <1> USE AnnNumbers
  <1>1. Explained(f, m, less, 0, last, prev)
    BY DEF Explained, One, Refired
  <1>2. n = 0 => Explained(f + 1, m, less, 0, last, prev)
    BY DEF Explained, One, Refired
  <1>3. last = BurstLen - rest /\ rest > 0 /\ less = rest - 1 => Explained(f + 1, m, less, 0, last, prev)
    BY DEF Explained, One, Refired
  <1> QED BY <1>1, <1>2, <1>3

\* The first frame of a burst armed now is its own.
LEMMA NowFitsArmed ==
    ASSUME NEW f \in Nat, NEW n, NEW m, Refired(n, m),
           NEW last \in Nat, NEW prev \in Nat, last >= Period, prev >= last + Period,
           Explained(f, n, 0, 0, last, prev)
    PROVE  Explained(f + 1, m, BurstLen - 1, 0, 0, last)
  BY AnnNumbers DEF Explained, One, Refired

\* A unit of time makes every frame one older, and brings the beacon nearer if there is one.
LEMMA AgedFit ==
    ASSUME NEW f \in Nat, NEW n \in Int, NEW m \in Int, m = n - 1 \/ (n = 0 /\ m = 0), NEW a \in 1..(Period - 1),
           NEW rest \in 0..BurstLen, NEW last \in Nat, NEW prev \in Nat,
           Explained(f, n, rest, a - 1, last, prev)
    PROVE  Explained(f, m, rest, a, last + 1, prev + 1)
  BY AnnNumbers DEF Explained, One

\* No frame needs no explanation.
LEMMA NoneFits ==
    ASSUME NEW m \in Int, NEW rest \in 0..BurstLen, NEW a \in 0..(Period - 1), NEW last \in Nat, NEW prev \in Nat
    PROVE  Explained(0, m, rest, a, last, prev)
  BY AnnNumbers DEF Explained, One

\* fire_due sends only what AnnInv explains.
LEMMA FireKeeps ==
    ASSUME AnnInv, NEW seen \in BOOLEAN, NEW ok \in BOOLEAN, FireDue(seen, ok)
    PROVE  AnnInv'
  <1> USE AnnNumbers
  <1> DEFINE m    == RefreshMac(seen)
             arm  == m # mac /\ OnEvent(burst, since)
             b    == IF arm THEN [left |-> BurstLen, due |-> 0] ELSE burst
             send == b.due <= 0 \/ beacon <= 0
  <1>1. /\ started /\ started' = started
        /\ IF seen /\ ok THEN calm' = calm ELSE calm' = 0
        /\ burst' = Fired(b) /\ beacon' = NextBeacon
        /\ since' = (IF arm THEN 0 ELSE since)
        /\ sent' = (IF send /\ ok THEN [sent EXCEPT ![0] = @ + 1] ELSE sent)
        /\ owed' = (IF send /\ ok /\ m = legMac THEN Never ELSE owed)
    BY DEF FireDue
  <1>2. arm => burst.left = 0 /\ since >= Period
    BY DEF OnEvent
  <1>3. b = (IF arm THEN [left |-> BurstLen, due |-> 0] ELSE burst) /\ (send <=> b.due <= 0 \/ beacon <= 0)
    OBVIOUS
  <1>4. seen => m = legMac
    BY DEF RefreshMac
  <1> HIDE DEF m, arm, b, send
  <1>5. /\ b \in [left : 0..BurstLen, due : Int] /\ (b.left = 0 => b.due = Never)
        /\ arm => b.left = BurstLen /\ b.due = 0
        /\ ~arm => b = burst
    BY <1>3 DEF AnnInv, AnnTypeOK, OnSchedule
  <1>6. /\ burst' \in [left : 0..BurstLen, due : Int]
        /\ b.due > 0 => burst' = b
        /\ b.due <= 0 => /\ b.left > 0 /\ burst'.left = b.left - 1
                         /\ burst'.due = IF b.left = 1 THEN Never ELSE b.due + 1
    BY <1>1, <1>5, FiredIs
  <1>7. beacon' \in 1..Period /\ (beacon > 0 => beacon' = beacon) /\ (beacon = 0 => beacon' = Period)
    BY <1>1, BeaconNext DEF AnnInv
  <1>8. AnnTypeOK'
    <2>1. sent' \in [0..(Period - 1) -> Nat]
      BY <1>1 DEF AnnInv, AnnTypeOK
    <2>2. since' \in 0..Never /\ calm' \in 0..Never /\ owed' \in 0..Never
      BY <1>1 DEF AnnInv, AnnTypeOK
    <2>3. started' \in BOOLEAN /\ started'
      BY <1>1 DEF AnnInv, AnnTypeOK
    <2> QED BY <1>6, <1>7, <2>1, <2>2, <2>3 DEF AnnTypeOK
  <1>9. OnSchedule'
    <2>1. b.left > 0 => since' + b.due <= BurstLen - b.left
      BY <1>1, <1>5 DEF AnnInv, AnnTypeOK, OnSchedule
    <2>2. b.left > 0 /\ since' # Never => since' + b.due = BurstLen - b.left
      BY <1>1, <1>5 DEF AnnInv, AnnTypeOK, OnSchedule
    <2>3. calm' > 0 => b.due >= 0
      BY <1>1, <1>5 DEF AnnInv, AnnTypeOK, OnSchedule
    <2>4. since' \in 0..Never /\ calm' \in 0..Never
      BY <1>8 DEF AnnTypeOK
    <2>5. CASE b.due > 0
      BY <1>5, <1>6, <1>7, <2>1, <2>2, <2>3, <2>4, <2>5 DEF OnSchedule
    <2>6. CASE b.due <= 0
      <3>1. b.left \in 1..BurstLen /\ b.due \in Int /\ burst'.left \in 0..BurstLen
        BY <1>5, <1>6, <2>6
      <3>2. CASE b.left = 1
        BY <1>6, <1>7, <2>4, <2>6, <3>1, <3>2 DEF OnSchedule
      <3>3. CASE b.left # 1
        BY <1>6, <1>7, <2>1, <2>2, <2>3, <2>4, <2>6, <3>1, <3>3 DEF OnSchedule
      <3> QED BY <3>2, <3>3
    <2> QED BY <1>5, <2>5, <2>6
  <1>10. CASE calm' = 0
    <2>1. FramesExplained' /\ OwedSoon'
      BY <1>8, <1>10, NothingToExplain
    <2> QED BY <1>8, <1>9, <2>1 DEF AnnInv
  <1>11. CASE calm' # 0
    <2>1. seen /\ ok /\ calm' = calm /\ calm > 0
      BY <1>1, <1>11 DEF AnnInv, AnnTypeOK
    <2>2. beacon >= 0 /\ burst.due >= 0 /\ beacon \in Int
      BY <2>1 DEF AnnInv, OnSchedule, AnnTypeOK
    <2>3. OwedSoon'
      <3>1. CASE send
        BY <1>1, <1>4, <2>1, <3>1 DEF OwedSoon
      <3>2. CASE ~send
        BY <1>1, <1>3, <1>7, <2>1, <2>2, <3>2 DEF OwedSoon, AnnInv
      <3> QED BY <3>1, <3>2
    <2>4. FramesExplained'
      <3>1. PICK last \in Nat, prev \in Nat :
                /\ BurstAt(since, last) /\ prev >= last + Period
                /\ \A a \in 0..(Period - 1) : a < calm => Explained(sent[a], beacon, burst.left, a, last, prev)
        BY DEF AnnInv, FramesExplained
      <3>6. prev >= last + Period
        BY <3>1
      <3>7. Refired(beacon, beacon')
        BY <1>7, <2>2 DEF Refired
      <3>2. sent \in [0..(Period - 1) -> Nat] /\ 0 \in 0..(Period - 1)
        BY DEF AnnInv, AnnTypeOK
      <3>3. /\ \A a \in 0..(Period - 1) : a # 0 => sent'[a] = sent[a]
            /\ send => sent'[0] = sent[0] + 1
            /\ ~send => sent'[0] = sent[0]
        BY <1>1, <2>1, <3>2
      <3>4. CASE arm
        <4>1. last >= Period /\ since' = 0
          BY <1>1, <1>2, <3>1, <3>4 DEF BurstAt
        <4>2. BurstAt(since', 0) /\ last >= 0 + Period
          BY <4>1 DEF BurstAt
        <4>3. burst.left = 0 /\ burst'.left = BurstLen - 1 /\ send
          BY <1>2, <1>3, <1>5, <1>6, <3>4
        <4>4. ASSUME NEW a \in 0..(Period - 1), a < calm' PROVE Explained(sent'[a], beacon', burst'.left, a, 0, last)
          <5>1. sent[a] \in Nat /\ Explained(sent[a], beacon, burst.left, a, last, prev)
            BY <2>1, <3>1, <3>2, <4>4
          <5>2. CASE a = 0
            <6>1. sent'[a] = sent[a] + 1
              BY <3>3, <4>3, <5>2
            <6> QED BY <3>6, <3>7, <4>1, <4>3, <5>1, <5>2, <6>1, NowFitsArmed
          <5>3. CASE a # 0
            <6>1. sent'[a] = sent[a]
              BY <3>3, <5>3
            <6>2. a \in 1..(Period - 1)
              BY <5>3
            <6> QED BY <3>6, <3>7, <4>1, <4>3, <5>1, <6>1, <6>2, OlderFitArmed
          <5> QED BY <5>2, <5>3
        <4>5. \E l, p \in Nat : /\ BurstAt(since', l) /\ p >= l + Period
                                /\ \A a \in 0..(Period - 1) : a < calm' => Explained(sent'[a], beacon', burst'.left, a, l, p)
          BY <4>2, <4>4
        <4> QED BY <4>5 DEF FramesExplained
      <3>5. CASE ~arm
        <4>1. since' = since /\ b = burst /\ since \in 0..Never /\ burst.left \in 0..BurstLen /\ burst.due \in Int
          BY <1>1, <1>5, <3>5 DEF AnnInv, AnnTypeOK
        <4>2. BurstAt(since', last)
          BY <3>1, <4>1 DEF BurstAt
        <4>3. burst'.left \in 0..BurstLen /\ burst'.left <= burst.left
          BY <1>6, <4>1
        <4>4. burst.due <= 0 => last = BurstLen - burst.left /\ burst'.left = burst.left - 1 /\ burst.left > 0
          <5> SUFFICES ASSUME burst.due <= 0
                       PROVE last = BurstLen - burst.left /\ burst'.left = burst.left - 1 /\ burst.left > 0
            OBVIOUS
          <5>1. burst.left > 0 /\ burst.due = 0 /\ burst'.left = burst.left - 1
            BY <1>6, <2>2, <4>1
          <5>2. since <= BurstLen - burst.left
            BY <4>1, <5>1 DEF AnnInv, OnSchedule
          <5>3. since # Never
            BY <4>1, <5>1, <5>2
          <5>4. since = BurstLen - burst.left
            BY <4>1, <5>1, <5>3 DEF AnnInv, OnSchedule
          <5> QED BY <3>1, <5>1, <5>3, <5>4 DEF BurstAt
        <4>5. ASSUME NEW a \in 0..(Period - 1), a < calm' PROVE Explained(sent'[a], beacon', burst'.left, a, last, prev)
          <5>1. sent[a] \in Nat /\ Explained(sent[a], beacon, burst.left, a, last, prev)
            BY <2>1, <3>1, <3>2, <4>5
          <5>2. CASE a = 0
            <6>1. burst'.left \in 0..burst.left
              BY <4>1, <4>3
            <6>2. send <=> burst.due <= 0 \/ beacon = 0
              BY <1>3, <2>2, <4>1
            <6>3. /\ Explained(sent[0], beacon', burst'.left, 0, last, prev)
                  /\ send => Explained(sent[0] + 1, beacon', burst'.left, 0, last, prev)
              BY <3>7, <4>1, <4>4, <5>1, <5>2, <6>1, <6>2, NowFits
            <6> QED BY <3>3, <5>2, <6>3
          <5>3. CASE a # 0
            <6>1. sent'[a] = sent[a]
              BY <3>3, <5>3
            <6>2. a \in 1..(Period - 1) /\ burst'.left \in 0..burst.left
              BY <4>1, <4>3, <5>3
            <6> QED BY <3>7, <4>1, <5>1, <6>1, <6>2, OlderFit
          <5> QED BY <5>2, <5>3
        <4>6. \E l, p \in Nat : /\ BurstAt(since', l) /\ p >= l + Period
                                /\ \A a \in 0..(Period - 1) : a < calm' => Explained(sent'[a], beacon', burst'.left, a, l, p)
          BY <3>1, <4>2, <4>5
        <4> QED BY <4>6 DEF FramesExplained
      <3> QED BY <3>4, <3>5
    <2> QED BY <1>8, <1>9, <2>3, <2>4 DEF AnnInv
  <1> QED BY <1>10, <1>11

\* Time moves every age and every deadline alike.
LEMMA ElapseKeeps ==
    ASSUME AnnInv, NEW busy \in BOOLEAN, Elapse(busy)
    PROVE  AnnInv'
  <1> USE AnnNumbers
  <1>1. /\ busy = Due
        /\ IF busy THEN calm' = 0 ELSE calm' = Later(calm)
        /\ beacon' = (IF started THEN beacon - 1 ELSE beacon)
        /\ burst' = (IF burst.left = 0 THEN burst ELSE [burst EXCEPT !.due = @ - 1])
        /\ since' = Later(since) /\ owed' = Later(owed) /\ started' = started
        /\ sent' = [a \in 0..(Period - 1) |-> IF a = 0 THEN 0 ELSE sent[a - 1]]
    BY DEF Elapse
  <1>2. \A t \in 0..Never : Later(t) \in 0..Never /\ Later(t) = IF t = Never THEN Never ELSE t + 1
    BY DEF Later
  <1>3. burst' \in [left : 0..BurstLen, due : Int] /\ burst'.left = burst.left
        /\ burst'.due = IF burst.left = 0 THEN burst.due ELSE burst.due - 1
    BY <1>1 DEF AnnInv, AnnTypeOK
  <1>4. AnnTypeOK'
    <2>1. sent' \in [0..(Period - 1) -> Nat]
      <3>1. \A a \in 0..(Period - 1) : a # 0 => a - 1 \in 0..(Period - 1)
        OBVIOUS
      <3>2. \A a \in 0..(Period - 1) : (IF a = 0 THEN 0 ELSE sent[a - 1]) \in Nat
        BY <3>1 DEF AnnInv, AnnTypeOK
      <3> QED BY <1>1, <3>2
    <2>2. since' \in 0..Never /\ calm' \in 0..Never /\ owed' \in 0..Never
      BY <1>1, <1>2 DEF AnnInv, AnnTypeOK
    <2>3. started' \in BOOLEAN /\ beacon' \in Int /\ beacon' <= Period /\ (~started' => beacon' = 0 /\ burst'.left = 0)
      BY <1>1, <1>3 DEF AnnInv, AnnTypeOK
    <2> QED BY <1>3, <2>1, <2>2, <2>3 DEF AnnTypeOK
  <1>5. ~busy => beacon \in Int /\ (started => beacon > 0 /\ burst.due > 0)
    BY <1>1 DEF Due, AnnInv, AnnTypeOK
  <1>6. burst.left \in 0..BurstLen /\ (burst.left > 0 => started)
    BY DEF AnnInv, AnnTypeOK
  <1>7. OnSchedule'
    <2>1. since \in 0..Never /\ burst.left \in 0..BurstLen /\ burst.due \in Int /\ calm \in 0..Never
      BY DEF AnnInv, AnnTypeOK
    <2>2. since' = (IF since = Never THEN Never ELSE since + 1) /\ (calm' # 0 => ~busy)
      BY <1>1, <1>2, <2>1
    <2>3. burst.left = 0 => burst.due = Never
      BY DEF AnnInv, OnSchedule
    <2>4. burst'.left > 0 => since' + burst'.due <= BurstLen - burst'.left
      BY <1>3, <2>1, <2>2 DEF AnnInv, OnSchedule
    <2>5. burst'.left > 0 /\ since' # Never => since' + burst'.due = BurstLen - burst'.left
      BY <1>3, <2>1, <2>2 DEF AnnInv, OnSchedule
    <2>6. calm' > 0 => beacon' >= 0 /\ burst'.due >= 0
      BY <1>1, <1>3, <1>5, <1>6, <2>1, <2>2, <2>3 DEF AnnInv, AnnTypeOK
    <2> QED BY <1>3, <2>3, <2>4, <2>5, <2>6 DEF OnSchedule
  <1>8. CASE busy
    <2>1. FramesExplained' /\ OwedSoon'
      BY <1>1, <1>4, <1>8, NothingToExplain
    <2> QED BY <1>4, <1>7, <2>1 DEF AnnInv
  <1>9. CASE ~busy
    <2>1. calm' = (IF calm = Never THEN Never ELSE calm + 1) /\ calm \in 0..Never
      BY <1>1, <1>2, <1>9 DEF AnnInv, AnnTypeOK
    <2>2. owed' = (IF owed = Never THEN Never ELSE owed + 1) /\ owed \in 0..Never
      BY <1>1, <1>2 DEF AnnInv, AnnTypeOK
    <2>3. OwedSoon'
      <3> SUFFICES ASSUME owed' # Never, owed' < calm' PROVE started' /\ owed' + beacon' <= Period
        BY DEF OwedSoon
      <3>1. owed # Never /\ owed < calm
        BY <2>1, <2>2
      <3>2. started /\ owed + beacon <= Period
        BY <3>1 DEF AnnInv, OwedSoon
      <3> QED BY <1>1, <1>5, <1>9, <2>2, <3>1, <3>2
    <2>4. FramesExplained'
      <3>1. PICK last \in Nat, prev \in Nat :
                /\ BurstAt(since, last) /\ prev >= last + Period
                /\ \A a \in 0..(Period - 1) : a < calm => Explained(sent[a], beacon, burst.left, a, last, prev)
        BY DEF AnnInv, FramesExplained
      <3>0. since' = (IF since = Never THEN Never ELSE since + 1) /\ since \in 0..Never
        BY <1>1, <1>2 DEF AnnInv, AnnTypeOK
      <3>5. prev >= last + Period /\ BurstAt(since, last)
        BY <3>1
      <3>6. BurstAt(since', last + 1)
        BY <3>0, <3>5 DEF BurstAt
      <3>2. BurstAt(since', last + 1) /\ prev + 1 >= (last + 1) + Period /\ last + 1 \in Nat /\ prev + 1 \in Nat
        BY <3>5, <3>6
      <3>3. ASSUME NEW a \in 0..(Period - 1), a < calm' PROVE Explained(sent'[a], beacon', burst'.left, a, last + 1, prev + 1)
        <4>1. burst.left \in 0..BurstLen /\ beacon \in Int /\ beacon' \in Int
          BY <1>4 DEF AnnInv, AnnTypeOK
        <4>2. CASE a = 0
          <5>1. sent'[a] = 0
            BY <1>1, <4>2
          <5> QED BY <1>3, <3>2, <4>1, <5>1, NoneFits
        <4>3. CASE a # 0
          <5>1. a - 1 \in 0..(Period - 1) /\ a - 1 < calm
            BY <2>1, <3>3, <4>3
          <5>2. sent[a - 1] \in Nat /\ Explained(sent[a - 1], beacon, burst.left, a - 1, last, prev)
            BY <3>1, <5>1 DEF AnnInv, AnnTypeOK
          <5>3. sent'[a] = sent[a - 1]
            BY <1>1, <4>3
          <5>4. beacon' = beacon - 1 \/ (beacon = 0 /\ beacon' = 0)
            BY <1>1 DEF AnnInv, AnnTypeOK
          <5>5. a \in 1..(Period - 1)
            BY <4>3
          <5> QED BY <1>3, <4>1, <5>2, <5>3, <5>4, <5>5, AgedFit
        <4> QED BY <4>2, <4>3
      <3>4. \E l, p \in Nat : /\ BurstAt(since', l) /\ p >= l + Period
                              /\ \A a \in 0..(Period - 1) : a < calm' => Explained(sent'[a], beacon', burst'.left, a, l, p)
        BY <3>2, <3>3
      <3> QED BY <3>4 DEF FramesExplained
    <2> QED BY <1>4, <1>7, <2>3, <2>4 DEF AnnInv
  <1> QED BY <1>8, <1>9

\* What sends nothing may only owe more.
LEMMA RestKeeps ==
    ASSUME AnnInv, UNCHANGED <<started, beacon, burst, since, sent, calm>>, UNCHANGED owed \/ Owe
    PROVE  AnnInv'
  <1> USE AnnNumbers
  <1>1. AnnTypeOK'
    BY DEF AnnInv, AnnTypeOK, Owe
  <1>2. OnSchedule'
    BY DEF AnnInv, OnSchedule
  <1>3. FramesExplained'
    BY DEF AnnInv, FramesExplained
  <1>4. OwedSoon'
    BY DEF AnnInv, AnnTypeOK, OwedSoon, Owe
  <1> QED BY <1>1, <1>2, <1>3, <1>4 DEF AnnInv

\* Every step keeps AnnInv.
LEMMA AnnStep ==
    ASSUME AnnInv, [AnnNext]_annVars
    PROVE  AnnInv'
  <1>1. ASSUME NEW ok \in BOOLEAN, OnNeigh(ok) PROVE AnnInv'
    <2>1. UNCHANGED <<beacon, sent, calm, owed, started>>
      BY <1>1 DEF OnNeigh, annObs
    <2>2. UNCHANGED <<burst, since>> \/ Arming
      BY <1>1, <2>1 DEF OnNeigh, Armed, Arming
    <2>3. started' \in BOOLEAN /\ (started => started')
      BY <2>1 DEF AnnInv, AnnTypeOK
    <2> QED BY <2>1, <2>2, <2>3, ArmedKeeps
  <1>2. ASSUME NEW ok \in BOOLEAN, Elapse(ok) PROVE AnnInv'
    BY <1>2, ElapseKeeps
  <1>3. ASSUME NEW ok \in BOOLEAN, PeerLearned(ok) PROVE AnnInv'
    BY <1>3, RestKeeps DEF PeerLearned, annRow, annObs
  <1>4. ASSUME NEW ok \in BOOLEAN, NEW polled \in BOOLEAN, AnnTick(ok, polled) PROVE AnnInv'
    <2>1. UNCHANGED <<beacon, sent, calm, owed>> /\ ~started /\ started' = (ok /\ ~inFile)
      BY <1>4 DEF AnnTick, annObs
    <2>2. UNCHANGED <<burst, since>> \/ Arming
      BY <1>4, <2>1 DEF AnnTick, Armed, Arming
    <2>3. started' \in BOOLEAN /\ (started => started')
      BY <2>1
    <2> QED BY <2>1, <2>2, <2>3, ArmedKeeps
  <1>5. ASSUME NEW ok \in BOOLEAN, NEW polled \in BOOLEAN, TickPoll(ok, polled) PROVE AnnInv'
    <2>1. UNCHANGED <<beacon, sent, calm, owed, started>> /\ started
      BY <1>5 DEF TickPoll, annObs
    <2>2. UNCHANGED <<burst, since>> \/ Arming
      BY <1>5, <2>1 DEF TickPoll, Armed, Arming
    <2>3. started' \in BOOLEAN /\ (started => started')
      BY <2>1 DEF AnnInv, AnnTypeOK
    <2> QED BY <2>1, <2>2, <2>3, ArmedKeeps
  <1>6. ASSUME NEW seen \in BOOLEAN, NEW ok \in BOOLEAN, FireDue(seen, ok) PROVE AnnInv'
    BY <1>6, FireKeeps
  <1>7. ASSUME NEW v \in VmMacs, AgeOut(v) PROVE AnnInv'
    BY <1>7, RestKeeps DEF AgeOut, annRow, annObs
  <1>8. ASSUME NEW v \in VmMacs, NEW lost \in BOOLEAN, Learn(v, lost) PROVE AnnInv'
    BY <1>8, RestKeeps DEF Learn, annRow
  <1>9. CASE WatchDied
    BY <1>9, RestKeeps DEF WatchDied, annObs
  <1>10. CASE WatchDies
    BY <1>10, RestKeeps DEF WatchDies, annRow, annObs
  <1>11. CASE LegMacChanges
    BY <1>11, RestKeeps DEF LegMacChanges, annRow
  <1>12. CASE FileChanges
    BY <1>12, RestKeeps DEF FileChanges, annRow, annObs
  <1>13. CASE UNCHANGED annVars
    BY <1>13, RestKeeps DEF annVars, annRow, annObs
  <1> QED BY <1>1, <1>2, <1>3, <1>4, <1>5, <1>6, <1>7, <1>8, <1>9, <1>10, <1>11, <1>12, <1>13 DEF AnnNext

\* How many of the ages below n one burst covers that began at age s.
Covered(n, s) ==
    LET upper == IF n <= s + 1 THEN n ELSE s + 1
        lower == IF s >= BurstLen THEN s - BurstLen + 1 ELSE 0
    IN  IF upper >= lower THEN upper - lower ELSE 0

\* How much of a burst a window that grows by one covers.
LEMMA CoveredNext ==
    ASSUME NEW n \in Nat, NEW s \in Nat
    PROVE  /\ Covered(n, s) \in Nat /\ Covered(0, s) = 0
           /\ Covered(n + 1, s) = Covered(n, s) + One(0 <= s - n /\ s - n < BurstLen)
  BY AnnNumbers DEF Covered, One

\* Two bursts that began a Period apart cover BurstLen of the ages below Period.
LEMMA CoveredBoth ==
    ASSUME NEW last \in Nat, NEW prev \in Nat, prev >= last + Period
    PROVE  Covered(Period, last) + Covered(Period, prev) <= BurstLen
  BY AnnNumbers DEF Covered

\* A window of a PERIOD holds one beacon and what two bursts a PERIOD apart can cover of it.
LEMMA FewFrames ==
    ASSUME AnnInv, calm = Never
    PROVE  SentLately <= BurstLen + 1
  <1> USE AnnNumbers
  <1> DEFINE g == SumOf(Period, sent)
  <1>1. SentLately = g[Period]
    BY DEF SentLately, SumOf
  <1>2. sent \in [0..(Period - 1) -> Nat] /\ burst.left \in 0..BurstLen /\ beacon \in Int
    BY DEF AnnInv, AnnTypeOK
  <1>3. g[0] = 0 /\ \A n \in 0..(Period - 1) : g[n + 1] = g[n] + sent[n]
    BY <1>2, RunningSum
  <1> HIDE DEF g
  <1>4. PICK last \in Nat, prev \in Nat :
            /\ BurstAt(since, last) /\ prev >= last + Period
            /\ \A a \in 0..(Period - 1) : a < calm => Explained(sent[a], beacon, burst.left, a, last, prev)
    BY DEF AnnInv, FramesExplained
  <1> DEFINE Bea(n) == One(Period - beacon < n /\ Period - beacon >= 0)
             B(n)   == Bea(n) + Covered(n, last) + Covered(n, prev)
             G      == {n \in 0..Period : g[n] \in Nat /\ g[n] <= B(n)}
  <1>5. 0 \in G
    <2>1. Bea(0) = 0 /\ Covered(0, last) = 0 /\ Covered(0, prev) = 0
      <3>1. Bea(0) = 0
        BY <1>2 DEF One
      <3>2. 0 \in Nat
        OBVIOUS
      <3> QED BY <3>1, <3>2, CoveredNext
    <2>2. g[0] = 0 /\ 0 \in 0..Period
      BY <1>3
    <2> HIDE DEF Bea
    <2>3. g[0] \in Nat /\ g[0] <= B(0)
      BY <2>1, <2>2
    <2> QED BY <2>2, <2>3
  <1>6. ASSUME NEW n \in 0..(Period - 1), n \in G PROVE n + 1 \in G
    <2>1. n \in Nat /\ n + 1 \in 0..Period /\ g[n] \in Nat /\ g[n] <= B(n) /\ sent[n] \in Nat /\ g[n + 1] = g[n] + sent[n]
      BY <1>2, <1>3, <1>6
    <2>2. Explained(sent[n], beacon, burst.left, n, last, prev)
      BY <1>4
    <2>3. sent[n] <= One(n = Period - beacon) + One(0 <= last - n /\ last - n < BurstLen)
                     + One(0 <= prev - n /\ prev - n < BurstLen)
      BY <1>2, <2>1, <2>2, SMTT(60) DEF Explained, One
    <2>4. /\ Covered(n + 1, last) = Covered(n, last) + One(0 <= last - n /\ last - n < BurstLen)
          /\ Covered(n + 1, prev) = Covered(n, prev) + One(0 <= prev - n /\ prev - n < BurstLen)
          /\ Covered(n, last) \in Nat /\ Covered(n, prev) \in Nat
      BY <2>1, CoveredNext
    <2>5. Bea(n + 1) = Bea(n) + One(n = Period - beacon) /\ Bea(n) \in Nat
      BY <1>2, <2>1 DEF One
    <2> DEFINE u == One(n = Period - beacon)
               v == One(0 <= last - n /\ last - n < BurstLen)
               w == One(0 <= prev - n /\ prev - n < BurstLen)
    <2>7. u \in Nat /\ v \in Nat /\ w \in Nat
      BY DEF One
    <2> HIDE DEF u, v, w, Bea
    <2>8. g[n + 1] \in Nat /\ g[n + 1] <= B(n + 1)
      BY <2>1, <2>3, <2>4, <2>5, <2>7 DEF u, v, w
    <2> QED BY <2>1, <2>8
  <1>7. Period \in G
    <2> HIDE DEF G
    <2>1. 0..Period \subseteq G
      BY <1>5, <1>6, UpTo
    <2>2. Period \in 0..Period
      OBVIOUS
    <2> QED BY <2>1, <2>2, SMTT(30)
  <1>8. Covered(Period, last) + Covered(Period, prev) <= BurstLen /\ Covered(Period, last) \in Nat /\ Covered(Period, prev) \in Nat
    BY <1>4, CoveredBoth, CoveredNext
  <1>9. Bea(Period) \in 0..1
    BY DEF One
  <1> HIDE DEF Bea
  <1>10. g[Period] \in Nat /\ g[Period] <= Bea(Period) + Covered(Period, last) + Covered(Period, prev)
    BY <1>7
  <1> QED BY <1>1, <1>8, <1>9, <1>10

\* "at most BURST_LEN + 1 frames per PERIOD under MAC churn", and a change told within a
\* PERIOD, whatever PERIOD, BURST_LEN and the tick are and however many MACs there are.
THEOREM AnnouncerRate == AnnSpec => []FrameRate
  <1>1. ASSUME AnnInv PROVE FrameRate
    <2> SUFFICES ASSUME calm = Never
                 PROVE  /\ SentLately <= BurstLen + 1
                        /\ owed \in 0..Period \cup {Never}
                        /\ owed = Period => Due
      BY DEF FrameRate
    <2> USE AnnNumbers
    <2>1. SentLately <= BurstLen + 1
      BY <1>1, FewFrames
    <2>2. owed \in 0..Period \cup {Never}
      BY <1>1 DEF AnnInv, AnnTypeOK
    <2>3. ASSUME owed = Period PROVE Due
      <3>1. started /\ owed + beacon <= Period /\ beacon \in Int
        BY <1>1, <2>3 DEF AnnInv, OwedSoon, AnnTypeOK
      <3> QED BY <2>3, <3>1 DEF Due
    <2> QED BY <2>1, <2>2, <2>3
  <1> QED BY <1>1, AnnStart, AnnStep, PTL DEF AnnSpec

==============================================================================
