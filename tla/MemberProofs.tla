---------------------------- MODULE MemberProofs ----------------------------
(***************************************************************************)
(* What holds of the parts of a member for every value of the constants:   *)
(* its host default, its transit posture, its workload rows and its       *)
(* routing rules.                                                          *)
(***************************************************************************)
EXTENDS HostDefault, Transit, WorkloadLegs, RouteRules, WellFoundedInduction, TLAPS

-----------------------------------------------------------------------------
(* The host default.  While nothing disturbs a pass, what it has read of   *)
(* the floor is what the floor carries, every floor address is pinned      *)
(* before the rules and the route go in, and the route is out before a     *)
(* removal takes the pins.                                                 *)

PinnedFirst ==
    hdPass = "clean" =>
       /\ hdAt = "pin" /\ floor => onFloor \subseteq hdAddrs
       /\ hdAt \in {"stale", "rules", "route"} /\ floor => onFloor \subseteq pins
       /\ hdAt \in {"del_pins", "del_look"} => ~route

HdInv == HdTypeOK /\ PinnedFirst

\* The counter of failures and changes stays in its bounds.
LEMMA HitsBounded ==
    ASSUME HdTypeOK, HdHit \/ HdCalm \/ HdAsked \/ (hdPass' = "clean" /\ hdHits' = hdHits)
    PROVE  hdHits' \in 0..MaxDefaultFaults /\ hdPass' \in {"clean", "dirty"}
  BY HostDefaultAssumption DEF HdTypeOK, HdHit, HdCalm, HdAsked

\* Every step of an apply, a tick, a stop or the host keeps HdInv.
LEMMA HdStepKeeps ==
    ASSUME HdInv, [HdNext]_hdVars
    PROVE  HdInv'
  <1> USE HitsBounded DEF HdInv, PinnedFirst, HdTypeOK, hdHost, hdKept, hdRead
  <1>1. CASE UNCHANGED hdVars
    BY <1>1 DEF hdVars
  <1>2. CASE HdApply
    BY <1>2 DEF HdApply, HdAsked
  <1>3. ASSUME NEW edge \in BOOLEAN, HdTick(edge) PROVE HdInv'
    BY <1>3 DEF HdTick
  <1>4. CASE HdFloor
    BY <1>4 DEF HdFloor, HdCalm
  <1>5. CASE HdPin
    BY <1>5 DEF HdPin, HdCalm
  <1>6. CASE HdStale
    BY <1>6 DEF HdStale, HdCalm
  <1>7. CASE HdRules
    BY <1>7 DEF HdRules, HdCalm
  <1>8. CASE HdRoute
    BY <1>8 DEF HdRoute, HdCalm, Verdict
  <1>9. ASSUME NEW some \in SUBSET Addrs, HdFails(some) PROVE HdInv'
    BY <1>9 DEF HdFails, HdCalm, HdHit, Verdict, Applying
  <1>10. CASE HdStop
    BY <1>10 DEF HdStop, HdAsked
  <1>11. ASSUME NEW ok \in BOOLEAN, HdDelRoute(ok) PROVE HdInv'
    BY <1>11, ZenonT(60) DEF HdDelRoute, HdCalm, HdHit
  <1>12. CASE HdDelPins
    BY <1>12 DEF HdDelPins, HdCalm
  <1>13. CASE HdDelLook
    BY <1>13 DEF HdDelLook, HdCalm, HdEnd
  <1>14. ASSUME NEW some \in SUBSET Addrs, HdDelFails(some) PROVE HdInv'
    BY <1>14 DEF HdDelFails, HdHit, HdEnd
  <1>15. CASE HdCrash
    BY <1>15 DEF HdCrash, HdHit
  <1>16. CASE GwFlaps \/ HdFlushed
    BY <1>16, ZenonT(60) DEF GwFlaps, HdFlushed, HdHit
  <1>18. CASE FloorFlips
    BY <1>18 DEF FloorFlips, HdHit
  <1>19. CASE ReachFlips
    BY <1>19 DEF ReachFlips, HdHit
  <1>17. ASSUME NEW a \in Addrs, NEW to \in {"floor", "other", "gone"}, AddrMoves(a, to) PROVE HdInv'
    BY <1>17 DEF AddrMoves, HdHit
  <1> QED BY <1>1, <1>2, <1>3, <1>4, <1>5, <1>6, <1>7, <1>8, <1>9, <1>10, <1>11, <1>12, <1>13,
             <1>14,
             <1>15, <1>16, <1>17, <1>18, <1>19 DEF HdNext, HdPassNext, HdRemoveNext, HdHostNext
\* No route, no pin.
LEMMA HdInitHolds == HdInit => HdInv
  <1> SUFFICES ASSUME HdInit PROVE HdInv
    OBVIOUS
  <1>1. hdHits \in 0..MaxDefaultFaults
    BY HostDefaultAssumption DEF HdInit
  <1>2. /\ floor \in BOOLEAN /\ gwUp \in BOOLEAN /\ reach \in BOOLEAN
        /\ look \in BOOLEAN /\ route \in BOOLEAN /\ hdWant \in BOOLEAN
    BY Zenon DEF HdInit
  <1> QED BY <1>1, <1>2 DEF HdInit, HdInv, HdTypeOK, PinnedFirst

\* Routes, rules, pins and the pass are well typed in every reachable state.
THEOREM HdTypes == HdSpec => []HdTypeOK
  <1>1. HdInv => HdTypeOK
    BY DEF HdInv
  <1> QED BY <1>1, HdInitHolds, HdStepKeeps, PTL DEF HdSpec

Guarded == \A a \in Exposed' \ Exposed : a \notin pins /\ (floor => a \notin onFloor)

\* What exposes nothing new: a step that leaves the host alone, and loses no pin of an
\* address the host has, nor brings a rule or the route.
LEMMA Quieter ==
    ASSUME UNCHANGED <<onFloor, elsewhere>>, route' => route, look' => look,
           \A a \in pins \cap (onFloor \cup elsewhere) : a \in pins'
    PROVE  Exposed' \subseteq Exposed
  BY DEF Exposed

\* An undisturbed step opens nothing that is not pinned.
LEMMA CleanStepGuards ==
    ASSUME HdInv, HdNext, hdPass = "clean", hdPass' = "clean"
    PROVE  Guarded
  <1> USE DEF HdInv, HdTypeOK, PinnedFirst, hdHost, hdKept, hdRead
  <1>1. CASE HdApply \/ HdFloor \/ HdStop \/ HdTick(TRUE) \/ HdTick(FALSE)
    BY <1>1, Quieter DEF HdApply, HdFloor, HdStop, HdTick, Guarded
  <1>2. CASE HdPin
    BY <1>2, Quieter DEF HdPin, Guarded
  <1>3. CASE HdStale
    BY <1>3, Quieter DEF HdStale, Guarded
  <1>4. CASE HdRules
    BY <1>4 DEF HdRules, Guarded, Exposed
  <1>5. CASE HdRoute
    BY <1>5 DEF HdRoute, Guarded, Exposed
  <1>6. ASSUME NEW some \in SUBSET Addrs, HdFails(some) PROVE Guarded
    BY <1>6, Quieter DEF HdFails, Guarded
  <1>7. ASSUME NEW ok \in BOOLEAN, HdDelRoute(ok) PROVE Guarded
    BY <1>7, Quieter DEF HdDelRoute, Guarded
  <1>8. CASE HdDelPins
    <2>1. ~route'
      BY <1>8 DEF HdDelPins
    <2> QED BY <2>1 DEF Guarded, Exposed
  <1>9. CASE HdDelLook
    BY <1>9, Quieter DEF HdDelLook, Guarded
  <1>10. CASE HdCrash \/ HdHostNext \/ \E some \in SUBSET Addrs : HdDelFails(some)
    BY <1>10 DEF HdCrash, HdHostNext, HdDelFails, FloorFlips, GwFlaps, ReachFlips, HdFlushed, AddrMoves, HdHit
  <1> QED BY <1>1, <1>2, <1>3, <1>4, <1>5, <1>6, <1>7, <1>8, <1>9, <1>10
          DEF HdNext, HdPassNext, HdRemoveNext

\* apply, the ticks and the teardown pin before they route and unroute before they unpin, for
\* any set of addresses and any number of failures, crashes and changes of the host.
THEOREM NoSelfLock == HdSpec => NeverSelfLocks
  <1>1. HdInv /\ [HdNext]_hdVars =>
        [hdPass = "clean" /\ hdPass' = "clean" =>
           \A a \in Exposed' \ Exposed : a \notin pins /\ (floor => a \notin onFloor)]_hdVars
    BY CleanStepGuards DEF Guarded
  <1> QED BY <1>1, HdInitHolds, HdStepKeeps, PTL DEF HdSpec, NeverSelfLocks
-----------------------------------------------------------------------------
(* The transit posture.  While nothing disturbs a pass, every step leaves  *)
(* what the next ones rely on: a leg that still has to be visited is in    *)
(* todo, one that was is as the pass wants it.                             *)

\* Every leg of a wire that is there forwards, or has still to be visited.
Opened(rest) == \A l \in Legs : Buildable(l, wires) => l \in fwd \/ l \in rest

NoRulesNoLeg == rules \/ \A l \in FabricLegs : leg[l] # "up"

ApplyFirst ==
    /\ at \in {"a_close", "a_legs", "a_bond", "a_policy", "a_open", "a_rest"} => have = wires
    /\ at \in {"a_policy", "a_open", "a_rest"} => rules
    /\ at \in {"a_open", "a_rest"} => policy = "drop"
    /\ at = "a_open" => Opened(todo)
    /\ at = "a_rest" => Opened({}) /\ (hook => accept)

TickFirst ==
    /\ at = "w_close" => policy # "drop" /\ fwd \subseteq todo /\ todo \subseteq Netdevs
    /\ at \in {"w_correct", "w_legs", "w_bond", "w_rules", "w_default", "w_accept"} => policy = "drop"
    /\ at = "w_correct" => \A l \in Netdevs : l \in todo \/ l \in fwd
    /\ at = "w_legs" => Opened(todo) /\ Netdevs \subseteq fwd
    /\ at \in {"w_bond", "w_rules", "w_default", "w_accept"} => Opened({})
    /\ at \in {"w_default", "w_accept"} => NoRulesNoLeg

StopFirst ==
    /\ at = "s_close" => fwd \subseteq todo /\ todo \subseteq Netdevs
    /\ at \in {"s_policy", "s_rules", "s_legs"} => fwd = {}
    /\ at \in {"s_rules", "s_legs"} => policy = "none" /\ ~accept
    /\ at = "s_legs" => ~rules /\ ~ret /\ \A l \in Legs : leg[l] # "absent" => l \in todo

TransitInv == TransitTypeOK /\ Contained /\ (pass = "clean" => ApplyFirst /\ TickFirst /\ StopFirst)

\* The counter of failures and foreign changes stays in its bounds.
LEMMA FaultsBounded ==
    ASSUME TransitTypeOK, Hit \/ Calm
    PROVE  hits' \in 0..MaxTransitFaults /\ pass' \in {"clean", "dirty"}
  BY TransitAssumption DEF TransitTypeOK, Hit, Calm

\* A builder that fails half way removes no netdev.
LEMMA HalfMadeOf ==
    ASSUME TransitTypeOK, NEW ls \in SUBSET Legs, NEW made \in HalfMade(ls)
    PROVE  /\ made \in [Legs -> {"absent", "up", "down", "alien"}]
           /\ \A l \in Legs : Exists(l) => made[l] # "absent"
  BY DEF HalfMade, TransitTypeOK, Exists

\* Every step of an apply, a tick, a stop or the host keeps TransitInv.
LEMMA TransitStepKeeps ==
    ASSUME TransitInv, [TransitNext]_transitVars
    PROVE  TransitInv'
  <1> USE FaultsBounded DEF TransitInv, TransitTypeOK, Contained, PassContains, StopFailsClosed, ApplyFirst,
          TickFirst, StopFirst, Opened, NoRulesNoLeg, Netdevs, Exists, net, nft, ctl, Calm, Buildable
  <1>1. CASE UNCHANGED transitVars
    BY <1>1 DEF transitVars
  <1>2. CASE StartApply
    BY <1>2 DEF StartApply
  <1>3. CASE ApplyClosed
    <2>1. todo' \subseteq Legs
      BY <1>3 DEF ApplyClosed, Legs
    <2>2. UNCHANGED <<net, nft, cost, have, boot>> /\ at' = "a_legs" /\ Calm /\ at = "a_close"
      BY <1>3 DEF ApplyClosed
    <2> QED BY <2>1, <2>2
  <1>4. CASE ApplyReturn
    <2>1. todo' \subseteq Legs /\ ret' \in BOOLEAN
      BY <1>4 DEF ApplyReturn, Legs
    <2>2. UNCHANGED <<wires, leg, fwd, rp, intruder, rules, nft, cost, have, boot>> /\ at' = "a_bond"
          /\ Calm /\ at = "a_legs"
      BY <1>4 DEF ApplyReturn
    <2> QED BY <2>1, <2>2
  <1>5. CASE ApplyRules
    BY <1>5 DEF ApplyRules
  <1>6. CASE ApplyPolicy
    BY <1>6 DEF ApplyPolicy
  <1>7. CASE ApplyRest
    BY <1>7 DEF ApplyRest
  <1>8. CASE ApplyFails
    <2>1. leg' \in [Legs -> {"absent", "up", "down", "alien"}] /\ \A l \in Legs : Exists(l) => leg'[l] # "absent"
      BY <1>8, HalfMadeOf DEF ApplyFails
    <2>2. /\ UNCHANGED <<wires, fwd, rp, intruder, rules, ret, nft, cost, have, boot>>
          /\ at' \in {"refused", "idle"} /\ todo' = {}
      BY <1>8 DEF ApplyFails
    <2>3. /\ hits' \in 0..MaxTransitFaults /\ pass' \in {"clean", "dirty"}
          /\ pass' = "clean" => at' = "refused"
      BY <1>8 DEF ApplyFails, Hit
    <2> QED BY <2>1, <2>2, <2>3
  <1>9. CASE TickPolicy
    BY <1>9 DEF TickPolicy
  <1>10. CASE TickCloseDone
    BY <1>10 DEF TickCloseDone
  <1>11. CASE TickCorrectDone
    BY <1>11 DEF TickCorrectDone
  <1>12. CASE TickRpFilter
    BY <1>12 DEF TickRpFilter, Hit
  <1>13. CASE TickDefault
    <2>1. ret' \in BOOLEAN
      BY <1>13, Zenon DEF TickDefault
    <2>2. UNCHANGED <<wires, leg, fwd, rp, intruder, rules, nft, cost, todo, have, boot>> /\ at' = "w_accept"
          /\ Calm /\ at = "w_default"
      BY <1>13 DEF TickDefault
    <2> QED BY <2>1, <2>2
  <1>14. CASE TickFails
    <2>1. leg' \in [Legs -> {"absent", "up", "down", "alien"}] /\ \A l \in Legs : Exists(l) => leg'[l] # "absent"
      <3>1. {l \in todo : Missing(l)} \subseteq Legs
        OBVIOUS
      <3> QED BY <1>14, <3>1, HalfMadeOf DEF TickFails
    <2>2. /\ UNCHANGED <<wires, fwd, rp, intruder, rules, ret, nft, cost, have, boot>>
          /\ at' = "idle" /\ todo' = {} /\ pass' = "dirty" /\ hits' \in 0..MaxTransitFaults
      BY <1>14 DEF TickFails, Hit
    <2> QED BY <2>1, <2>2
  <1>15. CASE StartStop
    BY <1>15 DEF StartStop
  <1>16. CASE StopClosed
    BY <1>16 DEF StopClosed
  <1>17. CASE StopPolicy
    BY <1>17, ZenonT(60) DEF StopPolicy
  <1>18. CASE StopRules
    BY <1>18, ZenonT(60) DEF StopRules
  <1>19. CASE StopDone
    BY <1>19 DEF StopDone
  <1>20. CASE StopFails
    <2>1. UNCHANGED <<net, nft, cost, have, boot>> /\ at' = "left" /\ todo' = {} /\ (Calm \/ Hit)
      BY <1>20 DEF StopFails
    <2>2. CASE pass' = "dirty"
      BY <2>1, <2>2
    <2>3. CASE pass' = "clean"
      <3>1. Stuck /\ pass = "clean"
        BY <1>20, <2>3 DEF StopFails, Hit
      <3>2. at = "s_legs" /\ \E l \in Legs : leg[l] = "alien"
        BY <1>20, <3>1 DEF StopFails, Stuck
      <3> QED BY <2>1, <3>1, <3>2
    <2> QED BY <2>1, <2>2, <2>3
  <1>21. CASE Crash
    BY <1>21 DEF Crash, Hit
  <1>22. CASE IpForward
    BY <1>22 DEF IpForward, Hit
  <1>23. CASE Drift
    <2>1. UNCHANGED <<wires, leg, fwd, nft, cost, ctl>> /\ Hit
      BY <1>23 DEF Drift
    <2>2. rules' \in BOOLEAN /\ ret' \in BOOLEAN /\ intruder' \in BOOLEAN
      BY <1>23, Zenon DEF Drift
    <2>3. rp' \subseteq Netdevs
      BY <1>23 DEF Drift
    <2> QED BY <2>1, <2>2, <2>3 DEF Hit
  <1>24. CASE HookAppears
    BY <1>24 DEF HookAppears, Hit
  <1>25. ASSUME NEW l \in Legs, ApplyClose(l) PROVE TransitInv'
    BY <1>25 DEF ApplyClose
  <1>26. ASSUME NEW l \in Legs, ApplyLeg(l) PROVE TransitInv'
    BY <1>26 DEF ApplyLeg, CanBuild
  <1>27. ASSUME NEW l \in Legs, ApplyOpen(l) PROVE TransitInv'
    BY <1>27 DEF ApplyOpen
  <1>28. ASSUME NEW l \in Legs, TickClose(l) PROVE TransitInv'
    BY <1>28 DEF TickClose
  <1>29. ASSUME NEW l \in Legs, TickCorrect(l) PROVE TransitInv'
    BY <1>29 DEF TickCorrect
  <1>30. ASSUME NEW l \in Legs, TickLeg(l) PROVE TransitInv'
    BY <1>30 DEF TickLeg, Missing
  <1>31. ASSUME NEW l \in Legs, StopClose(l) PROVE TransitInv'
    BY <1>31 DEF StopClose
  <1>32. ASSUME NEW l \in Legs, StopLeg(l) PROVE TransitInv'
    BY <1>32 DEF StopLeg
  <1>33. ASSUME NEW step \in {"a_open", "w_accept"}, Accept(step) PROVE TransitInv'
    BY <1>33 DEF Accept
  <1>34. ASSUME NEW ok \in BOOLEAN, TickBond(ok) PROVE TransitInv'
    BY <1>34, ZenonT(60) DEF TickBond, Hit
  <1>35. ASSUME NEW ok \in BOOLEAN, TickRules(ok) PROVE TransitInv'
    <2>1. /\ UNCHANGED <<wires, fwd, rp, intruder, ret, nft, cost, todo, have, boot>>
          /\ at = "w_rules" /\ at' = "w_default" /\ pass' = pass /\ hits' \in 0..MaxTransitFaults
      BY <1>35, TransitAssumption DEF TickRules
    <2>2. /\ leg' \in [Legs -> {"absent", "up", "down", "alien"}]
          /\ \A l \in Legs : leg'[l] = "absent" <=> leg[l] = "absent"
      BY <1>35 DEF TickRules
    <2>3. rules' \in BOOLEAN
      BY <1>35, Zenon DEF TickRules
    <2>4. NoRulesNoLeg'
      <3>1. CASE ok
        <4>1. rules'
          BY <1>35, <3>1, Zenon DEF TickRules
        <4> QED BY <4>1
      <3>2. CASE ~ok
        <4>1. \A l \in FabricLegs : l \in Legs
          BY DEF FabricLegs, Legs, VlanLegs
        <4>2. leg' = [l \in Legs |-> IF l \in FabricLegs /\ leg[l] = "up" THEN "down" ELSE leg[l]]
          BY <1>35, <3>2 DEF TickRules
        <4>3. \A l \in FabricLegs : leg'[l] # "up"
          BY <4>1, <4>2
        <4> QED BY <4>3
      <3> QED BY <3>1, <3>2
    <2> QED BY <2>1, <2>2, <2>3, <2>4
  <1>36. ASSUME NEW w \in Wires, WireGone(w) PROVE TransitInv'
    BY <1>36 DEF WireGone, Vanish, Hit
  <1>37. ASSUME NEW w \in Wires, WireBack(w) PROVE TransitInv'
    BY <1>37 DEF WireBack, Hit
  <1>38. ASSUME NEW l \in Legs, NEW shape \in {"absent", "alien"}, Tamper(l, shape) PROVE TransitInv'
    BY <1>38 DEF Tamper, Hit
  <1>39. ASSUME NEW to \in {"none", "open"}, PolicyLost(to) PROVE TransitInv'
    BY <1>39 DEF PolicyLost, Hit
  <1>40. CASE TickBondHalf
    <2>1. Bond \in Legs
      BY DEF Legs
    <2> QED BY <1>40, <2>1 DEF TickBondHalf, Missing
  <1>41. CASE StopGivesUp
    BY <1>41 DEF StopGivesUp
  <1> QED BY <1>1, <1>2, <1>3, <1>4, <1>5, <1>6, <1>7, <1>8, <1>9, <1>10, <1>11, <1>12, <1>13,
             <1>14, <1>15, <1>16, <1>17, <1>18, <1>19, <1>20, <1>21, <1>22, <1>23, <1>24,
             <1>25, <1>26, <1>27, <1>28, <1>29, <1>30, <1>31, <1>32, <1>33, <1>34, <1>35,
             <1>36, <1>37, <1>38, <1>39, <1>40, <1>41
          DEF TransitNext, ApplyNext, TickNext, StopNext, Foreign
\* Nothing forwards at first.
LEMMA TransitInitHolds == TransitInit => TransitInv
  <1> SUFFICES ASSUME TransitInit PROVE TransitInv
    OBVIOUS
  <1>1. hits \in 0..MaxTransitFaults
    BY TransitAssumption DEF TransitInit
  <1>2. /\ intruder \in BOOLEAN /\ rules \in BOOLEAN /\ ret \in BOOLEAN
        /\ hook \in BOOLEAN /\ accept \in BOOLEAN /\ boot \in BOOLEAN
    BY Zenon DEF TransitInit
  <1>3. TransitTypeOK
    BY <1>1, <1>2 DEF TransitInit, TransitTypeOK
  <1> QED BY <1>3 DEF TransitInit, TransitInv, Contained, PassContains, StopFailsClosed

\* Legs, flags, rules and the posture are well typed in every reachable state; a flag or an
\* rp_filter is only ever set on a netdev that exists.
THEOREM TransitTypes == TransitSpec => []TransitTypeOK
  <1>1. TransitInv => TransitTypeOK
    BY DEF TransitInv
  <1> QED BY <1>1, TransitInitHolds, TransitStepKeeps, PTL DEF TransitSpec

\* Whatever set of legs and wires a member has and whatever was done to it before, a pass or
\* a stop that ran undisturbed leaves it contained.
THEOREM MemberContained == TransitSpec => []Contained
  <1>1. TransitInv => Contained
    BY DEF TransitInv
  <1> QED BY <1>1, TransitInitHolds, TransitStepKeeps, PTL DEF TransitSpec
-----------------------------------------------------------------------------
(* The workload rows.  A vid of cfab's is on the record, or about to be,   *)
(* and one of the host's never is; a teardown has undone every row it has  *)
(* visited; and while nothing disturbs a pass, the uplinks it identified   *)
(* are the host's, and the guard file names them before an address goes    *)
(* live.                                                                   *)

VidInv ==
    /\ \A r, q \in wrow : r = q
    /\ \A r \in Rows : vid[r] = "cfab" => r \in record \/ (wat = "record" /\ r \in wrow)
    /\ \A r \in record : vid[r] # "host"
    /\ wat = "record" => \A r \in wrow : vid[r] # "host"
    /\ wat = "s_unrecord" => \A r \in wrow : vid[r] # "cfab"

StopInv ==
    wat \in {"s_row", "s_leg", "s_vid", "s_unrecord"} =>
        /\ gw \subseteq wtodo /\ ~loaded
        /\ mode = "Down" => \A r \in built : r \in wtodo \/ (wat = "s_leg" /\ r \in wrow)
        /\ \A r \in Rows \ wtodo : vid[r] # "cfab" \/ (wat \in {"s_leg", "s_vid"} /\ r \in wrow)
        /\ wpass = "clean" /\ wat \in {"s_leg", "s_vid"} => wrow \subseteq bridge

\* An apply that has identified the uplinks, and a tick that has dealt with the guard.
AppPhase ==
    \/ wat \in {"a_leg", "a_file", "a_load", "a_deferred", "a_gw"}
    \/ wat \in {"vid", "record"} /\ wback = "a_leg"

TickPhase ==
    \/ wat \in {"w_install", "w_leg"}
    \/ wat \in {"vid", "record"} /\ wback \in {"w_install", "w_leg", "w_vid"}
    \/ wat = "addr"

PhaseInv ==
    /\ wat \in {"vid", "record"} => wback \in {"a_leg", "w_install", "w_leg", "w_vid"}
    /\ wat = "addr" => wback \in {"w_install", "w_leg"}
    /\ wpass = "clean" /\ AppPhase =>
          wseen = Identified(bridge) /\ \A r \in wready : r \in bridge /\ Identifiable(r)
    /\ wpass = "clean" /\ wat \in {"w_reload", "w_rename"} => wseen = Identified(Rows)
    /\ wat = "a_load" => guardFile = wseen
    /\ wat \in {"a_deferred", "a_gw"} => wseen = {} \/ guardFile = wseen
    /\ wat = "a_gw" => wtodo \subseteq wready
    /\ wpass = "clean" /\ TickPhase /\ (\A r \in Rows : Identifiable(r)) => guardFile = Identified(Rows)

LegInv == LegTypeOK /\ VidInv /\ StopInv /\ PhaseInv

\* The counter of failures and changes of the host stays in its bounds.
LEMMA LegHitsBounded ==
    ASSUME LegTypeOK, WHit \/ WCalm
    PROVE  whits' \in 0..MaxLegFaults /\ wpass' \in {"clean", "dirty"}
  BY WorkloadLegsAssumption DEF LegTypeOK, WHit, WCalm

\* What a pass identifies depends on the host's bridges and ports only.
LEMMA SameHost ==
    ASSUME UNCHANGED host
    PROVE  /\ Identified(bridge)' = Identified(bridge) /\ Identified(Rows)' = Identified(Rows)
           /\ \A r : Identifiable(r)' <=> Identifiable(r)
  BY DEF host, Identified, Identifiable

\* Every step of an apply, a tick, a stop or the host keeps LegInv.
LEMMA LegStepKeeps ==
    ASSUME LegInv, [LegNext]_legVars
    PROVE  LegInv'
  <1> USE LegHitsBounded DEF LegInv, LegTypeOK, host, kernel, files, loop, found, WCalm, WHit
  <1>1. CASE EnsureVid
    <2>1. LegTypeOK'
      BY <1>1 DEF EnsureVid, AfterVid
    <2>2. VidInv' /\ StopInv'
      BY <1>1 DEF EnsureVid, AfterVid, VidInv, StopInv
    <2>3. PhaseInv'
      BY SameHost, <1>1 DEF EnsureVid, AfterVid, PhaseInv, AppPhase, TickPhase
    <2> QED BY <2>1, <2>2, <2>3
  <1>2. CASE RecordVid
    <2>1. LegTypeOK'
      BY <1>2 DEF RecordVid, AfterVid
    <2>2. VidInv' /\ StopInv'
      BY <1>2 DEF RecordVid, AfterVid, VidInv, StopInv
    <2>3. PhaseInv'
      BY SameHost, <1>2 DEF RecordVid, AfterVid, PhaseInv, AppPhase, TickPhase
    <2> QED BY <2>1, <2>2, <2>3
  <1>3. CASE AddAddress
    <2>1. LegTypeOK'
      BY <1>3 DEF AddAddress
    <2>2. VidInv' /\ StopInv'
      BY <1>3 DEF AddAddress, VidInv, StopInv, PhaseInv
    <2>3. PhaseInv'
      BY SameHost, <1>3 DEF AddAddress, PhaseInv, AppPhase, TickPhase
    <2> QED BY <2>1, <2>2, <2>3
  <1>4. CASE RowFails
    <2>1. LegTypeOK'
      BY <1>4 DEF RowFails, Forgotten
    <2>2. VidInv' /\ StopInv'
      BY <1>4 DEF RowFails, Forgotten, VidInv, StopInv, PhaseInv
    <2>3. PhaseInv'
      BY SameHost, <1>4 DEF RowFails, Forgotten, PhaseInv, AppPhase, TickPhase
    <2> QED BY <2>1, <2>2, <2>3
  <1>5. CASE WApplyRead
    <2>1. LegTypeOK'
      BY <1>5 DEF WApplyRead, RowReady, Identified, Identifiable
    <2>2. VidInv' /\ StopInv'
      BY <1>5 DEF WApplyRead, RowReady, Identified, Identifiable, VidInv, StopInv
    <2>3. PhaseInv'
      BY SameHost, <1>5 DEF WApplyRead, RowReady, Identified, Identifiable, PhaseInv, AppPhase, TickPhase
    <2> QED BY <2>1, <2>2, <2>3
  <1>6. CASE WApplyLegsDone
    <2>1. LegTypeOK'
      BY <1>6 DEF WApplyLegsDone
    <2>2. VidInv' /\ StopInv'
      BY <1>6 DEF WApplyLegsDone, VidInv, StopInv
    <2>3. PhaseInv'
      BY SameHost, <1>6 DEF WApplyLegsDone, PhaseInv, AppPhase, TickPhase
    <2> QED BY <2>1, <2>2, <2>3
  <1>7. CASE WApplyFile
    <2>1. LegTypeOK'
      BY <1>7 DEF WApplyFile
    <2>2. VidInv' /\ StopInv'
      BY <1>7 DEF WApplyFile, VidInv, StopInv
    <2>3. PhaseInv'
      BY SameHost, <1>7 DEF WApplyFile, PhaseInv, AppPhase, TickPhase
    <2> QED BY <2>1, <2>2, <2>3
  <1>8. CASE WApplyLoad
    <2>1. LegTypeOK'
      BY <1>8 DEF WApplyLoad
    <2>2. VidInv' /\ StopInv'
      BY <1>8 DEF WApplyLoad, VidInv, StopInv
    <2>3. PhaseInv'
      BY SameHost, <1>8 DEF WApplyLoad, PhaseInv, AppPhase, TickPhase
    <2> QED BY <2>1, <2>2, <2>3
  <1>9. CASE WApplyDeferred
    <2>1. LegTypeOK'
      BY <1>9 DEF WApplyDeferred
    <2>2. VidInv' /\ StopInv'
      BY <1>9 DEF WApplyDeferred, VidInv, StopInv
    <2>3. PhaseInv'
      BY SameHost, <1>9 DEF WApplyDeferred, PhaseInv, AppPhase, TickPhase
    <2> QED BY <2>1, <2>2, <2>3
  <1>10. CASE WApplyDone
    <2>1. LegTypeOK'
      BY <1>10 DEF WApplyDone
    <2>2. VidInv' /\ StopInv'
      BY <1>10 DEF WApplyDone, VidInv, StopInv
    <2>3. PhaseInv'
      BY SameHost, <1>10 DEF WApplyDone, PhaseInv, AppPhase, TickPhase
    <2> QED BY <2>1, <2>2, <2>3
  <1>11. CASE WApplyBreaks
    <2>1. LegTypeOK'
      BY <1>11 DEF WApplyBreaks
    <2>2. VidInv' /\ StopInv'
      BY <1>11 DEF WApplyBreaks, VidInv, StopInv
    <2>3. PhaseInv'
      BY SameHost, <1>11 DEF WApplyBreaks, PhaseInv, AppPhase, TickPhase
    <2> QED BY <2>1, <2>2, <2>3
  <1>12. CASE WApplyFailed
    <2>1. LegTypeOK'
      BY <1>12 DEF WApplyFailed
    <2>2. VidInv' /\ StopInv'
      BY <1>12 DEF WApplyFailed, VidInv, StopInv
    <2>3. PhaseInv'
      BY SameHost, <1>12 DEF WApplyFailed, PhaseInv, AppPhase, TickPhase
    <2> QED BY <2>1, <2>2, <2>3
  <1>13. CASE WTickIdentify
    <2>1. LegTypeOK'
      BY <1>13 DEF WTickIdentify, RowReady, Identified, Identifiable
    <2>2. VidInv' /\ StopInv'
      BY <1>13 DEF WTickIdentify, RowReady, Identified, Identifiable, VidInv, StopInv
    <2>3. PhaseInv'
      BY SameHost, <1>13 DEF WTickIdentify, RowReady, Identified, Identifiable, PhaseInv, AppPhase, TickPhase
    <2> QED BY <2>1, <2>2, <2>3
  <1>14. CASE WTickRename
    <2>1. LegTypeOK'
      BY <1>14 DEF WTickRename
    <2>2. VidInv' /\ StopInv'
      BY <1>14 DEF WTickRename, VidInv, StopInv
    <2>3. PhaseInv'
      BY SameHost, <1>14 DEF WTickRename, PhaseInv, AppPhase, TickPhase
    <2> QED BY <2>1, <2>2, <2>3
  <1>15. CASE WTickDone
    <2>1. LegTypeOK'
      BY <1>15 DEF WTickDone
    <2>2. VidInv' /\ StopInv'
      BY <1>15 DEF WTickDone, VidInv, StopInv
    <2>3. PhaseInv'
      BY SameHost, <1>15 DEF WTickDone, PhaseInv, AppPhase, TickPhase
    <2> QED BY <2>1, <2>2, <2>3
  <1>16. CASE WStopUnrecord
    <2>1. LegTypeOK'
      BY <1>16 DEF WStopUnrecord
    <2>2. VidInv' /\ StopInv'
      BY <1>16 DEF WStopUnrecord, VidInv, StopInv
    <2>3. PhaseInv'
      BY SameHost, <1>16 DEF WStopUnrecord, PhaseInv, AppPhase, TickPhase
    <2> QED BY <2>1, <2>2, <2>3
  <1>17. CASE WStopDone
    <2>1. LegTypeOK'
      BY <1>17 DEF WStopDone
    <2>2. VidInv' /\ StopInv'
      BY <1>17 DEF WStopDone, VidInv, StopInv
    <2>3. PhaseInv'
      BY SameHost, <1>17 DEF WStopDone, PhaseInv, AppPhase, TickPhase
    <2> QED BY <2>1, <2>2, <2>3
  <1>18. CASE WStopFails
    <2>1. LegTypeOK'
      BY <1>18 DEF WStopFails
    <2>2. VidInv' /\ StopInv'
      BY <1>18 DEF WStopFails, VidInv, StopInv
    <2>3. PhaseInv'
      BY SameHost, <1>18 DEF WStopFails, PhaseInv, AppPhase, TickPhase
    <2> QED BY <2>1, <2>2, <2>3
  <1>19. CASE WCrash
    <2>1. LegTypeOK'
      BY <1>19 DEF WCrash, Forgotten
    <2>2. VidInv' /\ StopInv'
      BY <1>19 DEF WCrash, Forgotten, VidInv, StopInv
    <2>3. PhaseInv'
      BY SameHost, <1>19 DEF WCrash, Forgotten, PhaseInv, AppPhase, TickPhase
    <2> QED BY <2>1, <2>2, <2>3
  <1>20. CASE RulesetFlushed
    <2>1. LegTypeOK'
      BY <1>20 DEF RulesetFlushed
    <2>2. VidInv' /\ StopInv'
      BY <1>20 DEF RulesetFlushed, VidInv, StopInv
    <2>3. PhaseInv'
      BY SameHost, <1>20 DEF RulesetFlushed, PhaseInv, AppPhase, TickPhase
    <2> QED BY <2>1, <2>2, <2>3
  <1>21. ASSUME NEW r \in Rows, BuildLeg(r) PROVE LegInv'
    <2>1. LegTypeOK'
      BY <1>21 DEF BuildLeg
    <2>2. VidInv' /\ StopInv'
      BY <1>21 DEF BuildLeg, VidInv, StopInv
    <2>3. PhaseInv'
      BY SameHost, <1>21 DEF BuildLeg, PhaseInv, AppPhase, TickPhase
    <2> QED BY <2>1, <2>2, <2>3
  <1>22. ASSUME NEW r \in Rows, CheckLeg(r) PROVE LegInv'
    <2>1. LegTypeOK'
      BY <1>22 DEF CheckLeg
    <2>2. VidInv' /\ StopInv'
      BY <1>22 DEF CheckLeg, VidInv, StopInv
    <2>3. PhaseInv'
      BY SameHost, <1>22 DEF CheckLeg, PhaseInv, AppPhase, TickPhase
    <2> QED BY <2>1, <2>2, <2>3
  <1>23. ASSUME NEW r \in Rows, BuildFails(r) PROVE LegInv'
    <2>1. LegTypeOK'
      BY <1>23 DEF BuildFails
    <2>2. VidInv' /\ StopInv'
      BY <1>23 DEF BuildFails, VidInv, StopInv
    <2>3. PhaseInv'
      BY SameHost, <1>23 DEF BuildFails, PhaseInv, AppPhase, TickPhase
    <2> QED BY <2>1, <2>2, <2>3
  <1>24. ASSUME NEW r \in Rows, WApplyGw(r) PROVE LegInv'
    <2>1. LegTypeOK'
      BY <1>24 DEF WApplyGw
    <2>2. VidInv' /\ StopInv'
      BY <1>24 DEF WApplyGw, VidInv, StopInv
    <2>3. PhaseInv'
      BY SameHost, <1>24 DEF WApplyGw, PhaseInv, AppPhase, TickPhase
    <2> QED BY <2>1, <2>2, <2>3
  <1>25. ASSUME NEW r \in Rows, WStopRow(r) PROVE LegInv'
    <2>1. LegTypeOK'
      BY <1>25 DEF WStopRow
    <2>2. VidInv' /\ StopInv'
      BY <1>25 DEF WStopRow, VidInv, StopInv
    <2>3. PhaseInv'
      BY SameHost, <1>25 DEF WStopRow, PhaseInv, AppPhase, TickPhase
    <2> QED BY <2>1, <2>2, <2>3
  <1>26. ASSUME NEW r \in Rows, BridgeGone(r) PROVE LegInv'
    <2>1. LegTypeOK'
      BY <1>26 DEF BridgeGone
    <2>2. VidInv' /\ StopInv'
      BY <1>26 DEF BridgeGone, VidInv, StopInv
    <2>3. PhaseInv'
      BY SameHost, <1>26 DEF BridgeGone, PhaseInv, AppPhase, TickPhase
    <2> QED BY <2>1, <2>2, <2>3
  <1>27. ASSUME NEW r \in Rows, FitFlips(r) PROVE LegInv'
    <2>1. LegTypeOK'
      BY <1>27 DEF FitFlips
    <2>2. VidInv' /\ StopInv'
      BY <1>27 DEF FitFlips, VidInv, StopInv
    <2>3. PhaseInv'
      BY SameHost, <1>27 DEF FitFlips, PhaseInv, AppPhase, TickPhase
    <2> QED BY <2>1, <2>2, <2>3
  <1>28. ASSUME NEW r \in Rows, LegDeleted(r) PROVE LegInv'
    <2>1. LegTypeOK'
      BY <1>28 DEF LegDeleted
    <2>2. VidInv' /\ StopInv'
      BY <1>28 DEF LegDeleted, VidInv, StopInv
    <2>3. PhaseInv'
      BY SameHost, <1>28 DEF LegDeleted, PhaseInv, AppPhase, TickPhase
    <2> QED BY <2>1, <2>2, <2>3
  <1>29. ASSUME NEW r \in Rows, VidDropped(r) PROVE LegInv'
    <2>1. LegTypeOK'
      BY <1>29 DEF VidDropped
    <2>2. VidInv' /\ StopInv'
      BY <1>29 DEF VidDropped, VidInv, StopInv
    <2>3. PhaseInv'
      BY SameHost, <1>29 DEF VidDropped, PhaseInv, AppPhase, TickPhase
    <2> QED BY <2>1, <2>2, <2>3
  <1>30. ASSUME NEW ok \in BOOLEAN, WTickTable(ok) PROVE LegInv'
    <2>1. LegTypeOK'
      BY <1>30 DEF WTickTable
    <2>2. VidInv' /\ StopInv'
      BY <1>30 DEF WTickTable, VidInv, StopInv
    <2>3. PhaseInv'
      BY SameHost, <1>30 DEF WTickTable, PhaseInv, AppPhase, TickPhase
    <2> QED BY <2>1, <2>2, <2>3
  <1>31. ASSUME NEW ok \in BOOLEAN, WTickReload(ok) PROVE LegInv'
    <2>1. LegTypeOK'
      BY <1>31 DEF WTickReload
    <2>2. VidInv' /\ StopInv'
      BY <1>31 DEF WTickReload, VidInv, StopInv
    <2>3. PhaseInv'
      BY SameHost, <1>31 DEF WTickReload, PhaseInv, AppPhase, TickPhase
    <2> QED BY <2>1, <2>2, <2>3
  <1>32. ASSUME NEW ok \in BOOLEAN, WTickDeferred(ok) PROVE LegInv'
    <2>1. LegTypeOK'
      BY <1>32 DEF WTickDeferred
    <2>2. VidInv' /\ StopInv'
      BY <1>32 DEF WTickDeferred, VidInv, StopInv
    <2>3. PhaseInv'
      BY SameHost, <1>32 DEF WTickDeferred, PhaseInv, AppPhase, TickPhase
    <2> QED BY <2>1, <2>2, <2>3
  <1>33. ASSUME NEW m \in {"Stop", "Down"}, WStopStart(m) PROVE LegInv'
    <2>1. LegTypeOK'
      <3>1. whits' \in 0..MaxLegFaults
        BY <1>33, WorkloadLegsAssumption DEF WStopStart
      <3>2. loaded' \in BOOLEAN /\ guard' = {}
        BY <1>33, Zenon DEF WStopStart
      <3> QED BY <1>33, <3>1, <3>2 DEF WStopStart
    <2>2. VidInv' /\ StopInv'
      BY <1>33 DEF WStopStart, VidInv, StopInv
    <2>3. PhaseInv'
      BY SameHost, <1>33 DEF WStopStart, PhaseInv, AppPhase, TickPhase
    <2> QED BY <2>1, <2>2, <2>3
  <1>34. ASSUME NEW r \in Rows, NEW p \in Ports, BridgeComes(r, p) PROVE LegInv'
    <2>1. LegTypeOK'
      BY <1>34 DEF BridgeComes, Identified
    <2>2. VidInv' /\ StopInv'
      BY <1>34 DEF BridgeComes, Identified, VidInv, StopInv
    <2>3. PhaseInv'
      BY SameHost, <1>34 DEF BridgeComes, Identified, PhaseInv, AppPhase, TickPhase
    <2> QED BY <2>1, <2>2, <2>3
  <1>35. ASSUME NEW r \in Rows, NEW p \in Ports, PortMoves(r, p) PROVE LegInv'
    <2>1. LegTypeOK'
      BY <1>35 DEF PortMoves, Identified
    <2>2. VidInv' /\ StopInv'
      BY <1>35 DEF PortMoves, Identified, VidInv, StopInv
    <2>3. PhaseInv'
      BY SameHost, <1>35 DEF PortMoves, Identified, PhaseInv, AppPhase, TickPhase
    <2> QED BY <2>1, <2>2, <2>3
  <1>37. CASE WStopLeg
    <2>1. LegTypeOK'
      BY <1>37 DEF WStopLeg
    <2>2. VidInv' /\ StopInv'
      BY <1>37 DEF WStopLeg, VidInv, StopInv
    <2>3. PhaseInv'
      BY SameHost, <1>37 DEF WStopLeg, PhaseInv, AppPhase, TickPhase
    <2> QED BY <2>1, <2>2, <2>3
  <1>38. CASE WStopVid
    <2>1. LegTypeOK'
      BY <1>38 DEF WStopVid
    <2>2. VidInv' /\ StopInv'
      BY <1>38 DEF WStopVid, VidInv, StopInv
    <2>3. PhaseInv'
      BY SameHost, <1>38 DEF WStopVid, PhaseInv, AppPhase, TickPhase
    <2> QED BY <2>1, <2>2, <2>3
  <1>36. CASE UNCHANGED legVars
    BY <1>36 DEF legVars, VidInv, StopInv, PhaseInv, AppPhase, TickPhase, Identified, Identifiable
  <1> QED BY <1>1, <1>2, <1>3, <1>4, <1>5, <1>6, <1>7, <1>8, <1>9, <1>10, <1>11, <1>12, <1>13,
             <1>14, <1>15, <1>16, <1>17, <1>18, <1>19, <1>20, <1>21, <1>22, <1>23, <1>24,
             <1>25, <1>26, <1>27, <1>28, <1>29, <1>30, <1>31, <1>32, <1>33, <1>34, <1>35,
             <1>36, <1>37, <1>38
          DEF LegNext, RowNext, WApplyNext, WTickNext, WStopNext, HostChanges

\* No leg, no guard.
LEMMA LegInitHolds == LegInit => LegInv
  <1> SUFFICES ASSUME LegInit PROVE LegInv
    OBVIOUS
  <1>1. (CHOOSE p \in Ports : TRUE) \in Ports
    BY WorkloadLegsAssumption
  <1>2. ports \in [Rows -> SUBSET Ports] /\ \A r \in Rows \ bridge : ports[r] = {}
    BY <1>1 DEF LegInit
  <1>3. whits \in 0..MaxLegFaults
    BY WorkloadLegsAssumption DEF LegInit
  <1>4. loaded \in BOOLEAN /\ filed \in BOOLEAN /\ guard = {}
    BY Zenon DEF LegInit
  <1>5. LegTypeOK
    BY <1>2, <1>3, <1>4 DEF LegInit, LegTypeOK
  <1> QED BY <1>5 DEF LegInit, LegInv, VidInv, StopInv, PhaseInv, AppPhase, TickPhase

\* Bridges, legs, vids, guard and files are well typed in every reachable state: a leg is on
\* a bridge that exists, a gateway address on a leg.
THEOREM LegTypes == LegSpec => []LegTypeOK
  <1>1. LegInv => LegTypeOK
    BY DEF LegInv
  <1> QED BY <1>1, LegInitHolds, LegStepKeeps, PTL DEF LegSpec

\* Only two actions put an address on a leg.
LEMMA WhoAddresses ==
    ASSUME LegNext, ~(gw' \subseteq gw)
    PROVE  AddAddress \/ \E r \in Rows : WApplyGw(r)
  BY DEF LegNext, RowNext, WApplyNext, WTickNext, WStopNext, HostChanges, host, kernel,
     EnsureVid, RecordVid, RowFails, BuildLeg, CheckLeg, BuildFails, WApplyRead, WApplyLegsDone,
     WApplyFile, WApplyLoad, WApplyDeferred, WApplyDone, WApplyBreaks, WApplyFailed, WTickIdentify,
     WTickRename, WTickDone, WTickTable, WTickReload, WTickDeferred, WStopUnrecord, WStopDone,
     WStopFails, WStopStart, WStopRow, WStopLeg, WStopVid, WCrash, RulesetFlushed, BridgeGone, FitFlips, LegDeleted,
     VidDropped, BridgeComes, PortMoves

\* And only these a vid of the host's, or the end of a teardown.
LEMMA WhoTakesVids ==
    ASSUME LegTypeOK, LegNext, whits' = whits, vid' # vid
    PROVE  EnsureVid \/ RowFails \/ WStopVid
  BY DEF LegNext, RowNext, WApplyNext, WTickNext, WStopNext, HostChanges, host, kernel,
     RecordVid, AddAddress, BuildLeg, CheckLeg, BuildFails, WApplyRead, WApplyLegsDone,
     WApplyFile, WApplyLoad, WApplyDeferred, WApplyDone, WApplyBreaks, WApplyFailed, WApplyGw,
     WTickIdentify, WTickRename, WTickDone, WTickTable, WTickReload, WTickDeferred, WStopUnrecord,
     WStopDone, WStopFails, WStopStart, WStopRow, WStopLeg, WCrash, RulesetFlushed, BridgeGone, FitFlips, LegDeleted,
     VidDropped, BridgeComes, PortMoves, WHit, LegTypeOK

\* A gateway address goes up behind the guard of every port of its row.
LEMMA StepGuards ==
    ASSUME LegInv, LegNext, wpass = "clean", wat = "a_gw" \/ \A r \in Rows : Identifiable(r),
           NEW r \in gw' \ gw, NEW p \in Ports, p \in ports[r]
    PROVE  <<r, p>> \in guardFile
  <1>1. CASE AddAddress
    <2>1. r \in Rows /\ wat = "addr" /\ \A q \in Rows : Identifiable(q)
      BY <1>1 DEF AddAddress, LegInv, LegTypeOK
    <2>2. guardFile = Identified(Rows)
      BY <2>1 DEF LegInv, PhaseInv, TickPhase
    <2> QED BY <2>1, <2>2 DEF Identified
  <1>2. ASSUME NEW q \in Rows, WApplyGw(q) PROVE <<r, p>> \in guardFile
    <2>1. wat = "a_gw" /\ r = q /\ r \in wready
      BY <1>2 DEF WApplyGw, LegInv, PhaseInv
    <2>2. wseen = Identified(bridge) /\ r \in bridge
      BY <2>1 DEF LegInv, PhaseInv, AppPhase
    <2>3. <<r, p>> \in wseen
      BY <2>2 DEF Identified
    <2> QED BY <2>1, <2>3 DEF LegInv, PhaseInv
  <1> QED BY <1>1, <1>2, WhoAddresses

\* An undisturbed teardown leaves nothing of cfab's.
LEMMA StopUndoes ==
    ASSUME LegInv, LegNext, wat = "s_row", wat' = "stopped", wpass' = "clean"
    PROVE  /\ gw' = {} /\ ~loaded'
           /\ mode = "Down" => built' = {}
           /\ \A r \in Rows : vid'[r] # "cfab"
  <1>1. WStopDone
    BY DEF LegNext, RowNext, WApplyNext, WTickNext, WStopNext, HostChanges, WHit,
       EnsureVid, RecordVid, AddAddress, RowFails, BuildLeg, CheckLeg, BuildFails, WApplyRead,
       WApplyLegsDone, WApplyFile, WApplyLoad, WApplyDeferred, WApplyDone, WApplyBreaks, WApplyFailed,
       WApplyGw, WTickIdentify, WTickRename, WTickDone, WTickTable, WTickReload, WTickDeferred,
       WStopUnrecord, WStopFails, WStopStart, WStopRow, WStopLeg, WStopVid, WCrash, RulesetFlushed, BridgeGone, FitFlips,
       LegDeleted, VidDropped, BridgeComes, PortMoves
  <1>2. wtodo = {} /\ UNCHANGED kernel
    BY <1>1 DEF WStopDone
  <1>3. gw = {} /\ ~loaded /\ (mode = "Down" => built = {}) /\ \A r \in Rows : vid[r] # "cfab"
    BY <1>2 DEF LegInv, StopInv
  <1> QED BY <1>2, <1>3 DEF kernel

\* A teardown gives up over a row without a leg or a disturbance, and keeps the record of the
\* vids that are still there.
LEMMA StopLeaves ==
    ASSUME LegInv, LegNext, wat # "left", wat' = "left"
    PROVE  /\ wpass' = "clean" => wat = "s_row" /\ \E r \in wtodo : r \notin built
           /\ \A r \in Rows : vid'[r] = "cfab" => r \in record'
  <1>1. WStopFails
    BY DEF LegNext, RowNext, WApplyNext, WTickNext, WStopNext, HostChanges, LegInv, PhaseInv,
       EnsureVid, RecordVid, AddAddress, AfterVid, RowFails, BuildLeg, CheckLeg, BuildFails, WApplyRead,
       WApplyLegsDone, WApplyFile, WApplyLoad, WApplyDeferred, WApplyDone, WApplyBreaks, WApplyFailed,
       WApplyGw, WTickIdentify, WTickRename, WTickDone, WTickTable, WTickReload, WTickDeferred,
       WStopUnrecord, WStopDone, WStopStart, WStopRow, WStopLeg, WStopVid, WCrash, RulesetFlushed,
       BridgeGone, FitFlips, LegDeleted, VidDropped, BridgeComes, PortMoves
  <1>2. \A r \in Rows : vid'[r] = "cfab" => r \in record'
    BY <1>1 DEF WStopFails, kernel, files, LegInv, VidInv
  <1>3. ASSUME wpass' = "clean" PROVE wat = "s_row" /\ \E r \in wtodo : r \notin built
    <2>1. RowStuck /\ wpass = "clean"
      BY <1>1, <1>3 DEF WStopFails, WHit, WCalm
    <2>2. wat # "s_vid"
      BY <2>1 DEF RowStuck, LegInv, StopInv
    <2> QED BY <2>1, <2>2 DEF RowStuck
  <1> QED BY <1>2, <1>3

\* A vid the host put on a port is not taken from it.
LEMMA HostVidStays ==
    ASSUME LegInv, LegNext, whits' = whits, NEW r \in Rows, vid[r] = "host"
    PROVE  vid'[r] = "host"
  <1>1. CASE EnsureVid
    BY <1>1 DEF EnsureVid, LegInv, LegTypeOK, VidInv
  <1>2. CASE RowFails
    BY <1>2 DEF RowFails, Forgotten, WHit, LegInv, LegTypeOK, VidInv
  <1>3. CASE WStopVid
    BY <1>3 DEF WStopVid, LegInv, LegTypeOK, VidInv
  <1> QED BY <1>1, <1>2, <1>3, WhoTakesVids DEF LegInv

\* For any rows and ports and any number of failures, crashes and changes of the host, no
\* address goes live ahead of its guard, a teardown that ran undisturbed to its end leaves
\* nothing of cfab's, one that gives up does so over a row without a leg and still holds the
\* record of the vids it leaves, and no step of cfab's takes a vid the host brought.
THEOREM RowsDisciplined == LegSpec => RowDiscipline
  <1>1. LegInv /\ [LegNext]_legVars =>
        [wpass = "clean" /\ wpass' = "clean" /\ (wat = "a_gw" \/ \A r \in Rows : Identifiable(r)) =>
           \A r \in gw' \ gw, p \in Ports : p \in ports[r] => <<r, p>> \in guardFile]_legVars
    BY StepGuards
  <1>2. LegInv /\ [LegNext]_legVars =>
        [/\ wat = "s_row" /\ wat' = "stopped" /\ wpass' = "clean" =>
               /\ gw' = {} /\ ~loaded'
               /\ mode = "Down" => built' = {}
               /\ \A r \in Rows : vid'[r] # "cfab"
         /\ wat # "left" /\ wat' = "left" =>
               /\ wpass' = "clean" => wat = "s_row" /\ \E r \in wtodo : r \notin built
               /\ \A r \in Rows : vid'[r] = "cfab" => r \in record'
         /\ \A r \in Rows : vid[r] = "host" /\ whits' = whits => vid'[r] = "host"]_legVars
    BY StopUndoes, StopLeaves, HostVidStays
  <1> QED BY <1>1, <1>2, LegInitHolds, LegStepKeeps, PTL
          DEF LegSpec, RowDiscipline, GuardFirst, VidGoesBack

-----------------------------------------------------------------------------
(* Lists.  The library has no induction that these provers can use but the *)
(* least element of a set of numbers: a claim about every n up to N is the *)
(* set of the n it holds of.                                               *)

\* A set of numbers has a least one.
LEMMA LeastOf ==
    ASSUME NEW T \in SUBSET Nat, T # {}
    PROVE  \E n \in T : \A k \in T : n <= k
<1> DEFINE less == OpToRel(<, Nat)
<1>1. IsWellFoundedOn(less, Nat)
  BY NatLessThanWellFounded
<1>2. \A i, j \in Nat : <<i, j>> \notin less => j <= i
  BY DEF OpToRel
<1> HIDE DEF less
<1>3. PICK n \in T : \A k \in T : <<k, n>> \notin less
  BY <1>1, WFMin
<1> QED BY <1>2, <1>3

\* Concatenation joins what two sequences hold.
LEMMA JoinedRange ==
    ASSUME NEW S, NEW s \in Seq(S), NEW t \in Seq(S)
    PROVE  s \o t \in Seq(S) /\ Range(s \o t) = Range(s) \cup Range(t)
<1>1. s \o t \in Seq(S) /\ Len(s \o t) = Len(s) + Len(t)
  OBVIOUS
<1>2. ASSUME NEW x \in Range(s \o t) PROVE x \in Range(s) \cup Range(t)
  <2>1. PICK i \in 1..(Len(s) + Len(t)) : x = (s \o t)[i]
    BY <1>1, <1>2 DEF Range
  <2>2. CASE i <= Len(s)
    BY <2>1, <2>2 DEF Range
  <2>3. CASE i > Len(s)
    <3>1. i - Len(s) \in 1..Len(t) /\ x = t[i - Len(s)]
      BY <2>1, <2>3
    <3> QED BY <3>1 DEF Range
  <2> QED BY <2>1, <2>2, <2>3
<1>3. ASSUME NEW x \in Range(s) PROVE x \in Range(s \o t)
  <2>1. PICK i \in 1..Len(s) : x = s[i]
    BY <1>3 DEF Range
  <2>2. i \in 1..Len(s \o t) /\ x = (s \o t)[i]
    BY <1>1, <2>1
  <2> QED BY <1>1, <2>2 DEF Range
<1>4. ASSUME NEW x \in Range(t) PROVE x \in Range(s \o t)
  <2>1. PICK i \in 1..Len(t) : x = t[i]
    BY <1>4 DEF Range
  <2>2. Len(s) + i \in 1..Len(s \o t) /\ x = (s \o t)[Len(s) + i]
    BY <1>1, <2>1
  <2> QED BY <1>1, <2>2 DEF Range
<1> QED BY <1>1, <1>2, <1>3, <1>4

\* Induction up to N, over a set.
LEMMA Inductive ==
    ASSUME NEW N \in Nat, NEW G, N > 0 => 1 \in G, \A n \in 1..(N - 1) : n \in G => n + 1 \in G
    PROVE  1..N \subseteq G
<1> DEFINE T == (1..N) \ G
<1> SUFFICES ASSUME T # {} PROVE FALSE
  OBVIOUS
<1>1. PICK n \in T : \A k \in T : n <= k
  <2>1. T \in SUBSET Nat
    OBVIOUS
  <2> HIDE DEF T
  <2> QED BY <2>1, LeastOf
<1>2. n # 1 /\ n - 1 \in 1..(N - 1) /\ n - 1 \notin T
  BY <1>1
<1>3. n - 1 \in G
  BY <1>2
<1>4. (n - 1) + 1 \in G
  BY <1>2, <1>3
<1> QED BY <1>1, <1>4

\* What a list of lists is flattened to holds what the lists hold.
LEMMA FlattenedRange ==
    ASSUME NEW S, NEW ss \in Seq(Seq(S))
    PROVE  /\ FlattenSeq(ss) \in Seq(S)
           /\ \A x : x \in Range(FlattenSeq(ss)) <=> \E i \in 1..Len(ss) : x \in Range(ss[i])
<1>1. CASE Len(ss) = 0
  <2>1. ss = <<>> /\ FlattenSeq(ss) = <<>> /\ 1..Len(ss) = {}
    BY <1>1 DEF FlattenSeq
  <2>2. Range(<<>>) = {}
    BY DEF Range
  <2>3. <<>> \in Seq(S)
    OBVIOUS
  <2>4. \A x : x \in Range(FlattenSeq(ss)) <=> \E i \in 1..Len(ss) : x \in Range(ss[i])
    BY <2>1, <2>2, Zenon
  <2> QED BY <2>1, <2>3, <2>4, Zenon
<1>2. CASE Len(ss) # 0
  <2> DEFINE N == Len(ss)
             Joins(g, n) == g = [i \in 1..n |-> IF i = 1 THEN ss[i] ELSE g[i - 1] \o ss[i]]
             J == {n \in 1..N : \E g : Joins(g, n)}
  <2>0. N \in Nat \ {0} /\ \A i \in 1..N : ss[i] \in Seq(S)
    BY <1>2
  <2>1. N \in J
    <3>1. 1 \in J
      <4>1. Joins([i \in 1..1 |-> ss[i]], 1)
        OBVIOUS
      <4>2. 1 \in 1..N
        BY <2>0
      <4> HIDE DEF Joins
      <4> QED BY <4>1, <4>2
    <3>2. ASSUME NEW n \in 1..(N - 1), n \in J PROVE n + 1 \in J
      <4>1. PICK g : Joins(g, n)
        BY <3>2
      <4> DEFINE h == [i \in 1..(n + 1) |-> IF i = n + 1 THEN g[n] \o ss[n + 1] ELSE g[i]]
                 H(i) == IF i = 1 THEN ss[i] ELSE h[i - 1] \o ss[i]
      <4>2. ASSUME NEW i \in 1..(n + 1) PROVE h[i] = H(i)
        <5>1. CASE i = n + 1
          <6>1. i # 1 /\ i - 1 = n /\ n \in 1..(n + 1) /\ n # n + 1
            BY <5>1
          <6>2. h[i] = g[n] \o ss[n + 1] /\ h[n] = g[n]
            BY <5>1, <6>1
          <6> QED BY <5>1, <6>1, <6>2
        <5>2. CASE i # n + 1
          <6>1. i \in 1..n
            BY <5>2
          <6>2. g[i] = IF i = 1 THEN ss[i] ELSE g[i - 1] \o ss[i]
            BY <4>1, <6>1
          <6>3. h[i] = g[i] /\ (i # 1 => h[i - 1] = g[i - 1])
            BY <5>2, <6>1
          <6> QED BY <6>2, <6>3
        <5> QED BY <5>1, <5>2
      <4>3. h = [i \in 1..(n + 1) |-> H(i)]
        <5>1. h = [i \in 1..(n + 1) |-> h[i]]
          OBVIOUS
        <5> HIDE DEF h, H
        <5> QED BY <4>2, <5>1
      <4>4. Joins(h, n + 1)
        BY <4>3
      <4>5. n + 1 \in 1..N
        BY <2>0
      <4> HIDE DEF h, Joins
      <4> QED BY <4>4, <4>5
    <3> HIDE DEF J
    <3>3. 1..N \subseteq J
      BY <2>0, <3>1, <3>2, Inductive
    <3>4. N \in 1..N
      BY <2>0
    <3> QED BY <3>3, <3>4, SMTT(30)
  <2> DEFINE f == CHOOSE g : Joins(g, N)
  <2>2. FlattenSeq(ss) = f[N]
    BY <1>2 DEF FlattenSeq
  <2>3. Joins(f, N)
    <3>1. \E g : Joins(g, N)
      BY <2>1
    <3> HIDE DEF Joins
    <3> QED BY <3>1
  <2>4. /\ f[1] = ss[1]
        /\ \A n \in 1..(N - 1) : f[n + 1] = f[n] \o ss[n + 1]
    <3> HIDE DEF f
    <3>1. \A i \in 1..N : f[i] = IF i = 1 THEN ss[i] ELSE f[i - 1] \o ss[i]
      BY <2>3
    <3>2. \A n \in 1..(N - 1) : n + 1 \in 1..N /\ n + 1 # 1 /\ (n + 1) - 1 = n
      BY <2>0
    <3>3. ASSUME NEW n \in 1..(N - 1) PROVE f[n + 1] = f[n] \o ss[n + 1]
      <4>1. f[n + 1] = IF n + 1 = 1 THEN ss[n + 1] ELSE f[(n + 1) - 1] \o ss[n + 1]
        BY <3>1, <3>2
      <4> QED BY <3>2, <4>1
    <3>4. f[1] = ss[1]
      BY <2>0, <3>1
    <3> QED BY <3>3, <3>4
  <2> HIDE DEF f
  <2> DEFINE G == {n \in 1..N : f[n] \in Seq(S) /\ \A x : x \in Range(f[n]) <=> \E i \in 1..n : x \in Range(ss[i])}
  <2>5. 1 \in G
    <3>1. 1..1 = {1}
      OBVIOUS
    <3>2. 1 \in 1..N /\ f[1] = ss[1] /\ ss[1] \in Seq(S)
      BY <2>0, <2>4
    <3>3. \A x : x \in Range(f[1]) <=> \E i \in 1..1 : x \in Range(ss[i])
      BY <3>1, <3>2
    <3> QED BY <3>2, <3>3
  <2>6. ASSUME NEW n \in 1..(N - 1), n \in G PROVE n + 1 \in G
    <3>0. n + 1 \in 1..N
      BY <2>0
    <3>1. f[n + 1] = f[n] \o ss[n + 1] /\ ss[n + 1] \in Seq(S)
      BY <2>0, <2>4, <3>0
    <3>2. f[n] \in Seq(S) /\ \A x : x \in Range(f[n]) <=> \E i \in 1..n : x \in Range(ss[i])
      BY <2>6
    <3>3. f[n + 1] \in Seq(S) /\ Range(f[n + 1]) = Range(f[n]) \cup Range(ss[n + 1])
      BY <3>1, <3>2, JoinedRange
    <3>4. \A i : i \in 1..(n + 1) <=> i \in 1..n \/ i = n + 1
      OBVIOUS
    <3>5. \A x : x \in Range(f[n + 1]) <=> \E i \in 1..(n + 1) : x \in Range(ss[i])
      BY <3>2, <3>3, <3>4, Zenon
    <3> QED BY <3>0, <3>3, <3>5
  <2>7. N \in G
    <3> HIDE DEF G
    <3>1. 1..N \subseteq G
      BY <2>0, <2>5, <2>6, Inductive
    <3>2. N \in 1..N
      BY <2>0
    <3> QED BY <3>1, <3>2, SMTT(30)
  <2> QED BY <2>0, <2>2, <2>7
<1> QED BY <1>1, <1>2

\* A function on 1..n is a list.
LEMMA ListOf ==
    ASSUME NEW S, NEW n \in Nat, NEW g \in [1..n -> S]
    PROVE  g \in Seq(S) /\ Len(g) = n
  OBVIOUS

-----------------------------------------------------------------------------
(* The routing rules, as sets.                                             *)

ZoneSet(z) ==
    {FabricRule(2000, z, z, "any", "main-specific"),
     FabricRule(2001, z, "any", "any", z), FabricRule(2002, z, "any", "any", "unreachable")}
PairSet(z) == {FabricRule(2000, z, w, "any", "main") : w \in {x \in PrefixLoads : <<z, x>> \in AllowedPairs}}
ReturnSet == UNION {ZoneSet(z) \cup PairSet(z) : z \in BlockZones}
GuardOn(z) == {FabricRule(1000, "any", z, "lo", "main"), FabricRule(1001, "any", z, "any", "unreachable")}
GuardSet == UNION {GuardOn(z) : z \in BlockZones}
LoadOn(w) == {FabricRule(2102, w, "any", "any", "main-specific"), FabricRule(2103, w, "any", "any", "250")}
LoadSet == UNION {LoadOn(w) : w \in CarriedLoads}
LookupSet ==
    {FabricRule(2100, "any", "any", "lo", "main-specific"), FabricRule(2101, "any", "any", "lo", "250")}
DefaultSet == {FloorRule} \cup LookupSet \cup LoadSet
RuleSet == ReturnSet \cup GuardSet \cup DefaultSet

\* The rules of a member of this kind.
DefaultOf(kind) == IF kind = "host" /\ IngressZones # {} THEN DefaultSet ELSE {}
GuardOf(kind) == IF kind = "leaf" THEN GuardSet ELSE {}

\* A list of rules and what it holds.
Lists(s, R) == s \in Seq(RuleSet) /\ Range(s) = R

\* Lists zone by zone list what the zones' do,
LEMMA EachZoneIs ==
    ASSUME NEW f \in [BlockZones -> Seq(RuleSet)]
    PROVE  Lists(EachZone(f), UNION {Range(f[z]) : z \in BlockZones})
  <1> DEFINE ss == [i \in DOMAIN ZoneOrder |-> f[ZoneOrder[i]]]
             n == Len(ZoneOrder)
  <1>1. n \in Nat /\ DOMAIN ZoneOrder = 1..n /\ \A i \in 1..n : ZoneOrder[i] \in BlockZones
    BY RouteRulesAssumption
  <1>2. ss \in [1..n -> Seq(RuleSet)] /\ \A i \in 1..n : ss[i] = f[ZoneOrder[i]]
    BY <1>1
  <1>3. \A z : z \in BlockZones <=> \E i \in 1..n : z = ZoneOrder[i]
    BY <1>1 DEF BlockZones, Range
  <1>4. EachZone(f) = FlattenSeq(ss)
    BY DEF EachZone
  <1> HIDE DEF ss, n
  <1>5. ss \in Seq(Seq(RuleSet)) /\ Len(ss) = n
    BY <1>1, <1>2, ListOf
  <1>6. /\ FlattenSeq(ss) \in Seq(RuleSet)
        /\ \A x : x \in Range(FlattenSeq(ss)) <=> \E i \in 1..n : x \in Range(ss[i])
    BY <1>5, FlattenedRange
  <1>7. \A x : x \in Range(FlattenSeq(ss)) <=> \E z \in BlockZones : x \in Range(f[z])
    BY <1>2, <1>3, <1>6
  <1> QED BY <1>4, <1>6, <1>7 DEF Lists

\* and row by row what the rows' do;
LEMMA EachLoadIs ==
    ASSUME NEW f \in [PrefixLoads -> Seq(RuleSet)]
    PROVE  Lists(EachLoad(f), UNION {Range(f[w]) : w \in PrefixLoads})
  <1> DEFINE ss == [i \in DOMAIN LoadOrder |-> f[LoadOrder[i]]]
             n == Len(LoadOrder)
  <1>1. n \in Nat /\ DOMAIN LoadOrder = 1..n /\ \A i \in 1..n : LoadOrder[i] \in PrefixLoads
    BY RouteRulesAssumption
  <1>2. ss \in [1..n -> Seq(RuleSet)] /\ \A i \in 1..n : ss[i] = f[LoadOrder[i]]
    BY <1>1
  <1>3. \A w : w \in PrefixLoads <=> \E i \in 1..n : w = LoadOrder[i]
    BY <1>1 DEF PrefixLoads, Range
  <1>4. EachLoad(f) = FlattenSeq(ss)
    BY DEF EachLoad
  <1> HIDE DEF ss, n
  <1>5. ss \in Seq(Seq(RuleSet)) /\ Len(ss) = n
    BY <1>1, <1>2, ListOf
  <1>6. /\ FlattenSeq(ss) \in Seq(RuleSet)
        /\ \A x : x \in Range(FlattenSeq(ss)) <=> \E i \in 1..n : x \in Range(ss[i])
    BY <1>5, FlattenedRange
  <1>7. \A x : x \in Range(FlattenSeq(ss)) <=> \E w \in PrefixLoads : x \in Range(f[w])
    BY <1>2, <1>3, <1>6
  <1> QED BY <1>4, <1>6, <1>7 DEF Lists

\* Short lists, and lists joined.
LEMMA ShortLists ==
    ASSUME NEW a \in RuleSet, NEW b \in RuleSet
    PROVE  Lists(<<>>, {}) /\ Lists(<<a>>, {a}) /\ Lists(<<a, b>>, {a, b})
  <1>1. <<>> \in Seq(RuleSet) /\ <<a>> \in Seq(RuleSet) /\ <<a, b>> \in Seq(RuleSet)
    OBVIOUS
  <1>2. Range(<<>>) = {} /\ Range(<<a>>) = {a}
    BY DEF Range
  <1>3. Range(<<a, b>>) = {a, b}
    BY DEF Range
  <1> QED BY <1>1, <1>2, <1>3 DEF Lists

\* an empty list nothing,
LEMMA NoList == Lists(<<>>, {})
  BY DEF Lists, Range

\* and two joined what both do.
LEMMA JoinedLists ==
    ASSUME NEW s, NEW t, NEW R, NEW Q, Lists(s, R), Lists(t, Q)
    PROVE  Lists(s \o t, R \cup Q)
  BY JoinedRange DEF Lists

\* The rules a zone has for the rows that may reach it.
LEMMA WorkloadReturnIs ==
    ASSUME NEW z \in BlockZones
    PROVE  Lists(WorkloadReturnRules(z), PairSet(z))
  <1> DEFINE r(w) == FabricRule(2000, z, w, "any", "main")
             f == [w \in PrefixLoads |-> If(<<z, w>> \in AllowedPairs, <<r(w)>>)]
  <1>0. PairSet(z) = {r(w) : w \in {x \in PrefixLoads : <<z, x>> \in AllowedPairs}}
    BY DEF PairSet
  <1>1. ASSUME NEW w \in PrefixLoads
        PROVE  Lists(f[w], IF <<z, w>> \in AllowedPairs THEN {r(w)} ELSE {})
    <2>1. CASE <<z, w>> \in AllowedPairs
      <3>1. r(w) \in RuleSet
        BY <1>0, <2>1 DEF RuleSet, ReturnSet
      <3>2. f[w] = <<r(w)>>
        BY <2>1 DEF If
      <3> HIDE DEF r, f
      <3> QED BY <2>1, <3>1, <3>2, ShortLists
    <2>2. CASE <<z, w>> \notin AllowedPairs
      <3>1. f[w] = <<>>
        BY <2>2 DEF If
      <3> QED BY <2>2, <3>1, NoList
    <2> QED BY <2>1, <2>2
  <1>2. WorkloadReturnRules(z) = EachLoad(f)
    BY DEF WorkloadReturnRules
  <1>3. f = [w \in PrefixLoads |-> f[w]]
    OBVIOUS
  <1> HIDE DEF f, r
  <1>4. f \in [PrefixLoads -> Seq(RuleSet)]
    BY <1>1, <1>3 DEF Lists
  <1>5. \A w \in PrefixLoads : Range(f[w]) = IF <<z, w>> \in AllowedPairs THEN {r(w)} ELSE {}
    BY <1>1 DEF Lists
  <1>6. UNION {Range(f[w]) : w \in PrefixLoads} = PairSet(z)
    <2>1. \A x : x \in PairSet(z) <=> \E w \in PrefixLoads : <<z, w>> \in AllowedPairs /\ x = r(w)
      BY <1>0
    <2>2. \A x : x \in UNION {Range(f[w]) : w \in PrefixLoads} <=>
                 \E w \in PrefixLoads : <<z, w>> \in AllowedPairs /\ x = r(w)
      BY <1>5
    <2> QED BY <2>1, <2>2
  <1> QED BY <1>2, <1>4, <1>6, EachLoadIs

\* return_path_rules as a set,
LEMMA ReturnPathIs == Lists(ReturnPathRules, ReturnSet)
  <1> DEFINE A(z) == FabricRule(2000, z, z, "any", "main-specific")
             B(z) == FabricRule(2001, z, "any", "any", z)
             C(z) == FabricRule(2002, z, "any", "any", "unreachable")
             f == [z \in BlockZones |-> <<A(z)>> \o WorkloadReturnRules(z) \o <<B(z), C(z)>>]
  <1>0. \A z : ZoneSet(z) = {A(z), B(z), C(z)}
    BY DEF ZoneSet
  <1>1. ASSUME NEW z \in BlockZones
        PROVE  Lists(f[z], ZoneSet(z) \cup PairSet(z))
    <2>2. f[z] = <<A(z)>> \o WorkloadReturnRules(z) \o <<B(z), C(z)>>
      OBVIOUS
    <2> HIDE DEF A, B, C, f
    <2>1. A(z) \in RuleSet /\ B(z) \in RuleSet /\ C(z) \in RuleSet
      BY <1>0 DEF RuleSet, ReturnSet
    <2>3. Lists(<<A(z)>>, {A(z)}) /\ Lists(<<B(z), C(z)>>, {B(z), C(z)})
      BY <2>1, ShortLists
    <2>4. Lists(<<A(z)>> \o WorkloadReturnRules(z), {A(z)} \cup PairSet(z))
      BY <2>3, WorkloadReturnIs, JoinedLists
    <2>5. Lists(f[z], ({A(z)} \cup PairSet(z)) \cup {B(z), C(z)})
      BY <2>2, <2>3, <2>4, JoinedLists
    <2>6. ({A(z)} \cup PairSet(z)) \cup {B(z), C(z)} = ZoneSet(z) \cup PairSet(z)
      BY <1>0
    <2> QED BY <2>5, <2>6
  <1>2. ReturnPathRules = EachZone(f)
    BY DEF ReturnPathRules
  <1>3. f = [z \in BlockZones |-> f[z]]
    OBVIOUS
  <1> HIDE DEF f
  <1>4. f \in [BlockZones -> Seq(RuleSet)]
    BY <1>1, <1>3 DEF Lists
  <1>5. \A z \in BlockZones : Range(f[z]) = ZoneSet(z) \cup PairSet(z)
    BY <1>1 DEF Lists
  <1>6. UNION {Range(f[z]) : z \in BlockZones} = ReturnSet
    BY <1>5 DEF ReturnSet
  <1> QED BY <1>2, <1>4, <1>6, EachZoneIs

\* a leaf's leak guard,
LEMMA LeakGuardIs == Lists(LeakGuardRules, GuardSet)
  <1> DEFINE A(z) == FabricRule(1000, "any", z, "lo", "main")
             B(z) == FabricRule(1001, "any", z, "any", "unreachable")
             f == [z \in BlockZones |-> <<A(z), B(z)>>]
  <1>0. \A z : GuardOn(z) = {A(z), B(z)}
    BY DEF GuardOn
  <1>1. ASSUME NEW z \in BlockZones PROVE Lists(f[z], GuardOn(z))
    <2>1. f[z] = <<A(z), B(z)>>
      OBVIOUS
    <2> HIDE DEF A, B, f
    <2>2. A(z) \in RuleSet /\ B(z) \in RuleSet
      BY <1>0 DEF RuleSet, GuardSet
    <2> QED BY <1>0, <2>1, <2>2, ShortLists
  <1>2. LeakGuardRules = EachZone(f)
    BY DEF LeakGuardRules
  <1>3. f = [z \in BlockZones |-> f[z]]
    OBVIOUS
  <1> HIDE DEF f
  <1>4. f \in [BlockZones -> Seq(RuleSet)]
    BY <1>1, <1>3 DEF Lists
  <1>5. \A z \in BlockZones : Range(f[z]) = GuardOn(z)
    BY <1>1 DEF Lists
  <1>6. UNION {Range(f[z]) : z \in BlockZones} = GuardSet
    BY <1>5 DEF GuardSet
  <1> QED BY <1>2, <1>4, <1>6, EachZoneIs

\* the lookups of the rows,
LEMMA LoadLookupIs == Lists(WorkloadLookupRules, LoadSet)
  <1> DEFINE A(w) == FabricRule(2102, w, "any", "any", "main-specific")
             B(w) == FabricRule(2103, w, "any", "any", "250")
             f == [w \in PrefixLoads |-> If(w \in CarriedLoads, <<A(w), B(w)>>)]
  <1>0. \A w : LoadOn(w) = {A(w), B(w)}
    BY DEF LoadOn
  <1>1. ASSUME NEW w \in PrefixLoads PROVE Lists(f[w], IF w \in CarriedLoads THEN LoadOn(w) ELSE {})
    <2>1. CASE w \in CarriedLoads
      <3>1. f[w] = <<A(w), B(w)>>
        BY <2>1 DEF If
      <3> HIDE DEF A, B, f
      <3>2. A(w) \in RuleSet /\ B(w) \in RuleSet
        BY <1>0, <2>1 DEF RuleSet, DefaultSet, LoadSet
      <3> QED BY <1>0, <2>1, <3>1, <3>2, ShortLists
    <2>2. CASE w \notin CarriedLoads
      <3>1. f[w] = <<>>
        BY <2>2 DEF If
      <3> QED BY <2>2, <3>1, NoList
    <2> QED BY <2>1, <2>2
  <1>2. WorkloadLookupRules = EachLoad(f)
    BY DEF WorkloadLookupRules
  <1>3. f = [w \in PrefixLoads |-> f[w]]
    OBVIOUS
  <1> HIDE DEF f
  <1>4. f \in [PrefixLoads -> Seq(RuleSet)]
    BY <1>1, <1>3 DEF Lists
  <1>5. \A w \in PrefixLoads : Range(f[w]) = IF w \in CarriedLoads THEN LoadOn(w) ELSE {}
    BY <1>1 DEF Lists
  <1>6. UNION {Range(f[w]) : w \in PrefixLoads} = LoadSet
    BY <1>5, RouteRulesAssumption DEF LoadSet
  <1> QED BY <1>2, <1>4, <1>6, EachLoadIs

\* those of the host default,
LEMMA LookupIs == Lists(<<FloorRule>>, {FloorRule}) /\ Lists(LookupRules, LookupSet)
  <1> DEFINE A == FabricRule(2100, "any", "any", "lo", "main-specific")
             B == FabricRule(2101, "any", "any", "lo", "250")
  <1>1. LookupSet = {A, B} /\ LookupRules = <<A, B>>
    BY DEF LookupSet, LookupRules
  <1> HIDE DEF A, B
  <1>2. FloorRule \in RuleSet /\ A \in RuleSet /\ B \in RuleSet
    BY <1>1 DEF RuleSet, DefaultSet
  <1> QED BY <1>1, <1>2, ShortLists

\* and what is added and dropped of it on this kind of member.
LEMMA HostDefaultIs == Lists(HostDefaultRules, DefaultOf(rrKind)) /\ Lists(HostDefaultDrops, DefaultSet)
  <1>1. Lists(<<FloorRule>> \o LookupRules, {FloorRule} \cup LookupSet)
    BY LookupIs, JoinedLists
  <1>2. Lists(<<FloorRule>> \o LookupRules \o WorkloadLookupRules, ({FloorRule} \cup LookupSet) \cup LoadSet)
    BY <1>1, LoadLookupIs, JoinedLists
  <1>3. Lists(<<FloorRule>> \o WorkloadLookupRules, {FloorRule} \cup LoadSet)
    BY LoadLookupIs, LookupIs, JoinedLists
  <1>4. Lists(<<FloorRule>> \o WorkloadLookupRules \o LookupRules, ({FloorRule} \cup LoadSet) \cup LookupSet)
    BY <1>3, LookupIs, JoinedLists
  <1>5. DefaultSet = ({FloorRule} \cup LookupSet) \cup LoadSet /\ DefaultSet = ({FloorRule} \cup LoadSet) \cup LookupSet
    BY DEF DefaultSet
  <1>6. CASE rrKind = "host" /\ IngressZones # {}
    BY <1>2, <1>4, <1>5, <1>6 DEF HostDefaultRules, HostDefaultDrops, DefaultOf, If
  <1>7. CASE ~(rrKind = "host" /\ IngressZones # {})
    BY <1>4, <1>5, <1>7, NoList DEF HostDefaultRules, HostDefaultDrops, DefaultOf, If
  <1> QED BY <1>6, <1>7

\* Which rules are whose shows in their pref.
LEMMA RulePrefs ==
    /\ \A r \in GuardSet : r.pref \in {1000, 1001}
    /\ \A r \in ReturnSet : r.pref \in {2000, 2001, 2002}
    /\ \A r \in DefaultSet : r.pref \in HostDefaultPrefs
  <1>1. \A r \in GuardSet : r.pref \in {1000, 1001}
    BY DEF GuardSet, GuardOn, FabricRule
  <1>2. \A r \in ReturnSet : r.pref \in {2000, 2001, 2002}
    <2> SUFFICES ASSUME NEW r \in ReturnSet PROVE r.pref \in {2000, 2001, 2002}
      OBVIOUS
    <2>1. PICK z \in BlockZones : r \in ZoneSet(z) \/ r \in PairSet(z)
      BY DEF ReturnSet
    <2>2. CASE r \in ZoneSet(z)
      BY <2>2 DEF ZoneSet, FabricRule
    <2>3. CASE r \in PairSet(z)
      <3> DEFINE A(w) == FabricRule(2000, z, w, "any", "main")
      <3>1. PairSet(z) = {A(w) : w \in {x \in PrefixLoads : <<z, x>> \in AllowedPairs}}
        BY DEF PairSet
      <3>2. \A w : A(w).pref = 2000
        BY DEF FabricRule
      <3> HIDE DEF A
      <3>3. PICK w : r = A(w)
        BY <2>3, <3>1
      <3>4. r.pref = 2000
        BY <3>2, <3>3
      <3> QED BY <3>4
    <2> QED BY <2>1, <2>2, <2>3
  <1>3. \A r \in DefaultSet : r.pref \in HostDefaultPrefs
    BY DEF DefaultSet, LookupSet, LoadSet, LoadOn, FloorRule, FabricRule, HostDefaultPrefs
  <1> QED BY <1>1, <1>2, <1>3

\* No rule is of two kinds.
LEMMA RulesApart ==
    /\ GuardSet \cap ReturnSet = {} /\ GuardSet \cap DefaultSet = {} /\ ReturnSet \cap DefaultSet = {}
  BY RulePrefs DEF HostDefaultPrefs

\* A list is its first rule and the rest.
LEMMA Visited ==
    ASSUME NEW s \in Seq(RuleSet), s # <<>>
    PROVE  /\ Head(s) \in RuleSet /\ Tail(s) \in Seq(RuleSet)
           /\ Range(s) = {Head(s)} \cup Range(Tail(s))
  <1>1. Head(s) \in RuleSet /\ Tail(s) \in Seq(RuleSet) /\ Head(s) = s[1]
    OBVIOUS
  <1>2. Len(s) \in Nat \ {0} /\ Len(Tail(s)) = Len(s) - 1 /\ \A i \in 1..(Len(s) - 1) : Tail(s)[i] = s[i + 1]
    OBVIOUS
  <1>3. ASSUME NEW x \in Range(s) PROVE x = Head(s) \/ x \in Range(Tail(s))
    <2>1. PICK i \in 1..Len(s) : x = s[i]
      BY <1>3 DEF Range
    <2>2. CASE i = 1
      BY <1>1, <2>1, <2>2
    <2>3. CASE i # 1
      <3>1. i - 1 \in 1..(Len(s) - 1) /\ (i - 1) + 1 = i
        BY <1>2, <2>3
      <3>2. x = Tail(s)[i - 1] /\ i - 1 \in 1..Len(Tail(s))
        BY <1>2, <2>1, <3>1
      <3>3. DOMAIN Tail(s) = 1..Len(Tail(s))
        BY <1>1
      <3> QED BY <3>2, <3>3 DEF Range
    <2> QED BY <2>2, <2>3
  <1>4. Head(s) \in Range(s)
    BY <1>1, <1>2 DEF Range
  <1>5. ASSUME NEW x \in Range(Tail(s)) PROVE x \in Range(s)
    <2>1. PICK i \in 1..Len(Tail(s)) : x = Tail(s)[i]
      BY <1>1, <1>5 DEF Range
    <2>2. i + 1 \in 1..Len(s) /\ x = s[i + 1]
      BY <1>2, <2>1
    <2> QED BY <2>2 DEF Range
  <1> QED BY <1>1, <1>3, <1>4, <1>5

\* The rules of this member.
OwnRules == ReturnSet \cup DefaultOf(rrKind) \cup GuardOf(rrKind)

RrTypeOK ==
    /\ rrKind \in {"host", "leaf"} /\ ipRules \subseteq OwnRules /\ contained \subseteq BlockZones
    /\ fabricUp \in BOOLEAN /\ rrShort \in BOOLEAN /\ rrBoot \in BOOLEAN
    /\ rrAt \in {"stopped", "refused", "dead", "idle", "return", "default", "guard", "tick", "tick-default",
                 "drop", "drop-guard"}
    /\ rrTodo \in Seq(RuleSet) /\ rrHits \in 0..MaxRuleFaults
    /\ rrPass \in {"clean", "dirty", "ruled"}
    /\ rrAt \in {"return", "default", "guard", "tick", "tick-default"} => Range(rrTodo) \subseteq OwnRules

\* What an undisturbed apply or tick has put in place so far, or still has to visit.
RrPlaced ==
    LET owed == ipRules \cup Range(rrTodo)
    IN  rrPass = "clean" =>
           /\ rrAt = "return" => ReturnSet \subseteq owed
           /\ rrAt = "default" => ReturnSet \subseteq ipRules /\ DefaultOf(rrKind) \subseteq owed
           /\ rrAt = "guard" => ReturnSet \cup DefaultOf(rrKind) \subseteq ipRules /\ GuardOf(rrKind) \subseteq owed
           /\ rrAt = "tick" /\ ~rrShort => ReturnSet \cup GuardOf(rrKind) \subseteq owed
           /\ rrAt = "tick-default" /\ fabricUp =>
                 ReturnSet \cup GuardOf(rrKind) \subseteq ipRules /\ DefaultOf(rrKind) \subseteq owed
           /\ rrAt = "idle" /\ fabricUp => OwnRules \subseteq ipRules

\* A stop: the guard stays as long as the fabric is up, and nothing stays behind.
RrDropped ==
    /\ rrPass = "ruled" => rrAt \in {"drop", "drop-guard", "stopped", "dead"}
    /\ rrPass = "ruled" /\ rrAt \in {"drop", "dead"} => GuardOf(rrKind) \subseteq ipRules
    /\ rrAt = "drop" => Range(rrTodo) \cap GuardSet = {}
    /\ rrAt \in {"drop-guard", "stopped"} => ~fabricUp
    /\ rrPass # "dirty" =>
          /\ rrAt = "drop" => ipRules \ GuardSet \subseteq Range(rrTodo)
          /\ rrAt = "drop-guard" => ipRules \subseteq Range(rrTodo)
          /\ rrAt = "stopped" => ipRules = {}

RulesInv == RrTypeOK /\ RrPlaced /\ RrDropped

\* No rule at first.
LEMMA RulesStart == RouteRulesInit => RulesInv
  <1> SUFFICES ASSUME RouteRulesInit PROVE RulesInv
    OBVIOUS
  <1>1. Range(<<>>) = {} /\ <<>> \in Seq(RuleSet)
    BY NoList DEF Lists
  <1>2. MaxRuleFaults \in Nat
    BY RouteRulesAssumption
  <1>3. RrTypeOK
    <2>1. ipRules = {} /\ contained = {} /\ rrTodo = <<>> /\ rrAt = "stopped" /\ rrHits = 0 /\ rrPass = "dirty"
      BY DEF RouteRulesInit
    <2>2. fabricUp \in BOOLEAN /\ rrShort \in BOOLEAN /\ rrBoot \in BOOLEAN /\ rrKind \in {"host", "leaf"}
      BY DEF RouteRulesInit
    <2> QED BY <1>1, <1>2, <2>1, <2>2 DEF RrTypeOK
  <1>4. RrPlaced /\ RrDropped
    BY <1>1 DEF RouteRulesInit, RrPlaced, RrDropped
  <1> QED BY <1>3, <1>4 DEF RulesInv

\* The lists of a step, for the kind of the member.
LEMMA StepLists ==
    ASSUME RrTypeOK
    PROVE  /\ Lists(If(rrKind = "leaf", LeakGuardRules), GuardOf(rrKind))
           /\ Lists(If(rrKind = "leaf", LeakGuardRules) \o ReturnPathRules, GuardOf(rrKind) \cup ReturnSet)
           /\ Lists(ReturnPathRules \o HostDefaultDrops, ReturnSet \cup DefaultSet)
  <1>1. Lists(If(rrKind = "leaf", LeakGuardRules), GuardOf(rrKind))
    BY LeakGuardIs, NoList DEF If, GuardOf
  <1>2. Lists(If(rrKind = "leaf", LeakGuardRules) \o ReturnPathRules, GuardOf(rrKind) \cup ReturnSet)
    BY <1>1, ReturnPathIs, JoinedLists
  <1>3. Lists(ReturnPathRules \o HostDefaultDrops, ReturnSet \cup DefaultSet)
    BY ReturnPathIs, HostDefaultIs, JoinedLists
  <1> QED BY <1>1, <1>2, <1>3

\* Every step of an apply, a tick, a stop or somebody else keeps RulesInv.
LEMMA RulesStep ==
    ASSUME RulesInv, [RouteRulesNext]_rrVars
    PROVE  RulesInv'
  <1> USE DEF RulesInv, RrGoTo, RrCalm, RrHit, Ruled
  <1>0. Range(<<>>) = {} /\ <<>> \in Seq(RuleSet)
    BY NoList DEF Lists
  <1>a. rrTodo # <<>> => /\ Head(rrTodo) \in RuleSet /\ Tail(rrTodo) \in Seq(RuleSet)
                         /\ Range(rrTodo) = {Head(rrTodo)} \cup Range(Tail(rrTodo))
    BY Visited DEF RrTypeOK
  <1>b. rrKind' = rrKind => OwnRules' = OwnRules /\ DefaultOf(rrKind)' = DefaultOf(rrKind) /\ GuardOf(rrKind)' = GuardOf(rrKind)
    BY DEF OwnRules
  <1>c. /\ DefaultOf(rrKind) \subseteq DefaultSet /\ GuardOf(rrKind) \subseteq GuardSet
        /\ rrKind = "leaf" => DefaultOf(rrKind) = {}
        /\ rrKind = "leaf" => GuardOf(rrKind) = GuardSet
        /\ rrKind # "leaf" => GuardOf(rrKind) = {}
    BY DEF DefaultOf, GuardOf
  <1>d. \A r : r \in OwnRules <=> r \in ReturnSet \/ r \in DefaultOf(rrKind) \/ r \in GuardOf(rrKind)
    BY DEF OwnRules
  <1>e. MaxRuleFaults \in Nat
    BY RouteRulesAssumption
  <1>1. CASE RrApply
    BY <1>1, <1>0, <1>b, <1>c, <1>d, <1>e, ReturnPathIs DEF RrApply, RrTypeOK, RrPlaced, RrDropped, Lists
  <1>2. CASE EnsureRule
    <2>1. RrTypeOK'
      BY <1>2, <1>a, <1>b DEF EnsureRule, RrTypeOK
    <2>2. RrPlaced' /\ RrDropped'
      BY <1>2, <1>a, <1>b DEF EnsureRule, RrTypeOK, RrPlaced, RrDropped
    <2> QED BY <2>1, <2>2
  <1>3. CASE EnsureNext
    <2>1. CASE rrAt = "return"
      BY <1>3, <2>1, <1>0, <1>b, <1>d, HostDefaultIs DEF EnsureNext, rrKernel, RrTypeOK, RrPlaced, RrDropped, Lists
    <2>2. CASE rrAt = "default" /\ rrKind = "leaf"
      BY <1>3, <2>2, <1>0, <1>b, <1>c, <1>d, LeakGuardIs DEF EnsureNext, rrKernel, RrTypeOK, RrPlaced, RrDropped, Lists
    <2>3. CASE ~(rrAt = "return") /\ ~(rrAt = "default" /\ rrKind = "leaf")
      BY <1>3, <2>3, <1>0, <1>b, <1>c, <1>d DEF EnsureNext, rrKernel, RrTypeOK, RrPlaced, RrDropped
    <2> QED BY <2>1, <2>2, <2>3
  <1>4. CASE EnsureFails
    <2>1. ipRules' \subseteq ipRules
      BY <1>4 DEF EnsureFails
    <2> QED BY <1>4, <2>1, <1>0, <1>b, <1>e DEF EnsureFails, RrTypeOK, RrPlaced, RrDropped
  <1>5. CASE RrTick
    BY <1>5, <1>0, <1>b, <1>c, <1>d, StepLists DEF RrTick, rrKernel, RrTypeOK, RrPlaced, RrDropped, Lists
  <1>6. CASE RestoreEnds
    BY <1>6, <1>0, <1>b, <1>d, HostDefaultIs DEF RestoreEnds, RrTypeOK, RrPlaced, RrDropped, Lists
  <1>7. CASE TickErrs
    BY <1>7, <1>b, <1>d, <1>e, HostDefaultIs DEF TickErrs, rrKernel, RrTypeOK, RrPlaced, RrDropped, Lists
  <1>8. ASSUME NEW ok \in BOOLEAN, RestoreRule(ok) PROVE RulesInv'
    <2>1. RrTypeOK'
      BY <1>8, <1>a, <1>b, <1>e DEF RestoreRule, RrTypeOK
    <2>2. RrPlaced' /\ RrDropped'
      BY <1>8, <1>a, <1>b DEF RestoreRule, RrTypeOK, RrPlaced, RrDropped
    <2> QED BY <2>1, <2>2
  <1>9. ASSUME NEW ok \in BOOLEAN, ReassertRule(ok) PROVE RulesInv'
    <2>1. CASE ok /\ rrTodo # <<>>
      <3>1. RrTypeOK'
        BY <1>9, <2>1, <1>a, <1>b DEF ReassertRule, RrTypeOK
      <3>2. RrPlaced' /\ RrDropped'
        BY <1>9, <2>1, <1>a, <1>b DEF ReassertRule, RrTypeOK, RrPlaced, RrDropped
      <3> QED BY <3>1, <3>2
    <2>2. CASE ok /\ rrTodo = <<>>
      BY <1>9, <2>2, <1>0, <1>b, <1>d DEF ReassertRule, RrTypeOK, RrPlaced, RrDropped
    <2>3. CASE ~ok
      BY <1>9, <2>3, <1>0, <1>b, <1>e DEF ReassertRule, RrTypeOK, RrPlaced, RrDropped
    <2> QED BY <2>1, <2>2, <2>3
  <1>10. CASE RrStop
    <2>1. rrTodo' \in Seq(RuleSet) /\ Range(rrTodo') = ReturnSet \cup DefaultSet
      BY <1>10, StepLists DEF RrStop, Lists
    <2>2. RrTypeOK'
      BY <1>10, <2>1, <1>b DEF RrStop, rrKernel, RrTypeOK
    <2>3. RrPlaced' /\ RrDropped'
      BY <1>10, <2>1, <1>b, <1>c, <1>d, RulesApart DEF RrStop, rrKernel, RrTypeOK, RrPlaced, RrDropped
    <2> QED BY <2>2, <2>3
  <1>11. CASE DropRule
    <2>1. RrTypeOK'
      BY <1>11, <1>a, <1>b DEF DropRule, RrTypeOK
    <2>2. RrPlaced' /\ RrDropped'
      BY <1>11, <1>a, <1>b, <1>c DEF DropRule, RrTypeOK, RrPlaced, RrDropped
    <2> QED BY <2>1, <2>2
  <1>12. CASE RrStopNetdevs
    <2>1. rrTodo' \in Seq(RuleSet) /\ Range(rrTodo') = GuardOf(rrKind)
      BY <1>12, StepLists DEF RrStopNetdevs, Lists
    <2>2. RrTypeOK'
      BY <1>12, <2>1, <1>b DEF RrStopNetdevs, RrTypeOK
    <2>3. RrPlaced' /\ RrDropped'
      BY <1>12, <2>1, <1>0, <1>b, <1>c, <1>d, RulesApart DEF RrStopNetdevs, RrTypeOK, RrPlaced, RrDropped
    <2> QED BY <2>2, <2>3
  <1>13. CASE RrStopped
    BY <1>13, <1>0, <1>b DEF RrStopped, rrKernel, RrTypeOK, RrPlaced, RrDropped
  <1>14. CASE DropFails
    BY <1>14, <1>0, <1>b, <1>e DEF DropFails, rrKernel, RrTypeOK, RrPlaced, RrDropped
  <1>15. CASE RrCrash
    BY <1>15, <1>0, <1>b, <1>e DEF RrCrash, rrKernel, RrTypeOK, RrPlaced, RrDropped
  <1>16. ASSUME NEW r \in ipRules, RuleFlushed(r) PROVE RulesInv'
    BY <1>16, <1>b, <1>e DEF RuleFlushed, RrTypeOK, RrPlaced, RrDropped
  <1>17. ASSUME NEW z \in contained, ContainmentLost(z) PROVE RulesInv'
    BY <1>17, <1>b, <1>e DEF ContainmentLost, RrTypeOK, RrPlaced, RrDropped
  <1>19. CASE DropGivesUp
    BY <1>19, <1>0, <1>b DEF DropGivesUp, rrKernel, RrTypeOK, RrPlaced, RrDropped
  <1>18. CASE UNCHANGED rrVars
    BY <1>18, <1>b DEF rrVars, rrKernel, RrTypeOK, RrPlaced, RrDropped
  <1> QED BY <1>1, <1>2, <1>3, <1>4, <1>5, <1>6, <1>7, <1>8, <1>9, <1>10, <1>11, <1>12, <1>13, <1>14, <1>15,
             <1>16, <1>17, <1>18, <1>19 DEF RouteRulesNext

\* What a table answers, by the action of the rule.
LEMMA FoundIs ==
    ASSUME NEW r, NEW p, NEW t
    PROVE  /\ r.action = "unreachable" => Found(r, p, t) = "unreachable"
           /\ r.action = "main-specific" => Found(r, p, t) = InMain(p, t)
           /\ r.action = "main" => Found(r, p, t) = IF InMain(p, t) = "none" /\ t.floor THEN "untagged" ELSE InMain(p, t)
           /\ r.action = "250" => Found(r, p, t) = IF t.default THEN "host-default" ELSE "none"
           /\ r.action \in BlockZones => Found(r, p, t) = IF r.action \in t.gw THEN "gateway" ELSE "none"
  <1>1. r.action \in BlockZones => r.action \notin {"unreachable", "main-specific", "main", "250"}
    BY RouteRulesAssumption DEF Words
  <1> QED BY <1>1 DEF Found

\* What main says of a packet.
LEMMA InMainIs ==
    ASSUME NEW p, NEW t
    PROVE  /\ InMain(p, t) \in {"specific", "unreachable", "none"}
           /\ InMain(p, t) = "none" <=> p.to \notin t.main /\ p.to \notin contained
  BY DEF InMain

\* A selector is no word, and a zone is no workload.
LEMMA NamesApart ==
    /\ \A z \in BlockZones : z \notin Words /\ z \notin PrefixLoads
    /\ \A w \in PrefixLoads : w \notin Words /\ w \notin BlockZones
  BY RouteRulesAssumption

\* The route of a packet is the answer of the first rule that has one.
FirstAnswer(r, p, t) ==
    /\ r \in ipRules \cup {MainRule} /\ Matches(r, p) /\ Found(r, p, t) # "none"
    /\ Route(p, t) = Found(r, p, t)
    /\ \A q \in ipRules \cup {MainRule} : Matches(q, p) /\ Found(q, p, t) # "none" => r.pref <= q.pref

\* A packet that is routed was answered by a first rule.
LEMMA RoutedByFirst ==
    ASSUME RrTypeOK, NEW p, NEW t, Route(p, t) # "none" \/ \E q \in ipRules : Matches(q, p) /\ Found(q, p, t) # "none"
    PROVE  \E r : FirstAnswer(r, p, t)
  <1> DEFINE asked == {r \in ipRules \cup {MainRule} : Matches(r, p) /\ Found(r, p, t) # "none"}
             first == CHOOSE r \in asked : \A q \in asked : r.pref <= q.pref
  <1>1. asked # {}
    BY DEF Route
  <1>2. \A r \in asked : r.pref \in Nat
    <2>1. MainRule.pref = 32766
      BY DEF MainRule, FabricRule
    <2>2. \A r \in ipRules : r.pref \in Nat
      BY RulePrefs DEF RrTypeOK, OwnRules, DefaultOf, GuardOf, HostDefaultPrefs
    <2> QED BY <2>1, <2>2
  <1>3. Route(p, t) = Found(first, p, t)
    BY <1>1 DEF Route
  <1>4. \E r \in asked : \A q \in asked : r.pref <= q.pref
    <2> DEFINE prefs == {r.pref : r \in asked}
    <2> HIDE DEF asked
    <2>1. prefs \in SUBSET Nat /\ prefs # {}
      BY <1>1, <1>2
    <2>2. PICK n \in prefs : \A k \in prefs : n <= k
      <3> HIDE DEF prefs
      <3> QED BY <2>1, LeastOf
    <2> QED BY <2>2
  <1>5. first \in asked /\ \A q \in asked : first.pref <= q.pref
    <2> HIDE DEF asked
    <2> QED BY <1>4
  <1> HIDE DEF first
  <1> QED BY <1>3, <1>5 DEF FirstAnswer

\* A leaf's guard comes before every other rule.
LEMMA NothingPasses ==
    ASSUME RrTypeOK, GuardOf(rrKind) \subseteq ipRules, NEW p \in Packets, NEW t
    PROVE  NothingThrough(p, t)
  <1> SUFFICES ASSUME rrKind = "leaf", ~p.local, p.to \in BlockZones PROVE Route(p, t) = "unreachable"
    BY DEF NothingThrough
  <1> DEFINE g == FabricRule(1001, "any", p.to, "any", "unreachable")
  <1>1. g.pref = 1001 /\ g.from = "any" /\ g.to = p.to /\ g.iif = "any" /\ g.action = "unreachable"
    BY DEF FabricRule
  <1>2. g \in ipRules
    BY DEF GuardOf, GuardSet, GuardOn
  <1> HIDE DEF g
  <1>3. Matches(g, p) /\ Found(g, p, t) # "none"
    BY <1>1, FoundIs DEF Matches
  <1>4. PICK r : FirstAnswer(r, p, t)
    BY <1>2, <1>3, RoutedByFirst
  <1>5. r.pref <= 1001
    BY <1>1, <1>2, <1>3, <1>4 DEF FirstAnswer
  <1>6. r \in GuardSet
    <2>1. r # MainRule
      BY <1>5 DEF MainRule, FabricRule
    <2>2. r \in OwnRules
      BY <1>4, <2>1 DEF FirstAnswer, RrTypeOK
    <2> QED BY <1>5, <2>2, RulePrefs DEF OwnRules, DefaultOf, GuardOf, HostDefaultPrefs
  <1>7. PICK z \in BlockZones : r \in GuardOn(z)
    BY <1>6 DEF GuardSet
  <1>8. r.action = "unreachable"
    BY <1>4, <1>7 DEF GuardOn, FabricRule, FirstAnswer, Matches
  <1> QED BY <1>4, <1>8, FoundIs DEF FirstAnswer

\* The rules of a zone's return path are all its own packets get past the guard to.
LEMMA IdentityContained ==
    ASSUME RrTypeOK, ipRules = OwnRules, NEW p \in Packets, NEW t
    PROVE  IdentityStays(p, t)
  <1> DEFINE z == p.from
             u == FabricRule(2002, z, "any", "any", "unreachable")
  <1> SUFFICES ASSUME z \in BlockZones
               PROVE  /\ Route(p, t) # "host-default"
                      /\ Route(p, t) = "untagged" => \/ <<z, p.to>> \in AllowedPairs /\ p.to \notin t.main
                                                     \/ rrKind = "leaf" /\ p.local /\ p.to \notin contained
                      /\ p.to \in BlockZones \ {z} =>
                            Route(p, t) \in {"gateway", "unreachable"} \/ (rrKind = "leaf" /\ p.local)
    BY DEF IdentityStays
  <1>1. u.pref = 2002 /\ u.from = z /\ u.to = "any" /\ u.iif = "any" /\ u.action = "unreachable"
    BY DEF FabricRule
  <1>2. u \in ipRules
    BY DEF OwnRules, ReturnSet, ZoneSet
  <1> HIDE DEF u
  <1>3. Matches(u, p) /\ Found(u, p, t) # "none"
    BY <1>1, FoundIs DEF Matches
  <1>4. PICK r : FirstAnswer(r, p, t)
    BY <1>2, <1>3, RoutedByFirst
  <1>5. r.pref <= 2002
    BY <1>1, <1>2, <1>3, <1>4 DEF FirstAnswer
  <1>6. r \in ReturnSet \/ (rrKind = "leaf" /\ r \in GuardSet)
    <2>1. r # MainRule
      BY <1>5 DEF MainRule, FabricRule
    <2>2. r \in OwnRules
      BY <1>4, <2>1 DEF FirstAnswer
    <2> QED BY <1>5, <2>2, RulePrefs DEF OwnRules, DefaultOf, GuardOf, HostDefaultPrefs
  <1>7. CASE rrKind = "leaf" /\ r \in GuardSet
    <2>1. PICK y \in BlockZones : r \in GuardOn(y)
      BY <1>7 DEF GuardSet
    <2>2. CASE r = FabricRule(1000, "any", y, "lo", "main")
      <3>1. r.action = "main" /\ p.local
        BY <1>4, <2>2 DEF FabricRule, FirstAnswer, Matches
      <3> QED BY <1>4, <1>7, <3>1, FoundIs, InMainIs DEF FirstAnswer
    <2>3. CASE r = FabricRule(1001, "any", y, "any", "unreachable")
      <3>1. r.action = "unreachable"
        BY <2>3 DEF FabricRule
      <3> QED BY <1>4, <3>1, FoundIs DEF FirstAnswer
    <2> QED BY <2>1, <2>2, <2>3 DEF GuardOn
  <1>8. CASE r \in ReturnSet
    <2>1. PICK y \in BlockZones : r \in ZoneSet(y) \/ r \in PairSet(y)
      BY <1>8 DEF ReturnSet
    <2>2. CASE r = FabricRule(2000, y, y, "any", "main-specific")
      <3>1. r.action = "main-specific" /\ r.from = y /\ r.to = y
        BY <2>2 DEF FabricRule
      <3>2. p.to = z
        BY <1>4, <3>1, NamesApart DEF FirstAnswer, Matches, Words
      <3> QED BY <1>4, <3>1, <3>2, FoundIs, InMainIs DEF FirstAnswer
    <2>3. CASE r = FabricRule(2001, y, "any", "any", y)
      <3>1. r.action = y
        BY <2>3 DEF FabricRule
      <3> QED BY <1>4, <3>1, FoundIs DEF FirstAnswer
    <2>4. CASE r = FabricRule(2002, y, "any", "any", "unreachable")
      <3>1. r.action = "unreachable"
        BY <2>4 DEF FabricRule
      <3> QED BY <1>4, <3>1, FoundIs DEF FirstAnswer
    <2>5. CASE r \in PairSet(y)
      <3> DEFINE A(w) == FabricRule(2000, y, w, "any", "main")
      <3>1. PairSet(y) = {A(w) : w \in {x \in PrefixLoads : <<y, x>> \in AllowedPairs}}
        BY DEF PairSet
      <3>2. \A w : A(w).action = "main" /\ A(w).from = y /\ A(w).to = w
        BY DEF FabricRule
      <3> HIDE DEF A
      <3>3. PICK w \in PrefixLoads : r = A(w) /\ <<y, w>> \in AllowedPairs
        BY <2>5, <3>1
      <3>4. p.from = y /\ p.to = w
        BY <1>4, <3>2, <3>3, NamesApart DEF FirstAnswer, Matches, Words
      <3> QED BY <1>4, <3>2, <3>3, <3>4, FoundIs, InMainIs, NamesApart DEF FirstAnswer
    <2> QED BY <2>1, <2>2, <2>3, <2>4, <2>5 DEF ZoneSet
  <1> QED BY <1>6, <1>7, <1>8

\* Whom the host default is for.
Entitled(p, t) ==
    rrKind = "host" /\ IngressZones # {} /\ ((p.local /\ (p.from = "floor" => ~t.floor)) \/ p.from \in CarriedLoads)

\* The rules of the host default, one by one.
LEMMA DefaultRule ==
    ASSUME NEW r \in DefaultSet
    PROVE  \/ r.pref = 2099 /\ r.from = "floor" /\ r.to = "any" /\ r.iif = "lo" /\ r.action = "main"
           \/ r.pref = 2100 /\ r.from = "any" /\ r.to = "any" /\ r.iif = "lo" /\ r.action = "main-specific"
           \/ r.pref = 2101 /\ r.from = "any" /\ r.to = "any" /\ r.iif = "lo" /\ r.action = "250"
           \/ r.pref = 2102 /\ r.from \in CarriedLoads /\ r.to = "any" /\ r.iif = "any" /\ r.action = "main-specific"
           \/ r.pref = 2103 /\ r.from \in CarriedLoads /\ r.to = "any" /\ r.iif = "any" /\ r.action = "250"
  <1>1. CASE r \in {FloorRule} \cup LookupSet
    BY <1>1 DEF FloorRule, LookupSet, FabricRule
  <1>2. CASE r \in LoadSet
    <2>1. PICK w \in CarriedLoads : r \in LoadOn(w)
      BY <1>2 DEF LoadSet
    <2> QED BY <2>1 DEF LoadOn, FabricRule
  <1> QED BY <1>1, <1>2 DEF DefaultSet

\* With every rule in place the host default serves exactly whom it is for.
LEMMA DefaultServes ==
    ASSUME RrTypeOK, ipRules = OwnRules, NEW p \in Packets, NEW t
    PROVE  DefaultFor(p, t)
  <1>0. DefaultFor(p, t) <=>
            /\ Route(p, t) = "host-default" => Entitled(p, t)
            /\ Entitled(p, t) /\ p.from \notin BlockZones /\ t.default /\ p.to \notin t.main \cup contained
                   => Route(p, t) = "host-default"
    BY DEF DefaultFor, Entitled
  <1>1. ASSUME Route(p, t) = "host-default" PROVE Entitled(p, t)
    <2>1. PICK r : FirstAnswer(r, p, t)
      BY <1>1, RoutedByFirst
    <2>2. r.action = "250"
      <3>1. r.action \in BlockZones \cup {"main", "main-specific", "unreachable", "250"}
        <4>1. CASE r = MainRule
          BY <4>1 DEF MainRule, FabricRule
        <4>2. CASE r \in GuardSet
          BY <4>2 DEF GuardSet, GuardOn, FabricRule
        <4>3. CASE r \in DefaultSet
          BY <4>3, DefaultRule
        <4>4. CASE r \in ReturnSet
          <5>1. PICK y \in BlockZones : r \in ZoneSet(y) \/ r \in PairSet(y)
            BY <4>4 DEF ReturnSet
          <5>2. CASE r \in ZoneSet(y)
            BY <5>2 DEF ZoneSet, FabricRule
          <5>3. CASE r \in PairSet(y)
            <6> DEFINE A(w) == FabricRule(2000, y, w, "any", "main")
            <6>1. PairSet(y) = {A(w) : w \in {x \in PrefixLoads : <<y, x>> \in AllowedPairs}}
              BY DEF PairSet
            <6>2. \A w : A(w).action = "main"
              BY DEF FabricRule
            <6> HIDE DEF A
            <6>3. PICK w : r = A(w)
              BY <5>3, <6>1
            <6>4. r.action = "main"
              BY <6>2, <6>3
            <6> QED BY <6>4
          <5> QED BY <5>1, <5>2, <5>3
        <4> QED BY <2>1, <4>1, <4>2, <4>3, <4>4 DEF FirstAnswer, OwnRules, DefaultOf, GuardOf
      <3> QED BY <1>1, <2>1, <3>1, FoundIs, InMainIs DEF FirstAnswer
    <2>3. r \in DefaultSet /\ rrKind = "host" /\ IngressZones # {}
      <3>1. r # MainRule
        BY <2>2 DEF MainRule, FabricRule
      <3>2. r \notin GuardSet
        BY <2>2 DEF GuardSet, GuardOn, FabricRule
      <3>3. r \notin ReturnSet
        <4> SUFFICES ASSUME r \in ReturnSet PROVE FALSE
          OBVIOUS
        <4>1. PICK y \in BlockZones : r \in ZoneSet(y) \/ r \in PairSet(y)
          BY DEF ReturnSet
        <4>2. CASE r \in ZoneSet(y)
          BY <2>2, <4>2, NamesApart DEF ZoneSet, FabricRule, Words
        <4>3. CASE r \in PairSet(y)
          <5> DEFINE A(w) == FabricRule(2000, y, w, "any", "main")
          <5>1. PairSet(y) = {A(w) : w \in {x \in PrefixLoads : <<y, x>> \in AllowedPairs}}
            BY DEF PairSet
          <5>2. \A w : A(w).action = "main"
            BY DEF FabricRule
          <5> HIDE DEF A
          <5>3. PICK w : r = A(w)
            BY <4>3, <5>1
          <5> QED BY <2>2, <5>2, <5>3
        <4> QED BY <4>1, <4>2, <4>3
      <3> QED BY <2>1, <3>1, <3>2, <3>3 DEF FirstAnswer, OwnRules, DefaultOf, GuardOf
    <2>4. CASE r.pref = 2101
      <3>1. r.iif = "lo" /\ p.local
        BY <2>1, <2>3, <2>4, DefaultRule DEF FirstAnswer, Matches
      <3>2. ASSUME p.from = "floor", t.floor PROVE FALSE
        <4>1. FloorRule \in ipRules
          BY <2>3 DEF OwnRules, DefaultOf, DefaultSet
        <4>2. /\ FloorRule.pref = 2099 /\ FloorRule.from = "floor" /\ FloorRule.to = "any" /\ FloorRule.iif = "lo"
              /\ FloorRule.action = "main"
          BY DEF FloorRule, FabricRule
        <4>3. Matches(FloorRule, p) /\ Found(FloorRule, p, t) # "none"
          BY <3>1, <3>2, <4>2, FoundIs, InMainIs DEF Matches
        <4> QED BY <2>1, <2>4, <4>1, <4>2, <4>3 DEF FirstAnswer
      <3> QED BY <2>3, <3>1, <3>2 DEF Entitled
    <2>5. CASE r.pref # 2101
      <3>1. r.from \in CarriedLoads /\ r.from # "any"
        BY <2>2, <2>3, <2>5, DefaultRule, NamesApart, RouteRulesAssumption DEF Words
      <3>2. p.from \in CarriedLoads
        BY <2>1, <3>1 DEF FirstAnswer, Matches
      <3> QED BY <2>3, <3>2 DEF Entitled
    <2> QED BY <2>4, <2>5
  <1>2. ASSUME Entitled(p, t), p.from \notin BlockZones, t.default, p.to \notin t.main \cup contained
        PROVE  Route(p, t) = "host-default"
    <2>1. InMain(p, t) = "none"
      BY <1>2, InMainIs
    <2>2. rrKind = "host" /\ DefaultSet \subseteq ipRules /\ ipRules = ReturnSet \cup DefaultSet
      BY <1>2 DEF Entitled, OwnRules, DefaultOf, GuardOf
    <2>3. \E q \in ipRules : q.pref <= 2103 /\ q.pref \in Nat /\ Matches(q, p) /\ Found(q, p, t) # "none"
      <3>1. CASE p.local
        <4> DEFINE q == FabricRule(2101, "any", "any", "lo", "250")
        <4>1. q.pref = 2101 /\ q.from = "any" /\ q.to = "any" /\ q.iif = "lo" /\ q.action = "250"
          BY DEF FabricRule
        <4>2. q \in ipRules
          BY <2>2 DEF DefaultSet, LookupSet
        <4> HIDE DEF q
        <4>3. Matches(q, p) /\ Found(q, p, t) # "none"
          BY <1>2, <3>1, <4>1, FoundIs DEF Matches
        <4> QED BY <4>1, <4>2, <4>3
      <3>2. CASE ~p.local
        <4> DEFINE q == FabricRule(2103, p.from, "any", "any", "250")
        <4>1. q.pref = 2103 /\ q.from = p.from /\ q.to = "any" /\ q.iif = "any" /\ q.action = "250"
          BY DEF FabricRule
        <4>2. p.from \in CarriedLoads
          BY <1>2, <3>2 DEF Entitled
        <4>3. q \in ipRules
          BY <2>2, <4>2 DEF DefaultSet, LoadSet, LoadOn
        <4> HIDE DEF q
        <4>4. Matches(q, p) /\ Found(q, p, t) # "none"
          BY <1>2, <4>1, FoundIs DEF Matches
        <4> QED BY <4>1, <4>3, <4>4
      <3> QED BY <3>1, <3>2
    <2>4. PICK r : FirstAnswer(r, p, t)
      BY <2>3, RoutedByFirst
    <2>5. r.pref <= 2103
      <3>1. MainRule.pref = 32766
        BY DEF MainRule, FabricRule
      <3>2. r.pref \in Nat
        BY <2>2, <2>4, <3>1, RulePrefs DEF FirstAnswer, HostDefaultPrefs
      <3> QED BY <2>3, <2>4, <3>2 DEF FirstAnswer
    <2>6. r \in DefaultSet
      <3>1. r # MainRule
        BY <2>5 DEF MainRule, FabricRule
      <3>2. r \notin ReturnSet
        <4> SUFFICES ASSUME r \in ReturnSet PROVE FALSE
          OBVIOUS
        <4>1. PICK y \in BlockZones : r \in ZoneSet(y) \/ r \in PairSet(y)
          BY DEF ReturnSet
        <4>2. r.from = y
          <5>1. CASE r \in ZoneSet(y)
            BY <5>1 DEF ZoneSet, FabricRule
          <5>2. CASE r \in PairSet(y)
            <6> DEFINE A(w) == FabricRule(2000, y, w, "any", "main")
            <6>1. PairSet(y) = {A(w) : w \in {x \in PrefixLoads : <<y, x>> \in AllowedPairs}}
              BY DEF PairSet
            <6>2. \A w : A(w).from = y
              BY DEF FabricRule
            <6> HIDE DEF A
            <6>3. PICK w : r = A(w)
              BY <5>2, <6>1
            <6> QED BY <6>2, <6>3
          <5> QED BY <4>1, <5>1, <5>2
        <4> QED BY <1>2, <2>4, <4>2, NamesApart DEF FirstAnswer, Matches, Words
      <3> QED BY <2>2, <2>4, <3>1, <3>2 DEF FirstAnswer
    <2>7. r.action = "250"
      <3>1. r.action # "main-specific"
        BY <2>1, <2>4, FoundIs DEF FirstAnswer
      <3>2. ASSUME r.from = "floor" /\ r.action = "main" PROVE FALSE
        <4>1. p.from = "floor"
          BY <2>4, <3>2 DEF FirstAnswer, Matches
        <4>2. "floor" \notin CarriedLoads
          BY NamesApart, RouteRulesAssumption DEF Words
        <4>3. ~t.floor
          BY <1>2, <4>1, <4>2 DEF Entitled
        <4> QED BY <2>1, <2>4, <3>2, <4>3, FoundIs DEF FirstAnswer
      <3> QED BY <2>6, <3>1, <3>2, DefaultRule
    <2> QED BY <1>2, <2>4, <2>7, FoundIs DEF FirstAnswer
  <1> QED BY <1>0, <1>1, <1>2

\* Where a member's rules send a packet, with any number of zones and workloads, any
\* tables, and however often an apply, a tick or a stop fails or is interfered with.
THEOREM RulesSanctionPaths == RouteRulesSpec => []PathsSanctioned
  <1>1. ASSUME RulesInv PROVE PathsSanctioned
    <2>1. ASSUME Ruled, NEW p \in Packets, NEW t \in Tables
          PROVE  IdentityStays(p, t) /\ NothingThrough(p, t) /\ DefaultFor(p, t)
      <3>1. RrTypeOK /\ ipRules = OwnRules
        BY <1>1, <2>1 DEF RulesInv, RrTypeOK, RrPlaced, Ruled
      <3>2. GuardOf(rrKind) \subseteq ipRules
        BY <3>1 DEF OwnRules
      <3> QED BY <3>1, <3>2, IdentityContained, NothingPasses, DefaultServes
    <2>2. ASSUME rrPass = "ruled", fabricUp, NEW p \in Packets, NEW t \in Tables
          PROVE  NothingThrough(p, t)
      <3>1. rrAt \in {"drop", "dead"}
        BY <1>1, <2>2 DEF RulesInv, RrDropped
      <3>2. RrTypeOK /\ GuardOf(rrKind) \subseteq ipRules
        BY <1>1, <2>2, <3>1 DEF RulesInv, RrDropped
      <3> QED BY <3>2, NothingPasses
    <2>3. rrAt = "stopped" /\ rrPass # "dirty" => ipRules = {}
      BY <1>1 DEF RulesInv, RrDropped
    <2> QED BY <2>1, <2>2, <2>3 DEF PathsSanctioned
  <1> QED BY <1>1, RulesStart, RulesStep, PTL DEF RouteRulesSpec

=============================================================================
