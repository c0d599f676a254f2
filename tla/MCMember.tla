------------------------------ MODULE MCMember ------------------------------
(* A small instance of the parts of one member that share no state in the    *)
(* model: the transit posture, the workload rows, the host default, the DHCP *)
(* relay of a row, the shaping and the routing rules.  A behaviour is one of *)
(* one of them; the others rest.                                             *)
EXTENDS Transit, WorkloadLegs, HostDefault, DhcpRelay, ShapeDaemon, RouteRules

VARIABLE part

MCWireOf == [l \in VlanLegs |-> IF l = GwLeg THEN "w2" ELSE "w1"]

MCNicCost == [w \in Nics |-> IF w = "n1" THEN 10 ELSE 20]

MCZoneOrder == <<"z1", "z2">>
MCLoadOrder == <<"l1", "l2">>
MCAllowed   == {<<"z1", "l1">>}

memberVars == <<transitVars, legVars, hdVars, relayVars, shapeVars, rrVars, part>>

\* The start of a part that is not the one under way.
RestLegs    == bridge = Rows /\ vid = [r \in Rows |-> "none"]
RestDefault == floor /\ onFloor = Addrs /\ gwUp
RestRelay   == ifx = 1 /\ legAddr /\ ~portHeld
RestShape   == carrier = Nics /\ capShared = [w \in Nics |-> NoCap]

MemberInit ==
    /\ part \in {"transit", "legs", "default", "relay", "shape", "rules"}
    /\ TransitInit /\ LegInit /\ HdInit /\ RelayInit /\ ShapeInit /\ RouteRulesInit
    /\ part = "transit" \/ (wires = Wires /\ ~hook)
    /\ part = "legs"    \/ RestLegs
    /\ part = "default" \/ RestDefault
    /\ part = "relay"   \/ RestRelay
    /\ part = "shape"   \/ RestShape
    /\ part = "rules"   \/ rrKind = "host"

MemberNext ==
    \/ part = "transit" /\ TransitNext
       /\ UNCHANGED <<legVars, hdVars, relayVars, shapeVars, rrVars, part>>
    \/ part = "legs" /\ LegNext
       /\ UNCHANGED <<transitVars, hdVars, relayVars, shapeVars, rrVars, part>>
    \/ part = "default" /\ HdNext
       /\ UNCHANGED <<transitVars, legVars, relayVars, shapeVars, rrVars, part>>
    \/ part = "relay" /\ RelayNext
       /\ UNCHANGED <<transitVars, legVars, hdVars, shapeVars, rrVars, part>>
    \/ part = "shape" /\ ShapeNext
       /\ UNCHANGED <<transitVars, legVars, hdVars, relayVars, rrVars, part>>
    \/ part = "rules" /\ RouteRulesNext
       /\ UNCHANGED <<transitVars, legVars, hdVars, relayVars, shapeVars, part>>

MemberSpec == MemberInit /\ [][MemberNext]_memberVars
                         /\ LegFairness /\ HdFairness /\ RelayFairness /\ ShapeFairness

=============================================================================
