---------------------------- MODULE RouteEngine ----------------------------
(***************************************************************************)
(* The routing engine's request handler (src/engine/mod.rs, sock.rs): the  *)
(* state every re-commit regenerates the configuration tree from, the      *)
(* ordered commits one request costs, and what a failing commit leaves     *)
(* behind.  A tree is abstracted to the two inputs it is generated from:   *)
(* the transit cost and the routes per leg.  "running" is the tree the     *)
(* northbound has in force plus, for each route, the kernel ifindex holo   *)
(* resolved its interface to when the route was committed.                 *)
(***************************************************************************)
EXTENDS Naturals, Sequences

CONSTANTS Legs,        \* workload legs of the member
          Routes       \* host routes a leg may be asked for

Costs == {"declared", "leaf"}

\* EngineState: what the engine believes is in force.  A leg never asked
\* about has ifindex 0 and no route, which reads like an absent map entry.
NoLeg == [ifindex |-> 0, cidrs |-> {}]
EngineNew == [transit |-> "declared", routes |-> [l \in Legs |-> NoLeg]]

\* The tree committed before the socket is bound, and its resolution.
RunningNew == [transit |-> "declared", routes |-> [l \in Legs |-> {}],
               at |-> [l \in Legs |-> [c \in Routes |-> 0]]]

\* Requests that reach the handler.
TransitReq(cost) == [verb |-> "transit-cost", cost |-> cost]
RoutesReq(leg, ifindex, cidrs) ==
    [verb |-> "workload-routes", leg |-> leg, ifindex |-> ifindex, cidrs |-> cidrs]

\* holo resolves an interface once, at commit: a leg that moved while routes
\* are in force on it has to withdraw them before it installs them again.
Moved(s, q) ==
    /\ q.cidrs # {}
    /\ s.routes[q.leg].ifindex # q.ifindex
    /\ s.routes[q.leg].cidrs # {}

WithLeg(s, leg, ifindex, cidrs) ==
    [s EXCEPT !.routes[leg] = [ifindex |-> ifindex, cidrs |-> cidrs]]

\* Mistake: transit-cost regenerates from the declaration alone.
StepsForgetRoutes(s, q) ==
    IF q.verb = "transit-cost"
    THEN <<[EngineNew EXCEPT !.transit = q.cost]>>
    ELSE <<WithLeg(s, q.leg, q.ifindex, q.cidrs)>>

\* EngineState::apply: the states of the commits a request takes, in order.
Steps(s, q) ==
    IF q.verb = "transit-cost"
    THEN <<[s EXCEPT !.transit = q.cost]>>
    ELSE LET install == WithLeg(s, q.leg, q.ifindex, q.cidrs)
         IN IF Moved(s, q)
            THEN <<WithLeg(s, q.leg, q.ifindex, {}), install>>
            ELSE <<install>>

\* Northbound::commit of the tree generated from s: a route that stays keeps
\* the resolution it has, a new one is resolved to the index the leg has now.
Commit(running, s, now) ==
    [transit |-> s.transit,
     routes  |-> [l \in Legs |-> s.routes[l].cidrs],
     at |-> [l \in Legs |-> [c \in Routes |->
                IF c \notin s.routes[l].cidrs THEN 0
                ELSE IF c \in running.routes[l] THEN running.at[l][c]
                ELSE now[l]]]]

\* Mistake: the request's final state is adopted whatever landed.
AdoptedAll(s, steps, landed) == steps[Len(steps)]

\* commit_steps: each step is adopted as soon as it is in force.  "landed"
\* counts the steps before the one that failed; all of them is success.
Adopted(s, steps, landed) == IF landed = 0 THEN s ELSE steps[landed]

InForce(running, steps, landed, now) ==
    CASE landed = 0 -> running
      [] landed = 1 -> Commit(running, steps[1], now)
      [] landed = 2 -> Commit(Commit(running, steps[1], now), steps[2], now)

=============================================================================
