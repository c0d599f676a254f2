---------------------------- MODULE MCHostRoutes ----------------------------
(* A small instance of the host routes, and of what is made of the            *)
(* declaration, which shares no state with them and has only safety           *)
(* properties.  A behaviour is one of one of them; the others rest.           *)
EXTENDS HostRoutes, MCDeclared

VARIABLE side

hostVars == <<vars, declaredVars, side>>

HostInit ==
    /\ side \in {"routes", "costs", "declaration", "engine", "policy"}
    /\ side = "routes" \/ (here = [l \in Legs |-> {}] /\ nft = here)
    /\ IF side = "costs" THEN DerInit ELSE DerRest
    /\ IF side = "declaration" THEN DeclInit ELSE DeclRest
    /\ IF side = "engine" THEN EngInit ELSE EngRest
    /\ IF side = "policy" THEN PolInit ELSE PolRest
    /\ Init

HostNext ==
    \/ side = "routes" /\ Next /\ UNCHANGED <<declaredVars, side>>
    \/ /\ UNCHANGED <<vars, side>>
       /\ \/ side = "costs" /\ DerNext /\ UNCHANGED <<declVars, engVars, polVars>>
          \/ side = "declaration" /\ DeclNext /\ UNCHANGED <<derVars, engVars, polVars>>
          \/ side = "engine" /\ EngNext /\ UNCHANGED <<derVars, declVars, polVars>>
          \/ side = "policy" /\ PolNext /\ UNCHANGED <<derVars, declVars, engVars>>

\* The fairness is the host routes' own.
HostSpec == HostInit /\ [][HostNext]_hostVars /\ Fairness

=============================================================================
