------------------------------ MODULE MCSafety ------------------------------
(* A small instance of conf-sync and, beside it, of five parts that share    *)
(* no state with it: the status it asks for its verdict (ConfSync takes the  *)
(* verdict of a text from Carries), the lease of the measurements, the       *)
(* ownership of a member, the loop the systemd watchdog looks at and the     *)
(* endpoint of the metrics page.  A behaviour is one of one of them, and the *)
(* others rest.                                                              *)
EXTENDS MCConfSync, StatusReport, Lease, Instance, MainLoop, MetricsServer

VARIABLE part

MCLadder == <<"l1", "l2">>

\* One fault on a member of every kind; ...
MCSingles(kinds) == UNION {Changes(Healthy(k)) : k \in kinds}

\* ... one that is well, or whose fault silences others, may change once more while it is
\* read; ...
MCSilences == {"wire", "deferred", "no-leg", "no-default", "bgp", "daemon", "no-record"}
MCMoving == {h \in MCSingles({"transit", "plain"}) : h.bad \subseteq MCSilences}

\* ... and any second fault beside one that silences others.
MCSilencing ==
    LET h == Healthy("transit")
    IN  {[h EXCEPT !.bad = {f}] :
            f \in MCSilences}
        \cup {[h EXCEPT !.down = s] : s \in {{First}, SegLegs}}
        \cup {[h EXCEPT !.bond.active = "backup"], [h EXCEPT !.bond.mii = "down"],
              [h EXCEPT !.answers = FALSE], [h EXCEPT !.engine = "restarting"], [h EXCEPT !.near = FALSE]}

MCScenes == {Healthy("transit")} \cup MCSingles({"transit", "plain", "leaf"}) \cup UNION {Changes(h) : h \in MCSilencing}

safetyVars == <<vars, statusVars, leaseVars, instVars, loopVars, serverVars, part>>

SafetyInit ==
    /\ part \in {"conf-sync", "status", "lease", "instance", "loop", "server"}
    /\ part = "status" \/ (host = Healthy("transit") /\ moves = MaxMoves /\ asker = "status")
    /\ part = "loop" \/ (child = "running" /\ port = "ours")
    /\ Init /\ StatusInit /\ LeaseInit /\ InstInit /\ LoopInit /\ ServerInit
    /\ host \in MCMoving \/ moves = MaxMoves

SafetyNext ==
    /\ part' = part
    /\ \/ part = "conf-sync" /\ Next       /\ UNCHANGED <<statusVars, leaseVars, instVars, loopVars, serverVars>>
       \/ part = "status"    /\ StatusNext /\ UNCHANGED <<vars, leaseVars, instVars, loopVars, serverVars>>
       \/ part = "lease"     /\ LeaseNext  /\ UNCHANGED <<vars, statusVars, instVars, loopVars, serverVars>>
       \/ part = "instance"  /\ InstNext   /\ UNCHANGED <<vars, statusVars, leaseVars, loopVars, serverVars>>
       \/ part = "loop"      /\ LoopNext   /\ UNCHANGED <<vars, statusVars, leaseVars, instVars, serverVars>>
       \/ part = "server"    /\ ServerNext /\ UNCHANGED <<vars, statusVars, leaseVars, instVars, loopVars>>

SafetySpec == SafetyInit /\ [][SafetyNext]_safetyVars
=============================================================================
