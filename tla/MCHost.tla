------------------------------- MODULE MCHost -------------------------------
(* A small instance of what a member does with its host: the building and    *)
(* the removal of the ingress leg, check and apply on the host's bridges,    *)
(* the prober's conversation with the kernel, the engine's with its clients  *)
(* and its providers and the gateway announcer of a row.  They share no      *)
(* state; a behaviour is one of one of them, and the others rest.  The       *)
(* engine's sweep and its clients touch each other through the process only, *)
(* so a behaviour has one of the two.                                        *)
EXTENDS LegBuild, Preflight, BondNetlink, EngineServe, Announcer, TLC

VARIABLE part

\* A bond with two ports whose links are up, one of which has carrier.
MCNetdevs ==
    /\ netdev = [n \in Names |->
            CASE n = BondName -> [ix |-> 1, lower |-> "yes", rung |-> "none"]
              [] n = "p"      -> [ix |-> 2, lower |-> "yes", rung |-> "up"]
              [] n = "q"      -> [ix |-> 3, lower |-> "no",  rung |-> "up"]]
    /\ indexes = 3

HostInit ==
    /\ part \in {"leg", "bridges", "kernel", "clients", "sweep", "announce"}
    /\ part = "leg" \/ (shape = "bond" /\ alien = "no")
    /\ part = "bridges" \/ holds = [r \in PfRows |-> Facts]
    /\ part = "announce" \/ (inFile = FALSE /\ macs = {} /\ watch = TRUE)
    /\ LegBuildInit /\ PreflightInit /\ NetlinkInit /\ MCNetdevs /\ EngineServeInit /\ AnnInit

HostNext ==
    /\ part' = part
    /\ \/ part = "leg"      /\ UNCHANGED <<pfVars, nlVars, esVars, annVars>> /\ LegBuildNext
       \/ part = "bridges"  /\ UNCHANGED <<lbVars, nlVars, esVars, annVars>> /\ PreflightNext
       \/ part = "kernel"   /\ UNCHANGED <<lbVars, pfVars, esVars, annVars>> /\ NetlinkNext
       \/ part = "clients"  /\ UNCHANGED <<lbVars, pfVars, nlVars, sweep, annVars>> /\ EngineServeNext
       \/ part = "sweep"    /\ UNCHANGED <<lbVars, pfVars, nlVars, asker, annVars>> /\ EngineServeNext
       \/ part = "announce" /\ UNCHANGED <<lbVars, pfVars, nlVars, esVars>> /\ AnnNext

HostSpec == HostInit /\ [][HostNext]_<<part, lbVars, pfVars, nlVars, esVars, annVars>>

\* One engine process, and one client, is like another.
MCSymmetry == Permutations(Engines) \cup Permutations(Askers)

=============================================================================
