------------------------------ MODULE MCProber ------------------------------
(* A small instance of Prober: two wires, the first preferred.             *)
EXTENDS Prober

MCRank == [p \in Ports |-> p - 1]
=============================================================================
