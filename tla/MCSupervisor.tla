---------------------------- MODULE MCSupervisor ----------------------------
(* Small instances of Supervisor: a host on a cluster runs all three children. *)
EXTENDS Supervisor, TLC

MCRestarted == <<"engine", "shape-daemon">>
=============================================================================
