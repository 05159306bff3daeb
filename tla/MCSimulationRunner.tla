-------------------------- MODULE MCSimulationRunner --------------------------
(* Small instances of SimulationRunner for TLC. *)
EXTENDS SimulationRunner
CONSTANTS r1, r2, t1, t2, k1
=============================================================================
