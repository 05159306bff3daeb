----------------------- MODULE MCSimulationCoordinator -----------------------
(* Small instances of SimulationCoordinator for TLC. *)
EXTENDS SimulationCoordinator, TLC

CONSTANTS h1, h2, alice, root, timed, endless, ghost, r1, r2, s1

MCLength == (timed :> 1) @@ (endless :> 0) @@ (ghost :> 1)

Symmetric == Permutations(Handlers) \cup Permutations(RunIds)
=============================================================================
