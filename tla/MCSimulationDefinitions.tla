---------------------- MODULE MCSimulationDefinitions ----------------------
(* Small instances of SimulationDefinitions for TLC: bodies that name the     *)
(* texts alone, a pair of limits or half of one (which makes it equal to the  *)
(* default of the other), what is not checked, what a PUT leaves out, and two *)
(* that are refused.                                                         *)
EXTENDS SimulationDefinitions
CONSTANTS h1, h2, i1, i2
MCBodies ==
  { [name |-> "a"],
    [name |-> "a", minClients |-> 4, maxClients |-> 17],
    [name |-> "a", maxClients |-> 1],
    [name |-> "b", stateInterval |-> 601, certificate |-> "c"],
    [name |-> "a", devices |-> 0],
    [minClients |-> 0] }
=============================================================================
