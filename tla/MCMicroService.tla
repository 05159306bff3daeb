--------------------------- MODULE MCMicroService ---------------------------
(* Small instances of MicroService for TLC. *)
EXTENDS MicroService
CONSTANTS p1, p2
=============================================================================
