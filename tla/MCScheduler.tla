----------------------------- MODULE MCScheduler -----------------------------
(* Small instances of Scheduler for TLC: w1 runs the loop. *)
EXTENDS Scheduler, TLC
CONSTANTS w1, w2, w3, c1, t1, t2, t3
Symmetry == Permutations(Tasks) \cup Permutations(Workers \ {Loop})
=============================================================================
