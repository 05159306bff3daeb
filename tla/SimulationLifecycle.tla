------------------------- MODULE SimulationLifecycle -------------------------
(***************************************************************************)
(* What the coordinator promises about one run of a simulation, whoever    *)
(* ends it and whatever else happens meanwhile: a run is started once, and *)
(* it ends once, either completed, with its result kept, or discarded,     *)
(* without one.  Nothing happens to it afterwards.                         *)
(***************************************************************************)

CONSTANT RunIds       \* the running ids the service can hand out

VARIABLE phase        \* the phase each run is in

Phases == {"unborn", "running", "completed", "discarded"}

Init == phase = [id \in RunIds |-> "unborn"]

(* A client starts a simulation and receives a fresh running id. *)
Start(id) ==
  /\ phase[id] = "unborn"
  /\ phase' = [phase EXCEPT ![id] = "running"]

(* The run was stopped, or its length has elapsed: its result is kept. *)
Complete(id) ==
  /\ phase[id] = "running"
  /\ phase' = [phase EXCEPT ![id] = "completed"]

(* The run was cancelled, the row of its result could not be written, or the  *)
(* whole service stops with it.                                               *)
Discard(ids) ==
  /\ ids # {}
  /\ \A id \in ids : phase[id] = "running"
  /\ phase' = [id \in RunIds |-> IF id \in ids THEN "discarded" ELSE phase[id]]

Next ==
  \/ \E id \in RunIds : Start(id) \/ Complete(id)
  \/ \E ids \in SUBSET RunIds : Discard(ids)

Spec == Init /\ [][Next]_phase
=============================================================================
