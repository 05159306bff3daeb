------------------------------ MODULE TaskQueue ------------------------------
(***************************************************************************)
(* What the scheduler promises about tasks that are given to it with a time, *)
(* whatever its loop, its pool, their sleeps and its destructor do: each is   *)
(* started at most once, not before its time, and in the order of the times;  *)
(* only a task that came late, when its time was past already, may be         *)
(* overtaken by a task of a later time.  None is forgotten.                   *)
(***************************************************************************)
EXTENDS Integers

CONSTANTS
  Tasks,        \* the tasks that can be scheduled, each once
  Horizon       \* bound on the clock

VARIABLES
  now,          \* the clock
  due,          \* the time a task is scheduled for, -1 before
  late,         \* the tasks that were scheduled for a time already past
  waiting,      \* scheduled, and not started
  started

vars == <<now, due, late, waiting, started>>

Init ==
  /\ now = 0
  /\ due = [i \in Tasks |-> -1]
  /\ late = {} /\ waiting = {} /\ started = {}

Tick ==
  /\ now' = now + 1
  /\ UNCHANGED <<due, late, waiting, started>>

Schedule(i, time) ==
  /\ due[i] = -1
  /\ due' = [due EXCEPT ![i] = time]
  /\ late' = IF time < now THEN late \cup {i} ELSE late
  /\ waiting' = waiting \cup {i}
  /\ UNCHANGED <<now, started>>

(* Of the tasks that wait, none of an earlier time but those that came late. *)
Start(i) ==
  /\ i \in waiting
  /\ due[i] <= now
  /\ \A j \in waiting : due[j] < due[i] => j \in late
  /\ waiting' = waiting \ {i}
  /\ started' = started \cup {i}
  /\ UNCHANGED <<now, due, late>>

Next ==
  \/ Tick
  \/ \E i \in Tasks : Start(i) \/ \E time \in 0 .. Horizon : Schedule(i, time)

Spec == Init /\ [][Next]_vars
=============================================================================
