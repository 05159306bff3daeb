------------------------------ MODULE Scheduler ------------------------------
(***************************************************************************)
(* Bosma::Scheduler of a runner, with its InterruptableSleep and the        *)
(* ctpl::thread_pool whose threads run the tasks: one of them runs the      *)
(* scheduler's own loop until the destructor lets it go.                     *)
(*                                                                         *)
(* Only in() is used by the program, so tasks run once.  A wait on a        *)
(* condition variable ends by a notification or by its time; spurious        *)
(* wake-ups are left out, so that nothing can rely on them.                  *)
(***************************************************************************)
EXTENDS Integers, Sequences, FiniteSets

CONSTANTS
  Workers,      \* threads of the pool
  Loop,         \* the one that runs the loop
  Callers,      \* threads that schedule tasks from outside
  Tasks,        \* the tasks that can be scheduled, each once
  Nobody,       \* holder of a free lock; no task
  Horizon       \* bound on the clock

ASSUME WorkersAssumption == Loop \in Workers /\ Workers \ {Loop} # {}
ASSUME ThreadsAssumption ==
  Workers \cap Callers = {} /\ Nobody \notin Workers \cup Callers \cup Tasks
ASSUME HorizonAssumption == Horizon \in Nat

VARIABLES
  now,          \* Clock::now()
  done, tasks, lock,          \* of the Scheduler; tasks holds task names
  due,          \* the time a task is scheduled for, -1 before
  late,         \* history: the tasks inserted when their time was past
  interrupted,  \* of the InterruptableSleep
  queue, isDone,              \* of the pool
  pc,           \* where each thread is
  (* Locals of the loop, 0 and FALSE where they are out of scope: the sleep, *)
  (* and what manage_tasks took for the present.                             *)
  until, forever, limit,
  runs,         \* how often each task was started
  dtor          \* how far the destructor is

vars == <<now, done, tasks, lock, due, late, interrupted, queue, isDone, pc, until,
          forever, limit, runs, dtor>>

Threads == Workers \cup Callers
LoopStates == {"check", "find", "sleep", "asleep", "woken", "manage", "push", "notify"}
PoolStates == {"pop", "lock", "waiting", "notified", "run", "adding", "ended"}
Free == lock = Nobody

Init ==
  /\ now = 0
  /\ done = FALSE /\ isDone = FALSE
  /\ tasks = {} /\ queue = <<>>
  /\ lock = Nobody
  /\ due = [i \in Tasks |-> -1] /\ late = {}
  /\ interrupted = FALSE
  /\ pc = [t \in Threads |-> CASE t = Loop -> "check"
                               [] t \in Workers \ {Loop} -> "pop"
                               [] OTHER -> "idle"]
  /\ until = 0 /\ forever = FALSE /\ limit = 0
  /\ runs = [i \in Tasks |-> 0]
  /\ dtor = "none"

Tick ==
  /\ now < Horizon /\ now' = now + 1
  /\ UNCHANGED <<done, tasks, lock, due, late, interrupted, queue, isDone, pc, until,
                 forever, limit, runs, dtor>>

-----------------------------------------------------------------------------
(* Mutated forms of definitions below, one slip in the code each. *)

RaisedIfAsleep == pc[Loop] = "asleep"     \* no flag, only the notification

RoundedUp == now + 1

NotifiesJustOne(p) ==                     \* notify_one where all wait
  IF \A w \in Workers : p[w] # "waiting"
    THEN p
    ELSE [p EXCEPT ![CHOOSE w \in Workers : p[w] = "waiting"] = "notified"]

EndsAtOnce(w) ==                          \* isDone seen before the queue
  /\ pc[w] = "pop"
  /\ \/ /\ ~isDone /\ queue # <<>>
        /\ queue' = Tail(queue)
        /\ runs' = [runs EXCEPT ![Head(queue)] = @ + 1]
        /\ pc' = [pc EXCEPT ![w] = "run"]
     \/ /\ isDone \/ queue = <<>>
        /\ pc' = [pc EXCEPT ![w] = IF isDone THEN "ended" ELSE "lock"]
        /\ UNCHANGED <<queue, runs>>
  /\ UNCHANGED <<now, done, tasks, lock, due, late, interrupted, isDone, until,
                 forever, limit, dtor>>

-----------------------------------------------------------------------------
(* InterruptableSleep::interrupt raises the flag and notifies the sleeper,  *)
(* in one critical section: p is pc with the caller's own step.              *)
Raised == TRUE

Interrupt(p) ==
  /\ interrupted' = Raised
  /\ pc' = [p EXCEPT ![Loop] = IF @ = "asleep" THEN "woken" ELSE @]

(* add_task holds the lock over the insertion and the interruption; in()      *)
(* read the clock before, at any time.  A caller is outside; a worker adds    *)
(* from the task it runs.                                                    *)
Adds(t, i, time) ==
  /\ Free
  /\ t \in Callers => pc[t] = "idle" /\ dtor = "none"
  /\ t \in Workers => pc[t] = "run"
  /\ due[i] = -1
  /\ due' = [due EXCEPT ![i] = time]
  /\ late' = IF time < now THEN late \cup {i} ELSE late
  /\ tasks' = tasks \cup {i}
  /\ lock' = t
  /\ pc' = [pc EXCEPT ![t] = "adding"]
  /\ UNCHANGED <<now, done, interrupted, queue, isDone, until, forever, limit,
                 runs, dtor>>

Interrupts(t) ==
  /\ pc[t] = "adding"
  /\ Interrupt([pc EXCEPT ![t] = IF t \in Workers THEN "run" ELSE "idle"])
  /\ lock' = Nobody
  /\ UNCHANGED <<now, done, tasks, due, late, queue, isDone, until, forever, limit,
                 runs, dtor>>

-----------------------------------------------------------------------------
(* The loop. *)
Checks ==
  /\ pc[Loop] = "check"
  /\ pc' = [pc EXCEPT ![Loop] = IF done THEN "pop" ELSE "find"]
  /\ UNCHANGED <<now, done, tasks, lock, due, late, interrupted, queue, isDone, until,
                 forever, limit, runs, dtor>>

Earliest(i) == \A j \in tasks : due[i] <= due[j]

FindsSleepTime ==
  /\ pc[Loop] = "find" /\ Free
  /\ \/ tasks = {} /\ forever' = TRUE /\ UNCHANGED until
     \/ \E i \in tasks : Earliest(i) /\ forever' = FALSE /\ until' = due[i]
  /\ pc' = [pc EXCEPT ![Loop] = "sleep"]
  /\ UNCHANGED <<now, done, tasks, lock, due, late, interrupted, queue, isDone, limit,
                 runs, dtor>>

(* sleep_until and sleep: a flag that is up, or a time that has come, ends   *)
(* them before they begin; the flag is cleared on the way out.               *)
Expired == ~forever /\ until <= now

SleepEnds ==
  /\ \/ pc[Loop] = "sleep" /\ (interrupted \/ Expired)
     \/ pc[Loop] = "asleep" /\ Expired
     \/ pc[Loop] = "woken"
  /\ interrupted' = FALSE
  /\ until' = 0 /\ forever' = FALSE
  /\ pc' = [pc EXCEPT ![Loop] = "manage"]
  /\ UNCHANGED <<now, done, tasks, lock, due, late, queue, isDone, limit, runs,
                 dtor>>

SleepBegins ==
  /\ pc[Loop] = "sleep" /\ ~interrupted /\ ~Expired
  /\ pc' = [pc EXCEPT ![Loop] = "asleep"]
  /\ UNCHANGED <<now, done, tasks, lock, due, late, interrupted, queue, isDone, until,
                 forever, limit, runs, dtor>>

(* manage_tasks: under the lock, each task that is due by one reading of     *)
(* the clock goes to the pool, in order of time.                             *)
Present == now

Manages ==
  /\ pc[Loop] = "manage" /\ Free
  /\ lock' = Loop
  /\ limit' = Present
  /\ pc' = [pc EXCEPT ![Loop] = "push"]
  /\ UNCHANGED <<now, done, tasks, due, late, interrupted, queue, isDone, until,
                 forever, runs, dtor>>

Pushes(i) ==
  /\ pc[Loop] = "push"
  /\ i \in tasks /\ due[i] <= limit /\ Earliest(i)
  /\ tasks' = tasks \ {i}
  /\ queue' = Append(queue, i)
  /\ pc' = [pc EXCEPT ![Loop] = "notify"]
  /\ UNCHANGED <<now, done, lock, due, late, interrupted, isDone, until, forever,
                 limit, runs, dtor>>

(* notify_one wakes one of the threads that wait, if any does. *)
NotifyOne(p) ==
  LET waiting == {w \in Workers : p[w] = "waiting"}
  IN  IF waiting = {} THEN {p} ELSE {[p EXCEPT ![w] = "notified"] : w \in waiting}

Notifies ==
  /\ pc[Loop] = "notify"
  /\ pc' \in NotifyOne([pc EXCEPT ![Loop] = "push"])
  /\ UNCHANGED <<now, done, tasks, lock, due, late, interrupted, queue, isDone, until,
                 forever, limit, runs, dtor>>

ManageEnds ==
  /\ pc[Loop] = "push"
  /\ \A i \in tasks : due[i] > limit
  /\ lock' = Nobody /\ limit' = 0
  /\ pc' = [pc EXCEPT ![Loop] = "check"]
  /\ UNCHANGED <<now, done, tasks, due, late, interrupted, queue, isDone, until,
                 forever, runs, dtor>>

-----------------------------------------------------------------------------
(* A thread of the pool: pops until the queue is empty, then waits under the *)
(* pool's mutex for a task or for the end.                                   *)
Takes(w) ==
  /\ queue # <<>>
  /\ queue' = Tail(queue)
  /\ runs' = [runs EXCEPT ![Head(queue)] = @ + 1]
  /\ pc' = [pc EXCEPT ![w] = "run"]

Pops(w) ==
  /\ pc[w] = "pop"
  /\ \/ Takes(w)
     \/ /\ queue = <<>>
        /\ pc' = [pc EXCEPT ![w] = "lock"]
        /\ UNCHANGED <<queue, runs>>
  /\ UNCHANGED <<now, done, tasks, lock, due, late, interrupted, isDone, until,
                 forever, limit, dtor>>

Waits(w) ==
  /\ pc[w] \in {"lock", "notified"}
  /\ \/ Takes(w)
     \/ /\ queue = <<>>
        /\ pc' = [pc EXCEPT ![w] = IF isDone THEN "ended" ELSE "waiting"]
        /\ UNCHANGED <<queue, runs>>
  /\ UNCHANGED <<now, done, tasks, lock, due, late, interrupted, isDone, until,
                 forever, limit, dtor>>

Returns(w) ==
  /\ pc[w] = "run"
  /\ pc' = [pc EXCEPT ![w] = "pop"]
  /\ UNCHANGED <<now, done, tasks, lock, due, late, interrupted, queue, isDone, until,
                 forever, limit, runs, dtor>>

-----------------------------------------------------------------------------
(* ~Scheduler, when no thread outside is in a call: the flag, the sleeper,   *)
(* then the pool's stop(true), which joins every thread.                     *)
Destroys ==
  /\ dtor = "none"
  /\ \A t \in Callers : pc[t] = "idle"
  /\ done' = TRUE
  /\ dtor' = "interrupt"
  /\ UNCHANGED <<now, tasks, lock, due, late, interrupted, queue, isDone, pc, until,
                 forever, limit, runs>>

DestructorInterrupts ==
  /\ dtor = "interrupt"
  /\ Interrupt(pc)
  /\ dtor' = "stop"
  /\ UNCHANGED <<now, done, tasks, lock, due, late, queue, isDone, until, forever,
                 limit, runs>>

StopsPool ==
  /\ dtor = "stop"
  /\ isDone' = TRUE
  /\ dtor' = "notify"
  /\ UNCHANGED <<now, done, tasks, lock, due, late, interrupted, queue, pc, until,
                 forever, limit, runs>>

NotifyAll(p) ==
  [t \in Threads |-> IF p[t] = "waiting" THEN "notified" ELSE p[t]]

NotifiesPool ==
  /\ dtor = "notify"
  /\ pc' = NotifyAll(pc)
  /\ dtor' = "join"
  /\ UNCHANGED <<now, done, tasks, lock, due, late, interrupted, queue, isDone, until,
                 forever, limit, runs>>

Joins ==
  /\ dtor = "join"
  /\ \A w \in Workers : pc[w] = "ended"
  /\ dtor' = "destroyed"
  /\ UNCHANGED <<now, done, tasks, lock, due, late, interrupted, queue, isDone, pc,
                 until, forever, limit, runs>>

-----------------------------------------------------------------------------
LoopStep ==
  \/ Checks \/ FindsSleepTime \/ SleepEnds \/ SleepBegins \/ Manages
  \/ (\E i \in Tasks : Pushes(i)) \/ Notifies \/ ManageEnds

WorkerStep(w) == Pops(w) \/ Waits(w) \/ Returns(w)

DestructorStep ==
  DestructorInterrupts \/ StopsPool \/ NotifiesPool \/ Joins

Add(t) == \E i \in Tasks, time \in 0 .. Horizon : Adds(t, i, time)

Next ==
  \/ Tick \/ LoopStep \/ Destroys \/ DestructorStep
  \/ \E w \in Workers : WorkerStep(w)
  \/ \E t \in Threads : Add(t) \/ Interrupts(t)

Spec == Init /\ [][Next]_vars

(* The threads run and time passes; whether a task is added, and whether the *)
(* scheduler is destroyed, is up to the callers.                             *)
FairSpec ==
  /\ Spec
  /\ WF_vars(Tick) /\ WF_vars(LoopStep) /\ WF_vars(DestructorStep)
  /\ \A w \in Workers : WF_vars(WorkerStep(w))
  /\ \A t \in Threads : WF_vars(Interrupts(t))
-----------------------------------------------------------------------------
(* The type of every variable, and which program points a thread can reach. *)
TypeOK ==
  /\ now \in Nat /\ limit \in Nat /\ until \in Int
  /\ done \in BOOLEAN /\ isDone \in BOOLEAN /\ interrupted \in BOOLEAN
  /\ forever \in BOOLEAN
  /\ tasks \subseteq Tasks /\ queue \in Seq(Tasks)
  /\ lock \in Threads \cup {Nobody}
  /\ due \in [Tasks -> Int] /\ late \subseteq Tasks
  /\ pc \in [Threads -> LoopStates \cup PoolStates \cup {"idle"}]
  /\ \A t \in Threads : /\ pc[t] \in LoopStates => t = Loop
                        /\ pc[t] = "idle" => t \in Callers
                        /\ t \in Callers => pc[t] \in {"idle", "adding"}
  /\ runs \in [Tasks -> Nat]
  /\ dtor \in {"none", "interrupt", "stop", "notify", "join", "destroyed"}

(* No task leaves the scheduler before its time. *)
NoneEarly == \A i \in Tasks \ tasks : due[i] <= now

(* The loop sleeps no longer than until its first task: a task added after   *)
(* it looked has raised the flag, or is about to.                            *)
WakesInTime ==
  /\ pc[Loop] \in {"sleep", "asleep"}
  /\ ~interrupted
  /\ \A t \in Threads : pc[t] # "adding"
  => \A i \in tasks : ~forever /\ until <= due[i]

(* A queue that is not empty has a thread that will pop from it: one that is *)
(* not waiting, one about to be notified, or the loop's own after its end.   *)
PoolWakes ==
  queue # <<>> =>
    \/ \E w \in Workers : pc[w] \in {"pop", "lock", "notified", "run", "adding"}
    \/ pc[Loop] = "notify"
    \/ done /\ pc[Loop] \in LoopStates

(* Once the destructor has interrupted the sleeper, the loop does not sleep  *)
(* again: the flag it finds is its own.                                      *)
LoopHearsDestructor ==
  dtor \in {"stop", "notify", "join", "destroyed"} =>
    /\ pc[Loop] # "asleep"
    /\ pc[Loop] \in {"find", "sleep"} => interrupted

(* Nor is a thread of the pool left waiting once it is told to end: none      *)
(* waits that has not heard, so the destructor joins threads that go on.      *)
NoneLeftAsleep ==
  dtor \in {"join", "destroyed"} => pc[Loop] # "asleep" /\ \A w \in Workers : pc[w] # "waiting"

(* Who holds the lock, and what the flag means where the loop is. *)
LockInv ==
  /\ \A t \in Threads : lock = t <=> pc[t] \in {"adding", "push", "notify"}
  /\ pc[Loop] = "asleep" => ~interrupted
  /\ pc[Loop] = "woken" => interrupted
  /\ limit <= now

(* How far the destructor is tells which flags are up and which threads may end. *)
DoneInv ==
  /\ done <=> dtor # "none"
  /\ isDone <=> dtor \in {"notify", "join", "destroyed"}
  /\ \A w \in Workers : pc[w] = "ended" => isDone
  /\ pc[Loop] \in PoolStates => done

(* The inductive invariant. *)
IInv ==
  /\ TypeOK /\ LockInv /\ DoneInv
  /\ NoneEarly /\ WakesInTime /\ PoolWakes /\ LoopHearsDestructor

(* A task that was scheduled is in the scheduler, in the pool's queue, or    *)
(* was started, and is in one of these places only and once: whatever adds,  *)
(* wake-ups and destruction interleave, none is lost or run twice.           *)
Queued(i) == {n \in DOMAIN queue : queue[n] = i}

NoneLostOrRepeated ==
  \A i \in Tasks :
    (IF i \in tasks THEN 1 ELSE 0) + Cardinality(Queued(i)) + runs[i]
      = IF due[i] = -1 THEN 0 ELSE 1

(* What waits was put in order: a task is overtaken in the pool's queue, or on *)
(* the way there, only if it came late.                                      *)
QueueInOrder ==
  \A m, n \in DOMAIN queue :
    m < n /\ due[queue[n]] < due[queue[m]] => queue[n] \in late

QueueIsFirst ==
  \A m \in DOMAIN queue, j \in tasks : due[j] < due[queue[m]] => j \in late

OrderInv == NoneLostOrRepeated /\ QueueInOrder /\ QueueIsFirst

(* The scheduler and its pool are one queue of tasks, each of which is         *)
(* started once, not before its time and in the order of the times; whatever  *)
(* adds, sleeps, wake-ups and the destructor interleave, none is forgotten.    *)
Waiting == tasks \cup {i \in Tasks : Queued(i) # {}}
Started == {i \in Tasks : runs[i] > 0}

Abstract == INSTANCE TaskQueue WITH waiting <- Waiting, started <- Started
ImplementsTaskQueue == Abstract!Spec

(* A scheduled task is started, unless the scheduler is destroyed. *)
DueTasksRun == \A i \in Tasks : due[i] # -1 ~> runs[i] > 0 \/ done

(* "The destructor waits for all the functions in the queue to be finished": *)
(* what the pool has, it runs, the loop's last pushes included.              *)
QueuedTasksRun == \A i \in Tasks : Queued(i) # {} ~> runs[i] > 0

(* The destructor returns. *)
DestructorReturns == dtor # "none" ~> dtor = "destroyed"
=============================================================================
