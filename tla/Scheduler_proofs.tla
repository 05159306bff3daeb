-------------------------- MODULE Scheduler_proofs --------------------------
(***************************************************************************)
(* Proofs about Scheduler, for any pool, callers, tasks and horizon.        *)
(***************************************************************************)
EXTENDS Scheduler, SequenceTheorems, FiniteSetTheorems, FunctionTheorems, TLAPS

(* The type of pc, and who can be where. *)
PcType ==
  /\ pc \in [Threads -> LoopStates \cup PoolStates \cup {"idle"}]
  /\ \A t \in Threads : /\ pc[t] \in LoopStates => t = Loop
                        /\ pc[t] = "idle" => t \in Callers
                        /\ t \in Callers => pc[t] \in {"idle", "adding"}

(* The type of the other variables. *)
DataType ==
  /\ now \in Nat /\ limit \in Nat /\ until \in Int
  /\ done \in BOOLEAN /\ isDone \in BOOLEAN /\ interrupted \in BOOLEAN
  /\ forever \in BOOLEAN
  /\ tasks \subseteq Tasks /\ queue \in Seq(Tasks)
  /\ lock \in Threads \cup {Nobody}
  /\ due \in [Tasks -> Int] /\ late \subseteq Tasks
  /\ runs \in [Tasks -> Nat]
  /\ dtor \in {"none", "interrupt", "stop", "notify", "join", "destroyed"}

(* TypeOK is the two together. *)
LEMMA TypeParts == TypeOK <=> PcType /\ DataType
BY DEF TypeOK, PcType, DataType

(* The loop has a thread of the pool, and no caller of its own. *)
LEMMA LoopIsAThread == /\ Loop \in Threads /\ Loop \in Workers /\ Loop \notin Callers
                       /\ Nobody \notin Threads
BY WorkersAssumption, ThreadsAssumption DEF Threads

(* The scheduler starts in a state of the invariant. *)
LEMMA InitInv == Init => IInv
<1> SUFFICES ASSUME Init PROVE IInv
  OBVIOUS
<1> USE LoopIsAThread
<1>1. PcType
  BY ThreadsAssumption DEF Init, PcType, Threads, LoopStates, PoolStates
<1>2. DataType
  <2>1. <<>> \in Seq(Tasks)
    OBVIOUS
  <2>2. due \in [Tasks -> Int] /\ runs \in [Tasks -> Nat]
    BY DEF Init
  <2>3. queue \in Seq(Tasks)
    BY <2>1 DEF Init
  <2>4. /\ now \in Nat /\ limit \in Nat /\ until \in Int
        /\ tasks \subseteq Tasks /\ late \subseteq Tasks /\ lock \in Threads \cup {Nobody}
    BY DEF Init
  <2>5. /\ done \in BOOLEAN /\ isDone \in BOOLEAN
        /\ interrupted \in BOOLEAN /\ forever \in BOOLEAN
        /\ dtor \in {"none", "interrupt", "stop", "notify", "join", "destroyed"}
    BY DEF Init
  <2> QED
    BY <2>2, <2>3, <2>4, <2>5 DEF DataType
<1>3. pc[Loop] = "check" /\ \A t \in Threads : pc[t] \in {"check", "pop", "idle"}
  BY DEF Init, Threads
<1>4. LockInv /\ DoneInv
  BY <1>3 DEF Init, LockInv, DoneInv, PoolStates, Threads
<1>5. NoneEarly /\ WakesInTime /\ PoolWakes /\ LoopHearsDestructor
  BY <1>3 DEF Init, NoneEarly, WakesInTime, PoolWakes, LoopHearsDestructor
<1> QED
  BY <1>1, <1>2, <1>4, <1>5, TypeParts DEF IInv

(* What the steps that move more than one thread do to pc. *)
LEMMA InterruptsPc ==
  ASSUME PcType, NEW t \in Threads, Interrupts(t)
  PROVE  /\ pc[t] = "adding" /\ pc'[t] = IF t \in Workers THEN "run" ELSE "idle"
         /\ pc' \in [Threads -> LoopStates \cup PoolStates \cup {"idle"}]
         /\ \A u \in Threads \ {t} : pc'[u] = IF u = Loop /\ pc[u] = "asleep"
                                              THEN "woken" ELSE pc[u]
BY LoopIsAThread DEF Interrupts, Interrupt, PcType, LoopStates, PoolStates

(* The destructor's interruption keeps the types of the threads. *)
LEMMA DestructorInterruptsPc ==
  ASSUME PcType, DestructorInterrupts
  PROVE  /\ pc' \in [Threads -> LoopStates \cup PoolStates \cup {"idle"}]
         /\ \A u \in Threads : pc'[u] = IF u = Loop /\ pc[u] = "asleep"
                                        THEN "woken" ELSE pc[u]
BY LoopIsAThread DEF DestructorInterrupts, Interrupt, PcType, LoopStates, PoolStates

(* A notification keeps the types of the threads. *)
LEMMA NotifiesPc ==
  ASSUME PcType, Notifies
  PROVE  /\ pc[Loop] = "notify" /\ pc'[Loop] = "push"
         /\ pc' \in [Threads -> LoopStates \cup PoolStates \cup {"idle"}]
         /\ \A u \in Threads \ {Loop} :
              pc'[u] = pc[u] \/ (u \in Workers /\ pc[u] = "waiting" /\ pc'[u] = "notified")
         /\ \/ \A w \in Workers \ {Loop} : pc[w] # "waiting"
            \/ \E w \in Workers : pc'[w] = "notified"
<1> DEFINE p == [pc EXCEPT ![Loop] = "push"]
<1>1. /\ p \in [Threads -> LoopStates \cup PoolStates \cup {"idle"}]
      /\ p[Loop] = "push" /\ \A u \in Threads \ {Loop} : p[u] = pc[u]
  BY LoopIsAThread DEF PcType, LoopStates, PoolStates
<1>2. pc[Loop] = "notify" /\ pc' \in NotifyOne(p)
  BY DEF Notifies
<1> HIDE DEF p
<1>3. CASE {w \in Workers : p[w] = "waiting"} = {}
  <2>1. pc' = p
    BY <1>2, <1>3 DEF NotifyOne
  <2>2. \A w \in Workers \ {Loop} : pc[w] # "waiting"
    BY <1>1, <1>3 DEF Threads
  <2> QED
    BY <1>1, <1>2, <2>1, <2>2
<1>4. CASE {w \in Workers : p[w] = "waiting"} # {}
  <2>1. PICK w \in Workers : p[w] = "waiting" /\ pc' = [p EXCEPT ![w] = "notified"]
    BY <1>2, <1>4 DEF NotifyOne
  <2>2. w \in Threads /\ w # Loop
    BY <1>1, <2>1 DEF Threads
  <2>3. pc' \in [Threads -> LoopStates \cup PoolStates \cup {"idle"}]
    BY <1>1, <2>1 DEF PoolStates
  <2>4. /\ pc'[Loop] = "push" /\ pc'[w] = "notified" /\ pc[w] = "waiting"
        /\ \A u \in Threads \ {Loop, w} : pc'[u] = pc[u]
    BY <1>1, <2>1, <2>2, LoopIsAThread
  <2> QED
    BY <1>2, <2>3, <2>4
<1> QED
  BY <1>3, <1>4

(* Every step keeps the types. *)
LEMMA TypeStep == ASSUME IInv, Next PROVE PcType' /\ DataType'
<1> USE LoopIsAThread
<1>0. PcType /\ DataType /\ LockInv /\ DoneInv
  BY TypeParts DEF IInv
<1>1. PcType'
  <2>1. CASE Tick \/ Destroys \/ StopsPool \/ Joins
    BY <1>0, <2>1 DEF Tick, Destroys, StopsPool, Joins, PcType
  <2>2. CASE Checks \/ FindsSleepTime \/ SleepEnds \/ SleepBegins \/ Manages \/ ManageEnds
    <3>1. \E x \in LoopStates \cup {"pop"} : pc' = [pc EXCEPT ![Loop] = x]
      BY <2>2 DEF Checks, FindsSleepTime, SleepEnds, SleepBegins, Manages, ManageEnds,
         LoopStates
    <3> QED
      BY <1>0, <3>1 DEF PcType, PoolStates, LoopStates
  <2>3. ASSUME NEW i \in Tasks, Pushes(i) PROVE PcType'
    BY <1>0, <2>3 DEF Pushes, PcType, LoopStates, PoolStates
  <2>4. CASE Notifies
    BY <1>0, <2>4, NotifiesPc, ThreadsAssumption DEF PcType, LoopStates, PoolStates
  <2>5. CASE DestructorInterrupts
    BY <1>0, <2>5, DestructorInterruptsPc DEF PcType, LoopStates, PoolStates
  <2>6. CASE NotifiesPool
    BY <1>0, <2>6 DEF NotifiesPool, NotifyAll, PcType, LoopStates, PoolStates
  <2>7. ASSUME NEW w \in Workers, WorkerStep(w) PROVE PcType'
    <3>1. \E x \in PoolStates : pc' = [pc EXCEPT ![w] = x]
      BY <2>7 DEF WorkerStep, Pops, Waits, Returns, Takes, PoolStates
    <3>2. w \in Threads /\ w \notin Callers
      BY ThreadsAssumption DEF Threads
    <3> QED
      BY <1>0, <3>1, <3>2 DEF PcType, PoolStates, LoopStates
  <2>8. ASSUME NEW t \in Threads, Add(t) PROVE PcType'
    <3>1. pc' = [pc EXCEPT ![t] = "adding"]
      BY <2>8 DEF Add, Adds
    <3> QED
      BY <1>0, <3>1 DEF PcType, PoolStates, LoopStates
  <2>9. ASSUME NEW t \in Threads, Interrupts(t) PROVE PcType'
    BY <1>0, <2>9, InterruptsPc, ThreadsAssumption DEF PcType, LoopStates, PoolStates, Threads
  <2> QED
    BY <2>1, <2>2, <2>3, <2>4, <2>5, <2>6, <2>7, <2>8, <2>9
    DEF Next, LoopStep, DestructorStep
<1>2. DataType'
  <2>1. CASE Tick
    BY <1>0, <2>1 DEF Tick, DataType
  <2>8. CASE Destroys \/ StopsPool \/ NotifiesPool \/ Joins
    BY <1>0, <2>8 DEF Destroys, StopsPool, NotifiesPool, Joins, DataType
  <2>9. CASE DestructorInterrupts
    BY <1>0, <2>9 DEF DestructorInterrupts, Interrupt, Raised, DataType
  <2>2. CASE Checks \/ SleepBegins \/ Manages \/ ManageEnds \/ Notifies
    BY <1>0, <2>2 DEF Checks, SleepBegins, Manages, ManageEnds, Notifies, Present, DataType
  <2>10. CASE SleepEnds
    <3>1. UNCHANGED <<now, limit, done, isDone, tasks, queue, lock, due, late, runs, dtor>>
      BY <2>10 DEF SleepEnds
    <3>2. until' \in Int
      BY <2>10 DEF SleepEnds
    <3>3. interrupted' \in BOOLEAN /\ forever' \in BOOLEAN
      BY <2>10, Zenon DEF SleepEnds
    <3> QED
      BY <1>0, <3>1, <3>2, <3>3 DEF DataType
  <2>3. CASE FindsSleepTime
    BY <1>0, <2>3 DEF FindsSleepTime, DataType
  <2>4. ASSUME NEW i \in Tasks, Pushes(i) PROVE DataType'
    <3>1. Append(queue, i) \in Seq(Tasks)
      BY <1>0, AppendProperties DEF DataType
    <3> QED
      BY <1>0, <2>4, <3>1 DEF Pushes, DataType
  <2>5. ASSUME NEW w \in Workers, WorkerStep(w) PROVE DataType'
    <3>1. CASE Takes(w)
      <4>1. Tail(queue) \in Seq(Tasks) /\ Head(queue) \in Tasks
        BY <1>0, <3>1, HeadTailProperties DEF DataType, Takes
      <4>2. runs' \in [Tasks -> Nat]
        BY <1>0, <3>1, <4>1 DEF DataType, Takes
      <4> QED
        BY <1>0, <2>5, <3>1, <4>1, <4>2 DEF DataType, Takes, WorkerStep, Pops, Waits, Returns
    <3>2. CASE UNCHANGED <<queue, runs>>
      BY <1>0, <2>5, <3>2 DEF DataType, WorkerStep, Pops, Waits, Returns
    <3> QED
      BY <2>5, <3>1, <3>2 DEF WorkerStep, Pops, Waits, Returns
  <2>6. ASSUME NEW t \in Threads, NEW i \in Tasks, NEW time \in 0 .. Horizon,
               Adds(t, i, time)
        PROVE  DataType'
    <3>1. time \in Int
      BY <1>0, HorizonAssumption DEF DataType
    <3> QED
      BY <1>0, <2>6, <3>1 DEF Adds, DataType
  <2>7. ASSUME NEW t \in Threads, Interrupts(t) PROVE DataType'
    BY <1>0, <2>7 DEF Interrupts, Interrupt, Raised, DataType
  <2> QED
    BY <2>1, <2>2, <2>3, <2>4, <2>5, <2>6, <2>7, <2>8, <2>9, <2>10
    DEF Next, LoopStep, DestructorStep, Add
<1> QED
  BY <1>1, <1>2

(* Every step keeps the lock with the one thread that is in its section, and  *)
(* the flag in agreement with the sleep.                                      *)
LEMMA LockStep == ASSUME IInv, Next PROVE LockInv'
<1> USE LoopIsAThread
<1>0. PcType /\ DataType /\ LockInv
  BY TypeParts DEF IInv
<1>1. CASE Tick \/ Destroys \/ StopsPool \/ Joins
  BY <1>0, <1>1 DEF Tick, Destroys, StopsPool, Joins, LockInv, DataType
<1>2. CASE Checks \/ FindsSleepTime \/ SleepEnds \/ SleepBegins
  BY <1>0, <1>2 DEF Checks, FindsSleepTime, SleepEnds, SleepBegins, LockInv, PcType
<1>3. CASE Manages
  BY <1>0, <1>3 DEF Manages, Present, Free, LockInv, PcType, DataType
<1>4. CASE ManageEnds
  BY <1>0, <1>4 DEF ManageEnds, LockInv, PcType, DataType
<1>5. ASSUME NEW i \in Tasks, Pushes(i) PROVE LockInv'
  BY <1>0, <1>5 DEF Pushes, LockInv, PcType
<1>6. CASE Notifies
  <2>1. /\ pc[Loop] = "notify" /\ pc'[Loop] = "push"
        /\ \A u \in Threads \ {Loop} : pc'[u] = pc[u] \/ (pc[u] = "waiting" /\ pc'[u] = "notified")
    BY <1>0, <1>6, NotifiesPc
  <2>2. UNCHANGED <<lock, interrupted, limit, now>>
    BY <1>6 DEF Notifies
  <2> QED
    BY <1>0, <2>1, <2>2 DEF LockInv
<1>7. CASE DestructorInterrupts
  <2>1. UNCHANGED <<lock, limit, now>> /\ interrupted'
    BY <1>7 DEF DestructorInterrupts, Interrupt, Raised
  <2>2. \A u \in Threads : pc'[u] = IF u = Loop /\ pc[u] = "asleep" THEN "woken" ELSE pc[u]
    BY <1>0, <1>7, DestructorInterruptsPc
  <2> QED
    BY <1>0, <2>1, <2>2 DEF LockInv
<1>8. CASE NotifiesPool
  <2>1. \A u \in Threads : pc'[u] = IF pc[u] = "waiting" THEN "notified" ELSE pc[u]
    BY <1>8 DEF NotifiesPool, NotifyAll
  <2>2. UNCHANGED <<lock, interrupted, limit, now>>
    BY <1>8 DEF NotifiesPool
  <2> QED
    BY <1>0, <2>1, <2>2 DEF LockInv
<1>9. ASSUME NEW w \in Workers, WorkerStep(w) PROVE LockInv'
  <2>1. \E x \in {"run", "lock", "ended", "waiting", "pop"} : pc' = [pc EXCEPT ![w] = x]
    BY <1>9 DEF WorkerStep, Pops, Waits, Returns, Takes
  <2>2. UNCHANGED <<lock, interrupted, limit, now>>
    BY <1>9 DEF WorkerStep, Pops, Waits, Returns
  <2>3. pc[w] \in {"pop", "lock", "notified", "run"} /\ w \in Threads
    BY <1>9 DEF WorkerStep, Pops, Waits, Returns, Threads
  <2> QED
    BY <1>0, <2>1, <2>2, <2>3 DEF LockInv, PcType
<1>10. ASSUME NEW t \in Threads, Add(t) PROVE LockInv'
  <2>1. /\ pc' = [pc EXCEPT ![t] = "adding"] /\ lock' = t /\ Free
        /\ UNCHANGED <<interrupted, limit, now>>
        /\ pc[t] \in {"run", "idle"}
    BY <1>10 DEF Add, Adds, Threads
  <2> QED
    BY <1>0, <2>1 DEF LockInv, PcType, Free
<1>11. ASSUME NEW t \in Threads, Interrupts(t) PROVE LockInv'
  <2>1. /\ pc[t] = "adding" /\ pc'[t] \in {"run", "idle"}
        /\ \A u \in Threads \ {t} : pc'[u] = IF u = Loop /\ pc[u] = "asleep"
                                             THEN "woken" ELSE pc[u]
    BY <1>0, <1>11, InterruptsPc
  <2>2. UNCHANGED <<limit, now>> /\ interrupted' /\ lock' = Nobody
    BY <1>11 DEF Interrupts, Interrupt, Raised
  <2>3. lock = t
    BY <1>0, <2>1 DEF LockInv
  <2>4. \A u \in Threads : pc'[u] \notin {"adding", "push", "notify"}
    BY <1>0, <2>1, <2>3 DEF LockInv
  <2> QED
    BY <1>0, <2>1, <2>2, <2>4 DEF LockInv
<1> QED
  BY <1>1, <1>2, <1>3, <1>4, <1>5, <1>6, <1>7, <1>8, <1>9, <1>10, <1>11
  DEF Next, LoopStep, DestructorStep

(* Every step keeps the flags in agreement with the destructor's progress. *)
LEMMA DoneStep == ASSUME IInv, Next PROVE DoneInv'
<1> USE LoopIsAThread
<1>0. PcType /\ DataType /\ LockInv /\ DoneInv
  BY TypeParts DEF IInv
<1>1. CASE Destroys \/ StopsPool \/ Joins
  BY <1>0, <1>1 DEF Destroys, StopsPool, Joins, DoneInv
<1>2. CASE DestructorInterrupts
  <2>1. \A u \in Threads : pc'[u] = IF u = Loop /\ pc[u] = "asleep" THEN "woken" ELSE pc[u]
    BY <1>0, <1>2, DestructorInterruptsPc
  <2> QED
    BY <1>0, <1>2, <2>1 DEF DestructorInterrupts, DoneInv, PoolStates, Threads
<1>3. CASE NotifiesPool
  <2>1. \A u \in Threads : pc'[u] = IF pc[u] = "waiting" THEN "notified" ELSE pc[u]
    BY <1>3 DEF NotifiesPool, NotifyAll
  <2> QED
    BY <1>0, <1>3, <2>1 DEF NotifiesPool, DoneInv, PoolStates, Threads
<1>4. CASE \/ Tick \/ (\E t \in Threads : Add(t) \/ Interrupts(t))
           \/ (\E w \in Workers : WorkerStep(w)) \/ LoopStep
  <2>1. UNCHANGED <<done, isDone, dtor>>
    BY <1>4 DEF Tick, Add, Adds, Interrupts, WorkerStep, Pops, Waits, Returns,
       LoopStep, Checks, FindsSleepTime, SleepEnds, SleepBegins, Manages, Pushes,
       Notifies, ManageEnds
  <2>2. \A w \in Workers : pc'[w] = "ended" => pc[w] = "ended" \/ isDone
    <3>1. CASE Tick
      BY <3>1 DEF Tick
    <3>2. ASSUME NEW t \in Threads, Interrupts(t)
          PROVE  \A w \in Workers : pc'[w] = "ended" => pc[w] = "ended"
      BY <1>0, <3>2, InterruptsPc DEF Threads
    <3>3. ASSUME NEW t \in Threads, Add(t)
          PROVE  \A w \in Workers : pc'[w] = "ended" => pc[w] = "ended"
      BY <1>0, <3>3 DEF Add, Adds, PcType, Threads
    <3>4. ASSUME NEW v \in Workers, WorkerStep(v)
          PROVE  \A w \in Workers : pc'[w] = "ended" => pc[w] = "ended" \/ isDone
      BY <1>0, <3>4 DEF WorkerStep, Pops, Waits, Returns, Takes, PcType, Threads
    <3>5. CASE Notifies
      BY <1>0, <3>5, NotifiesPc DEF Threads
    <3>6. CASE \/ Checks \/ FindsSleepTime \/ SleepEnds \/ SleepBegins \/ Manages
               \/ (\E i \in Tasks : Pushes(i)) \/ ManageEnds
      BY <1>0, <3>6 DEF Checks, FindsSleepTime, SleepEnds, SleepBegins, Manages,
         Pushes, ManageEnds, PcType, Threads
    <3> QED
      BY <1>4, <3>1, <3>2, <3>3, <3>4, <3>5, <3>6 DEF LoopStep
  <2>3. pc'[Loop] \in PoolStates => pc[Loop] \in PoolStates \/ done
    <3>1. CASE Tick
      BY <3>1 DEF Tick
    <3>2. ASSUME NEW t \in Threads, Interrupts(t)
          PROVE  pc'[Loop] \in PoolStates => pc[Loop] \in PoolStates
      BY <1>0, <3>2, InterruptsPc DEF PoolStates
    <3>3. ASSUME NEW t \in Threads, Add(t)
          PROVE  pc'[Loop] \in PoolStates => pc[Loop] \in PoolStates
      BY <1>0, <3>3 DEF Add, Adds, PcType, PoolStates
    <3>4. ASSUME NEW v \in Workers, WorkerStep(v)
          PROVE  pc'[Loop] \in PoolStates => pc[Loop] \in PoolStates
      BY <1>0, <3>4 DEF WorkerStep, Pops, Waits, Returns, Takes, PcType, PoolStates
    <3>5. CASE Notifies
      BY <1>0, <3>5, NotifiesPc DEF PoolStates
    <3>6. CASE \/ Checks \/ FindsSleepTime \/ SleepEnds \/ SleepBegins \/ Manages
               \/ (\E i \in Tasks : Pushes(i)) \/ ManageEnds
      BY <1>0, <3>6 DEF Checks, FindsSleepTime, SleepEnds, SleepBegins, Manages,
         Pushes, ManageEnds, PcType, PoolStates
    <3> QED
      BY <1>4, <3>1, <3>2, <3>3, <3>4, <3>5, <3>6 DEF LoopStep
  <2> QED
    BY <1>0, <2>1, <2>2, <2>3 DEF DoneInv
<1> QED
  BY <1>1, <1>2, <1>3, <1>4 DEF Next, DestructorStep

(* Every step keeps tasks in the scheduler until their time: what is pushed   *)
(* was due at the reading of the clock.                                       *)
LEMMA EarlyStep == ASSUME IInv, Next PROVE NoneEarly'
<1>0. DataType /\ LockInv /\ NoneEarly
  BY TypeParts DEF IInv
<1>1. CASE Tick
  BY <1>0, <1>1 DEF Tick, NoneEarly, DataType
<1>2. ASSUME NEW i \in Tasks, Pushes(i) PROVE NoneEarly'
  BY <1>0, <1>2 DEF Pushes, NoneEarly, LockInv, DataType
<1>3. ASSUME NEW t \in Threads, Add(t) PROVE NoneEarly'
  BY <1>0, <1>3 DEF Add, Adds, NoneEarly, DataType
<1>4. CASE UNCHANGED <<tasks, due, now>>
  BY <1>0, <1>4 DEF NoneEarly
<1>5. CASE \/ Destroys \/ DestructorStep \/ (\E w \in Workers : WorkerStep(w))
           \/ \E t \in Threads : Interrupts(t)
  BY <1>4, <1>5 DEF Destroys, DestructorStep, DestructorInterrupts, StopsPool, NotifiesPool,
     Joins, WorkerStep, Pops, Waits, Returns, Interrupts
<1>6. CASE \/ Checks \/ FindsSleepTime \/ SleepEnds \/ SleepBegins \/ Manages
           \/ Notifies \/ ManageEnds
  BY <1>4, <1>6 DEF Checks, FindsSleepTime, SleepEnds, SleepBegins, Manages,
     Notifies, ManageEnds
<1> QED
  BY <1>1, <1>2, <1>3, <1>5, <1>6 DEF Next, LoopStep

(* Every step keeps the sleep no longer than the first task, or leaves the    *)
(* flag up, or the task's thread about to raise it.                           *)
LEMMA WakesStep == ASSUME IInv, Next PROVE WakesInTime'
<1> USE LoopIsAThread
<1>0. PcType /\ DataType /\ LockInv /\ WakesInTime
  BY TypeParts DEF IInv
<1>1. CASE FindsSleepTime
  BY <1>0, <1>1 DEF FindsSleepTime, WakesInTime, Earliest, DataType, PcType
<1>2. CASE SleepBegins
  BY <1>0, <1>2 DEF SleepBegins, WakesInTime, PcType
<1>3. CASE \/ Checks \/ SleepEnds \/ Manages \/ ManageEnds
           \/ (\E i \in Tasks : Pushes(i))
  <2>1. pc'[Loop] \notin {"sleep", "asleep"}
    BY <1>0, <1>3 DEF Checks, SleepEnds, Manages, ManageEnds, Pushes, PcType
  <2> QED
    BY <2>1 DEF WakesInTime
<1>4. CASE Notifies
  BY <1>0, <1>4, NotifiesPc DEF WakesInTime
<1>5. ASSUME NEW t \in Threads, Interrupts(t) PROVE WakesInTime'
  BY <1>5 DEF Interrupts, Interrupt, Raised, WakesInTime
<1>6. CASE DestructorInterrupts
  BY <1>6 DEF DestructorInterrupts, Interrupt, Raised, WakesInTime
<1>7. ASSUME NEW t \in Threads, Add(t) PROVE WakesInTime'
  <2>1. pc'[t] = "adding"
    BY <1>0, <1>7 DEF Add, Adds, PcType
  <2> QED
    BY <2>1 DEF WakesInTime
<1>8. ASSUME UNCHANGED <<interrupted, tasks, forever, until, due>>,
             \A t \in Threads : pc[t] = "adding" => pc'[t] = "adding",
             pc'[Loop] \in {"sleep", "asleep"} => pc[Loop] \in {"sleep", "asleep"}
      PROVE  WakesInTime'
  BY <1>0, <1>8 DEF WakesInTime
<1>9. CASE Tick \/ Destroys \/ StopsPool \/ Joins
  BY <1>8, <1>9 DEF Tick, Destroys, StopsPool, Joins
<1>10. CASE NotifiesPool
  BY <1>8, <1>10 DEF NotifiesPool, NotifyAll
<1>11. ASSUME NEW w \in Workers, WorkerStep(w) PROVE WakesInTime'
  <2>1. /\ pc[w] \in {"pop", "lock", "notified", "run"}
        /\ \E x \in {"run", "lock", "ended", "waiting", "pop"} : pc' = [pc EXCEPT ![w] = x]
        /\ UNCHANGED <<interrupted, tasks, forever, until, due>>
    BY <1>11 DEF WorkerStep, Pops, Waits, Returns, Takes
  <2>2. w \in Threads
    BY DEF Threads
  <2> QED
    BY <1>0, <1>8, <2>1, <2>2 DEF PcType
<1> QED
  BY <1>1, <1>2, <1>3, <1>4, <1>5, <1>6, <1>7, <1>9, <1>10, <1>11
  DEF Next, LoopStep, DestructorStep

(* Every step leaves a queue that is not empty with a thread that pops it. *)
LEMMA PoolStep == ASSUME IInv, Next PROVE PoolWakes'
<1> USE LoopIsAThread
<1>0. PcType /\ DataType /\ LockInv /\ DoneInv /\ PoolWakes
  BY TypeParts DEF IInv
<1> DEFINE Busy == {"pop", "lock", "notified", "run", "adding"}
<1>1. ASSUME NEW i \in Tasks, Pushes(i) PROVE PoolWakes'
  BY <1>0, <1>1 DEF Pushes, PoolWakes, PcType
<1>2. CASE Notifies
  <2>1. CASE \E w \in Workers : pc'[w] = "notified"
    BY <2>1 DEF PoolWakes
  <2>2. CASE \A w \in Workers \ {Loop} : pc[w] # "waiting"
    <3>1. PICK w \in Workers \ {Loop} : TRUE
      BY WorkersAssumption
    <3>2. w \in Threads /\ w \notin Callers
      BY ThreadsAssumption DEF Threads
    <3>3. pc[w] \in Busy \cup {"ended"} /\ pc'[w] = pc[w]
      BY <1>0, <1>2, <2>2, <3>1, <3>2, NotifiesPc DEF PcType, PoolStates
    <3>4. pc[w] = "ended" => done' /\ pc'[Loop] \in LoopStates
      BY <1>0, <1>2, <3>1, NotifiesPc DEF DoneInv, Notifies, LoopStates
    <3> QED
      BY <3>3, <3>4 DEF PoolWakes
  <2> QED
    BY <1>0, <1>2, <2>1, <2>2, NotifiesPc
<1>3. ASSUME queue' = queue, done => done',
             \A w \in Workers : pc[w] \in Busy => pc'[w] \in Busy,
             pc[Loop] = "notify" => pc'[Loop] = "notify",
             pc[Loop] \in LoopStates /\ done => pc'[Loop] \in LoopStates \cup Busy
      PROVE  PoolWakes'
  BY <1>0, <1>3 DEF PoolWakes
<1> HIDE DEF Busy
<1>4. CASE \/ Checks \/ FindsSleepTime \/ SleepEnds \/ SleepBegins \/ Manages
           \/ ManageEnds
  <2>1. /\ pc[Loop] \in {"check", "find", "sleep", "asleep", "woken", "manage", "push"}
        /\ UNCHANGED <<queue, done>>
        /\ \E x \in LoopStates \cup {"pop"} : pc' = [pc EXCEPT ![Loop] = x]
    BY <1>4 DEF Checks, FindsSleepTime, SleepEnds, SleepBegins, Manages, ManageEnds,
       LoopStates
  <2> QED
    BY <1>0, <1>3, <2>1 DEF PcType, Busy, Threads
<1>5. CASE Tick \/ Destroys \/ StopsPool \/ Joins
  BY <1>3, <1>5 DEF Tick, Destroys, StopsPool, Joins
<1>6. CASE DestructorInterrupts
  <2>1. queue' = queue /\ done' = done
    BY <1>6 DEF DestructorInterrupts
  <2> QED
    BY <1>0, <1>3, <1>6, <2>1, DestructorInterruptsPc DEF Busy, LoopStates, Threads
<1>7. CASE NotifiesPool
  BY <1>0, <1>3, <1>7 DEF NotifiesPool, NotifyAll, Busy, LoopStates, Threads
<1>8. ASSUME NEW w \in Workers, WorkerStep(w) PROVE PoolWakes'
  <2>0. w \in Threads
    BY DEF Threads
  <2>1. CASE Returns(w)
    BY <1>0, <1>3, <2>0, <2>1 DEF Returns, PcType, Busy, Threads
  <2>2. CASE Takes(w)
    <3>1. pc'[w] = "run"
      BY <1>0, <2>0, <2>2 DEF Takes, PcType
    <3> QED
      BY <3>1 DEF PoolWakes
  <2>3. CASE queue' = <<>>
    BY <2>3 DEF PoolWakes
  <2> QED
    BY <1>8, <2>1, <2>2, <2>3 DEF WorkerStep, Pops, Waits
<1>9. ASSUME NEW t \in Threads, Add(t) PROVE PoolWakes'
  <2>1. /\ pc' = [pc EXCEPT ![t] = "adding"] /\ pc[t] \in {"run", "idle"}
        /\ queue' = queue /\ done' = done
    BY <1>9 DEF Add, Adds, Threads
  <2> QED
    BY <1>0, <1>3, <2>1 DEF PcType, Busy, LoopStates, Threads
<1>10. ASSUME NEW t \in Threads, Interrupts(t) PROVE PoolWakes'
  <2>1. queue' = queue /\ done' = done
    BY <1>10 DEF Interrupts
  <2> QED
    BY <1>0, <1>3, <1>10, <2>1, InterruptsPc DEF PcType, Busy, LoopStates, Threads
<1> QED
  BY <1>1, <1>2, <1>4, <1>5, <1>6, <1>7, <1>8, <1>9, <1>10
  DEF Next, LoopStep, DestructorStep

(* Every step after the destructor's interruption keeps the loop from sleep. *)
LEMMA HearsStep == ASSUME IInv, Next PROVE LoopHearsDestructor'
<1> USE LoopIsAThread
<1>0. PcType /\ DataType /\ LockInv /\ DoneInv /\ LoopHearsDestructor
  BY TypeParts DEF IInv
<1>1. CASE DestructorInterrupts
  BY <1>0, <1>1, DestructorInterruptsPc
  DEF DestructorInterrupts, Interrupt, Raised, LoopHearsDestructor
<1>2. CASE Checks
  BY <1>0, <1>2 DEF Checks, LoopHearsDestructor, DoneInv, PcType
<1>3. CASE FindsSleepTime \/ SleepBegins
  BY <1>0, <1>3 DEF FindsSleepTime, SleepBegins, LoopHearsDestructor, PcType
<1>4. CASE \/ SleepEnds \/ Manages \/ ManageEnds \/ (\E i \in Tasks : Pushes(i))
  <2>1. pc'[Loop] \notin {"find", "sleep", "asleep"}
    BY <1>0, <1>4 DEF SleepEnds, Manages, ManageEnds, Pushes, PcType
  <2> QED
    BY <2>1 DEF LoopHearsDestructor
<1>5. CASE Notifies
  BY <1>0, <1>5, NotifiesPc DEF LoopHearsDestructor
<1>6. ASSUME \/ dtor' = dtor
             \/ dtor' \in {"none", "interrupt"}
             \/ dtor \in {"stop", "notify", "join"},
             interrupted => interrupted',
             \/ pc'[Loop] = pc[Loop]
             \/ pc'[Loop] \notin {"find", "sleep", "asleep"}
      PROVE  LoopHearsDestructor'
  BY <1>0, <1>6 DEF LoopHearsDestructor
<1>7. CASE Tick \/ Destroys \/ StopsPool \/ Joins
  BY <1>6, <1>7 DEF Tick, Destroys, StopsPool, Joins
<1>8. CASE NotifiesPool
  BY <1>6, <1>8 DEF NotifiesPool, NotifyAll
<1>9. ASSUME NEW w \in Workers, WorkerStep(w) PROVE LoopHearsDestructor'
  <2>1. /\ \E x \in {"run", "lock", "ended", "waiting", "pop"} : pc' = [pc EXCEPT ![w] = x]
        /\ UNCHANGED <<interrupted, dtor>>
    BY <1>9 DEF WorkerStep, Pops, Waits, Returns, Takes
  <2> QED
    BY <1>0, <1>6, <2>1 DEF PcType, Threads
<1>10. ASSUME NEW t \in Threads, Add(t) PROVE LoopHearsDestructor'
  <2>1. pc' = [pc EXCEPT ![t] = "adding"] /\ UNCHANGED <<interrupted, dtor>>
    BY <1>10 DEF Add, Adds
  <2> QED
    BY <1>0, <1>6, <2>1 DEF PcType
<1>11. ASSUME NEW t \in Threads, Interrupts(t) PROVE LoopHearsDestructor'
  <2>1. dtor' = dtor /\ interrupted'
    BY <1>11 DEF Interrupts, Interrupt, Raised
  <2> QED
    BY <1>0, <1>6, <1>11, <2>1, InterruptsPc
<1> QED
  BY <1>1, <1>2, <1>3, <1>4, <1>5, <1>7, <1>8, <1>9, <1>10, <1>11
  DEF Next, LoopStep, DestructorStep

(* Every step keeps the inductive invariant. *)
LEMMA StepInv == IInv /\ [Next]_vars => IInv'
<1>1. ASSUME IInv, Next PROVE IInv'
  <2>1. TypeOK'
    BY <1>1, TypeStep DEF TypeOK, PcType, DataType
  <2> QED
    BY <1>1, <2>1, LockStep, DoneStep, EarlyStep, WakesStep, PoolStep, HearsStep DEF IInv
<1>2. ASSUME IInv, UNCHANGED vars PROVE IInv'
  <2>1. TypeOK'
    BY <1>2 DEF IInv, TypeOK, vars
  <2>2. LockInv' /\ DoneInv' /\ NoneEarly'
    BY <1>2 DEF IInv, LockInv, DoneInv, NoneEarly, vars
  <2>3. WakesInTime' /\ PoolWakes' /\ LoopHearsDestructor'
    BY <1>2 DEF IInv, WakesInTime, PoolWakes, LoopHearsDestructor, vars
  <2> QED
    BY <2>1, <2>2, <2>3 DEF IInv
<1> QED
  BY <1>1, <1>2

(* The scheduler never leaves its inductive invariant: one holder of the      *)
(* lock, flags in step with the destructor, and the properties below.         *)
THEOREM InductiveInvariant == Spec => []IInv
<1>1. Init => IInv
  BY InitInv
<1>2. IInv /\ [Next]_vars => IInv'
  BY StepInv
<1> QED
  BY <1>1, <1>2, PTL DEF Spec

(* Every variable keeps its type, and every thread its own program points. *)
THEOREM TypeCorrect == Spec => []TypeOK
<1>1. IInv => TypeOK
  BY DEF IInv
<1> QED
  BY <1>1, InductiveInvariant, PTL

(* No task is pushed to the pool before the time in() was given. *)
THEOREM NoneEarlyCorrect == Spec => []NoneEarly
<1>1. IInv => NoneEarly
  BY DEF IInv
<1> QED
  BY <1>1, InductiveInvariant, PTL

(* add_task never leaves the loop asleep beyond the first task: no wake-up    *)
(* is lost between find_sleep_time and the wait.                              *)
THEOREM WakesCorrect == Spec => []WakesInTime
<1>1. IInv => WakesInTime
  BY DEF IInv
<1> QED
  BY <1>1, InductiveInvariant, PTL

(* thread_pool::push never leaves a task in the queue with nobody to pop it,  *)
(* for any pool of at least one thread beside the loop's.                     *)
THEOREM PoolCorrect == Spec => []PoolWakes
<1>1. IInv => PoolWakes
  BY DEF IInv
<1> QED
  BY <1>1, InductiveInvariant, PTL

(* The destructor's interruption is never lost to the loop. *)
THEOREM DestructorCorrect == Spec => []LoopHearsDestructor
<1>1. IInv => LoopHearsDestructor
  BY DEF IInv
<1> QED
  BY <1>1, InductiveInvariant, PTL

(* Once isDone is set, a thread of the pool that looks at an empty queue ends,  *)
(* and those that waited before were all notified.                            *)
LEMMA AsleepStep == ASSUME IInv, IInv', NoneLeftAsleep, Next PROVE NoneLeftAsleep'
<1> USE LoopIsAThread
<1> DEFINE AllHeard == \A w \in Workers : pc[w] # "waiting"
<1>1. /\ PcType /\ DataType /\ DoneInv /\ Workers \subseteq Threads
      /\ dtor' \in {"join", "destroyed"} => pc'[Loop] # "asleep"
  BY TypeParts DEF IInv, LoopHearsDestructor, Threads
<1> SUFFICES ASSUME dtor' \in {"join", "destroyed"} PROVE AllHeard'
  BY <1>1 DEF NoneLeftAsleep
<1>2. CASE NotifiesPool
  BY <1>1, <1>2 DEF NotifiesPool, NotifyAll
<1>3. CASE ~NotifiesPool
  <2>1. dtor \in {"join", "destroyed"}
    BY <1>1, <1>3 DEF Next, Tick, LoopStep, Checks, FindsSleepTime, SleepEnds, SleepBegins,
       Manages, Pushes, Notifies, ManageEnds, Destroys, DestructorStep, DestructorInterrupts,
       StopsPool, Joins, WorkerStep, Pops, Waits, Returns, Add, Adds, Interrupts
  <2>2. AllHeard /\ isDone
    BY <1>1, <2>1 DEF NoneLeftAsleep, DoneInv
  <2>3. ASSUME NEW t \in Threads, NEW x, x # "waiting", pc' = [pc EXCEPT ![t] = x]
        PROVE  AllHeard'
    BY <1>1, <2>2, <2>3 DEF PcType
  <2>4. CASE UNCHANGED pc
    BY <2>2, <2>4
  <2>5. CASE Tick \/ Destroys \/ StopsPool \/ Joins \/ DestructorInterrupts
    BY <2>1, <2>4, <2>5 DEF Tick, Destroys, StopsPool, Joins, DestructorInterrupts
  <2>6. CASE \/ Checks \/ FindsSleepTime \/ SleepEnds \/ SleepBegins \/ Manages
             \/ ManageEnds \/ \E i \in Tasks : Pushes(i)
    BY <2>3, <2>6 DEF Checks, FindsSleepTime, SleepEnds, SleepBegins, Manages,
       ManageEnds, Pushes
  <2>7. CASE Notifies
    BY <1>1, <2>2, <2>7, NotifiesPc
  <2>8. ASSUME NEW w \in Workers, WorkerStep(w) PROVE AllHeard'
    <3>1. \E x \in {"run", "lock", "ended", "pop"} : pc' = [pc EXCEPT ![w] = x]
      BY <2>2, <2>8 DEF WorkerStep, Pops, Waits, Returns, Takes
    <3> QED
      BY <1>1, <2>3, <3>1
  <2>9. ASSUME NEW t \in Threads, Add(t) PROVE AllHeard'
    BY <2>3, <2>9 DEF Add, Adds
  <2>10. ASSUME NEW t \in Threads, Interrupts(t) PROVE AllHeard'
    BY <1>1, <2>2, <2>10, InterruptsPc
  <2> QED
    BY <1>3, <2>5, <2>6, <2>7, <2>8, <2>9, <2>10 DEF Next, LoopStep, DestructorStep
<1> QED
  BY <1>2, <1>3

(* The destructor, at its join, leaves no thread asleep: what QueuedTasksRun    *)
(* and DestructorReturns need besides fairness.                               *)
THEOREM AsleepCorrect == Spec => []NoneLeftAsleep
<1>1. Init => NoneLeftAsleep
  BY DEF Init, NoneLeftAsleep
<1>2. NoneLeftAsleep /\ UNCHANGED vars => NoneLeftAsleep'
  BY DEF NoneLeftAsleep, vars
<1>3. IInv /\ IInv' /\ NoneLeftAsleep /\ [Next]_vars => NoneLeftAsleep'
  BY <1>2, AsleepStep
<1> QED
  BY <1>1, <1>3, InductiveInvariant, PTL DEF Spec

-----------------------------------------------------------------------------
(* Where a task is in a queue, and what appending and taking do to it. *)
Positions(q, i) == {n \in DOMAIN q : q[n] = i}

(* A task has finitely many positions in a queue. *)
LEMMA PositionsFinite ==
  ASSUME NEW S, NEW q \in Seq(S), NEW i
  PROVE  IsFiniteSet(Positions(q, i)) /\ Cardinality(Positions(q, i)) \in Nat
<1>1. Positions(q, i) \subseteq 1 .. Len(q) /\ Len(q) \in Nat
  BY LenProperties DEF Positions
<1>2. IsFiniteSet(1 .. Len(q))
  BY <1>1, FS_Interval
<1> QED
  BY <1>1, <1>2, FS_Subset, FS_CardinalityType

(* A push adds one position of its task, and none of another. *)
LEMMA AppendCounts ==
  ASSUME NEW S, NEW q \in Seq(S), NEW i \in S, NEW j \in S
  PROVE  Cardinality(Positions(Append(q, j), i))
           = IF i = j THEN Cardinality(Positions(q, i)) + 1 ELSE Cardinality(Positions(q, i))
<1> DEFINE r == Append(q, j)
<1>1. /\ Len(q) \in Nat /\ r \in Seq(S)
      /\ DOMAIN q = 1 .. Len(q) /\ DOMAIN r = 1 .. Len(q) + 1
      /\ \A n \in 1 .. Len(q) : r[n] = q[n]
      /\ r[Len(q) + 1] = j
  BY AppendProperties, LenProperties
<1> HIDE DEF r
<1>2. Positions(r, i) = IF i = j THEN Positions(q, i) \cup {Len(q) + 1} ELSE Positions(q, i)
  BY <1>1 DEF Positions
<1>3. Len(q) + 1 \notin Positions(q, i)
  BY <1>1 DEF Positions
<1>4. IsFiniteSet(Positions(q, i))
  BY PositionsFinite
<1>5. Cardinality(Positions(q, i) \cup {Len(q) + 1}) = Cardinality(Positions(q, i)) + 1
  BY <1>3, <1>4, FS_AddElement
<1>6. Cardinality(Positions(r, i))
        = IF i = j THEN Cardinality(Positions(q, i)) + 1 ELSE Cardinality(Positions(q, i))
  BY <1>2, <1>5
<1> QED
  BY <1>6 DEF r

(* A pop takes one position of the task at the head, and none of another. *)
LEMMA TailCounts ==
  ASSUME NEW S, NEW q \in Seq(S), q # <<>>, NEW i \in S
  PROVE  Cardinality(Positions(Tail(q), i))
           = IF i = Head(q) THEN Cardinality(Positions(q, i)) - 1 ELSE Cardinality(Positions(q, i))
<1> DEFINE r == Tail(q)
           Rest == Positions(q, i) \ {1}
<1>1. /\ Len(q) \in Nat \ {0} /\ Head(q) = q[1]
      /\ DOMAIN q = 1 .. Len(q) /\ DOMAIN r = 1 .. Len(q) - 1
      /\ \A n \in 1 .. Len(q) - 1 : r[n] = q[n + 1]
  BY HeadTailProperties, LenProperties, EmptySeq
<1>2. IsFiniteSet(Positions(q, i)) /\ Cardinality(Positions(q, i)) \in Nat
  BY PositionsFinite
<1> HIDE DEF r
<1>3. Cardinality(Rest)
        = IF i = Head(q) THEN Cardinality(Positions(q, i)) - 1 ELSE Cardinality(Positions(q, i))
  <2>1. 1 \in Positions(q, i) <=> i = Head(q)
    BY <1>1 DEF Positions
  <2> QED
    BY <1>2, <2>1, FS_RemoveElement
<1>4. ExistsBijection(Rest, Positions(r, i))
  <2> DEFINE shift == [n \in Rest |-> n - 1]
  <2>1. \A n \in Rest : n \in 2 .. Len(q) /\ q[n] = i
    BY <1>1 DEF Positions
  <2>2. \A n \in Rest : n - 1 \in Positions(r, i)
    BY <1>1, <2>1 DEF Positions
  <2>3. \A m \in Positions(r, i) : m \in Int /\ m + 1 \in Rest
    BY <1>1 DEF Positions
  <2> HIDE DEF Rest
  <2>4. shift \in Injection(Rest, Positions(r, i))
    <3>1. shift \in [Rest -> Positions(r, i)]
      BY <2>2
    <3>2. \A a, b \in Rest : shift[a] = shift[b] => a = b
      BY <2>1
    <3> HIDE DEF shift
    <3> QED
      BY <3>1, <3>2, Fun_IsInj
  <2>5. shift \in Surjection(Rest, Positions(r, i))
    <3>1. ASSUME NEW m \in Positions(r, i) PROVE \E n \in Rest : shift[n] = m
      <4>1. m + 1 \in Rest /\ shift[m + 1] = m
        BY <2>3
      <4> QED
        BY <4>1
    <3>2. shift \in [Rest -> Positions(r, i)]
      BY <2>2
    <3> QED
      BY <3>1, <3>2 DEF Surjection
  <2> QED
    BY <2>4, <2>5 DEF ExistsBijection, Bijection
<1>5. Cardinality(Positions(r, i)) = Cardinality(Rest)
  <2>1. IsFiniteSet(Rest)
    BY <1>2, FS_RemoveElement
  <2> QED
    BY <1>4, <2>1, FS_Bijection
<1> QED
  BY <1>3, <1>5 DEF r

(* Queued, as the positions in the queue. *)
LEMMA QueuedPositions == \A i : Queued(i) = Positions(queue, i)
BY DEF Queued, Positions

(* Every step moves a task from one of its places to the next. *)
LEMMA PlacesStep ==
  ASSUME TypeOK, NoneLostOrRepeated, Next PROVE NoneLostOrRepeated'
<1>0. DataType
  BY TypeParts
<1>1. ASSUME UNCHANGED <<tasks, queue, runs, due>> PROVE NoneLostOrRepeated'
  BY <1>1 DEF NoneLostOrRepeated, Queued
<1> DEFINE Places(i) == (IF i \in tasks THEN 1 ELSE 0)
                          + Cardinality(Positions(queue, i)) + runs[i]
<1>2. \A i \in Tasks : /\ Places(i) = IF due[i] = -1 THEN 0 ELSE 1
                       /\ Cardinality(Positions(queue, i)) \in Nat
  BY <1>0, QueuedPositions, PositionsFinite DEF NoneLostOrRepeated, DataType
<1>3. ASSUME \A i \in Tasks : Places(i)' = IF due'[i] = -1 THEN 0 ELSE 1
      PROVE  NoneLostOrRepeated'
  BY <1>3 DEF NoneLostOrRepeated, Queued, Positions
<1>4. ASSUME NEW t \in Threads, NEW i \in Tasks, NEW time \in 0 .. Horizon,
             Adds(t, i, time)
      PROVE  NoneLostOrRepeated'
  <2>1. time \in Nat
    BY <1>0, HorizonAssumption DEF DataType
  <2>2. i \notin tasks /\ Places(i) = 0 /\ due[i] = -1
    BY <1>0, <1>2, <1>4 DEF Adds, DataType
  <2>3. /\ tasks' = tasks \cup {i} /\ UNCHANGED <<queue, runs>>
        /\ due'[i] = time /\ \A j \in Tasks \ {i} : due'[j] = due[j]
    BY <1>0, <1>4 DEF Adds, DataType
  <2>4. ASSUME NEW j \in Tasks PROVE Places(j)' = IF due'[j] = -1 THEN 0 ELSE 1
    <3>1. Cardinality(Positions(queue, j)) \in Nat /\ runs[j] \in Nat /\ i \in Tasks
      BY <1>0, <1>2 DEF DataType
    <3>2. CASE j = i
      <4>1. due'[j] # -1 /\ j \in tasks' /\ j \notin tasks
        BY <2>1, <2>2, <2>3, <3>2
      <4> QED
        BY <2>2, <2>3, <3>1, <3>2, <4>1
    <3>3. CASE j # i
      <4>1. due'[j] = due[j] /\ (j \in tasks' <=> j \in tasks)
        BY <2>3, <3>3
      <4> QED
        BY <1>2, <2>3, <4>1
    <3> QED
      BY <3>2, <3>3
  <2> QED
    BY <1>3, <2>4
<1>5. ASSUME NEW i \in Tasks, Pushes(i) PROVE NoneLostOrRepeated'
  <2>1. /\ i \in tasks /\ tasks' = tasks \ {i} /\ queue' = Append(queue, i)
        /\ UNCHANGED <<due, runs>>
    BY <1>5 DEF Pushes
  <2>2. \A j \in Tasks : Cardinality(Positions(queue', j))
          = IF j = i THEN Cardinality(Positions(queue, j)) + 1
            ELSE Cardinality(Positions(queue, j))
    BY <1>0, <2>1, AppendCounts DEF DataType
  <2>3. ASSUME NEW j \in Tasks PROVE Places(j)' = IF due'[j] = -1 THEN 0 ELSE 1
    BY <1>0, <1>2, <2>1, <2>2 DEF DataType
  <2> QED
    BY <1>3, <2>3
<1>6. ASSUME NEW w \in Workers, Takes(w), UNCHANGED <<tasks, due>> PROVE NoneLostOrRepeated'
  <2>1. /\ queue # <<>> /\ queue' = Tail(queue) /\ Head(queue) \in Tasks
        /\ runs' = [runs EXCEPT ![Head(queue)] = @ + 1]
    BY <1>0, <1>6, HeadTailProperties DEF Takes, DataType
  <2>2. \A j \in Tasks : Cardinality(Positions(queue', j))
          = IF j = Head(queue) THEN Cardinality(Positions(queue, j)) - 1
            ELSE Cardinality(Positions(queue, j))
    BY <1>0, <2>1, TailCounts DEF DataType
  <2>3. ASSUME NEW j \in Tasks PROVE Places(j)' = IF due'[j] = -1 THEN 0 ELSE 1
    <3>1. /\ Cardinality(Positions(queue, j)) \in Nat
          /\ runs[j] \in Nat
          /\ runs'[j] = IF j = Head(queue) THEN runs[j] + 1 ELSE runs[j]
      BY <1>0, <1>2, <2>1 DEF DataType
    <3>2. Places(j)' = Places(j)
      BY <1>6, <2>2, <3>1
    <3> QED
      BY <1>2, <1>6, <3>2
  <2> QED
    BY <1>3, <2>3
<1>7. ASSUME NEW w \in Workers, WorkerStep(w) PROVE NoneLostOrRepeated'
  BY <1>1, <1>6, <1>7 DEF WorkerStep, Pops, Waits, Returns
<1>8. CASE Tick \/ Destroys \/ DestructorStep \/ \E t \in Threads : Interrupts(t)
  BY <1>1, <1>8 DEF Tick, Destroys, DestructorStep, DestructorInterrupts, StopsPool,
     NotifiesPool, Joins, Interrupts
<1>9. CASE \/ Checks \/ FindsSleepTime \/ SleepEnds \/ SleepBegins \/ Manages
           \/ Notifies \/ ManageEnds
  BY <1>1, <1>9 DEF Checks, FindsSleepTime, SleepEnds, SleepBegins, Manages,
     Notifies, ManageEnds
<1> HIDE DEF Places
<1> QED
  BY <1>4, <1>5, <1>7, <1>8, <1>9 DEF Next, LoopStep, Add

(* At the beginning no task is scheduled, and none is anywhere. *)
LEMMA InitPlaces == Init => NoneLostOrRepeated
<1> SUFFICES ASSUME Init, NEW i \in Tasks
             PROVE  (IF i \in tasks THEN 1 ELSE 0) + Cardinality(Queued(i)) + runs[i]
                      = IF due[i] = -1 THEN 0 ELSE 1
  BY DEF NoneLostOrRepeated
<1>1. Queued(i) = {}
  BY DEF Init, Queued
<1> QED
  BY <1>1, FS_EmptySet DEF Init

(* A task given to in() is never lost, run twice or in two places, for any    *)
(* number of threads and tasks and however its steps interleave.              *)
THEOREM TasksCorrect == Spec => []NoneLostOrRepeated
<1>1. Init => NoneLostOrRepeated
  BY InitPlaces
<1>2. TypeOK /\ NoneLostOrRepeated /\ [Next]_vars => NoneLostOrRepeated'
  <2>1. CASE UNCHANGED vars
    BY <2>1 DEF vars, NoneLostOrRepeated, Queued
  <2> QED
    BY <2>1, PlacesStep
<1> QED
  BY <1>1, <1>2, TypeCorrect, PTL DEF Spec
-----------------------------------------------------------------------------
(* A task is in no place before it is scheduled, and then in one. *)
LEMMA OnePlace ==
  ASSUME TypeOK, NoneLostOrRepeated, NEW i \in Tasks
  PROVE  /\ due[i] = -1 => i \notin tasks /\ Queued(i) = {} /\ runs[i] = 0
         /\ i \in tasks => Queued(i) = {} /\ runs[i] = 0
         /\ Queued(i) # {} => i \notin tasks /\ runs[i] = 0 /\ Cardinality(Queued(i)) = 1
<1>1. DataType
  BY TypeParts
<1>2. IsFiniteSet(Queued(i)) /\ Cardinality(Queued(i)) \in Nat /\ runs[i] \in Nat
  BY <1>1, QueuedPositions, PositionsFinite DEF DataType
<1>3. Cardinality(Queued(i)) = 0 <=> Queued(i) = {}
  BY <1>2, FS_EmptySet
<1>4. (IF i \in tasks THEN 1 ELSE 0) + Cardinality(Queued(i)) + runs[i]
        = IF due[i] = -1 THEN 0 ELSE 1
  BY DEF NoneLostOrRepeated
<1> DEFINE n == Cardinality(Queued(i))
           r == runs[i]
<1>5. n \in Nat /\ r \in Nat
  BY <1>2
<1> HIDE DEF n, r
<1>6. CASE i \in tasks
  <2>1. 1 + n + r = IF due[i] = -1 THEN 0 ELSE 1
    BY <1>4, <1>6 DEF n, r
  <2>2. n = 0 /\ r = 0 /\ due[i] # -1
    BY <1>5, <2>1
  <2> QED
    BY <1>3, <1>6, <2>2 DEF n, r
<1>7. CASE i \notin tasks
  <2>1. n + r = IF due[i] = -1 THEN 0 ELSE 1
    BY <1>4, <1>5, <1>7 DEF n, r
  <2>2. (due[i] = -1 => n = 0 /\ r = 0) /\ (n # 0 => n = 1 /\ r = 0)
    BY <1>5, <2>1
  <2> QED
    BY <1>3, <1>7, <2>2 DEF n, r
<1> QED
  BY <1>6, <1>7

(* A task in the queue is scheduled, for a time that has come. *)
LEMMA QueuedAreDue ==
  ASSUME IInv, NoneLostOrRepeated, NEW m \in DOMAIN queue
  PROVE  /\ queue[m] \in Tasks \ tasks /\ m \in Queued(queue[m])
         /\ due[queue[m]] # -1 /\ due[queue[m]] <= now
<1>1. TypeOK /\ DataType
  BY TypeParts DEF IInv
<1>2. queue[m] \in Tasks /\ m \in Queued(queue[m])
  BY <1>1 DEF DataType, Queued
<1>3. queue[m] \notin tasks /\ due[queue[m]] # -1
  BY <1>1, <1>2, OnePlace
<1> QED
  BY <1>2, <1>3 DEF IInv, NoneEarly

(* What a push does to the queue, place by place. *)
LEMMA PushPlaces ==
  ASSUME DataType, NEW i \in Tasks, Pushes(i)
  PROVE  /\ Len(queue) \in Nat
         /\ DOMAIN queue = 1 .. Len(queue) /\ DOMAIN queue' = 1 .. Len(queue) + 1
         /\ queue'[Len(queue) + 1] = i /\ \A n \in DOMAIN queue : queue'[n] = queue[n]
BY AppendProperties, LenProperties DEF Pushes, DataType

(* What a pop does to the queue, place by place. *)
LEMMA PopPlaces ==
  ASSUME DataType, NEW w \in Workers, Takes(w)
  PROVE  /\ Len(queue) \in Nat /\ Len(queue) > 0 /\ Head(queue) = queue[1]
         /\ DOMAIN queue = 1 .. Len(queue) /\ DOMAIN queue' = 1 .. Len(queue) - 1
         /\ \A n \in DOMAIN queue' : queue'[n] = queue[n + 1]
BY HeadTailProperties, LenProperties, EmptySeq DEF Takes, DataType

(* Every step keeps what waits in order. *)
LEMMA OrderStep == ASSUME IInv, OrderInv, Next PROVE OrderInv'
<1>1. TypeOK /\ DataType /\ NoneLostOrRepeated /\ QueueInOrder /\ QueueIsFirst
  BY TypeParts DEF IInv, OrderInv
<1>2. NoneLostOrRepeated'
  BY <1>1, PlacesStep
<1>3. ASSUME UNCHANGED <<tasks, queue, due, late>> PROVE QueueInOrder' /\ QueueIsFirst'
  BY <1>1, <1>3 DEF QueueInOrder, QueueIsFirst
<1>4. ASSUME NEW t \in Threads, NEW i \in Tasks, NEW time \in 0 .. Horizon, Adds(t, i, time)
      PROVE  QueueInOrder' /\ QueueIsFirst'
  <2>1. /\ tasks' = tasks \cup {i} /\ queue' = queue /\ due[i] = -1
        /\ due'[i] = time /\ \A j \in Tasks \ {i} : due'[j] = due[j]
        /\ late \subseteq late' /\ (time < now => i \in late')
    BY <1>1, <1>4 DEF Adds, DataType
  <2>2. \A m \in DOMAIN queue :
          queue[m] \in Tasks \ {i} /\ due'[queue[m]] = due[queue[m]] /\ due[queue[m]] <= now
    BY <1>1, <2>1, QueuedAreDue
  <2>3. QueueInOrder'
    BY <1>1, <2>1, <2>2 DEF QueueInOrder
  <2>4. ASSUME NEW m \in DOMAIN queue, NEW j \in tasks \cup {i}, due'[j] < due'[queue[m]]
        PROVE  j \in late'
    <3>1. CASE j = i
      <4>1. time < due[queue[m]] /\ due[queue[m]] <= now /\ due[queue[m]] \in Int
        BY <1>1, <2>1, <2>2, <2>4, <3>1 DEF DataType
      <4>2. time < now
        BY <1>1, <4>1 DEF DataType
      <4> QED
        BY <2>1, <3>1, <4>2
    <3>2. CASE j \in tasks \ {i}
      <4>1. due'[j] = due[j]
        BY <1>1, <2>1, <3>2 DEF DataType
      <4> QED
        BY <1>1, <2>1, <2>2, <2>4, <3>2, <4>1 DEF QueueIsFirst
    <3> QED
      BY <3>1, <3>2
  <2> QED
    BY <2>1, <2>3, <2>4 DEF QueueIsFirst
<1>5. ASSUME NEW i \in Tasks, Pushes(i) PROVE QueueInOrder' /\ QueueIsFirst'
  <2>1. /\ i \in tasks /\ tasks' = tasks \ {i} /\ UNCHANGED <<due, late>>
        /\ \A j \in tasks : due[i] <= due[j]
    BY <1>5 DEF Pushes, Earliest
  <2>2. \A j \in Tasks : due[j] \in Int
    BY <1>1 DEF DataType
  <2>3. \A m \in DOMAIN queue' :
          \/ m \in DOMAIN queue /\ queue'[m] = queue[m]
          \/ queue'[m] = i /\ m = Len(queue) + 1
    <3>1. /\ Len(queue) \in Nat
          /\ DOMAIN queue = 1 .. Len(queue) /\ DOMAIN queue' = 1 .. Len(queue) + 1
          /\ queue'[Len(queue) + 1] = i /\ \A n \in DOMAIN queue : queue'[n] = queue[n]
      BY <1>1, <1>5, PushPlaces
    <3> TAKE m \in DOMAIN queue'
    <3>2. m \in DOMAIN queue \/ m = Len(queue) + 1
      BY <3>1
    <3> QED
      BY <3>1, <3>2
  <2>4. QueueInOrder'
    <3> SUFFICES ASSUME NEW m \in DOMAIN queue', NEW n \in DOMAIN queue', m < n,
                        due[queue'[n]] < due[queue'[m]]
                 PROVE  queue'[n] \in late
      BY <2>1 DEF QueueInOrder
    <3>1. m \in DOMAIN queue /\ queue'[m] = queue[m]
      BY <1>1, <1>5, PushPlaces
    <3> QED
      BY <1>1, <2>1, <2>3, <3>1 DEF QueueInOrder, QueueIsFirst
  <2>5. QueueIsFirst'
    <3> SUFFICES ASSUME NEW m \in DOMAIN queue', NEW j \in tasks \ {i}, due[j] < due[queue'[m]]
                 PROVE  j \in late
      BY <2>1 DEF QueueIsFirst
    <3>1. queue'[m] # i
      BY <1>1, <2>1, <2>2 DEF DataType
    <3> QED
      BY <1>1, <2>3, <3>1 DEF QueueIsFirst
  <2> QED
    BY <2>4, <2>5
<1>6. ASSUME NEW w \in Workers, Takes(w), UNCHANGED <<tasks, due, late>>
      PROVE  QueueInOrder' /\ QueueIsFirst'
  <2>1. \A n \in DOMAIN queue' : n \in Int /\ n + 1 \in DOMAIN queue /\ queue'[n] = queue[n + 1]
    BY <1>1, <1>6, PopPlaces
  <2>2. QueueInOrder'
    <3> SUFFICES ASSUME NEW m \in DOMAIN queue', NEW n \in DOMAIN queue', m < n,
                        due[queue'[n]] < due[queue'[m]]
                 PROVE  queue'[n] \in late
      BY <1>6 DEF QueueInOrder
    <3>1. m + 1 < n + 1
      BY <2>1
    <3> QED
      BY <1>1, <2>1, <3>1 DEF QueueInOrder
  <2>3. QueueIsFirst'
    BY <1>1, <1>6, <2>1 DEF QueueIsFirst
  <2> QED
    BY <2>2, <2>3
<1>7. ASSUME NEW w \in Workers, WorkerStep(w) PROVE QueueInOrder' /\ QueueIsFirst'
  BY <1>3, <1>6, <1>7 DEF WorkerStep, Pops, Waits, Returns
<1>8. CASE Tick \/ Destroys \/ DestructorStep \/ \E t \in Threads : Interrupts(t)
  BY <1>2, <1>3, <1>8 DEF OrderInv, Tick, Destroys, DestructorStep, DestructorInterrupts, StopsPool,
     NotifiesPool, Joins, Interrupts
<1>9. CASE \/ Checks \/ FindsSleepTime \/ SleepEnds \/ SleepBegins \/ Manages
           \/ Notifies \/ ManageEnds
  BY <1>2, <1>3, <1>9 DEF OrderInv, Checks, FindsSleepTime, SleepEnds, SleepBegins, Manages,
     Notifies, ManageEnds
<1>10. ASSUME QueueInOrder' /\ QueueIsFirst' PROVE OrderInv'
  BY <1>2, <1>10 DEF OrderInv
<1> QED
  BY <1>4, <1>5, <1>7, <1>8, <1>9, <1>10 DEF Next, LoopStep, Add

(* A push leaves what waits as it is: the task goes from one place to another. *)
LEMMA PushStutters ==
  ASSUME IInv, OrderInv, NEW i \in Tasks, Pushes(i)
  PROVE  UNCHANGED Abstract!vars
<1>1. DataType
  BY TypeParts DEF IInv
<1>2. i \in tasks /\ tasks' = tasks \ {i} /\ UNCHANGED <<now, due, late, runs>>
  BY DEF Pushes
<1>3. /\ Len(queue) \in Nat
      /\ DOMAIN queue = 1 .. Len(queue) /\ DOMAIN queue' = 1 .. Len(queue) + 1
      /\ queue'[Len(queue) + 1] = i /\ \A n \in DOMAIN queue : queue'[n] = queue[n]
  BY <1>1, PushPlaces
<1>4. \A j \in Tasks : Queued(j)' # {} <=> Queued(j) # {} \/ j = i
  BY <1>3 DEF Queued
<1>5. Waiting' = Waiting
  BY <1>1, <1>2, <1>4 DEF Waiting, DataType
<1> QED
  BY <1>2, <1>5 DEF Abstract!vars, Started

(* A pop starts the task at the head: it waited, its time has come, and what  *)
(* waits for an earlier time came late.                                      *)
LEMMA PopStarts ==
  ASSUME IInv, OrderInv, NEW w \in Workers, Takes(w), UNCHANGED <<now, tasks, due, late>>
  PROVE  Abstract!Next
<1>1. TypeOK /\ DataType /\ NoneLostOrRepeated
  BY TypeParts DEF IInv, OrderInv
<1>h. PICK h : h = Head(queue)
  OBVIOUS
<1>2. /\ Len(queue) \in Nat /\ Len(queue) > 0 /\ h = queue[1] /\ 1 \in DOMAIN queue
      /\ DOMAIN queue = 1 .. Len(queue) /\ DOMAIN queue' = 1 .. Len(queue) - 1
      /\ \A n \in DOMAIN queue' : queue'[n] = queue[n + 1]
      /\ queue # <<>> /\ queue' = Tail(queue) /\ runs' = [runs EXCEPT ![h] = @ + 1]
  BY <1>1, <1>h, PopPlaces DEF Takes
<1>3. /\ h \in Tasks \ tasks /\ Queued(h) # {} /\ due[h] <= now
      /\ runs[h] = 0 /\ Cardinality(Queued(h)) = 1
  BY <1>1, <1>2, QueuedAreDue, OnePlace
<1>4. \A j \in Waiting : due[j] < due[h] => j \in late
  <2> SUFFICES ASSUME NEW j \in Waiting, due[j] < due[h] PROVE j \in late
    OBVIOUS
  <2>1. CASE j \in tasks
    BY <1>2, <2>1 DEF OrderInv, QueueIsFirst
  <2>2. CASE Queued(j) # {}
    <3>1. PICK n \in DOMAIN queue : queue[n] = j
      BY <2>2 DEF Queued
    <3>2. due[h] \in Int /\ n # 1
      BY <1>1, <1>2, <1>3, <3>1 DEF DataType
    <3> QED
      BY <1>2, <3>1, <3>2 DEF OrderInv, QueueInOrder
  <2> QED
    BY <2>1, <2>2 DEF Waiting
<1>5. Queued(h)' = {}
  <2>1. Cardinality(Positions(queue', h)) = 0
    BY <1>1, <1>h, <1>2, <1>3, TailCounts, QueuedPositions DEF DataType
  <2>2. queue' \in Seq(Tasks)
    BY <1>1, <1>2, HeadTailProperties DEF DataType
  <2>3. IsFiniteSet(Positions(queue', h))
    BY <2>2, PositionsFinite
  <2> QED
    BY <2>1, <2>3, FS_EmptySet DEF Queued, Positions
<1>6. \A j \in Tasks \ {h} : Queued(j)' # {} <=> Queued(j) # {}
  <2> TAKE j \in Tasks \ {h}
  <2>1. ASSUME NEW n \in Queued(j) PROVE n - 1 \in Queued(j)'
    BY <1>2, <2>1 DEF Queued
  <2>2. ASSUME NEW n \in Queued(j)' PROVE n + 1 \in Queued(j)
    BY <1>2, <2>2 DEF Queued
  <2>3. ASSUME Queued(j) # {} PROVE Queued(j)' # {}
    <3>1. PICK n \in Queued(j) : TRUE
      BY <2>3
    <3> QED
      BY <2>1, <3>1
  <2>4. ASSUME Queued(j)' # {} PROVE Queued(j) # {}
    <3>1. PICK n \in Queued(j)' : TRUE
      BY <2>4
    <3> QED
      BY <2>2, <3>1
  <2> QED
    BY <2>3, <2>4
<1>7. Waiting' = Waiting \ {h} /\ h \in Waiting
  BY <1>1, <1>3, <1>5, <1>6 DEF Waiting, DataType
<1>8. Started' = Started \cup {h}
  BY <1>1, <1>2, <1>3 DEF Started, DataType
<1>9. Abstract!Start(h)
  BY <1>3, <1>4, <1>7, <1>8 DEF Abstract!Start
<1> QED
  BY <1>3, <1>9 DEF Abstract!Next

(* Every other step of the loop, the pool and the destructor is nothing to it. *)
LEMMA AbstractStep ==
  ASSUME IInv, OrderInv, [Next]_vars
  PROVE  [Abstract!Next]_(Abstract!vars)
<1>1. ASSUME UNCHANGED <<now, due, late, tasks, queue, runs>> PROVE UNCHANGED Abstract!vars
  BY <1>1 DEF Abstract!vars, Waiting, Started, Queued
<1>2. CASE Tick
  <2>1. now' = now + 1 /\ UNCHANGED <<due, late, tasks, queue, runs>>
    BY <1>2 DEF Tick
  <2> QED
    BY <2>1 DEF Abstract!Next, Abstract!Tick, Waiting, Started, Queued
<1>3. ASSUME NEW t \in Threads, NEW i \in Tasks, NEW time \in 0 .. Horizon, Adds(t, i, time)
      PROVE  Abstract!Next
  <2>1. Abstract!Schedule(i, time)
    BY <1>3 DEF Adds, Abstract!Schedule, Waiting, Started, Queued
  <2> QED
    BY <2>1 DEF Abstract!Next
<1>4. ASSUME NEW w \in Workers, WorkerStep(w) PROVE Abstract!Next \/ UNCHANGED Abstract!vars
  BY <1>1, <1>4, PopStarts DEF WorkerStep, Pops, Waits, Returns
<1>5. CASE Destroys \/ DestructorStep \/ \E t \in Threads : Interrupts(t)
  BY <1>1, <1>5 DEF Destroys, DestructorStep, DestructorInterrupts, StopsPool,
     NotifiesPool, Joins, Interrupts
<1>6. CASE \/ Checks \/ FindsSleepTime \/ SleepEnds \/ SleepBegins \/ Manages
           \/ Notifies \/ ManageEnds
  BY <1>1, <1>6 DEF Checks, FindsSleepTime, SleepEnds, SleepBegins, Manages,
     Notifies, ManageEnds
<1>7. CASE UNCHANGED vars
  BY <1>1, <1>7 DEF vars
<1> QED
  BY <1>2, <1>3, <1>4, <1>5, <1>6, <1>7, PushStutters DEF Next, LoopStep, Add

(* The scheduler and its pool implement one queue of tasks: for any threads,  *)
(* tasks and times, a task given to in() is started once, not before its time *)
(* and, unless it came late, in the order of the times.                      *)
THEOREM TaskQueueCorrect == Spec => ImplementsTaskQueue
<1>1. Init => OrderInv
  <2> SUFFICES ASSUME Init PROVE OrderInv
    OBVIOUS
  <2>1. NoneLostOrRepeated
    BY InitPlaces
  <2>2. DOMAIN queue = {}
    BY DEF Init
  <2> QED
    BY <2>1, <2>2 DEF OrderInv, QueueInOrder, QueueIsFirst
<1>2. IInv /\ OrderInv /\ [Next]_vars => OrderInv'
  <2>1. ASSUME OrderInv, UNCHANGED vars PROVE OrderInv'
    BY <2>1 DEF OrderInv, NoneLostOrRepeated, QueueInOrder, QueueIsFirst, Queued, vars
  <2> QED
    BY <2>1, OrderStep
<1>3. Init => Abstract!Init
  BY DEF Init, Abstract!Init, Waiting, Started, Queued
<1>4. IInv /\ OrderInv /\ [Next]_vars => [Abstract!Next]_(Abstract!vars)
  BY AbstractStep
<1> QED
  BY <1>1, <1>2, <1>3, <1>4, InductiveInvariant, PTL DEF Spec, ImplementsTaskQueue, Abstract!Spec
=============================================================================
