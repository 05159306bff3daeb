-------------------- MODULE SimulationCoordinator_proofs --------------------
(***************************************************************************)
(* Proofs about SimulationCoordinator for every number of REST threads,    *)
(* users, definitions and running ids.                                     *)
(***************************************************************************)
EXTENDS SimulationCoordinator, TLAPS

(* The values the actions write belong to the types of the variables. *)
LEMMA Values ==
  /\ NoStatus \in Status /\ NoJob \in Job /\ Blank \in Row
  /\ \A st \in Status, t \in Times, l \in States :
       /\ [st EXCEPT !.state = l] \in Status
       /\ [st EXCEPT !.state = l, !.endTime = t] \in Status
       /\ [state |-> l, startTime |-> t, endTime |-> 0] \in Status
  /\ \A u \in Users \cup {NoId}, id \in SimIds \cup RunIds \cup {NoId} :
       [user |-> u, id |-> id] \in Job
<1>1. 0 \in Times
  BY TimeAssumption DEF Times
<1>2. /\ NoStatus \in Status /\ NoJob \in Job /\ Blank \in Row
  BY <1>1 DEF NoStatus, Status, NoJob, Job, Blank, Row
<1>3. ASSUME NEW st \in Status, NEW t \in Times, NEW l \in States
      PROVE  /\ [st EXCEPT !.state = l] \in Status
             /\ [st EXCEPT !.state = l, !.endTime = t] \in Status
             /\ [state |-> l, startTime |-> t, endTime |-> 0] \in Status
  BY <1>1 DEF Status
<1>4. ASSUME NEW u \in Users \cup {NoId}, NEW id \in SimIds \cup RunIds \cup {NoId}
      PROVE  [user |-> u, id |-> id] \in Job
  BY DEF Job
<1> QED
  BY <1>2, <1>3, <1>4

(* What GetCurrent returns is a row of the results table. *)
LEMMA GetCurrentType ==
  ASSUME TypeOK, NEW id \in RunIds, NEW u
  PROVE  GetCurrent(id, u) \in Row
<1>1. Statuses_[id] \in Status
  BY DEF TypeOK
<1>2. details[id] \in SimIds \cup {NoId} /\ owner[id] \in Users \cup {NoId}
  BY DEF TypeOK
<1>3. /\ Statuses_[id].state \in States \cup {""}
      /\ Statuses_[id].startTime \in Times /\ Statuses_[id].endTime \in Times
  BY <1>1 DEF Status
<1> QED
  BY <1>2, <1>3, Values DEF GetCurrent, Row

(* The initial state satisfies every conjunct of the inductive invariant. *)
LEMMA InitIInv == Init => IInv
<1> SUFFICES ASSUME Init PROVE IInv
  OBVIOUS
<1> USE ThreadAssumption, IdAssumption, TimeAssumption
<1>0. /\ pc \in [Threads -> HandlerPCs \cup WorkerPCs \cup MainPCs]
      /\ \A h \in Handlers : pc[h] = "idle"
      /\ pc[Worker] = "new" /\ pc[Main] = "serving"
  BY DEF Init, Threads, HandlerPCs, WorkerPCs, MainPCs
<1>1. TypeOK
  <2>1. now \in Times /\ workerNow \in Times /\ requests \in 0 .. MaxRequests
    BY DEF Init, Times
  <2>2. Statuses_ \in [RunIds -> Status] /\ job \in [Threads -> Job]
    BY Values DEF Init
  <2>3. /\ mutex = Nobody /\ issued = {} /\ Simulations_ = {} /\ toScan = {}
        /\ details \in [RunIds -> SimIds \cup {NoId}]
        /\ owner \in [RunIds -> Users \cup {NoId}]
        /\ LookForServices_ \in BOOLEAN /\ Running_ \in BOOLEAN
        /\ Services_ = {} /\ results = {} /\ unsaved = {}
    BY DEF Init
  <2> QED
    BY <1>0, <2>1, <2>2, <2>3 DEF TypeOK, HandlerPCs, WorkerPCs, MainPCs
<1>2. LockInv /\ JobInv
  BY <1>0 DEF Init, LockInv, JobInv, JobOf, Lockers, Critical, Working
<1>3. RunInv /\ StatsInv /\ ScanInv /\ ResultsAreFinal
  BY <1>0 DEF Init, RunInv, StatsInv, ScanInv, ResultsAreFinal, Known
<1> QED
  BY <1>1, <1>2, <1>3 DEF IInv

(* Every step keeps the variables in their types. *)
LEMMA TypeStep ==
  ASSUME IInv, [Next]_vars
  PROVE  TypeOK'
<1> USE ThreadAssumption, IdAssumption, TimeAssumption
<1> USE DEF TypeOK, Threads, mapVars, lookVars, scanVars, Goto, Finish
<1>0. TypeOK
  BY DEF IInv
<1>1. CASE Tick
  BY <1>0, <1>1 DEF Tick, Times
<1>2. CASE \E h \in Handlers : Ask(h)
  <2> PICK h \in Handlers : Ask(h)
    BY <1>2
  <2>1. PICK u \in Users :
          \/ \E s \in SimIds, given \in SimIds \cup {NoId} : RequestStart(h, u, s, given)
          \/ \E op \in {"stop", "cancel"}, id \in RunIds : RequestEnd(h, u, op, id)
    BY DEF Ask
  <2>2. CASE \E s \in SimIds, given \in SimIds \cup {NoId} : RequestStart(h, u, s, given)
    <3> PICK s \in SimIds, given \in SimIds \cup {NoId} : RequestStart(h, u, s, given)
      BY <2>2
    <3>1. [user |-> u, id |-> s] \in Job
      BY Values
    <3>2. job' \in [Threads -> Job]
      BY <1>0, <3>1 DEF RequestStart
    <3>3. requests' \in 0 .. MaxRequests
      BY <1>0 DEF RequestStart, CanAsk
    <3> QED
      BY <1>0, <3>2, <3>3 DEF RequestStart, HandlerPCs
  <2>3. CASE \E op \in {"stop", "cancel"}, id \in RunIds : RequestEnd(h, u, op, id)
    <3> PICK op \in {"stop", "cancel"}, id \in RunIds : RequestEnd(h, u, op, id)
      BY <2>3
    <3>1. [user |-> u, id |-> id] \in Job
      BY Values
    <3>2. job' \in [Threads -> Job]
      BY <1>0, <3>1 DEF RequestEnd
    <3>3. requests' \in 0 .. MaxRequests
      BY <1>0 DEF RequestEnd, CanAsk
    <3> QED
      BY <1>0, <3>2, <3>3 DEF RequestEnd, HandlerPCs
  <2> QED
    BY <2>1, <2>2, <2>3
<1>3. ASSUME NEW p \in Lockers, RunnerHangs(p) \/ EndSim(p) \/ Record(p)
      PROVE  TypeOK'
  <2>1. job[p].id \in RunIds
    BY <1>0, <1>3 DEF IInv, JobInv, JobOf, RunnerHangs, EndSim, Record, Critical, Working
  <2>2. /\ p \in Threads
        /\ p = Worker \/ p \in Handlers
        /\ {"hung", "record", "remove"} \subseteq HandlerPCs \cap WorkerPCs
    BY DEF Lockers, HandlerPCs, WorkerPCs
  <2>3. CASE EndSim(p)
    <3>1. Statuses_' \in [RunIds -> Status]
      BY <1>0, <2>1, <2>3, Values DEF EndSim, States
    <3> QED
      BY <1>0, <2>2, <2>3, <3>1 DEF EndSim
  <2>4. CASE Record(p)
    <3> PICK row : row = GetCurrent(job[p].id, owner[job[p].id])
      OBVIOUS
    <3>0. row \in Row /\ CreateRecord(row)
      BY <1>0, <2>1, <2>4, GetCurrentType DEF Record
    <3>1. results' \subseteq Row /\ unsaved' \subseteq RunIds \cup {NoId}
      BY <1>0, <3>0 DEF CreateRecord, Insert, InsertFails, Row
    <3> QED
      BY <1>0, <2>2, <2>4, <3>1 DEF Record
  <2>5. CASE RunnerHangs(p)
    BY <1>0, <2>2, <2>5 DEF RunnerHangs
  <2> QED
    BY <1>3, <2>3, <2>4, <2>5
<1>4. CASE \E h \in Handlers : Handle(h)
  <2> PICK h \in Handlers : Handle(h)
    BY <1>4
  <2>1. CASE StartMissing(h)
    BY <1>0, <2>1, Values DEF StartMissing, HandlerPCs
  <2>2. CASE \E id \in RunIds : StartInsert(h, id)
    <3> PICK id \in RunIds : StartInsert(h, id)
      BY <2>2
    <3>1. job[h] \in Job /\ job[h].user \in Users \cup {NoId}
      BY <1>0 DEF Job
    <3>2. [job[h] EXCEPT !.id = id] \in Job
      BY <3>1 DEF Job
    <3>3. job' \in [Threads -> Job]
      BY <1>0, <3>2 DEF StartInsert
    <3> QED
      BY <1>0, <3>1, <3>3 DEF StartInsert, HandlerPCs
  <2>3. CASE StartStats(h)
    BY <1>0, <2>3, Values DEF StartStats, HandlerPCs, States
  <2>4. CASE EndRefused(h)
    BY <1>0, <2>4, Values DEF EndRefused, HandlerPCs
  <2>5. CASE EndAccepted(h)
    BY <1>0, <2>5 DEF EndAccepted, HandlerPCs
  <2>6. CASE SetState(h)
    <3>1. job[h].id \in RunIds
      BY <1>0, <2>6 DEF IInv, JobInv, JobOf, SetState, Critical, Lockers, Working
    <3>2. Statuses_' \in [RunIds -> Status]
      BY <1>0, <2>6, <3>1, Values DEF SetState, States
    <3> QED
      BY <1>0, <2>6, <3>2 DEF SetState, HandlerPCs
  <2>7. CASE Remove(h)
    BY <1>0, <2>7, Values DEF Remove, RemoveRun, HandlerPCs
  <2> QED
    BY <1>3, <2>1, <2>2, <2>3, <2>4, <2>5, <2>6, <2>7 DEF Handle, Lockers
<1>5. CASE Work
  <2> USE DEF WorkerPCs
  <2>1. CASE WorkerStarts
    BY <1>0, <2>1 DEF WorkerStarts
  <2>2. CASE WorkerWakes
    <3>1. pc'[Worker] \in {"exit", "refresh", "lock"}
      BY <1>0, <2>2 DEF WorkerWakes
    <3>2. pc' = [pc EXCEPT ![Worker] = pc'[Worker]]
      BY <1>0, <2>2 DEF WorkerWakes
    <3>3. workerNow' \in Times
      BY <1>0, <2>2 DEF WorkerWakes, Times
    <3> QED
      BY <1>0, <2>2, <3>1, <3>2, <3>3 DEF WorkerWakes
  <2>3. CASE \E found \in SUBSET Secondaries : WorkerRefreshes(found)
    BY <1>0, <2>3 DEF WorkerRefreshes
  <2>4. CASE WorkerLocks
    BY <1>0, <2>4 DEF WorkerLocks
  <2>5. CASE \E id \in RunIds : WorkerSkips(id)
    BY <1>0, <2>5 DEF WorkerSkips
  <2>6. CASE \E id \in RunIds : WorkerCompletes(id)
    <3> PICK id \in RunIds : WorkerCompletes(id)
      BY <2>6
    <3>1. [user |-> owner[id], id |-> id] \in Job
      BY <1>0, Values
    <3>2. job' \in [Threads -> Job]
      BY <1>0, <3>1 DEF WorkerCompletes
    <3> QED
      BY <1>0, <3>2 DEF WorkerCompletes
  <2>7. CASE WorkerErases
    BY <1>0, <2>7, Values DEF WorkerErases, RemoveRun
  <2>8. CASE WorkerUnlocks
    BY <1>0, <2>8 DEF WorkerUnlocks, Times
  <2> QED
    BY <1>3, <1>5, <2>1, <2>2, <2>3, <2>4, <2>5, <2>6, <2>7, <2>8 DEF Work, Lockers
<1>6. CASE Shutdown \/ Stop \/ StopJoined \/ StopHangs
  BY <1>0, <1>6 DEF Shutdown, Stop, StopJoined, StopHangs, MainPCs
<1>7. CASE UNCHANGED vars
  BY <1>0, <1>7 DEF vars
<1> QED
  BY <1>1, <1>2, <1>4, <1>5, <1>6, <1>7 DEF Next

(* A thread is in a critical section exactly while it holds Mutex_. *)
LEMMA LockStep ==
  ASSUME IInv, TypeOK', [Next]_vars
  PROVE  LockInv'
<1> USE ThreadAssumption DEF Threads, Lockers, Critical, mapVars, lookVars, scanVars, Goto, Finish, Free
<1> USE DEF LockInv
<1>0. TypeOK /\ LockInv /\ JobInv /\ RunInv /\ StatsInv /\ ScanInv /\ ResultsAreFinal
  BY DEF IInv
<1> USE DEF TypeOK
<1>1. CASE Tick
  BY <1>0, <1>1 DEF Tick
<1>2. CASE \E h \in Handlers : Ask(h)
  BY <1>0, <1>2 DEF Ask, RequestStart, RequestEnd, CanAsk
<1>3. CASE \E h \in Handlers : StartMissing(h) \/ EndRefused(h)
  BY <1>0, <1>3 DEF StartMissing, EndRefused
<1>4. CASE \E h \in Handlers, id \in RunIds : StartInsert(h, id)
  BY <1>0, <1>4 DEF StartInsert, Fresh
<1>5. CASE \E h \in Handlers : StartStats(h)
  BY <1>0, <1>5 DEF StartStats, NoStatus
<1>6. CASE \E h \in Handlers : EndAccepted(h)
  BY <1>0, <1>6 DEF EndAccepted
<1>7. CASE \E h \in Handlers : SetState(h)
  BY <1>0, <1>7 DEF SetState
<1>8. CASE \E p \in Lockers : RunnerHangs(p) \/ EndSim(p)
  BY <1>0, <1>8 DEF RunnerHangs, EndSim
<1>9. CASE \E p \in Lockers : Record(p)
  BY <1>0, <1>9 DEF Record, CreateRecord, Insert, InsertFails, GetCurrent, MayEnd
<1>10. CASE \E h \in Handlers : Remove(h)
  BY <1>0, <1>10 DEF Remove, RemoveRun
<1>11. CASE WorkerStarts \/ WorkerWakes \/ \E found \in SUBSET Secondaries : WorkerRefreshes(found)
  BY <1>0, <1>11 DEF WorkerStarts, WorkerWakes, WorkerRefreshes
<1>12. CASE WorkerLocks
  BY <1>0, <1>12 DEF WorkerLocks
<1>13. CASE \E id \in RunIds : WorkerSkips(id)
  BY <1>0, <1>13 DEF WorkerSkips
<1>14. CASE \E id \in RunIds : WorkerCompletes(id)
  BY <1>0, <1>14 DEF WorkerCompletes
<1>15. CASE WorkerErases
  BY <1>0, <1>15 DEF WorkerErases, RemoveRun
<1>16. CASE WorkerUnlocks
  BY <1>0, <1>16 DEF WorkerUnlocks
<1>17. CASE Shutdown \/ Stop \/ StopJoined \/ StopHangs
  BY <1>0, <1>17 DEF Shutdown, Stop, StopJoined, StopHangs
<1>18. CASE UNCHANGED vars
  BY <1>0, <1>18 DEF vars
<1> QED
  BY <1>1, <1>2, <1>3, <1>4, <1>5, <1>6, <1>7, <1>8, <1>9, <1>10, <1>11, <1>12, <1>13, <1>14, <1>15, <1>16, <1>17, <1>18 DEF Next, Work, Handle

(* The runs left to scan stay in the map. *)
LEMMA ScanStep ==
  ASSUME IInv, TypeOK', [Next]_vars
  PROVE  ScanInv'
<1> USE ThreadAssumption DEF Threads, Lockers, Critical, mapVars, lookVars, scanVars, Goto, Finish, Free
<1> USE DEF ScanInv, LockInv
<1>0. TypeOK /\ LockInv /\ JobInv /\ RunInv /\ StatsInv /\ ScanInv /\ ResultsAreFinal
  BY DEF IInv
<1> USE DEF TypeOK
<1>1. CASE Tick
  BY <1>0, <1>1 DEF Tick
<1>2. CASE \E h \in Handlers : Ask(h)
  BY <1>0, <1>2 DEF Ask, RequestStart, RequestEnd, CanAsk
<1>3. CASE \E h \in Handlers : StartMissing(h) \/ EndRefused(h)
  BY <1>0, <1>3 DEF StartMissing, EndRefused
<1>4. CASE \E h \in Handlers, id \in RunIds : StartInsert(h, id)
  BY <1>0, <1>4 DEF StartInsert, Fresh
<1>5. CASE \E h \in Handlers : StartStats(h)
  BY <1>0, <1>5 DEF StartStats, NoStatus
<1>6. CASE \E h \in Handlers : EndAccepted(h)
  BY <1>0, <1>6 DEF EndAccepted
<1>7. CASE \E h \in Handlers : SetState(h)
  BY <1>0, <1>7 DEF SetState
<1>8. CASE \E p \in Lockers : RunnerHangs(p) \/ EndSim(p)
  BY <1>0, <1>8 DEF RunnerHangs, EndSim
<1>9. CASE \E p \in Lockers : Record(p)
  BY <1>0, <1>9 DEF Record, CreateRecord, Insert, InsertFails, GetCurrent, MayEnd
<1>10. CASE \E h \in Handlers : Remove(h)
  BY <1>0, <1>10 DEF Remove, RemoveRun
<1>11. CASE WorkerStarts \/ WorkerWakes \/ \E found \in SUBSET Secondaries : WorkerRefreshes(found)
  BY <1>0, <1>11 DEF WorkerStarts, WorkerWakes, WorkerRefreshes
<1>12. CASE WorkerLocks
  BY <1>0, <1>12 DEF WorkerLocks
<1>13. CASE \E id \in RunIds : WorkerSkips(id)
  BY <1>0, <1>13 DEF WorkerSkips
<1>14. CASE \E id \in RunIds : WorkerCompletes(id)
  BY <1>0, <1>14 DEF WorkerCompletes
<1>15. CASE WorkerErases
  BY <1>0, <1>15 DEF WorkerErases, RemoveRun
<1>16. CASE WorkerUnlocks
  BY <1>0, <1>16 DEF WorkerUnlocks
<1>17. CASE Shutdown \/ Stop \/ StopJoined \/ StopHangs
  BY <1>0, <1>17 DEF Shutdown, Stop, StopJoined, StopHangs
<1>18. CASE UNCHANGED vars
  BY <1>0, <1>18 DEF vars
<1> QED
  BY <1>1, <1>2, <1>3, <1>4, <1>5, <1>6, <1>7, <1>8, <1>9, <1>10, <1>11, <1>12, <1>13, <1>14, <1>15, <1>16, <1>17, <1>18 DEF Next, Work, Handle

(* A thread that a step leaves where it is keeps its run as far as it was. *)
LEMMA JobFrame ==
  ASSUME NEW q \in Lockers, JobOf(q), pc'[q] = pc[q], job'[q] = job[q],
         UNCHANGED <<Simulations_, Statuses_, results, unsaved>>
  PROVE  JobOf(q)'
BY DEF JobOf, Known, Recorded

(* The run a thread works on stays as far as the thread is.  Only the thread *)
(* that holds Mutex_ matters.                                                *)
LEMMA JobStep ==
  ASSUME IInv, TypeOK', LockInv', [Next]_vars
  PROVE  JobInv'
<1> SUFFICES ASSUME NEW q \in Lockers, mutex' = q
             PROVE  JobOf(q)'
  <2> SUFFICES ASSUME NEW q \in Lockers, mutex' # q PROVE JobOf(q)'
    BY DEF JobInv
  <2>1. pc'[q] \notin Critical
    BY DEF LockInv
  <2> QED
    BY <2>1 DEF JobOf, Critical, Working
<1> USE ThreadAssumption DEF Threads, Lockers, mapVars, lookVars, scanVars, Goto, Finish
<1>0. /\ pc \in [Threads -> HandlerPCs \cup WorkerPCs \cup MainPCs]
      /\ job \in [Threads -> Job]
      /\ Statuses_ \in [RunIds -> Status]
      /\ Simulations_ \subseteq RunIds
      /\ \A p \in Lockers : (pc[p] \in Critical) <=> (mutex = p)
      /\ JobOf(q)
  BY DEF IInv, TypeOK, LockInv, JobInv
<1>1. CASE Tick
  BY <1>0, <1>1, JobFrame DEF Tick
<1>2. CASE \E h \in Handlers : Ask(h)
  BY <1>0, <1>2, JobFrame DEF Ask, RequestStart, RequestEnd, CanAsk, Critical
<1>3. CASE \E h \in Handlers : StartMissing(h) \/ EndRefused(h) \/ StartStats(h) \/ Remove(h)
  BY <1>3 DEF StartMissing, EndRefused, StartStats, Remove, Free
<1>4. CASE \E h \in Handlers, id \in RunIds : StartInsert(h, id)
  <2> PICK h \in Handlers, id \in RunIds : StartInsert(h, id)
    BY <1>4
  <2>1. q = h /\ pc'[q] = "stats" /\ job'[q].id = id
    BY <1>0 DEF StartInsert, Job
  <2>2. ~Known(id) /\ ~Recorded(id)
    BY DEF IInv, StatsInv, ResultsAreFinal, Recorded, StartInsert, Fresh
  <2> QED
    BY <2>1, <2>2 DEF StartInsert, JobOf, Known, Recorded
<1>5. CASE \E h \in Handlers : EndAccepted(h)
  <2> PICK h \in Handlers : EndAccepted(h)
    BY <1>5
  <2>1. q = h /\ pc'[q] \in {"end", "setstate"} /\ job' = job
    BY <1>0 DEF EndAccepted
  <2>2. \A p \in Lockers : pc[p] \notin Working
    BY <1>0 DEF EndAccepted, Free, Working
  <2>3. job[q].id \in Simulations_ /\ Untouched(job[q].id)
    BY <2>1, <2>2 DEF EndAccepted, IInv, RunInv, OwnedBy
  <2> QED
    BY <2>1, <2>3 DEF EndAccepted, JobOf, Untouched, Known, Recorded
<1>6. CASE \E h \in Handlers : SetState(h)
  <2> PICK h \in Handlers : SetState(h)
    BY <1>6
  <2>1. q = h /\ pc'[q] = "forget" /\ job' = job
    BY <1>0 DEF SetState, Critical
  <2>2. /\ job[q].id \in Simulations_ /\ Known(job[q].id) /\ ~Recorded(job[q].id)
    BY <1>0, <2>1 DEF SetState, JobOf, Critical, Working
  <2>3. Statuses_'[job[q].id].state = "none"
    BY <1>0, <2>1, <2>2 DEF SetState, Status
  <2> QED
    BY <2>1, <2>2, <2>3 DEF SetState, JobOf, Recorded
<1>7. CASE \E p \in Lockers : EndSim(p)
  <2> PICK p \in Lockers : EndSim(p)
    BY <1>7
  <2>1. q = p /\ pc'[q] = "record" /\ job' = job
    BY <1>0 DEF EndSim, Critical
  <2>2. /\ job[q].id \in Simulations_ /\ Known(job[q].id) /\ ~Recorded(job[q].id)
    BY <1>0, <2>1 DEF EndSim, JobOf, Critical, Working
  <2>3. Statuses_[job[q].id].startTime <= now
    BY <1>0, <2>2 DEF IInv, StatsInv
  <2>4. /\ Statuses_'[job[q].id].state = "completed"
        /\ Statuses_'[job[q].id].startTime <= Statuses_'[job[q].id].endTime
    BY <1>0, <2>1, <2>2, <2>3 DEF EndSim, Status
  <2> QED
    BY <2>1, <2>2, <2>4 DEF EndSim, JobOf, Recorded
<1>8. CASE \E p \in Lockers : Record(p)
  <2> PICK p \in Lockers : Record(p)
    BY <1>8
  <2>1. q = p /\ pc'[q] = "remove" /\ job' = job
    BY <1>0 DEF Record, Critical
  <2>2. job[q].id \in Simulations_ /\ Statuses_[job[q].id].state = "completed"
    BY <1>0, <2>1 DEF Record, JobOf, Critical, Working
  <2>3. Known(job[q].id)
    <3>1. NoStatus.state # "completed"
      BY DEF NoStatus
    <3> QED
      BY <2>2, <3>1 DEF Known
  <2>4. GetCurrent(job[q].id, owner[job[q].id]).id = job[q].id
    BY <2>3 DEF GetCurrent, MayEnd
  <2>5. Recorded(job[q].id)' \/ job[q].id \in unsaved'
    BY <2>1, <2>4 DEF Record, CreateRecord, Insert, InsertFails, Recorded
  <2> QED
    BY <2>1, <2>2, <2>5 DEF Record, JobOf
<1>17. CASE \E p \in Lockers : RunnerHangs(p)
  <2> PICK p \in Lockers : RunnerHangs(p)
    BY <1>17
  <2>1. q = p /\ pc[q] \in {"end", "setstate"} /\ pc'[q] = "hung" /\ job' = job
    BY <1>0 DEF RunnerHangs, Critical
  <2>2. /\ job[q].id \in Simulations_ /\ Known(job[q].id) /\ ~Recorded(job[q].id)
        /\ Statuses_[job[q].id].state = "running"
    BY <1>0, <2>1 DEF JobOf, Critical, Working
  <2> QED
    BY <2>1, <2>2 DEF RunnerHangs, JobOf, Known, Recorded
<1>9. CASE WorkerStarts \/ WorkerWakes \/ \E found \in SUBSET Secondaries : WorkerRefreshes(found)
  BY <1>0, <1>9, JobFrame DEF WorkerStarts, WorkerWakes, WorkerRefreshes, Critical
<1>10. CASE WorkerLocks \/ WorkerErases
  <2>1. q = Worker /\ pc'[q] = "scan"
    BY <1>0, <1>10 DEF WorkerLocks, WorkerErases, Critical
  <2> QED
    BY <2>1 DEF JobOf, Working
<1>11. CASE \E id \in RunIds : WorkerSkips(id)
  BY <1>0, <1>11, JobFrame DEF WorkerSkips
<1>12. CASE \E id \in RunIds : WorkerCompletes(id)
  <2> PICK id \in RunIds : WorkerCompletes(id)
    BY <1>12
  <2>1. q = Worker /\ pc'[q] = "end" /\ job'[q].id = id
    BY <1>0 DEF WorkerCompletes, Critical
  <2>2. \A p \in Lockers : pc[p] \notin Working
    BY <1>0, <2>1 DEF WorkerCompletes, Critical, Working
  <2>3. id \in Simulations_ /\ Untouched(id)
    BY <2>2 DEF WorkerCompletes, IInv, ScanInv, RunInv, OwnedBy
  <2> QED
    BY <2>1, <2>3 DEF WorkerCompletes, JobOf, Untouched, Known, Recorded
<1>13. CASE WorkerUnlocks
  BY <1>13 DEF WorkerUnlocks
<1>14. CASE Shutdown \/ Stop
  BY <1>0, <1>14, JobFrame DEF Shutdown, Stop
<1>15. CASE StopJoined \/ StopHangs
  BY <1>15 DEF StopJoined, StopHangs, Free
<1>16. CASE UNCHANGED vars
  BY <1>0, <1>16, JobFrame DEF vars
<1> QED
  BY <1>1, <1>2, <1>3, <1>4, <1>5, <1>6, <1>7, <1>8, <1>9, <1>10, <1>11, <1>12,
     <1>13, <1>14, <1>15, <1>16, <1>17 DEF Next, Work, Handle

(* Nothing of RunInv is disturbed by a step that adds no run, touches no     *)
(* statistics and no row, and leaves the threads that own a run alone.       *)
LEMMA RunFrame ==
  ASSUME RunInv, UNCHANGED <<Simulations_, issued, Statuses_, results>>,
         \A p \in Lockers : pc[p] \in Working =>
            pc'[p] \in Working /\ job'[p] = job[p]
  PROVE  RunInv'
BY DEF RunInv, OwnedBy, Untouched, Known, Recorded

(* A run in the map is being opened, is running, or is being ended. *)
LEMMA RunStep ==
  ASSUME IInv, TypeOK', LockInv', [Next]_vars
  PROVE  RunInv'
<1> USE ThreadAssumption DEF Threads, Lockers, mapVars, lookVars, scanVars, Goto, Finish
<1>0. /\ pc \in [Threads -> HandlerPCs \cup WorkerPCs \cup MainPCs]
      /\ job \in [Threads -> Job]
      /\ Statuses_ \in [RunIds -> Status]
      /\ Simulations_ \subseteq RunIds
      /\ \A p \in Lockers : (pc[p] \in Critical) <=> (mutex = p)
      /\ RunInv
  BY DEF IInv, TypeOK, LockInv
<1>1. CASE Tick
  BY <1>0, <1>1, RunFrame DEF Tick
<1>2. CASE \E h \in Handlers : Ask(h)
  BY <1>0, <1>2, RunFrame DEF Ask, RequestStart, RequestEnd, CanAsk, Critical, Working
<1>3. CASE \E h \in Handlers : StartMissing(h) \/ EndRefused(h) \/ EndAccepted(h)
  BY <1>0, <1>3, RunFrame DEF StartMissing, EndRefused, EndAccepted, Free, Critical, Working
<1>4. CASE \E h \in Handlers, id \in RunIds : StartInsert(h, id)
  <2> PICK h \in Handlers, id \in RunIds : StartInsert(h, id)
    BY <1>4
  <2>1. OwnedBy(h, id)'
    BY <1>0 DEF StartInsert, OwnedBy, Job, Critical, Working
  <2>2. \A p \in Lockers : pc[p] \notin Working
    BY <1>0 DEF StartInsert, Free, Working
  <2>3. ASSUME NEW i \in Simulations_ PROVE Untouched(i)'
    BY <1>0, <2>2 DEF StartInsert, RunInv, OwnedBy, Untouched, Known, Recorded
  <2> QED
    BY <1>0, <2>1, <2>3 DEF StartInsert, RunInv
<1>5. CASE \E h \in Handlers : StartStats(h)
  <2> PICK h \in Handlers : StartStats(h)
    BY <1>5
  <2>1. pc[h] = "stats" /\ mutex = h
    BY <1>0 DEF StartStats, Critical
  <2> PICK id \in Simulations_ : id = job[h].id /\ ~Recorded(id)
    BY <2>1 DEF IInv, JobInv, JobOf, Critical, Working
  <2>3. Untouched(id)'
    <3>1. Statuses_'[id] = [state |-> "running", startTime |-> now, endTime |-> 0]
      BY <1>0 DEF StartStats
    <3>2. Statuses_'[id].state = "running" /\ NoStatus.state # "running"
      BY <3>1 DEF NoStatus
    <3> QED
      BY <3>2 DEF StartStats, Untouched, Known, Recorded
  <2>4. ASSUME NEW i \in Simulations_, i # id PROVE Untouched(i)'
    <3>1. \A p \in Lockers : ~OwnedBy(p, i)
      BY <1>0, <2>1, <2>4 DEF OwnedBy, Working
    <3>2. Untouched(i)
      BY <1>0, <3>1 DEF RunInv
    <3> QED
      BY <1>0, <2>4, <3>2 DEF StartStats, Untouched, Known, Recorded
  <2> QED
    BY <1>0, <2>3, <2>4 DEF StartStats, RunInv
<1>6. ASSUME NEW p \in Lockers, RunnerHangs(p) \/ SetState(p) \/ EndSim(p) \/ Record(p)
      PROVE  RunInv'
  <2> DEFINE id == job[p].id
  <2>1. pc[p] \in Working /\ pc'[p] \in Working /\ mutex = p
    BY <1>0, <1>6 DEF RunnerHangs, SetState, EndSim, Record, Critical, Working
  <2>2. OwnedBy(p, id)'
    BY <1>6, <2>1 DEF OwnedBy, RunnerHangs, SetState, EndSim, Record
  <2>3. ASSUME NEW i \in Simulations_, i # id PROVE Untouched(i)'
    <3>1. Untouched(i)
      BY <1>0, <2>1, <2>3 DEF RunInv, OwnedBy, Working
    <3>2. Statuses_'[i] = Statuses_[i]
      BY <1>0, <1>6, <2>3 DEF RunnerHangs, SetState, EndSim, Record
    <3>3. ~Recorded(i)'
      <4>1. CASE Record(p)
        <5>1. GetCurrent(id, owner[id]).id \in {id, NoId}
          BY DEF GetCurrent, Blank
        <5>2. i # NoId
          BY <1>0, IdAssumption
        <5> QED
          BY <2>3, <3>1, <4>1, <5>1, <5>2 DEF Untouched, Record, CreateRecord, Insert, InsertFails, Recorded
      <4> QED
        BY <1>6, <3>1, <4>1 DEF Untouched, RunnerHangs, SetState, EndSim, Recorded
    <3> QED
      BY <3>1, <3>2, <3>3 DEF Untouched, Known
  <2> QED
    BY <1>0, <1>6, <2>2, <2>3 DEF RunInv, RunnerHangs, SetState, EndSim, Record
<1>7. ASSUME NEW p \in Lockers, RemoveRun(p), pc[p] \in Working, mutex = p,
             UNCHANGED <<issued, results>>
      PROVE  RunInv'
  <2>1. ASSUME NEW i \in Simulations_, i # job[p].id PROVE Untouched(i)'
    <3>1. Untouched(i)
      BY <1>0, <1>7, <2>1 DEF RunInv, OwnedBy, Working
    <3> QED
      BY <1>0, <1>7, <2>1, <3>1 DEF RemoveRun, Untouched, Known, Recorded
  <2> QED
    BY <1>0, <1>7, <2>1 DEF RemoveRun, RunInv
<1>8. CASE \E h \in Handlers : Remove(h)
  BY <1>0, <1>7, <1>8 DEF Remove, Critical, Working
<1>9. CASE WorkerErases
  BY <1>0, <1>7, <1>9 DEF WorkerErases, Critical, Working
<1>10. CASE \/ WorkerStarts \/ WorkerWakes
            \/ \E found \in SUBSET Secondaries : WorkerRefreshes(found)
            \/ WorkerLocks \/ WorkerUnlocks
            \/ \E id \in RunIds : WorkerSkips(id) \/ WorkerCompletes(id)
  <2>1. \A p \in Lockers \ {Worker} : pc'[p] = pc[p] /\ job'[p] = job[p]
    BY <1>0, <1>10 DEF WorkerStarts, WorkerWakes, WorkerRefreshes, WorkerLocks,
       WorkerUnlocks, WorkerSkips, WorkerCompletes
  <2>2. pc[Worker] \notin Working
    BY <1>10 DEF WorkerStarts, WorkerWakes, WorkerRefreshes, WorkerLocks,
       WorkerUnlocks, WorkerSkips, WorkerCompletes, Critical, Working
  <2> QED
    BY <1>0, <1>10, <2>1, <2>2, RunFrame DEF WorkerStarts, WorkerWakes,
       WorkerRefreshes, WorkerLocks, WorkerUnlocks, WorkerSkips, WorkerCompletes
<1>11. CASE Shutdown \/ Stop \/ StopHangs
  BY <1>0, <1>11, RunFrame DEF Shutdown, Stop, StopHangs
<1>12. CASE StopJoined
  BY <1>0, <1>12 DEF StopJoined, RunInv
<1>13. CASE UNCHANGED vars
  BY <1>0, <1>13, RunFrame DEF vars
<1> QED
  BY <1>1, <1>2, <1>3, <1>4, <1>5, <1>6, <1>8, <1>9, <1>10, <1>11, <1>12,
     <1>13 DEF Next, Work, Handle

(* A step that only adds runs, or stops the service, disturbs no statistics. *)
LEMMA StatsFrame ==
  ASSUME StatsInv, UNCHANGED Statuses_, now <= now', issued \subseteq issued',
         TypeOK, TypeOK',
         Simulations_ \subseteq Simulations_' \/ pc'[Main] = "stopped",
         pc[Main] = "stopped" => pc'[Main] = "stopped"
  PROVE  StatsInv'
<1>1. now \in Int /\ now' \in Int
  BY TimeAssumption DEF TypeOK, Times
<1>2. ASSUME NEW id \in RunIds PROVE Statuses_[id].startTime \in Int
  <2>1. Statuses_[id].startTime \in Times
    BY DEF TypeOK, Status
  <2> QED
    BY <2>1, TimeAssumption DEF Times
<1>3. ASSUME NEW id \in RunIds, Known(id)', Statuses_'[id].startTime <= now
      PROVE  Statuses_'[id].startTime <= now'
  BY <1>1, <1>2, <1>3
<1> QED
  BY <1>3 DEF StatsInv, Known

(* Statistics are those of a run that was started and is in the map, until   *)
(* the service stops.                                                        *)
LEMMA StatsStep ==
  ASSUME IInv, TypeOK', LockInv', [Next]_vars
  PROVE  StatsInv'
<1> USE ThreadAssumption DEF Threads, Lockers, mapVars, lookVars, scanVars, Goto, Finish
<1>0. /\ pc \in [Threads -> HandlerPCs \cup WorkerPCs \cup MainPCs]
      /\ Statuses_ \in [RunIds -> Status]
      /\ Simulations_ \subseteq RunIds
      /\ now \in Int /\ now' \in Int
      /\ StatsInv /\ TypeOK
  BY TimeAssumption DEF IInv, TypeOK, Times
<1>1. CASE \/ Tick
           \/ \E h \in Handlers : \/ Ask(h) \/ StartMissing(h) \/ EndRefused(h)
                                  \/ EndAccepted(h)
           \/ \E h \in Handlers, id \in RunIds : StartInsert(h, id)
           \/ \E p \in Lockers : RunnerHangs(p) \/ Record(p)
  BY <1>0, <1>1, StatsFrame DEF Tick, Ask, RequestStart, RequestEnd, CanAsk,
     StartMissing, EndRefused, EndAccepted, StartInsert, RunnerHangs, Record
<1>2. CASE \E h \in Handlers : StartStats(h)
  <2> PICK h \in Handlers : StartStats(h)
    BY <1>2
  <2>1. job[h].id \in Simulations_ /\ Simulations_ \subseteq issued
    BY DEF StartStats, IInv, JobInv, JobOf, RunInv, Critical, Working
  <2>2. Statuses_'[job[h].id] = [state |-> "running", startTime |-> now, endTime |-> 0]
    BY <1>0, <2>1 DEF StartStats
  <2>3. Statuses_'[job[h].id].state = "running" /\ Statuses_'[job[h].id].startTime <= now
    BY <1>0, <2>2
  <2>4. \A id \in RunIds \ {job[h].id} : Statuses_'[id] = Statuses_[id]
    BY <1>0 DEF StartStats
  <2> QED
    BY <1>0, <2>1, <2>3, <2>4 DEF StartStats, StatsInv, Known
<1>3. ASSUME NEW p \in Lockers, SetState(p) \/ EndSim(p)
      PROVE  StatsInv'
  <2>1. job[p].id \in Simulations_ /\ Known(job[p].id)
    BY <1>3 DEF SetState, EndSim, IInv, JobInv, JobOf, Critical, Working
  <2>2. Statuses_[job[p].id] \in Status
    BY <1>0, <2>1
  <2>3. CASE SetState(p)
    <3>1. Statuses_' = [Statuses_ EXCEPT ![job[p].id] = [@ EXCEPT !.state = "none"]]
      BY <2>1, <2>3 DEF SetState
    <3>2. /\ Statuses_'[job[p].id].state = "none"
          /\ Statuses_'[job[p].id].startTime = Statuses_[job[p].id].startTime
      BY <1>0, <2>1, <2>2, <3>1 DEF Status
    <3>3. \A id \in RunIds \ {job[p].id} : Statuses_'[id] = Statuses_[id]
      BY <1>0, <3>1
    <3>4. UNCHANGED <<now, issued, Simulations_>> /\ pc'[Main] = pc[Main]
      BY <1>0, <2>3 DEF SetState
    <3>5. /\ job[p].id \in issued /\ Statuses_[job[p].id].startTime <= now
      BY <1>0, <2>1 DEF StatsInv
    <3> QED
      BY <1>0, <2>1, <3>2, <3>3, <3>4, <3>5 DEF StatsInv, Known
  <2>4. CASE EndSim(p)
    <3>1. Statuses_' = [Statuses_ EXCEPT ![job[p].id] =
                          [@ EXCEPT !.state = "completed", !.endTime = now]]
      BY <2>1, <2>4 DEF EndSim
    <3>2. /\ Statuses_'[job[p].id].state = "completed"
          /\ Statuses_'[job[p].id].startTime = Statuses_[job[p].id].startTime
      BY <1>0, <2>1, <2>2, <3>1 DEF Status
    <3>3. \A id \in RunIds \ {job[p].id} : Statuses_'[id] = Statuses_[id]
      BY <1>0, <3>1
    <3>4. UNCHANGED <<now, issued, Simulations_>> /\ pc'[Main] = pc[Main]
      BY <1>0, <2>4 DEF EndSim
    <3>5. /\ job[p].id \in issued /\ Statuses_[job[p].id].startTime <= now
      BY <1>0, <2>1 DEF StatsInv
    <3> QED
      BY <1>0, <2>1, <3>2, <3>3, <3>4, <3>5 DEF StatsInv, Known
  <2> QED
    BY <1>3, <2>3, <2>4
<1>4. ASSUME NEW p \in Lockers, RemoveRun(p), job[p].id \in RunIds,
             UNCHANGED <<now, issued>>, pc'[Main] = pc[Main]
      PROVE  StatsInv'
  BY <1>0, <1>4 DEF RemoveRun, StatsInv, Known
<1>5. CASE \E h \in Handlers : Remove(h)
  BY <1>0, <1>4, <1>5 DEF Remove, IInv, JobInv, JobOf, Critical, Working
<1>6. CASE WorkerErases
  BY <1>0, <1>4, <1>6 DEF WorkerErases, IInv, JobInv, JobOf, Critical, Working
<1>7. CASE \/ WorkerStarts \/ WorkerWakes
           \/ \E found \in SUBSET Secondaries : WorkerRefreshes(found)
           \/ WorkerLocks \/ WorkerUnlocks
           \/ \E id \in RunIds : WorkerSkips(id) \/ WorkerCompletes(id)
  BY <1>0, <1>7, StatsFrame DEF WorkerStarts, WorkerWakes, WorkerRefreshes,
     WorkerLocks, WorkerUnlocks, WorkerSkips, WorkerCompletes
<1>8. CASE Shutdown \/ Stop \/ StopJoined \/ StopHangs
  BY <1>0, <1>8, StatsFrame DEF Shutdown, Stop, StopJoined, StopHangs
<1>9. CASE UNCHANGED vars
  BY <1>0, <1>9, StatsFrame DEF vars
<1> QED
  BY <1>1, <1>2, <1>3, <1>5, <1>6, <1>7, <1>8, <1>9 DEF Next, Work, Handle

(* A row that is added is the final account of its run, and what it says of  *)
(* the run stays true.                                                       *)
LEMMA ResultsStep ==
  ASSUME IInv, TypeOK', LockInv', [Next]_vars
  PROVE  ResultsAreFinal'
<1> USE ThreadAssumption DEF Threads, Lockers, mapVars, lookVars, scanVars, Goto, Finish
<1>0. details \in [RunIds -> SimIds \cup {NoId}] /\ owner \in [RunIds -> Users \cup {NoId}]
  BY DEF IInv, TypeOK
<1>1. CASE \E h \in Handlers, id \in RunIds : StartInsert(h, id)
  <2> PICK h \in Handlers, id \in RunIds : StartInsert(h, id)
    BY <1>1
  <2>1. \A r \in results : r.id # id
    BY DEF IInv, ResultsAreFinal, StartInsert, Fresh
  <2> QED
    BY <1>0, <2>1 DEF StartInsert, IInv, ResultsAreFinal
<1>2. CASE \E p \in Lockers : Record(p)
  <2> PICK p \in Lockers : Record(p)
    BY <1>2
  <2> DEFINE id == job[p].id
             row == GetCurrent(id, owner[id])
  <2>1. /\ id \in Simulations_ /\ id \in issued
        /\ Statuses_[id].state = "completed"
        /\ Statuses_[id].startTime <= Statuses_[id].endTime
    BY DEF Record, IInv, JobInv, JobOf, RunInv, Critical, Working
  <2>2. Known(id)
    <3>1. NoStatus.state # "completed"
      BY DEF NoStatus
    <3> QED
      BY <2>1, <3>1 DEF Known
  <2>3. /\ row.id = id /\ row.state = "completed" /\ row.startTime <= row.endTime
        /\ row.owner = owner[id] /\ row.simulationId = details[id]
    BY <2>1, <2>2 DEF GetCurrent, MayEnd
  <2>4. results' \subseteq results \cup {row}
    BY DEF Record, CreateRecord, Insert, InsertFails
  <2>5. UNCHANGED <<issued, owner, details>>
    BY DEF Record
  <2> QED
    BY <2>1, <2>3, <2>4, <2>5 DEF IInv, ResultsAreFinal
<1>3. CASE UNCHANGED <<results, issued, owner, details>>
  BY <1>3 DEF IInv, ResultsAreFinal
<1>4. CASE \/ Tick
           \/ \E h \in Handlers : \/ Ask(h) \/ StartMissing(h) \/ StartStats(h)
                 \/ EndRefused(h) \/ EndAccepted(h) \/ SetState(h) \/ Remove(h)
           \/ \E p \in Lockers : RunnerHangs(p) \/ EndSim(p)
  BY <1>3, <1>4 DEF Tick, Ask, RequestStart, RequestEnd, CanAsk, StartMissing,
     StartStats, EndRefused, EndAccepted, SetState, Remove, RunnerHangs, EndSim
<1>5. CASE \/ WorkerStarts \/ WorkerWakes \/ WorkerErases
           \/ \E found \in SUBSET Secondaries : WorkerRefreshes(found)
           \/ WorkerLocks \/ WorkerUnlocks
           \/ \E id \in RunIds : WorkerSkips(id) \/ WorkerCompletes(id)
  BY <1>3, <1>5 DEF WorkerStarts, WorkerWakes, WorkerRefreshes, WorkerErases,
     WorkerLocks, WorkerUnlocks, WorkerSkips, WorkerCompletes
<1>6. CASE Shutdown \/ Stop \/ StopJoined \/ StopHangs \/ UNCHANGED vars
  BY <1>3, <1>6 DEF Shutdown, Stop, StopJoined, StopHangs, vars
<1> QED
  BY <1>1, <1>2, <1>4, <1>5, <1>6 DEF Next, Work, Handle

(* The inductive invariant: mutual exclusion of the critical sections, where *)
(* every run's record, statistics and row are while a thread works on it,    *)
(* and the finality of the rows.                                             *)
THEOREM InductiveInvariant == Spec => []IInv
<1>1. IInv /\ [Next]_vars => IInv'
  BY TypeStep, LockStep, JobStep, RunStep, StatsStep, ScanStep, ResultsStep DEF IInv
<1> QED
  BY InitIInv, <1>1, PTL DEF Spec

(* Every variable keeps its type and every thread stays at program points of *)
(* its own.                                                                  *)
THEOREM TypeCorrect == Spec => []TypeOK
<1>1. IInv => TypeOK
  BY DEF IInv
<1> QED
  BY InductiveInvariant, <1>1, PTL

(* However many threads stop and cancel runs while the worker completes      *)
(* them, SimulationResultsDB only ever holds final accounts: a user's stop   *)
(* and the worker's completion of the same run cannot store a blank or an    *)
(* unfinished row.                                                           *)
THEOREM ResultsCorrect == Spec => []ResultsAreFinal
<1>1. IInv => ResultsAreFinal
  BY DEF IInv
<1> QED
  BY InductiveInvariant, <1>1, PTL

(* Whenever Mutex_ is free, SimStats has statistics for exactly the runs of  *)
(* the coordinator's map.                                                    *)
THEOREM StatsCorrect == Spec => []StatsMatchSimulations
<1>1. IInv => StatsMatchSimulations
  <2> SUFFICES ASSUME IInv, Free, pc[Main] # "stopped"
               PROVE  Simulations_ = {id \in RunIds : Known(id)}
    BY DEF StatsMatchSimulations
  <2>1. \A p \in Lockers : pc[p] \notin Working
    BY ThreadAssumption DEF IInv, LockInv, Free, Lockers, Working
  <2>2. ASSUME NEW id \in Simulations_ PROVE id \in RunIds /\ Known(id)
    BY <2>1 DEF IInv, TypeOK, RunInv, OwnedBy, Untouched
  <2>3. ASSUME NEW id \in RunIds, Known(id) PROVE id \in Simulations_
    BY <2>3 DEF IInv, StatsInv
  <2> QED
    BY <2>2, <2>3
<1> QED
  BY InductiveInvariant, <1>1, PTL

(* A run that was completed, by StopSim or by the worker, does not leave the *)
(* map before its result is in SimulationResultsDB, unless the insert of its *)
(* row has failed.                                                           *)
THEOREM CompletedRecorded == Spec => CompletedRunsAreRecorded
<1> DEFINE Kept == \A id \in Simulations_ \ Simulations_' :
                     Statuses_[id].state = "completed" =>
                       Recorded(id) \/ id \in unsaved
<1>1. IInv /\ [Next]_vars => [Kept]_vars
  <2> SUFFICES ASSUME IInv, Next, NEW id \in Simulations_, id \notin Simulations_',
                      Statuses_[id].state = "completed"
               PROVE  Recorded(id) \/ id \in unsaved
    BY DEF vars
  <2>1. CASE \/ \E h \in Handlers : Remove(h)
             \/ WorkerErases
    <3> PICK p \in Lockers : RemoveRun(p) /\ pc[p] \in {"remove", "forget"}
      BY <2>1 DEF Remove, WorkerErases, Lockers
    <3>1. id = job[p].id
      BY DEF RemoveRun
    <3> QED
      BY <3>1 DEF IInv, JobInv, JobOf
  <2>2. CASE StopJoined
    <3>1. \A p \in Lockers : pc[p] \notin Working
      BY <2>2, ThreadAssumption DEF StopJoined, IInv, LockInv, Free, Lockers, Working
    <3> QED
      BY <3>1 DEF IInv, RunInv, OwnedBy, Untouched
  <2>3. CASE Simulations_ \subseteq Simulations_'
    BY <2>3
  <2>4. CASE \/ Tick
             \/ \E h \in Handlers :
                   \/ Ask(h) \/ StartMissing(h) \/ StartStats(h) \/ EndRefused(h)
                   \/ EndAccepted(h) \/ SetState(h)
                   \/ \E i \in RunIds : StartInsert(h, i)
             \/ \E p \in Lockers : RunnerHangs(p) \/ EndSim(p) \/ Record(p)
             \/ Shutdown \/ Stop \/ StopHangs
    BY <2>3, <2>4 DEF Tick, Ask, RequestStart, RequestEnd, CanAsk, StartMissing,
       StartStats, EndRefused, EndAccepted, SetState, StartInsert, RunnerHangs,
       EndSim, Record, Shutdown, Stop, StopHangs, mapVars
  <2>5. CASE \/ WorkerStarts \/ WorkerWakes
             \/ \E found \in SUBSET Secondaries : WorkerRefreshes(found)
             \/ WorkerLocks \/ WorkerUnlocks
             \/ \E i \in RunIds : WorkerSkips(i) \/ WorkerCompletes(i)
    BY <2>3, <2>5 DEF WorkerStarts, WorkerWakes, WorkerRefreshes, WorkerLocks,
       WorkerUnlocks, WorkerSkips, WorkerCompletes, mapVars
  <2> QED
    BY <2>1, <2>2, <2>4, <2>5 DEF Next, Work, Handle, Lockers
<1> QED
  BY InductiveInvariant, <1>1, PTL DEF Spec, CompletedRunsAreRecorded

(* The worker's reading of the clock is not ahead of it, and every run that   *)
(* was started has a definition.                                             *)
Readings ==
  /\ workerNow <= now
  /\ \A id \in issued : details[id] \in SimIds

LEMMA ReadingsStep == IInv /\ Readings /\ [Next]_vars => Readings'
<1> SUFFICES ASSUME IInv, Readings, [Next]_vars PROVE Readings'
  OBVIOUS
<1> USE DEF Readings
<1>1. now \in Int /\ workerNow \in Int /\ 0 <= now
  BY TimeAssumption DEF IInv, TypeOK, Times
<1>2. CASE \E h \in Handlers, id \in RunIds : StartInsert(h, id)
  <2> PICK h \in Handlers, id \in RunIds : StartInsert(h, id)
    BY <1>2
  <2>1. job[h].id \in SimIds /\ details'[id] = job[h].id
    BY IdAssumption DEF StartInsert, IInv, TypeOK
  <2>2. \A i \in issued : i \in RunIds /\ (i # id => details'[i] = details[i])
    BY DEF StartInsert, IInv, TypeOK
  <2>3. issued' = issued \cup {id} /\ UNCHANGED <<now, workerNow>>
    BY DEF StartInsert, scanVars
  <2> QED
    BY <2>1, <2>2, <2>3
<1>3. CASE UNCHANGED <<issued, details, workerNow>> /\ now' \in {now, now + 1}
  BY <1>1, <1>3
<1>4. CASE UNCHANGED <<issued, details, now>> /\ workerNow' \in {workerNow, now, 0}
  BY <1>1, <1>4
<1>5. CASE Tick \/ UNCHANGED vars \/ Shutdown \/ Stop \/ StopJoined \/ StopHangs
  BY <1>3, <1>5 DEF Tick, vars, Shutdown, Stop, StopJoined, StopHangs, mapVars,
     scanVars
<1>6. CASE \E h \in Handlers :
             \/ Ask(h) \/ StartMissing(h) \/ StartStats(h) \/ EndRefused(h)
             \/ EndAccepted(h) \/ SetState(h) \/ Remove(h)
  BY <1>3, <1>6 DEF Ask, RequestStart, RequestEnd, CanAsk, StartMissing, StartStats,
     EndRefused, EndAccepted, SetState, Remove, mapVars, scanVars
<1>7. CASE \E p \in Lockers : RunnerHangs(p) \/ EndSim(p) \/ Record(p)
  BY <1>3, <1>7 DEF RunnerHangs, EndSim, Record, mapVars, scanVars
<1>8. CASE Work /\ ~(RunnerHangs(Worker) \/ EndSim(Worker) \/ Record(Worker))
  BY <1>4, <1>8 DEF Work, WorkerStarts, WorkerWakes, WorkerRefreshes, WorkerLocks,
     WorkerSkips, WorkerCompletes, WorkerErases, WorkerUnlocks, mapVars, scanVars
<1> QED
  BY <1>2, <1>5, <1>6, <1>7, <1>8 DEF Next, Handle, Lockers

(* The worker completes no run of a definition with a length before that     *)
(* length has passed, unless the run started after the worker had read the   *)
(* clock: the only way in which the unsigned difference goes wrong.          *)
THEOREM LengthCorrect == Spec => RunsItsLength
<1> DEFINE Lasted == \A id \in RunIds :
                       WorkerCompletes(id) =>
                         \/ now - GetStartTime(id) > Length[details[id]]
                         \/ GetStartTime(id) > workerNow
<1>1. Init => Readings
  BY TimeAssumption DEF Init, Readings
<1>2. Spec => []Readings
  BY <1>1, InductiveInvariant, ReadingsStep, PTL DEF Spec
<1>3. IInv /\ Readings => Lasted
  <2>0. ASSUME IInv, NEW id \in RunIds PROVE GetStartTime(id) \in Times
    <3>1. \A st \in Status : st.startTime \in Times
      BY DEF Status
    <3>2. 0 \in Times /\ Statuses_[id] \in Status
      BY <2>0, TimeAssumption DEF IInv, TypeOK, Times
    <3> QED
      BY <3>1, <3>2 DEF GetStartTime
  <2> SUFFICES ASSUME IInv, Readings, NEW id \in RunIds, WorkerCompletes(id),
                      GetStartTime(id) <= workerNow
               PROVE  now - GetStartTime(id) > Length[details[id]]
    BY <2>0, TimeAssumption DEF IInv, TypeOK, Times
  <2>1. id \in issued
    BY DEF WorkerCompletes, IInv, RunInv, ScanInv
  <2>2. Length[details[id]] \in Nat
    BY <2>1, TimeAssumption DEF Readings
  <2>3. /\ GetStartTime(id) \in Times /\ workerNow \in Times /\ now \in Times
        /\ workerNow <= now
    BY <2>0 DEF IInv, TypeOK, Readings
  <2>4. workerNow - GetStartTime(id) \in 0 .. (Word - 1)
    BY <2>3, TimeAssumption DEF Times
  <2>5. Elapsed(id) = workerNow - GetStartTime(id)
    <3>1. \A d \in 0 .. (Word - 1) : d % Word = d
      BY TimeAssumption, SMTT(30)
    <3> QED
      BY <2>4, <3>1 DEF Elapsed
  <2>6. Elapsed(id) > Length[details[id]]
    BY DEF WorkerCompletes, Due
  <2> QED
    BY <2>2, <2>3, <2>5, <2>6, TimeAssumption DEF Times
<1> QED
  BY InductiveInvariant, <1>2, <1>3, PTL DEF RunsItsLength

(* A step that leaves the map, the running ids and the rows alone is no step *)
(* of the lifecycle.                                                         *)
LEMMA PhaseFrame ==
  ASSUME UNCHANGED <<results, Simulations_, issued>>
  PROVE  [id \in RunIds |-> Phase(id)]' = [id \in RunIds |-> Phase(id)]
BY DEF Phase, Recorded

(* The coordinator implements the lifecycle: a running id is started once,   *)
(* and its run ends once, with its row (StopSim, the worker) or without one  *)
(* (CancelSim, a row that cannot be inserted, the stop of the service).      *)
THEOREM LifecycleCorrect == Spec => ImplementsLifecycle
<1> DEFINE phase == [id \in RunIds |-> Phase(id)]
<1>1. Init => Lifecycle!Init
  BY DEF Init, Lifecycle!Init, Phase, Recorded
<1>2. IInv /\ IInv' /\ [Next]_vars => [Lifecycle!Next]_phase
  <2> SUFFICES ASSUME IInv, IInv', Next
               PROVE  Lifecycle!Next \/ phase' = phase
    BY PhaseFrame DEF vars, mapVars
  <2> USE ThreadAssumption
  <2>0. /\ Simulations_ \subseteq RunIds /\ Simulations_ \subseteq issued
        /\ \A r \in results : r.id \in issued
    BY DEF IInv, TypeOK, RunInv, ResultsAreFinal
  <2>1. CASE \E h \in Handlers, id \in RunIds : StartInsert(h, id)
    <3> PICK h \in Handlers, id \in RunIds : StartInsert(h, id)
      BY <2>1
    <3>1. Phase(id) = "unborn" /\ Phase(id)' = "running"
      BY <2>0 DEF StartInsert, Fresh, Phase, Recorded
    <3>2. ASSUME NEW i \in RunIds, i # id PROVE Phase(i)' = Phase(i)
      BY <3>2 DEF StartInsert, Phase, Recorded
    <3>3. phase' = [phase EXCEPT ![id] = "running"]
      BY <3>1, <3>2
    <3> QED
      BY <3>1, <3>3 DEF Lifecycle!Next, Lifecycle!Start
  <2>2. CASE \E p \in Lockers : Record(p)
    <3> PICK p \in Lockers : Record(p)
      BY <2>2
    <3> PICK id \in Simulations_ : id = job[p].id /\ ~Recorded(id)
                                /\ Statuses_[id].state = "completed"
      BY DEF Record, IInv, JobInv, JobOf, Critical, Working
    <3>1. Known(id)
      <4>1. NoStatus.state # "completed"
        BY DEF NoStatus
      <4> QED
        BY <4>1 DEF Known
    <3> PICK row : row = GetCurrent(id, owner[id])
      OBVIOUS
    <3>0. row.id = id /\ results' \in {results, results \cup {row}}
      BY <3>1 DEF GetCurrent, MayEnd, Record, CreateRecord, Insert, InsertFails
    <3>1a. CASE results' = results
      BY <3>1a, PhaseFrame DEF Record, mapVars
    <3> SUFFICES ASSUME results' = results \cup {row} PROVE Lifecycle!Next
      BY <3>0, <3>1a
    <3>2. row.id = id /\ results' = results \cup {row}
      BY <3>0
    <3>3. Phase(id) = "running" /\ Phase(id)' = "completed"
      BY <3>2 DEF Phase, Recorded
    <3>4. ASSUME NEW i \in RunIds, i # id PROVE Phase(i)' = Phase(i)
      BY <3>2, <3>4 DEF Record, Phase, Recorded, mapVars
    <3>5. phase' = [phase EXCEPT ![id] = "completed"]
      BY <3>3, <3>4
    <3> QED
      BY <2>0, <3>3, <3>5 DEF Lifecycle!Next, Lifecycle!Complete
  <2>3. ASSUME NEW p \in Lockers, RemoveRun(p), pc[p] \in {"remove", "forget"},
               UNCHANGED <<issued, results>>
        PROVE  Lifecycle!Next \/ phase' = phase
    <3> PICK id \in Simulations_ : id = job[p].id
      BY <2>3 DEF IInv, JobInv, JobOf, Critical, Working
    <3>1. ASSUME NEW i \in RunIds, i # id PROVE Phase(i)' = Phase(i)
      BY <2>3, <3>1 DEF RemoveRun, Phase, Recorded
    <3>2. CASE Recorded(id)
      <4>1. Phase(id)' = Phase(id)
        BY <2>3, <3>2 DEF Phase, Recorded
      <4> QED
        BY <3>1, <4>1
    <3>3. CASE ~Recorded(id)
      <4>1. Phase(id) = "running" /\ Phase(id)' = "discarded"
        BY <2>0, <2>3, <3>3 DEF RemoveRun, Phase, Recorded
      <4>2. phase' = [i \in RunIds |-> IF i \in {id} THEN "discarded" ELSE phase[i]]
        BY <3>1, <4>1
      <4>3. Lifecycle!Discard({id})
        BY <2>0, <4>1, <4>2 DEF Lifecycle!Discard
      <4> QED
        BY <2>0, <4>3 DEF Lifecycle!Next
    <3> QED
      BY <3>2, <3>3
  <2>4. CASE \/ \E h \in Handlers : Remove(h)
             \/ WorkerErases
    BY <2>3, <2>4 DEF Remove, WorkerErases, Lockers
  <2>5. CASE StopJoined
    <3>1. ASSUME NEW id \in Simulations_
          PROVE  Phase(id) = "running" /\ Phase(id)' = "discarded"
      <4>1. \A p \in Lockers : pc[p] \notin Working
        BY <2>5 DEF StopJoined, IInv, LockInv, Free, Lockers, Working
      <4>2. ~Recorded(id)
        BY <4>1 DEF IInv, RunInv, OwnedBy, Untouched
      <4> QED
        BY <2>0, <2>5, <4>2 DEF StopJoined, Phase, Recorded
    <3>2. ASSUME NEW i \in RunIds \ Simulations_ PROVE Phase(i)' = Phase(i)
      BY <2>5, <3>2 DEF StopJoined, Phase, Recorded
    <3>3. phase' = [i \in RunIds |-> IF i \in Simulations_ THEN "discarded" ELSE phase[i]]
      BY <2>0, <3>1, <3>2
    <3>4. CASE Simulations_ = {}
      BY <3>3, <3>4
    <3>5. CASE Simulations_ # {}
      <4>1. Lifecycle!Discard(Simulations_)
        BY <2>0, <3>1, <3>3, <3>5 DEF Lifecycle!Discard
      <4> QED
        BY <2>0, <4>1 DEF Lifecycle!Next
    <3> QED
      BY <3>4, <3>5
  <2>6. CASE \/ Tick
             \/ \E h \in Handlers :
                   \/ Ask(h) \/ StartMissing(h) \/ StartStats(h) \/ EndRefused(h)
                   \/ EndAccepted(h) \/ SetState(h)
             \/ \E p \in Lockers : RunnerHangs(p) \/ EndSim(p)
             \/ Shutdown \/ Stop \/ StopHangs
    BY <2>6, PhaseFrame DEF Tick, Ask, RequestStart, RequestEnd, CanAsk,
       StartMissing, StartStats, EndRefused, EndAccepted, SetState, RunnerHangs,
       EndSim, Shutdown, Stop, StopHangs, mapVars
  <2>7. CASE \/ WorkerStarts \/ WorkerWakes
             \/ \E found \in SUBSET Secondaries : WorkerRefreshes(found)
             \/ WorkerLocks \/ WorkerUnlocks
             \/ \E i \in RunIds : WorkerSkips(i) \/ WorkerCompletes(i)
    BY <2>7, PhaseFrame DEF WorkerStarts, WorkerWakes, WorkerRefreshes,
       WorkerLocks, WorkerUnlocks, WorkerSkips, WorkerCompletes, mapVars
  <2> QED
    BY <2>1, <2>2, <2>4, <2>5, <2>6, <2>7 DEF Next, Work, Handle, Lockers
<1> QED
  BY InductiveInvariant, <1>1, <1>2, PTL DEF Spec, ImplementsLifecycle, Lifecycle!Spec

-----------------------------------------------------------------------------
(* Running_ is up from the start of run to Stop, which finds it down only where *)
(* the worker has not begun, and only a worker that Stop told to end ends.     *)
LEMMA RunningStep ==
  ASSUME IInv, RunningInv, [Next]_vars
  PROVE  RunningInv'
<1> USE ThreadAssumption DEF Threads, RunningInv, Goto, Finish
<1>1. /\ pc \in [Threads -> HandlerPCs \cup WorkerPCs \cup MainPCs] /\ Running_ \in BOOLEAN
      /\ Worker # Main /\ \A h \in Handlers : h # Worker /\ h # Main
  BY DEF IInv, TypeOK
<1>2. ASSUME UNCHANGED <<Running_, Simulations_>>, pc'[Worker] = pc[Worker], pc'[Main] = pc[Main]
      PROVE  RunningInv'
  BY <1>2
<1>3. ASSUME NEW h \in Handlers, Ask(h) PROVE RunningInv'
  BY <1>1, <1>2, <1>3 DEF Ask, RequestStart, RequestEnd, CanAsk, mapVars
<1>4. ASSUME NEW h \in Handlers, Handle(h) PROVE RunningInv'
  <2>1. /\ Running_' = Running_ /\ \E l \in HandlerPCs : pc' = [pc EXCEPT ![h] = l]
    BY <1>4 DEF Handle, StartMissing, StartInsert, StartStats, EndRefused, EndAccepted,
       RunnerHangs, SetState, EndSim, Record, Remove, HandlerPCs
  <2>2. Simulations_' = Simulations_ \/ pc[Main] # "stopped"
    <3>1. pc[h] # "idle"
      BY <1>4 DEF Handle, StartMissing, StartInsert, StartStats, EndRefused, EndAccepted,
         RunnerHangs, SetState, EndSim, Record, Remove
    <3> QED
      BY <3>1 DEF IInv, LockInv
  <2>3. pc'[Worker] = pc[Worker] /\ pc'[Main] = pc[Main]
    BY <1>1, <2>1
  <2> QED
    BY <2>1, <2>2, <2>3
<1>5. CASE WorkerStarts
  BY <1>1, <1>5 DEF WorkerStarts, mapVars
<1>6. CASE WorkerWakes
  <2>1. /\ pc[Worker] = "sleep" /\ UNCHANGED <<Running_, Simulations_>> /\ pc'[Main] = pc[Main]
        /\ pc'[Worker] \in {"exit", "refresh", "lock"}
        /\ pc'[Worker] = "exit" => ~Running_
    BY <1>1, <1>6 DEF WorkerWakes, mapVars
  <2>2. pc'[Worker] = "exit" => pc[Main] = "joining"
    BY <2>1
  <2> QED
    BY <2>1, <2>2
<1>7. CASE Work /\ ~WorkerStarts /\ ~WorkerWakes
  <2>1. /\ Running_' = Running_ /\ pc'[Main] = pc[Main]
        /\ pc[Worker] \notin {"new", "exit"} /\ pc'[Worker] \notin {"new", "exit"}
    BY <1>1, <1>7 DEF Work, WorkerRefreshes, WorkerLocks, WorkerSkips, WorkerCompletes,
       RunnerHangs, EndSim, Record, WorkerErases, WorkerUnlocks
  <2> QED
    BY <2>1
<1>8. CASE Shutdown \/ Stop \/ StopJoined \/ StopHangs
  BY <1>1, <1>8 DEF Shutdown, Stop, StopJoined, StopHangs, mapVars
<1>9. CASE Tick \/ UNCHANGED vars
  BY <1>2, <1>9 DEF Tick, vars, mapVars
<1> QED
  BY <1>3, <1>4, <1>5, <1>6, <1>7, <1>8, <1>9 DEF Next

(* SimulationCoordinator::Stop joins a worker that was told to end and that no  *)
(* REST thread keeps from Mutex_, and leaves no run behind: what ShutdownEnds   *)
(* needs besides fairness.                                                    *)
THEOREM ShutdownCorrect == Spec => []ShutdownPasses
<1>1. Init => RunningInv
  BY ThreadAssumption DEF Init, RunningInv, Threads
<1>2. IInv /\ RunningInv => ShutdownPasses
  <2> SUFFICES ASSUME IInv, RunningInv PROVE ShutdownPasses
    OBVIOUS
  <2>1. /\ mutex \in Handlers \cup {Worker, Main, Nobody}
        /\ \A p \in Handlers \cup {Worker} : mutex = p => pc[p] \in Critical
        /\ mutex = Main => pc[Main] = "hung"
        /\ pc[Main] \in {"joining", "stopped"} => \A h \in Handlers : pc[h] = "idle"
    BY DEF IInv, TypeOK, LockInv, Lockers, Threads
  <2>2. "idle" \notin Critical /\ "exit" \notin Critical
    BY DEF Critical
  <2>3. pc[Main] \in {"joining", "stopped"} => mutex \in {Nobody, Worker}
    BY <2>1, <2>2
  <2> QED
    BY <2>1, <2>2, <2>3 DEF RunningInv, ShutdownPasses, Free
<1>3. IInv /\ RunningInv /\ [Next]_vars => RunningInv'
  BY RunningStep
<1> QED
  BY <1>1, <1>2, <1>3, InductiveInvariant, PTL DEF Spec

-----------------------------------------------------------------------------
(* Whether a run is due depends on nothing but these. *)
LEMMA DueFrame ==
  ASSUME NEW id, workerNow' = workerNow, details'[id] = details[id],
         GetStartTime(id)' = GetStartTime(id)
  PROVE  Due(id)' <=> Due(id)
BY DEF Due, Elapsed

(* The mutex keeps the runs of a round as the worker found them, but for those *)
(* that the worker erases itself.                                             *)
LEMMA ScannedStep ==
  ASSUME IInv, ScannedInv, [Next]_vars
  PROVE  ScannedInv'
<1> DEFINE Round == {"scan", "end", "record", "remove", "hung"}
<1> USE ThreadAssumption DEF Threads, Goto, Finish
<1>1. /\ pc \in [Threads -> HandlerPCs \cup WorkerPCs \cup MainPCs]
      /\ Statuses_ \in [RunIds -> Status] /\ Simulations_ \subseteq RunIds
      /\ job \in [Threads -> Job] /\ Worker \in Threads
      /\ \A h \in Handlers : h # Worker
  BY DEF IInv, TypeOK
<1>2. ASSUME pc[Worker] \in Round, workerNow' = workerNow, toScan' = toScan,
             Simulations_' \subseteq Simulations_,
             \A id \in Simulations_' : /\ details'[id] = details[id]
                                       /\ GetStartTime(id)' = GetStartTime(id)
      PROVE  ScannedInv'
  BY <1>2, DueFrame DEF ScannedInv
<1>3. ASSUME UNCHANGED <<workerNow, toScan, Simulations_, details, Statuses_>>,
             pc'[Worker] \in Round => pc[Worker] \in Round
      PROVE  ScannedInv'
  BY <1>2, <1>3 DEF ScannedInv, GetStartTime, Known
<1>4. ASSUME NEW h \in Handlers, pc[Worker] \in Round PROVE pc[h] \notin Critical /\ ~Free
  BY <1>4 DEF IInv, LockInv, Lockers, Critical, Free
<1>5. CASE \/ Tick \/ UNCHANGED vars \/ Shutdown \/ Stop
           \/ \E h \in Handlers : Ask(h) \/ StartMissing(h) \/ EndRefused(h) \/ EndAccepted(h)
           \/ StopHangs \/ \E p \in Lockers : RunnerHangs(p) \/ Record(p)
  <2>1. UNCHANGED <<workerNow, toScan, Simulations_, details, Statuses_>>
    BY <1>5 DEF Tick, vars, Shutdown, Stop, Ask, RequestStart, RequestEnd, CanAsk,
       StartMissing, EndRefused, EndAccepted, StopHangs, RunnerHangs, Record,
       mapVars, scanVars
  <2>2. pc'[Worker] \in Round => pc[Worker] \in Round
    <3>1. CASE Tick \/ UNCHANGED vars \/ Shutdown \/ Stop \/ StopHangs
      BY <1>1, <3>1 DEF Tick, vars, Shutdown, Stop, StopHangs
    <3>2. CASE \E h \in Handlers :
                  Ask(h) \/ StartMissing(h) \/ EndRefused(h) \/ EndAccepted(h)
      <4>1. ASSUME NEW h \in Handlers, Ask(h) PROVE pc'[Worker] = pc[Worker]
        BY <1>1, <4>1 DEF Ask, RequestStart, RequestEnd, CanAsk
      <4>2. ASSUME NEW h \in Handlers, StartMissing(h) \/ EndRefused(h) \/ EndAccepted(h)
            PROVE  pc'[Worker] = pc[Worker]
        BY <1>1, <4>2 DEF StartMissing, EndRefused, EndAccepted
      <4> QED
        BY <3>2, <4>1, <4>2
    <3>3. CASE \E p \in Lockers : RunnerHangs(p) \/ Record(p)
      <4>1. PICK p \in Lockers, l \in {"hung", "remove"} :
              pc' = [pc EXCEPT ![p] = l] /\ pc[p] \in {"end", "setstate", "record"}
        BY <3>3 DEF RunnerHangs, Record
      <4>2. CASE p = Worker
        <5>1. pc[Worker] \in WorkerPCs /\ pc[Worker] # "setstate"
          BY DEF IInv, TypeOK, WorkerPCs
        <5> QED
          BY <4>1, <4>2, <5>1
      <4> QED
        BY <1>1, <4>1, <4>2
    <3> QED
      BY <1>5, <3>1, <3>2, <3>3
  <2> QED
    BY <1>3, <2>1, <2>2
<1>6. ASSUME NEW h \in Handlers,
             \/ \E id \in RunIds : StartInsert(h, id)
             \/ StartStats(h) \/ SetState(h) \/ EndSim(h) \/ Remove(h)
      PROVE  ScannedInv'
  <2>1. pc'[Worker] = pc[Worker] /\ (pc[h] \in Critical \/ Free)
    BY <1>1, <1>6 DEF StartInsert, StartStats, SetState, EndSim, Remove, Critical
  <2>2. pc'[Worker] \notin Round
    BY <1>4, <2>1
  <2> QED
    BY <2>2 DEF ScannedInv
<1>7. CASE EndSim(Worker)
  <2>1. /\ pc[Worker] = "end" /\ UNCHANGED <<workerNow, toScan, Simulations_, details>>
    BY <1>7 DEF EndSim, mapVars, scanVars
  <2>2. ASSUME NEW id \in Simulations_ PROVE GetStartTime(id)' = GetStartTime(id)
    <3>1. id \in RunIds /\ Statuses_[id] \in Status
      BY <1>1
    <3>2. CASE Statuses_'[id] = Statuses_[id]
      BY <3>2 DEF GetStartTime, Known
    <3>3. CASE /\ Known(id)
               /\ Statuses_'[id] = [Statuses_[id] EXCEPT !.state = "completed", !.endTime = now]
      <4>1. Statuses_'[id].state = "completed" /\ Statuses_'[id].startTime = Statuses_[id].startTime
        BY <3>1, <3>3 DEF Status
      <4>2. Statuses_'[id] # NoStatus
        <5>1. NoStatus.state = ""
          BY DEF NoStatus
        <5> QED
          BY <4>1, <5>1
      <4>3. Statuses_[id] # NoStatus
        BY <3>3 DEF Known
      <4> QED
        BY <4>1, <4>2, <4>3 DEF GetStartTime, Known
    <3> QED
      BY <1>1, <1>7, <3>1, <3>2, <3>3 DEF EndSim, Known
  <2> QED
    BY <1>2, <2>1, <2>2
<1>8. CASE \/ WorkerStarts \/ WorkerWakes \/ WorkerUnlocks \/ StopJoined
           \/ \E found \in SUBSET Secondaries : WorkerRefreshes(found)
  <2>1. CASE StopJoined
    <3>1. pc'[Worker] \notin Round
      BY <1>1, <2>1 DEF StopJoined
    <3> QED
      BY <3>1 DEF ScannedInv
  <2>2. CASE ~StopJoined
    <3>1. pc'[Worker] \notin Round
      BY <1>1, <1>8, <2>2 DEF WorkerStarts, WorkerWakes, WorkerUnlocks, WorkerRefreshes
    <3> QED
      BY <3>1 DEF ScannedInv
  <2> QED
    BY <2>1, <2>2
<1>9. CASE WorkerLocks
  <2>1. toScan' = Simulations_'
    BY <1>9 DEF WorkerLocks, mapVars
  <2> QED
    BY <2>1 DEF ScannedInv
<1>10. ASSUME NEW id \in RunIds, WorkerSkips(id) PROVE ScannedInv'
  <2>1. /\ pc[Worker] = "scan" /\ ~Due(id) /\ toScan' = toScan \ {id}
        /\ UNCHANGED <<workerNow, Simulations_, details, Statuses_>>
    BY <1>10 DEF WorkerSkips, mapVars
  <2>2. \A i : Due(i)' <=> Due(i)
    BY <2>1, DueFrame DEF GetStartTime, Known
  <2> QED
    BY <2>1, <2>2 DEF ScannedInv
<1>11. ASSUME NEW id \in RunIds, WorkerCompletes(id) PROVE ScannedInv'
  BY <1>3, <1>11 DEF WorkerCompletes, mapVars, scanVars
<1>12. CASE WorkerErases
  <2>1. /\ pc[Worker] = "remove" /\ UNCHANGED <<workerNow, details>>
        /\ toScan' = toScan \ {job[Worker].id} /\ Simulations_' = Simulations_ \ {job[Worker].id}
        /\ Statuses_' = [Statuses_ EXCEPT ![job[Worker].id] = NoStatus]
    BY <1>12 DEF WorkerErases, RemoveRun
  <2>2. ASSUME NEW i \in Simulations_' \ toScan' PROVE ~Due(i)'
    <3>1. i \in Simulations_ \ toScan /\ i # job[Worker].id /\ i \in RunIds
      BY <1>1, <2>1, <2>2
    <3>2. GetStartTime(i)' = GetStartTime(i)
      BY <1>1, <2>1, <3>1 DEF GetStartTime, Known
    <3> QED
      BY <2>1, <3>1, <3>2, DueFrame DEF ScannedInv
  <2> QED
    BY <2>2 DEF ScannedInv
<1> QED
  BY <1>5, <1>6, <1>7, <1>8, <1>9, <1>10, <1>11, <1>12 DEF Next, Handle, Work, Lockers

(* When the worker unlocks, no run in the map is due by its reading of the     *)
(* clock: what TimedRunsEnd needs besides fairness.                           *)
THEOREM RoundCorrect == Spec => RoundLeavesNoneDue
<1>1. Init => ScannedInv
  BY ThreadAssumption DEF Init, ScannedInv, Threads
<1>2. IInv /\ ScannedInv /\ [Next]_vars => ScannedInv'
  BY ScannedStep
<1>3. ScannedInv => (WorkerUnlocks => \A id \in Simulations_ : ~Due(id))
  BY DEF ScannedInv, WorkerUnlocks
<1> QED
  BY <1>1, <1>2, <1>3, InductiveInvariant, PTL DEF Spec, RoundLeavesNoneDue
=============================================================================
