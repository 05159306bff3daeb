------------------------ MODULE SimulationCoordinator ------------------------
(***************************************************************************)
(* The SimulationCoordinator of a master OWLS daemon together with the     *)
(* part of SimStats it drives: the REST threads that start, stop and       *)
(* cancel runs, the worker thread that completes the runs whose length has *)
(* elapsed, the threads of the runners, and the shutdown of the service.   *)
(*                                                                         *)
(* A thread is its program counter; one action is one stretch of code that *)
(* no other thread can observe half done, because a mutex is held or       *)
(* because it touches the thread's own variables only.  The runner that    *)
(* belongs to each run has its own threads and is modelled separately, and *)
(* so are the secondaries that a stop or a cancellation is passed on to.   *)
(***************************************************************************)
EXTENDS Integers, FiniteSets

CONSTANTS
  Handlers,     \* the REST worker threads
  Worker,       \* the coordinator's own thread
  Main,         \* the thread that stops the subsystems
  Users,        \* e-mails of the users
  Roots,        \* the users whose userRole is ROOT
  SimIds,       \* ids of simulation definitions
  Stored,       \* the definitions SimulationDB has a record of
  Length,       \* simulationLength of each definition, 0 for an endless one
  RunIds,       \* the UUIDs MicroServiceCreateUUID can return
  Secondaries,  \* the other OWLS daemons
  Nobody,       \* holder of a free mutex
  NoId,         \* the empty string
  Word,         \* modulus of the unsigned time arithmetic (2^64 in the code)
  MaxTime,      \* bound on the clock
  MaxRequests   \* bound on the number of REST requests

ASSUME ThreadAssumption ==
  /\ Worker \notin Handlers /\ Main \notin Handlers /\ Worker # Main
  /\ Nobody \notin Handlers \cup {Worker, Main}
ASSUME IdAssumption ==
  /\ NoId \notin RunIds /\ NoId \notin SimIds /\ NoId \notin Users
  /\ Stored \subseteq SimIds /\ Roots \subseteq Users
ASSUME TimeAssumption ==
  /\ Length \in [SimIds -> Nat]
  /\ MaxTime \in Nat /\ MaxRequests \in Nat
  /\ Word \in Nat /\ Word > MaxTime

VARIABLES
  now,              \* Utils::Now()
  requests,         \* REST requests made so far
  mutex,            \* the thread that holds SimulationCoordinator::Mutex_
  Simulations_,     \* keys of the map of running simulations
  details,          \* SimulationRecord::Details, as the definition's id
  owner,            \* SimulationRecord::UInfo, as the user's e-mail
  issued,           \* running ids handed out so far
  LookForServices_,
  Services_,
  Running_,         \* SimulationCoordinator::Running_
  Statuses_,        \* SimStats::Statuses_[id][0] of each run, or NoStatus
  results,          \* the rows of SimulationResultsDB
  unsaved,          \* history: the runs whose row could not be inserted
  pc,               \* where each thread is
  job,              \* what each thread is working on: a user and an id
  workerNow,        \* the worker's local variable Now
  toScan            \* runs the worker has yet to look at in this round

mapVars   == <<Simulations_, details, owner, issued>>
lookVars  == <<LookForServices_, Services_>>
scanVars  == <<workerNow, toScan>>
vars == <<now, requests, mutex, mapVars, lookVars, Running_, Statuses_,
          results, unsaved, pc, job, scanVars>>

Threads == Handlers \cup {Worker, Main}
States  == {"running", "completed", "none"}
NoStatus == [state |-> "", startTime |-> 0, endTime |-> 0]
Known(id) == Statuses_[id] # NoStatus

HandlerPCs == {"idle", "start", "stop", "cancel",
               "stats", "end", "setstate", "record", "remove", "forget",
               "hung"}
WorkerPCs  == {"new", "sleep", "refresh", "lock", "scan",
               "end", "record", "remove", "hung", "exit"}
MainPCs    == {"serving", "draining", "joining", "hung", "stopped"}

(* Program points reached with Mutex_ held.  A thread is hung when the runner *)
(* it stops never lets it go (SimulationRunner shows how that can happen).    *)
Critical == {"stats", "end", "setstate", "record", "remove", "forget", "scan",
             "hung"}

Hung == \E p \in Threads : pc[p] = "hung"

NoJob == [user |-> NoId, id |-> NoId]

Goto(p, l) == pc' = [pc EXCEPT ![p] = l]

(* A thread is done with its job. *)
Finish(p, l) == Goto(p, l) /\ job' = [job EXCEPT ![p] = NoJob]

Init ==
  /\ now = 0 /\ requests = 0 /\ mutex = Nobody
  /\ Simulations_ = {} /\ issued = {}
  /\ details = [id \in RunIds |-> NoId]
  /\ owner = [id \in RunIds |-> NoId]
  /\ LookForServices_ = TRUE /\ Services_ = {} /\ Running_ = FALSE
  /\ Statuses_ = [id \in RunIds |-> NoStatus]
  /\ results = {} /\ unsaved = {}
  /\ pc = [p \in Threads |-> CASE p = Worker -> "new" [] p = Main -> "serving"
                               [] OTHER -> "idle"]
  /\ job = [p \in Threads |-> NoJob]
  /\ workerNow = 0 /\ toScan = {}

-----------------------------------------------------------------------------
(* Mutated forms of the definitions below, one slip in the code each; they  *)
(* are in no behaviour and show that the properties can tell the difference. *)

NoLock == TRUE

RemoveRunKeepStats(p) ==   \* RemoveSim forgotten
  /\ Simulations_' = Simulations_ \ {job[p].id}
  /\ UNCHANGED Statuses_

EndSimUnrecorded(p) ==     \* CreateRecord forgotten
  /\ pc[p] = "end"
  /\ Statuses_' = [Statuses_ EXCEPT ![job[p].id] =
                     [@ EXCEPT !.state = "completed", !.endTime = now]]
  /\ Goto(p, "remove")
  /\ UNCHANGED <<now, requests, mutex, mapVars, lookVars, Running_, results,
                 unsaved, job, scanVars>>

SkipsAll(id) ==            \* the scan leaves its loop at the first run not due
  /\ pc[Worker] = "scan" /\ id \in toScan
  /\ toScan' = {}
  /\ UNCHANGED <<now, requests, mutex, mapVars, lookVars, Running_, Statuses_,
                 results, unsaved, pc, job, workerNow>>

NeverIdle == FALSE         \* the end of run never looks for services again

StopHoldingMutex ==        \* Mutex_ is taken before the worker is joined
  /\ pc[Main] = "draining" /\ mutex = Nobody
  /\ mutex' = Main
  /\ Goto(Main, "joining")
  /\ Running_' = FALSE
  /\ UNCHANGED <<now, requests, mapVars, lookVars, Statuses_, results,
                 unsaved, job, scanVars>>

-----------------------------------------------------------------------------
(* std::lock_guard G(Mutex_) *)
Free == mutex = Nobody

(* Time passes. *)
Tick ==
  /\ now < MaxTime
  /\ now' = now + 1
  /\ UNCHANGED <<requests, mutex, mapVars, lookVars, Running_, Statuses_,
                 results, unsaved, pc, job, scanVars>>

-----------------------------------------------------------------------------
(* RESTAPI_operation_handler::DoPost.  The check of a start takes and       *)
(* releases Mutex_ on its own: it compares the running id of the request,   *)
(* which may be missing, with the ids of the definitions being simulated.   *)
IsSimulationRunning(id) == \E r \in Simulations_ : details[r] = id

CanAsk(h) ==
  /\ pc[h] = "idle" /\ pc[Main] = "serving"
  /\ requests < MaxRequests
  /\ requests' = requests + 1

(* Bound: no start is requested that would find RunIds used up. *)
IdsLeft ==
  Cardinality(issued) + Cardinality({h \in Handlers : pc[h] = "start"})
     < Cardinality(RunIds)

RequestStart(h, u, s, given) ==
  /\ CanAsk(h) /\ IdsLeft /\ Free
  /\ IF IsSimulationRunning(given)
       THEN UNCHANGED <<pc, job>>
       ELSE Goto(h, "start") /\ job' = [job EXCEPT ![h] = [user |-> u, id |-> s]]
  /\ UNCHANGED <<now, mutex, mapVars, lookVars, Running_, Statuses_, results,
                 unsaved, scanVars>>

RequestEnd(h, u, op, id) ==
  /\ CanAsk(h)
  /\ Goto(h, op)
  /\ job' = [job EXCEPT ![h] = [user |-> u, id |-> id]]
  /\ UNCHANGED <<now, mutex, mapVars, lookVars, Running_, Statuses_, results,
                 unsaved, scanVars>>

-----------------------------------------------------------------------------
(* MicroServiceCreateUUID never returns an id twice. *)
Fresh(id) == id \notin issued

(* StartSim of a master: GetRecord fails, or a record is made under a new   *)
(* running id and its runner's thread is created ...                        *)
StartMissing(h) ==
  /\ pc[h] = "start" /\ Free
  /\ job[h].id \notin Stored
  /\ Finish(h, "idle")
  /\ UNCHANGED <<now, requests, mutex, mapVars, lookVars, Running_, Statuses_,
                 results, unsaved, scanVars>>

StartInsert(h, id) ==
  /\ pc[h] = "start" /\ Free
  /\ job[h].id \in Stored
  /\ Fresh(id)
  /\ mutex' = h
  /\ LookForServices_' = FALSE
  /\ issued' = issued \cup {id}
  /\ Simulations_' = Simulations_ \cup {id}
  /\ details' = [details EXCEPT ![id] = job[h].id]
  /\ owner' = [owner EXCEPT ![id] = job[h].user]
  /\ job' = [job EXCEPT ![h].id = id]
  /\ Goto(h, "stats")
  /\ UNCHANGED <<now, requests, Services_, Running_, Statuses_, results,
                 unsaved, scanVars>>

(* ... and SimStats::StartSim opens its statistics; Mutex_ is released. *)
StartStats(h) ==
  /\ pc[h] = "stats"
  /\ Statuses_' = [Statuses_ EXCEPT ![job[h].id] =
                     [state |-> "running", startTime |-> now, endTime |-> 0]]
  /\ mutex' = Nobody
  /\ Finish(h, "idle")
  /\ UNCHANGED <<now, requests, mapVars, lookVars, Running_, results, unsaved,
                 scanVars>>

-----------------------------------------------------------------------------
(* StopSim and CancelSim: who may end a run. *)
MayEnd(u, id) == u \in Roots \/ u = owner[id]

EndRefused(h) ==
  /\ pc[h] \in {"stop", "cancel"} /\ Free
  /\ \/ job[h].id \notin Simulations_
     \/ ~MayEnd(job[h].user, job[h].id)
  /\ Finish(h, "idle")
  /\ UNCHANGED <<now, requests, mutex, mapVars, lookVars, Running_, Statuses_,
                 results, unsaved, scanVars>>

EndAccepted(h) ==
  /\ pc[h] \in {"stop", "cancel"} /\ Free
  /\ job[h].id \in Simulations_
  /\ MayEnd(job[h].user, job[h].id)
  /\ mutex' = h
  /\ Goto(h, IF pc[h] = "stop" THEN "end" ELSE "setstate")
  /\ UNCHANGED <<now, requests, mapVars, lookVars, Running_, Statuses_,
                 results, unsaved, job, scanVars>>

(* Whoever ends a run stops its runner first, with Mutex_ held.  Runner.Stop *)
(* may never return ...                                                      *)
RunnerHangs(p) ==
  /\ pc[p] \in {"end", "setstate"}
  /\ Goto(p, "hung")
  /\ UNCHANGED <<now, requests, mutex, mapVars, lookVars, Running_, Statuses_,
                 results, unsaved, job, scanVars>>

(* ... or it does, and a cancellation goes on with SimStats::SetState ...     *)
SetState(h) ==
  /\ pc[h] = "setstate"
  /\ Statuses_' = IF Known(job[h].id)
                    THEN [Statuses_ EXCEPT ![job[h].id] = [@ EXCEPT !.state = "none"]]
                    ELSE Statuses_
  /\ Goto(h, "forget")
  /\ UNCHANGED <<now, requests, mutex, mapVars, lookVars, Running_, results,
                 unsaved, job, scanVars>>

(* ... and StopSim and the worker with SimStats::EndSim. *)
EndSim(p) ==
  /\ pc[p] = "end"
  /\ Statuses_' = IF Known(job[p].id)
                    THEN [Statuses_ EXCEPT ![job[p].id] =
                            [@ EXCEPT !.state = "completed", !.endTime = now]]
                    ELSE Statuses_
  /\ Goto(p, "record")
  /\ UNCHANGED <<now, requests, mutex, mapVars, lookVars, Running_, results,
                 unsaved, job, scanVars>>

(* SimStats::GetCurrent: the blank status unless the run has statistics that *)
(* the user may see.                                                         *)
Blank == [id |-> NoId, simulationId |-> NoId, owner |-> NoId, state |-> "",
          startTime |-> 0, endTime |-> 0]

GetCurrent(id, u) ==
  IF Known(id) /\ MayEnd(u, id)
    THEN [id |-> id, simulationId |-> details[id], owner |-> owner[id],
          state |-> Statuses_[id].state,
          startTime |-> Statuses_[id].startTime,
          endTime |-> Statuses_[id].endTime]
    ELSE Blank

(* SimulationResultsDB().CreateRecord.  The insert may fail, as it does when  *)
(* the id, the table's primary key, is taken; the error is logged and the     *)
(* callers do not look at what is returned.                                   *)
Insert(r) ==
  /\ \A old \in results : old.id # r.id
  /\ results' = results \cup {r}
  /\ UNCHANGED unsaved

InsertFails(r) ==
  /\ unsaved' = unsaved \cup {r.id}
  /\ UNCHANGED results

CreateRecord(r) == Insert(r) \/ InsertFails(r)

Record(p) ==
  /\ pc[p] = "record"
  /\ CreateRecord(GetCurrent(job[p].id, owner[job[p].id]))
  /\ Goto(p, "remove")
  /\ UNCHANGED <<now, requests, mutex, mapVars, lookVars, Running_, Statuses_,
                 job, scanVars>>

(* The secondaries are told (OWLSCluster models what that does), the         *)
(* statistics are dropped and the record is erased.  A cancellation has the  *)
(* worker look for services again, whatever else is running.                 *)
RemoveRun(p) ==
  /\ Statuses_' = [Statuses_ EXCEPT ![job[p].id] = NoStatus]
  /\ Simulations_' = Simulations_ \ {job[p].id}

Remove(h) ==
  /\ pc[h] \in {"remove", "forget"}
  /\ RemoveRun(h)
  /\ LookForServices_' = (LookForServices_ \/ pc[h] = "forget")
  /\ mutex' = Nobody
  /\ Finish(h, "idle")
  /\ UNCHANGED <<now, requests, details, owner, issued, Services_, Running_,
                 results, unsaved, scanVars>>

-----------------------------------------------------------------------------
(* SimulationCoordinator::run, the worker. *)
WorkerStarts ==
  /\ pc[Worker] = "new"
  /\ Running_' = TRUE
  /\ Goto(Worker, "sleep")
  /\ UNCHANGED <<now, requests, mutex, mapVars, lookVars, Statuses_, results,
                 unsaved, job, scanVars>>

(* The sleep ends, by its timeout or by wakeUp, and the flags are read.  Now *)
(* is read here, before Mutex_ is taken.                                     *)
WorkerWakes ==
  /\ pc[Worker] = "sleep"
  /\ Goto(Worker, CASE ~Running_                    -> "exit"
                    [] Running_ /\ LookForServices_ -> "refresh"
                    [] OTHER                        -> "lock")
  /\ workerNow' = IF Running_ /\ ~LookForServices_ THEN now ELSE 0
  /\ UNCHANGED <<now, requests, mutex, mapVars, lookVars, Running_, Statuses_,
                 results, unsaved, job, toScan>>

(* Services_ is replaced by whatever the registry knows, without Mutex_ and  *)
(* whether or not a simulation has started since the flag was read.          *)
WorkerRefreshes(found) ==
  /\ pc[Worker] = "refresh"
  /\ Services_' = found
  /\ workerNow' = now
  /\ Goto(Worker, "lock")
  /\ UNCHANGED <<now, requests, mutex, mapVars, LookForServices_, Running_,
                 Statuses_, results, unsaved, job, toScan>>

WorkerLocks ==
  /\ pc[Worker] = "lock" /\ Free
  /\ mutex' = Worker
  /\ toScan' = Simulations_
  /\ Goto(Worker, "scan")
  /\ UNCHANGED <<now, requests, mapVars, lookVars, Running_, Statuses_,
                 results, unsaved, job, workerNow>>

GetStartTime(id) == IF Known(id) THEN Statuses_[id].startTime ELSE 0

(* The unsigned subtraction wraps when the run started after the clock was  *)
(* read.                                                                    *)
Elapsed(id) == (workerNow - GetStartTime(id)) % Word

(* Mutated form of Due: a run may end on the second it has lasted its length. *)
DueEarly(id) == Length[details[id]] # 0 /\ Elapsed(id) >= Length[details[id]]

Due(id) == Length[details[id]] # 0 /\ Elapsed(id) > Length[details[id]]

WorkerSkips(id) ==
  /\ pc[Worker] = "scan" /\ id \in toScan
  /\ ~Due(id)
  /\ toScan' = toScan \ {id}
  /\ UNCHANGED <<now, requests, mutex, mapVars, lookVars, Running_, Statuses_,
                 results, unsaved, pc, job, workerNow>>

WorkerCompletes(id) ==
  /\ pc[Worker] = "scan" /\ id \in toScan
  /\ Due(id)
  /\ job' = [job EXCEPT ![Worker] = [user |-> owner[id], id |-> id]]
  /\ Goto(Worker, "end")
  /\ UNCHANGED <<now, requests, mutex, mapVars, lookVars, Running_, Statuses_,
                 results, unsaved, scanVars>>

WorkerErases ==
  /\ pc[Worker] = "remove"
  /\ RemoveRun(Worker)
  /\ toScan' = toScan \ {job[Worker].id}
  /\ Finish(Worker, "scan")
  /\ UNCHANGED <<now, requests, mutex, details, owner, issued, lookVars,
                 Running_, results, unsaved, workerNow>>

Idle == Simulations_ = {}

WorkerUnlocks ==
  /\ pc[Worker] = "scan" /\ toScan = {}
  /\ LookForServices_' = (LookForServices_ \/ Idle)
  /\ mutex' = Nobody
  /\ workerNow' = 0
  /\ Goto(Worker, "sleep")
  /\ UNCHANGED <<now, requests, mapVars, Services_, Running_, Statuses_,
                 results, unsaved, job, toScan>>

-----------------------------------------------------------------------------
(* MicroService::StopSubSystemServers stops the REST servers, whose pool    *)
(* joins its threads, before the coordinator.                               *)
Shutdown ==
  /\ pc[Main] = "serving"
  /\ Goto(Main, "draining")
  /\ UNCHANGED <<now, requests, mutex, mapVars, lookVars, Running_, Statuses_,
                 results, unsaved, job, scanVars>>

(* SimulationCoordinator::Stop does nothing unless run has set Running_ ... *)
Stop ==
  /\ pc[Main] = "draining"
  /\ \A h \in Handlers : pc[h] = "idle"
  /\ Goto(Main, IF Running_ THEN "joining" ELSE "stopped")
  /\ Running_' = FALSE
  /\ UNCHANGED <<now, requests, mutex, mapVars, lookVars, Statuses_, results,
                 unsaved, job, scanVars>>

(* ... and joins the worker before it takes Mutex_ and stops what runs. *)
StopJoined ==
  /\ pc[Main] = "joining" /\ pc[Worker] = "exit"
  /\ Free
  /\ Simulations_' = {}
  /\ LookForServices_' = TRUE
  /\ Goto(Main, "stopped")
  /\ UNCHANGED <<now, requests, mutex, details, owner, issued, Services_,
                 Running_, Statuses_, results, unsaved, job, scanVars>>

(* Should one of the runners keep it, Stop does not return either. *)
StopHangs ==
  /\ pc[Main] = "joining" /\ pc[Worker] = "exit"
  /\ Free
  /\ Simulations_ # {}
  /\ mutex' = Main
  /\ Goto(Main, "hung")
  /\ UNCHANGED <<now, requests, mapVars, lookVars, Running_, Statuses_,
                 results, unsaved, job, scanVars>>

-----------------------------------------------------------------------------
Ask(h) ==
  \E u \in Users :
    \/ \E s \in SimIds, given \in SimIds \cup {NoId} : RequestStart(h, u, s, given)
    \/ \E op \in {"stop", "cancel"}, id \in RunIds : RequestEnd(h, u, op, id)

Handle(h) ==
  \/ StartMissing(h)
  \/ \E id \in RunIds : StartInsert(h, id)
  \/ StartStats(h)
  \/ EndRefused(h)
  \/ EndAccepted(h)
  \/ RunnerHangs(h)
  \/ SetState(h)
  \/ EndSim(h)
  \/ Record(h)
  \/ Remove(h)

Work ==
  \/ WorkerStarts
  \/ WorkerWakes
  \/ \E found \in SUBSET Secondaries : WorkerRefreshes(found)
  \/ WorkerLocks
  \/ \E id \in RunIds : WorkerSkips(id) \/ WorkerCompletes(id)
  \/ RunnerHangs(Worker)
  \/ EndSim(Worker)
  \/ Record(Worker)
  \/ WorkerErases
  \/ WorkerUnlocks

Next ==
  \/ Tick
  \/ \E h \in Handlers : Ask(h) \/ Handle(h)
  \/ Work
  \/ Shutdown
  \/ Stop
  \/ StopJoined
  \/ StopHangs

Spec == Init /\ [][Next]_vars

(* Threads that can run do run, and time passes; clients and the operator   *)
(* who stops the service are not obliged to do anything.  A REST thread     *)
(* that waits for Mutex_ gets it in the end: the worker leaves it free for  *)
(* two seconds in every round.  Only the stop of a runner is not obliged to  *)
(* return.                                                                   *)
FairSpec ==
  /\ Spec
  /\ WF_vars(Tick)
  /\ \A h \in Handlers : SF_vars(Handle(h))
  /\ WF_vars(Work)
  /\ WF_vars(Stop)
  /\ WF_vars(StopJoined \/ StopHangs)
-----------------------------------------------------------------------------
Times == 0 .. MaxTime

Status == [state : States \cup {""}, startTime : Times, endTime : Times]
Row == [id : RunIds \cup {NoId}, simulationId : SimIds \cup {NoId},
        owner : Users \cup {NoId}, state : States \cup {""},
        startTime : Times, endTime : Times]
Job == [user : Users \cup {NoId}, id : SimIds \cup RunIds \cup {NoId}]

(* The type of every variable, and which program points a thread can reach. *)
TypeOK ==
  /\ now \in Times /\ workerNow \in Times /\ requests \in 0 .. MaxRequests
  /\ mutex \in Threads \cup {Nobody}
  /\ issued \subseteq RunIds /\ Simulations_ \subseteq RunIds
  /\ toScan \subseteq RunIds
  /\ details \in [RunIds -> SimIds \cup {NoId}]
  /\ owner \in [RunIds -> Users \cup {NoId}]
  /\ LookForServices_ \in BOOLEAN /\ Running_ \in BOOLEAN
  /\ Services_ \subseteq Secondaries
  /\ Statuses_ \in [RunIds -> Status]
  /\ results \subseteq Row /\ unsaved \subseteq RunIds \cup {NoId}
  /\ pc \in [Threads -> HandlerPCs \cup WorkerPCs \cup MainPCs]
  /\ \A h \in Handlers : pc[h] \in HandlerPCs
  /\ pc[Worker] \in WorkerPCs /\ pc[Main] \in MainPCs
  /\ job \in [Threads -> Job]

(* Every row of the results table is the final account of one run that was  *)
(* really started: it is completed, it ended after it started, and it names  *)
(* the definition and the user the run was started with.  A row made from    *)
(* statistics that were not there yet, or are there no more, is blank, and a *)
(* row made before EndSim still says "running".                              *)
ResultsAreFinal ==
  \A r \in results :
    /\ r.id \in issued
    /\ r.state = "completed"
    /\ r.startTime <= r.endTime
    /\ r.owner = owner[r.id] /\ r.simulationId = details[r.id]

(* Whenever no thread is inside the coordinator, SimStats keeps statistics   *)
(* for exactly the runs in the coordinator's map: none leaks, and none is    *)
(* missing when the worker asks for its start time.                          *)
StatsMatchSimulations ==
  Free /\ pc[Main] # "stopped" => Simulations_ = {id \in RunIds : Known(id)}

(* A run whose statistics say that it is completed leaves the map only once  *)
(* its result is stored, and the worker and a REST thread never both end it. *)
(* The one way in which a result is lost is an insert that fails: the run is *)
(* removed all the same.                                                     *)
Recorded(id) == \E r \in results : r.id = id

CompletedRunsAreRecorded ==
  [][\A id \in Simulations_ \ Simulations_' :
       Statuses_[id].state = "completed" => Recorded(id) \/ id \in unsaved]_vars

(* A run of a definition with a length lasts longer than that length unless  *)
(* a user ends it: the worker completes no run before its time.  The one     *)
(* exception is a run that started after the worker had read the clock and   *)
(* before it locked the map, whose elapsed time wraps.                       *)
RunsItsLength ==
  [][\A id \in RunIds :
       WorkerCompletes(id) =>
         \/ now - GetStartTime(id) > Length[details[id]]
         \/ GetStartTime(id) > workerNow]_vars

(* No simulation definition is being run twice at the same time. *)
NoSecondInstance ==
  \A a, b \in Simulations_ : details[a] = details[b] => a = b

(* The worker ends every run of a definition with a length, if no user does *)
(* and the service is not stopped first; nothing but a runner that keeps the *)
(* thread that stops it, and Mutex_ with it, prevents that.  The clock of the *)
(* model stops at MaxTime, so a run must have had the time to become due.     *)
TimedRunsEnd ==
  \A id \in RunIds :
    (/\ id \in Simulations_ /\ Known(id)
     /\ Length[details[id]] # 0
     /\ Statuses_[id].startTime + Length[details[id]] < MaxTime)
      ~> (id \notin Simulations_ \/ Hung)

(* A round of the worker leaves no run behind that is due by its reading of    *)
(* the clock: the scan misses none, though runs are erased on the way.        *)
RoundLeavesNoneDue == [][WorkerUnlocks => \A id \in Simulations_ : ~Due(id)]_vars

(* A coordinator with nothing to run goes back to looking for secondaries:  *)
(* a stopped run does not leave LookForServices_ cleared for good.          *)
IdleLooksForServices ==
  (Simulations_ = {} /\ Running_) ~>
     (LookForServices_ \/ Simulations_ # {} \/ ~Running_)

(* A shutdown that finds the worker running gets past the join and past     *)
(* Mutex_, whatever the REST threads were doing, unless one of them, the     *)
(* worker or the shutdown itself is kept by the runner it stops.             *)
ShutdownEnds == (pc[Main] = "draining") ~> (pc[Main] = "stopped" \/ Hung)

(* The join of a shutdown waits for a worker that runs, that is told to end     *)
(* and that no REST thread keeps from Mutex_; and where a worker was joined,   *)
(* no run is left, nor anyone with Mutex_.                                    *)
ShutdownPasses ==
  /\ pc[Main] = "joining" => ~Running_ /\ pc[Worker] # "new" /\ mutex \in {Nobody, Worker}
  /\ pc[Main] = "stopped" /\ pc[Worker] = "exit" => Simulations_ = {} /\ Free

(* Seen from outside a run has the abstract lifecycle: started once, ended   *)
(* once, with its result or without one.                                     *)
Phase(id) ==
  CASE Recorded(id)                              -> "completed"
    [] ~Recorded(id) /\ id \in Simulations_       -> "running"
    [] ~Recorded(id) /\ id \in issued \ Simulations_ -> "discarded"
    [] OTHER                                     -> "unborn"

Lifecycle == INSTANCE SimulationLifecycle
               WITH phase <- [id \in RunIds |-> Phase(id)]

ImplementsLifecycle == Lifecycle!Spec
-----------------------------------------------------------------------------
(* The strengthening that makes the invariants above inductive.  Mutex_ is  *)
(* held by exactly the thread inside a critical section, and once Main is    *)
(* past draining no REST thread is inside one.                               *)
Lockers == Handlers \cup {Worker}

LockInv ==
  /\ \A p \in Lockers : (pc[p] \in Critical) <=> (mutex = p)
  /\ (pc[Main] = "hung") <=> (mutex = Main)
  /\ pc[Main] \in {"joining", "hung", "stopped"} => \A h \in Handlers : pc[h] = "idle"

(* The run a thread is opening or ending belongs to that thread: it is in    *)
(* the map, and its statistics and its row are as far as the thread is.      *)
Working == Critical \ {"scan"}

JobOf(p) ==
  LET id == job[p].id
  IN /\ pc[p] \in Working => id \in Simulations_
     /\ pc[p] = "stats" => ~Known(id) /\ ~Recorded(id)
     /\ pc[p] \in {"end", "setstate", "hung"} =>
          Known(id) /\ Statuses_[id].state = "running" /\ ~Recorded(id)
     /\ pc[p] = "record" =>
          /\ ~Recorded(id)
          /\ Statuses_[id].state = "completed"
          /\ Statuses_[id].startTime <= Statuses_[id].endTime
     /\ pc[p] = "remove" => Recorded(id) \/ id \in unsaved
     /\ pc[p] = "forget" => Statuses_[id].state = "none" /\ ~Recorded(id)

(* So it is for every thread that can have one. *)
JobInv == \A p \in Lockers : JobOf(p)

(* A run in the map is being opened or ended by a thread, or has running     *)
(* statistics and no row.                                                    *)
OwnedBy(p, id) == pc[p] \in Working /\ job[p].id = id
Untouched(id) ==
  Known(id) /\ Statuses_[id].state = "running" /\ ~Recorded(id)

RunInv ==
  /\ Simulations_ \subseteq issued
  /\ \A id \in Simulations_ :
       Untouched(id) \/ \E p \in Lockers : OwnedBy(p, id)

(* Statistics are those of a run in the map, until the service stops. *)
StatsInv ==
  \A id \in RunIds :
    Known(id) =>
      /\ id \in issued /\ Statuses_[id].startTime <= now
      /\ id \in Simulations_ \/ pc[Main] = "stopped"
      /\ Statuses_[id].state # ""

(* The worker only looks at runs that are in the map. *)
ScanInv ==
  /\ pc[Worker] \notin {"scan", "end", "record", "remove", "hung"} => toScan = {}
  /\ toScan \subseteq Simulations_

(* What Running_ says of the worker, and how far Stop is when it is down. *)
RunningInv ==
  /\ pc[Worker] = "new" => ~Running_
  /\ Running_ \/ pc[Worker] \in {"new", "exit"} \/ pc[Main] = "joining"
  /\ pc[Main] = "joining" => ~Running_ /\ pc[Worker] # "new"
  /\ pc[Worker] = "exit" => pc[Main] \in {"joining", "hung", "stopped"}
  /\ pc[Main] = "hung" => pc[Worker] = "exit"
  /\ pc[Worker] = "exit" /\ pc[Main] = "stopped" => Simulations_ = {}

(* The runs of this round that are behind the worker were not due. *)
ScannedInv ==
  pc[Worker] \in {"scan", "end", "record", "remove", "hung"} =>
    \A id \in Simulations_ \ toScan : ~Due(id)

(* The inductive invariant; RunningInv and ScannedInv are inductive with it. *)
IInv ==
  /\ TypeOK
  /\ LockInv
  /\ JobInv
  /\ RunInv
  /\ StatsInv
  /\ ScanInv
  /\ ResultsAreFinal
=============================================================================
