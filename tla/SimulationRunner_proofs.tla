----------------------- MODULE SimulationRunner_proofs -----------------------
(***************************************************************************)
(* Proofs about SimulationRunner, for any reactors, events, commands, period *)
(* and errors.                                                             *)
(***************************************************************************)
EXTENDS SimulationRunner, TLAPS

(* The threads of the runner are distinct holders of its mutex. *)
LEMMA HoldersDistinct ==
  /\ Nobody \notin Reactors /\ Nobody \notin {"main", "run", "timer"}
  /\ \A r \in Reactors : r \notin {"main", "run", "timer"}
BY NobodyAssumption, ReactorsAssumption

(* A new runner is in a state of the invariant. *)
LEMMA InitInv == Init => IInv
<1> SUFFICES ASSUME Init PROVE IInv
  OBVIOUS
<1>1. TypeOK
  <2>1. StatsUpdates_ \in 0 .. Period - 1 /\ errors \in 0 .. MaxErrors
    BY PeriodAssumption, ErrorsAssumption DEF Init
  <2>2. reactor \in [Reactors -> ReactorStates]
    BY DEF Init, ReactorStates
  <2>3. /\ main \in MainStates /\ run \in RunStates /\ timer \in TimerStates
        /\ Mutex_ \in Holders \cup {Nobody}
        /\ SocketReactorPool_ \subseteq Reactors /\ stopped \subseteq Reactors
    BY DEF Init, MainStates, RunStates, TimerStates
  <2>4. /\ Running_ \in BOOLEAN /\ Clients_ \in BOOLEAN /\ quitting \in BOOLEAN
        /\ missed \in BOOLEAN /\ overtook \in BOOLEAN
    BY DEF Init
  <2>5. /\ task \in [Tasks -> TaskStates] /\ command \in [Commands -> CommandStates]
        /\ caught \subseteq Tasks \cup Commands /\ dangled \subseteq Tasks \cup Commands
    BY DEF Init, TaskStates, CommandStates
  <2> QED
    BY <2>1, <2>2, <2>3, <2>4, <2>5 DEF TypeOK
<1>2. LockInv
  BY HoldersDistinct DEF Init, LockInv
<1>3. ProgressInv /\ PoolInv /\ NoUpdateAfterStop
  BY DEF Init, ProgressInv, PoolInv, NoUpdateAfterStop
<1>4. UserInv
  BY DEF Init, UserInv, RunPast, DanglesOnlyIfCaught
<1> QED
  BY <1>1, <1>2, <1>3, <1>4 DEF IInv

(* The parts of the type that a step of a thread may change. *)
LEMMA RunTypes == ASSUME TypeOK, RunStep PROVE TypeOK'
<1> USE DEF TypeOK, Holders, RunStates, users
<1>1. CASE RunBegins
  BY <1>1 DEF RunBegins
<1>2. CASE RunLocks
  BY <1>2 DEF RunLocks, RunGuard, Lock
<1>3. ASSUME NEW r \in Reactors, RunCreates(r) PROVE TypeOK'
  BY <1>3 DEF RunCreates, ReactorStates
<1>4. CASE RunClients
  BY <1>4 DEF RunClients, TaskStates
<1>5. CASE RunRemote
  BY <1>5 DEF RunRemote, Unlock
<1>6. CASE RunTimer
  BY <1>6 DEF RunTimer, TimerStates
<1>7. CASE RunEnds
  BY <1>7 DEF RunEnds, Unlock
<1> QED
  BY <1>1, <1>2, <1>3, <1>4, <1>5, <1>6, <1>7 DEF RunStep

(* The steps of the timer keep the types. *)
LEMMA TimerTypes == ASSUME TypeOK, TimerStep PROVE TypeOK'
<1> USE DEF TypeOK, Holders, TimerStates, users
<1>1. CASE TimerFires
  BY <1>1 DEF TimerFires
<1>2. CASE TimerSends
  BY <1>2 DEF TimerSends
<1>3. CASE TimerCounts
  <2>1. (StatsUpdates_ + 1) % Period \in 0 .. Period - 1
    BY PeriodAssumption
  <2> QED
    BY <1>3, <2>1 DEF TimerCounts
<1>4. CASE TimerLocks
  BY <1>4 DEF TimerLocks, Lock
<1>5. CASE TimerUnlocks
  BY <1>5 DEF TimerUnlocks, Unlock
<1>6. CASE TimerQuits
  BY <1>6 DEF TimerQuits
<1> QED
  BY <1>1, <1>2, <1>3, <1>4, <1>5, <1>6 DEF TimerStep

(* The steps of a reactor keep the types. *)
LEMMA ReactorTypes ==
  ASSUME TypeOK, NEW r \in Reactors, SocketFails(r) \/ ReactorStep(r)
  PROVE  TypeOK'
<1> USE DEF TypeOK, Holders, ReactorStates, users
<1>1. CASE SocketFails(r)
  BY <1>1, ErrorsAssumption DEF SocketFails
<1>2. CASE OnSocketError(r)
  BY <1>2 DEF OnSocketError, Lock
<1>3. CASE ErrorEnds(r)
  BY <1>3 DEF ErrorEnds, Unlock, Schedules, TaskStates
<1>4. CASE ReactorEnds(r)
  BY <1>4 DEF ReactorEnds
<1> QED
  BY <1>1, <1>2, <1>3, <1>4 DEF ReactorStep

(* The steps of the coordinator's thread keep the types. *)
LEMMA MainTypes ==
  ASSUME TypeOK, Start \/ StopMisses \/ StopBegins \/ MainStep
  PROVE  TypeOK'
<1> USE DEF TypeOK, Holders, MainStates, users
<1>1. CASE Start
  BY <1>1 DEF Start, RunStates
<1>2. CASE StopMisses \/ StopBegins
  BY <1>2 DEF StopMisses, StopBegins, Passed
<1>3. CASE StopsTimer
  BY <1>3 DEF StopsTimer
<1>4. CASE TimerStopped
  BY <1>4 DEF TimerStopped
<1>5. CASE StopLocks
  BY <1>5 DEF StopLocks, Lock
<1>6. CASE StopsReactors
  BY <1>6 DEF StopsReactors
<1>7. CASE StopJoins
  BY <1>7 DEF StopJoins, Unlock
<1>8. CASE Erases \/ Destroyed
  BY <1>8 DEF Erases, Destroyed, TaskStates
<1> QED
  BY <1>1, <1>2, <1>3, <1>4, <1>5, <1>6, <1>7, <1>8 DEF MainStep

(* An event, a command and what starts them change nothing but themselves and   *)
(* the history.                                                                *)
UserStep ==
  \/ SocketLost \/ \E t \in Tasks : EventStep(t)
  \/ \E k \in Commands : ProcessCommand(k) \/ CommandStep(k)

LEMMA UserFrame ==
  UserStep => UNCHANGED <<Running_, Mutex_, main, run, timer, reactor, SocketReactorPool_,
                          stopped, Clients_, StatsUpdates_, quitting, missed, overtook,
                          errors, caught>>
BY DEF UserStep, SocketLost, EventStep, EventBegins, EventSends, EventEnds,
   ProcessCommand, CommandStep, CommandSends, CommandDisconnects, CommandWakes

(* What an event or a command schedules is an event. *)
LEMMA SchedulesType == ASSUME TypeOK, Schedules PROVE task' \in [Tasks -> TaskStates]
BY DEF TypeOK, Schedules, TaskStates

(* The steps of the events and of the commands keep the types. *)
LEMMA UserTypes == ASSUME TypeOK, UserStep PROVE TypeOK'
<1>1. task' \in [Tasks -> TaskStates]
  BY SchedulesType DEF UserStep, TypeOK, TaskStates, SocketLost, EventStep, EventBegins,
     EventSends, EventEnds, ProcessCommand, CommandStep, CommandSends,
     CommandDisconnects, CommandWakes
<1>2. command' \in [Commands -> CommandStates]
  BY DEF UserStep, TypeOK, CommandStates, SocketLost, EventStep, EventBegins, EventSends,
     EventEnds, ProcessCommand, CommandStep, CommandSends, CommandDisconnects, CommandWakes
<1>3. dangled' \subseteq Tasks \cup Commands
  BY DEF UserStep, TypeOK, UsesReactor, SocketLost, EventStep, EventBegins, EventSends,
     EventEnds, ProcessCommand, CommandStep, CommandSends, CommandDisconnects, CommandWakes
<1> QED
  BY <1>1, <1>2, <1>3, UserFrame DEF TypeOK

(* A step of run() keeps the invariant: the guard makes it wait for a Stop    *)
(* that has the mutex, and what it creates is in the pool.                    *)
LEMMA RunInv ==
  ASSUME IInv, RunStep
  PROVE  LockInv' /\ ProgressInv' /\ PoolInv' /\ NoUpdateAfterStop'
<1> USE HoldersDistinct DEF IInv
<1>1. CASE RunBegins
  <2>1. LockInv' /\ ProgressInv'
    BY <1>1 DEF RunBegins, LockInv, ProgressInv
  <2>2. PoolInv' /\ NoUpdateAfterStop'
    BY <1>1 DEF RunBegins, PoolInv, NoUpdateAfterStop
  <2> QED
    BY <2>1, <2>2
<1>2. CASE RunLocks
  <2>1. LockInv'
    BY <1>2 DEF RunLocks, RunGuard, Lock, LockInv
  <2>2. ProgressInv'
    BY <1>2 DEF RunLocks, ProgressInv
  <2>3. PoolInv' /\ NoUpdateAfterStop'
    BY <1>2 DEF RunLocks, PoolInv, NoUpdateAfterStop
  <2> QED
    BY <2>1, <2>2, <2>3
<1>3. ASSUME NEW r \in Reactors, RunCreates(r)
      PROVE  LockInv' /\ ProgressInv' /\ PoolInv' /\ NoUpdateAfterStop'
  <2>1. /\ reactor' \in [Reactors -> ReactorStates] /\ reactor'[r] = "running"
        /\ \A s \in Reactors \ {r} : reactor'[s] = reactor[s]
    BY <1>3 DEF RunCreates, TypeOK, ReactorStates
  <2>2. LockInv'
    BY <1>3, <2>1 DEF RunCreates, LockInv
  <2>3. ProgressInv' /\ NoUpdateAfterStop'
    BY <1>3 DEF RunCreates, ProgressInv, NoUpdateAfterStop
  <2>4. PoolInv'
    <3>1. main \in {"returned", "destroying", "destroyed"} => missed \/ overtook
      BY <1>3 DEF RunCreates, ProgressInv
    <3> QED
      BY <1>3, <2>1, <3>1 DEF RunCreates, PoolInv, TypeOK
  <2> QED
    BY <2>2, <2>3, <2>4
<1>4. CASE RunClients
  <2>1. LockInv' /\ ProgressInv' /\ NoUpdateAfterStop'
    BY <1>4 DEF RunClients, LockInv, ProgressInv, NoUpdateAfterStop
  <2>2. PoolInv'
    <3>1. main \in {"returned", "destroying", "destroyed"} => missed \/ overtook
      BY <1>4 DEF RunClients, ProgressInv
    <3> QED
      BY <1>4, <3>1 DEF RunClients, PoolInv
  <2> QED
    BY <2>1, <2>2
<1>5. CASE RunRemote \/ RunEnds
  <2>1. LockInv'
    BY <1>5 DEF RunRemote, RunEnds, Unlock, LockInv
  <2>2. ProgressInv'
    BY <1>5 DEF RunRemote, RunEnds, ProgressInv
  <2>3. PoolInv' /\ NoUpdateAfterStop'
    BY <1>5 DEF RunRemote, RunEnds, PoolInv, NoUpdateAfterStop
  <2> QED
    BY <2>1, <2>2, <2>3
<1>6. CASE RunTimer
  <2>1. LockInv'
    <3>1. timer # "clients"
      BY <1>6 DEF RunTimer, LockInv
    <3> QED
      BY <1>6, <3>1 DEF RunTimer, LockInv
  <2>2. ProgressInv'
    BY <1>6 DEF RunTimer, ProgressInv, Alive
  <2>3. PoolInv' /\ NoUpdateAfterStop'
    BY <1>6 DEF RunTimer, PoolInv, NoUpdateAfterStop
  <2> QED
    BY <2>1, <2>2, <2>3
<1> QED
  BY <1>1, <1>2, <1>3, <1>4, <1>5, <1>6 DEF RunStep

(* A step of the timer keeps the invariant: it fires only while Running_.     *)
LEMMA TimerInv ==
  ASSUME IInv, TimerStep
  PROVE  LockInv' /\ ProgressInv' /\ PoolInv' /\ NoUpdateAfterStop'
<1> USE HoldersDistinct DEF IInv
<1>1. CASE TimerFires
  <2>1. LockInv' /\ ProgressInv' /\ PoolInv'
    BY <1>1 DEF TimerFires, LockInv, ProgressInv, PoolInv, Alive
  <2>2. NoUpdateAfterStop'
    BY <1>1 DEF TimerFires, Checks, NoUpdateAfterStop, ProgressInv
  <2> QED
    BY <2>1, <2>2
<1>2. CASE TimerSends \/ TimerQuits
  BY <1>2 DEF TimerSends, TimerQuits, LockInv, ProgressInv, PoolInv,
     NoUpdateAfterStop, Alive
<1>3. CASE TimerCounts
  <2>1. timer = "count" /\ timer' \in {"lock", "armed"} /\ main # "destroyed"
    BY <1>3 DEF TimerCounts, Alive
  <2> QED
    BY <1>3, <2>1 DEF TimerCounts, LockInv, ProgressInv, PoolInv, NoUpdateAfterStop
<1>4. CASE TimerLocks
  <2>1. LockInv'
    BY <1>4 DEF TimerLocks, Lock, LockInv
  <2>2. ProgressInv' /\ PoolInv' /\ NoUpdateAfterStop'
    BY <1>4 DEF TimerLocks, ProgressInv, PoolInv, NoUpdateAfterStop, Alive
  <2> QED
    BY <2>1, <2>2
<1>5. CASE TimerUnlocks
  <2>1. LockInv'
    BY <1>5 DEF TimerUnlocks, Unlock, LockInv
  <2>2. ProgressInv' /\ PoolInv' /\ NoUpdateAfterStop'
    BY <1>5 DEF TimerUnlocks, ProgressInv, PoolInv, NoUpdateAfterStop, Alive
  <2> QED
    BY <2>1, <2>2
<1> QED
  BY <1>1, <1>2, <1>3, <1>4, <1>5 DEF TimerStep

(* A step of a reactor keeps the invariant: none runs once Stop has joined    *)
(* the pool.                                                                  *)
LEMMA ReactorInv ==
  ASSUME IInv, NEW r \in Reactors, SocketFails(r) \/ ReactorStep(r)
  PROVE  LockInv' /\ ProgressInv' /\ PoolInv' /\ NoUpdateAfterStop'
<1> USE HoldersDistinct DEF IInv
<1>1. /\ reactor' \in [Reactors -> ReactorStates]
      /\ reactor[r] \notin {"none", "ended"} /\ reactor'[r] # "none"
      /\ \A s \in Reactors \ {r} : reactor'[s] = reactor[s]
  BY DEF TypeOK, ReactorStates, ReactorStep, SocketFails, OnSocketError, ErrorEnds,
     ReactorEnds
<1>2. UNCHANGED <<Running_, main, run, timer, SocketReactorPool_, Clients_, missed,
                  overtook>>
  BY DEF ReactorStep, SocketFails, OnSocketError, ErrorEnds, ReactorEnds
<1>3. LockInv'
  <2>1. CASE SocketFails(r) \/ ReactorEnds(r)
    <3>1. reactor[r] # "error" /\ reactor'[r] # "error" /\ Mutex_' = Mutex_
      BY <2>1 DEF SocketFails, ReactorEnds, TypeOK
    <3> QED
      BY <1>1, <1>2, <3>1 DEF LockInv
  <2>2. CASE OnSocketError(r)
    <3>1. reactor'[r] = "error" /\ Mutex_ \in {Nobody, r} /\ Mutex_' = r
      BY <2>2 DEF OnSocketError, Lock, TypeOK
    <3> QED
      BY <1>1, <1>2, <3>1 DEF LockInv
  <2>3. CASE ErrorEnds(r)
    <3>1. reactor[r] = "error" /\ reactor'[r] = "running" /\ Mutex_' = Nobody
      BY <2>3 DEF ErrorEnds, Unlock, TypeOK
    <3> QED
      BY <1>1, <1>2, <3>1 DEF LockInv
  <2> QED
    BY <2>1, <2>2, <2>3 DEF ReactorStep
<1>4. ProgressInv' /\ NoUpdateAfterStop'
  BY <1>2 DEF ProgressInv, NoUpdateAfterStop
<1>5. PoolInv'
  BY <1>1, <1>2 DEF PoolInv, TypeOK
<1> QED
  BY <1>3, <1>4, <1>5

(* A step of the coordinator's thread keeps the invariant.  The two that      *)
(* matter: Stop gets the mutex only before run() had it or after run() ended,  *)
(* and leaves it with every reactor joined.                                   *)
LEMMA MainInv ==
  ASSUME IInv, Start \/ StopMisses \/ StopBegins \/ MainStep
  PROVE  LockInv' /\ ProgressInv' /\ PoolInv' /\ NoUpdateAfterStop'
<1> USE HoldersDistinct DEF IInv
<1>1. CASE Start
  BY <1>1 DEF Start, LockInv, ProgressInv, PoolInv, NoUpdateAfterStop
<1>2. CASE StopMisses
  BY <1>2 DEF StopMisses, LockInv, ProgressInv, PoolInv, NoUpdateAfterStop
<1>3. CASE StopBegins
  BY <1>3 DEF StopBegins, LockInv, ProgressInv, PoolInv, NoUpdateAfterStop
<1>4. CASE StopsTimer
  <2>1. main = "timer" /\ ((main' = "lock" /\ timer = "off") \/ main' = "timerwait")
    BY <1>4 DEF StopsTimer
  <2> QED
    BY <1>4, <2>1 DEF StopsTimer, LockInv, ProgressInv, PoolInv, NoUpdateAfterStop
<1>5. CASE TimerStopped
  BY <1>5 DEF TimerStopped, LockInv, ProgressInv, PoolInv, NoUpdateAfterStop
<1>6. CASE StopLocks
  <2>1. run \in {"lock", "ended"}
    <3>1. Mutex_ # "run" /\ ~missed
      BY <1>6 DEF StopLocks, Lock, ProgressInv
    <3> QED
      BY <1>6, <3>1 DEF StopLocks, LockInv, ProgressInv, TypeOK, RunStates
  <2>2. LockInv'
    BY <1>6 DEF StopLocks, Lock, LockInv
  <2>3. ProgressInv'
    BY <1>6, <2>1 DEF StopLocks, ProgressInv
  <2>4. PoolInv' /\ NoUpdateAfterStop'
    BY <1>6 DEF StopLocks, PoolInv, NoUpdateAfterStop
  <2> QED
    BY <2>2, <2>3, <2>4
<1>7. CASE StopsReactors
  BY <1>7 DEF StopsReactors, LockInv, ProgressInv, PoolInv, NoUpdateAfterStop
<1>8. CASE StopJoins
  <2>1. LockInv'
    BY <1>8 DEF StopJoins, Unlock, LockInv
  <2>2. ProgressInv' /\ NoUpdateAfterStop'
    BY <1>8 DEF StopJoins, ProgressInv, NoUpdateAfterStop
  <2>3. \A r \in Reactors : reactor[r] \in {"none", "ended"}
    BY <1>8 DEF StopJoins, PoolInv
  <2>4. PoolInv'
    BY <1>8, <2>3 DEF StopJoins, PoolInv, ProgressInv
  <2> QED
    BY <2>1, <2>2, <2>4
<1>9. CASE Erases \/ Destroyed
  BY <1>9 DEF Erases, Destroyed, LockInv, ProgressInv, PoolInv, NoUpdateAfterStop
<1> QED
  BY <1>1, <1>2, <1>3, <1>4, <1>5, <1>6, <1>7, <1>8, <1>9 DEF MainStep

(* What events and commands do keeps the lock, the pool and the timer. *)
LEMMA UserFrameInv ==
  ASSUME IInv, UserStep
  PROVE  LockInv' /\ ProgressInv' /\ PoolInv' /\ NoUpdateAfterStop'
BY UserFrame DEF IInv, LockInv, ProgressInv, PoolInv, NoUpdateAfterStop

-----------------------------------------------------------------------------
(* A step that changes nothing UserInv speaks of. *)
LEMMA UserKept ==
  ASSUME UserInv,
         UNCHANGED <<main, run, reactor, SocketReactorPool_, Clients_, missed, users>>
  PROVE  UserInv'
<1>1. Passed' = Passed
  BY DEF users, Passed
<1> QED
  BY <1>1 DEF UserInv, users, RunPast, DanglesOnlyIfCaught

(* run() makes the reactors before the first event is scheduled. *)
LEMMA RunUsers == ASSUME IInv, RunStep PROVE UserInv'
<1> USE DEF IInv
<1>1. CASE RunBegins \/ RunLocks \/ RunRemote \/ RunTimer \/ RunEnds
  <2>1. /\ UNCHANGED <<main, reactor, SocketReactorPool_, Clients_, missed, users>>
        /\ RunPast' <=> RunPast
    BY <1>1 DEF RunBegins, RunLocks, RunRemote, RunTimer, RunEnds, RunPast
  <2>2. Passed' = Passed
    BY <2>1 DEF users, Passed
  <2> QED
    BY <2>1, <2>2 DEF UserInv, users, DanglesOnlyIfCaught
<1>2. ASSUME NEW r \in Reactors, RunCreates(r) PROVE UserInv'
  <2>1. /\ UNCHANGED <<main, run, Clients_, missed, users>> /\ ~RunPast /\ ~RunPast'
        /\ \A s \in Reactors : reactor'[s] \in {reactor[s], "running"}
    BY <1>2 DEF RunCreates, RunPast, TypeOK
  <2>2. Passed' = Passed
    BY <2>1 DEF users, Passed
  <2> QED
    BY <2>1, <2>2 DEF UserInv, users, DanglesOnlyIfCaught
<1>3. CASE RunClients
  <2>1. /\ UNCHANGED <<main, reactor, SocketReactorPool_, missed, command, caught, dangled>>
        /\ main # "destroyed" /\ RunPast' /\ \A r \in Reactors : reactor[r] # "none"
        /\ task' = [t \in Tasks |-> "scheduled"]
    BY <1>3 DEF RunClients, RunPast, Alive
  <2>2. SocketReactorPool_ = {} => main \in {"returned", "destroying", "destroyed"} /\ ~missed
    BY <2>1, ReactorsAssumption DEF PoolInv, TypeOK, MainStates
  <2>3. Passed' \subseteq Passed
    BY <2>1 DEF Passed
  <2> QED
    BY <2>1, <2>2, <2>3 DEF UserInv, DanglesOnlyIfCaught
<1> QED
  BY <1>1, <1>2, <1>3 DEF RunStep

(* A callback for an error schedules an event, in a run whose events are there. *)
LEMMA ReactorUsers ==
  ASSUME IInv, NEW r \in Reactors, SocketFails(r) \/ ReactorStep(r)
  PROVE  UserInv'
<1> USE DEF IInv
<1>1. UNCHANGED <<main, run, SocketReactorPool_, Clients_, missed, command, caught,
                  dangled>>
  BY DEF ReactorStep, SocketFails, OnSocketError, ErrorEnds, ReactorEnds, users
<1>2. \A s \in Reactors \ {r} : reactor'[s] = reactor[s]
  BY DEF TypeOK, ReactorStep, SocketFails, OnSocketError, ErrorEnds, ReactorEnds
<1>3. reactor'[r] \in {"errorlock", "error"} => RunPast
  BY DEF TypeOK, ReactorStep, SocketFails, OnSocketError, ErrorEnds, ReactorEnds, UserInv
<1>4. UNCHANGED task \/ (Schedules /\ RunPast /\ main # "destroyed")
  BY DEF ReactorStep, SocketFails, OnSocketError, ErrorEnds, ReactorEnds, users, UserInv,
     Alive
<1>5. Passed' = Passed
  BY <1>1, <1>4 DEF Schedules, Passed, TypeOK
<1>6. \A t \in Tasks : task'[t] # "none" => task[t] # "none" \/ RunPast
  BY <1>4
<1>7. main = "destroyed" => UNCHANGED task
  BY <1>4
<1> QED
  BY <1>1, <1>2, <1>3, <1>5, <1>6, <1>7 DEF UserInv, RunPast, DanglesOnlyIfCaught

(* An event or a command passes a look at Running_ only before Stop clears it,  *)
(* so that one that finds the reactors destroyed was caught past its look.      *)
LEMMA UserUsers == ASSUME IInv, UserStep PROVE UserInv'
<1> USE DEF IInv
<1>1. UNCHANGED <<main, run, reactor, SocketReactorPool_, Clients_, missed, caught>>
  BY UserFrame
<1>2. RunPast /\ main # "destroyed"
  BY DEF UserStep, SocketLost, Serves, EventStep, EventBegins, EventSends, EventEnds,
     ProcessCommand, CommandStep, CommandSends, CommandDisconnects, CommandWakes, Alive,
     UserInv
<1>3. Passed' \subseteq Passed \/ Running_
  <2>1. CASE SocketLost
    BY <2>1 DEF SocketLost
  <2>2. ASSUME NEW t \in Tasks, EventStep(t) PROVE Passed' \subseteq Passed \/ Running_
    BY <2>2 DEF EventStep, EventBegins, EventSends, EventEnds, Passed, TypeOK
  <2>3. ASSUME NEW k \in Commands, ProcessCommand(k) \/ CommandStep(k)
        PROVE  Passed' \subseteq Passed \/ Running_
    <3>1. CASE CommandDisconnects(k) \/ CommandWakes(k)
      <4>1. {t \in Tasks : task'[t] = "sent"} \subseteq {t \in Tasks : task[t] = "sent"}
        BY <3>1 DEF CommandDisconnects, CommandWakes, Schedules, TypeOK
      <4>2. {c \in Commands : command'[c] = "sent"}
              \subseteq {c \in Commands : command[c] = "sent"}
        BY <3>1 DEF CommandDisconnects, CommandWakes, TypeOK
      <4> QED
        BY <4>1, <4>2 DEF Passed
    <3>2. CASE ProcessCommand(k) \/ CommandSends(k)
      BY <3>2 DEF ProcessCommand, CommandSends, Passed, TypeOK
    <3> QED
      BY <2>3, <3>1, <3>2 DEF CommandStep
  <2> QED
    BY <2>1, <2>2, <2>3 DEF UserStep
<1>4. \/ UNCHANGED dangled
      \/ \E u \in Passed : UsesReactor(u)
  BY DEF UserStep, SocketLost, EventStep, EventBegins, EventSends, EventEnds,
     ProcessCommand, CommandStep, CommandSends, CommandDisconnects, CommandWakes, Passed
<1>5. \/ UNCHANGED dangled
      \/ /\ dangled' \subseteq dangled \cup Passed
         /\ main \in {"returned", "destroying", "destroyed"} /\ ~missed
  BY <1>2, <1>4 DEF UsesReactor, UserInv
<1>6. dangled' \subseteq caught
  BY <1>5 DEF UserInv, DanglesOnlyIfCaught
<1>7. main \notin {"new", "started"} /\ ~missed => Passed' \subseteq caught
  BY <1>3 DEF ProgressInv, UserInv
<1>8. main \in {"new", "started"} => dangled' = {}
  BY <1>5 DEF UserInv
<1> QED
  BY <1>1, <1>2, <1>6, <1>7, <1>8 DEF UserInv, RunPast, DanglesOnlyIfCaught

(* Stop catches who has passed its look, and destroys reactors only when it    *)
(* has found the runner running.                                              *)
LEMMA MainUsers ==
  ASSUME IInv, Start \/ StopMisses \/ StopBegins \/ MainStep
  PROVE  UserInv'
<1> USE DEF IInv
<1>1. CASE Start
  <2>1. /\ UNCHANGED <<reactor, SocketReactorPool_, Clients_, missed, users>>
        /\ ~RunPast /\ ~RunPast' /\ main = "new" /\ main' = "started"
    BY <1>1 DEF Start, RunPast, ProgressInv
  <2>2. Passed' = Passed
    BY <2>1 DEF users, Passed
  <2> QED
    BY <2>1, <2>2 DEF UserInv, users, DanglesOnlyIfCaught
<1>2. CASE StopBegins
  <2>1. /\ UNCHANGED <<run, reactor, SocketReactorPool_, Clients_, missed, task, command,
                       dangled>>
        /\ main = "started" /\ main' = "timer" /\ caught' = Passed
    BY <1>2 DEF StopBegins
  <2>2. Passed' = Passed
    BY <2>1 DEF Passed
  <2> QED
    BY <2>1, <2>2 DEF UserInv, RunPast, DanglesOnlyIfCaught
<1>3. CASE Destroyed
  <2>1. /\ UNCHANGED <<run, reactor, SocketReactorPool_, Clients_, missed, command, caught,
                       dangled>>
        /\ main = "destroying" /\ main' = "destroyed" /\ task' = [t \in Tasks |-> "none"]
    BY <1>3 DEF Destroyed
  <2>2. Passed' \subseteq Passed
    BY <2>1 DEF Passed
  <2> QED
    BY <2>1, <2>2 DEF UserInv, RunPast, DanglesOnlyIfCaught
<1>4. CASE \/ StopMisses \/ StopsTimer \/ TimerStopped \/ StopLocks \/ StopsReactors
           \/ StopJoins \/ Erases
  <2>1. UNCHANGED <<run, reactor, users>> /\ (Clients_' => Clients_)
    BY <1>4 DEF StopMisses, StopsTimer, TimerStopped, StopLocks, StopsReactors, StopJoins,
       Erases
  <2>2. Passed' = Passed
    BY <2>1 DEF users, Passed
  <2>3. main' \notin {"new", "started", "destroyed"}
    BY <1>4 DEF StopMisses, StopsTimer, TimerStopped, StopLocks, StopsReactors, StopJoins,
       Erases
  <2>4. ~missed' => main \notin {"new", "started"} /\ ~missed
    BY <1>4 DEF StopMisses, StopsTimer, TimerStopped, StopLocks, StopsReactors, StopJoins,
       Erases
  <2>5. RunPast /\ SocketReactorPool_' = {} =>
          main' \in {"returned", "destroying", "destroyed"} /\ ~missed'
    <3>1. CASE StopJoins
      BY <3>1 DEF StopJoins, ProgressInv
    <3>2. CASE StopMisses
      BY <3>2 DEF StopMisses, UserInv
    <3>3. CASE StopsTimer \/ TimerStopped \/ StopLocks \/ StopsReactors \/ Erases
      BY <3>3 DEF StopsTimer, TimerStopped, StopLocks, StopsReactors, Erases, UserInv
    <3> QED
      BY <1>4, <3>1, <3>2, <3>3
  <2> QED
    BY <2>1, <2>2, <2>3, <2>4, <2>5 DEF UserInv, users, RunPast, DanglesOnlyIfCaught
<1> QED
  BY <1>1, <1>2, <1>3, <1>4 DEF MainStep

(* Every step keeps the invariant. *)
LEMMA StepInv == IInv /\ [Next]_vars => IInv'
<1> SUFFICES ASSUME IInv, [Next]_vars PROVE IInv'
  OBVIOUS
<1>1. CASE Start \/ StopMisses \/ StopBegins \/ MainStep
  BY <1>1, MainInv, MainTypes, MainUsers DEF IInv
<1>2. CASE RunStep
  BY <1>2, RunInv, RunTypes, RunUsers DEF IInv
<1>3. CASE TimerStep
  <2>1. UNCHANGED <<main, run, reactor, SocketReactorPool_, Clients_, missed, users>>
    BY <1>3 DEF TimerStep, TimerFires, TimerSends, TimerCounts, TimerLocks, TimerUnlocks,
       TimerQuits
  <2>2. UserInv'
    BY <2>1, UserKept DEF IInv
  <2> QED
    BY <1>3, <2>2, TimerInv, TimerTypes DEF IInv
<1>4. ASSUME NEW r \in Reactors, SocketFails(r) \/ ReactorStep(r) PROVE IInv'
  BY <1>4, ReactorInv, ReactorTypes, ReactorUsers DEF IInv
<1>5. CASE UserStep
  BY <1>5, UserFrameInv, UserTypes, UserUsers DEF IInv
<1>6. CASE UNCHANGED vars
  <2>1. UserInv'
    BY <1>6, UserKept DEF vars, IInv
  <2>2. TypeOK'
    BY <1>6 DEF vars, users, IInv, TypeOK
  <2>3. LockInv' /\ ProgressInv' /\ PoolInv' /\ NoUpdateAfterStop'
    BY <1>6 DEF vars, IInv, LockInv, ProgressInv, PoolInv, NoUpdateAfterStop
  <2> QED
    BY <2>1, <2>2, <2>3 DEF IInv
<1> QED
  BY <1>1, <1>2, <1>3, <1>4, <1>5, <1>6 DEF Next, UserStep

(* The inductive invariant of the runner (run(), onUpdateTimer, the reactors   *)
(* and Stop): who holds Mutex_, how far run() and the pool are when Stop is     *)
(* where it is, and which events and commands have passed their look.         *)
THEOREM InductiveInvariant == Spec => []IInv
BY InitInv, StepInv, PTL DEF Spec

(* Every variable keeps its type. *)
THEOREM TypeCorrect == Spec => []TypeOK
<1>1. IInv => TypeOK
  BY DEF IInv
<1> QED
  BY <1>1, InductiveInvariant, PTL

(* The destructor of a runner that Stop found running, and did not overtake,  *)
(* finds run() over, every reactor joined, the timer stopped and no event in   *)
(* a thread of the scheduler.                                                 *)
THEOREM QuietCorrect == Spec => []QuietAfterStop
<1>1. IInv => QuietAfterStop
  BY DEF IInv, ProgressInv, PoolInv, UserInv, QuietAfterStop
<1> QED
  BY <1>1, InductiveInvariant, PTL

(* onUpdateTimer sends nothing once Stop is past UpdateTimer_.stop(). *)
THEOREM NoUpdateCorrect == Spec => []NoUpdateAfterStop
<1>1. IInv => NoUpdateAfterStop
  BY DEF IInv
<1> QED
  BY <1>1, InductiveInvariant, PTL

(* An event or a command uses a reactor that Stop has destroyed only if Stop    *)
(* caught it between its last look at Running_ and that use: the looks at the    *)
(* head of every event, in SendObject and in Disconnect leave no other way.      *)
THEOREM DanglesCorrect == Spec => []DanglesOnlyIfCaught
<1>1. IInv => DanglesOnlyIfCaught
  BY DEF IInv, UserInv
<1> QED
  BY <1>1, InductiveInvariant, PTL

-----------------------------------------------------------------------------
(* While Stop waits for the timer it has told it to quit, and while it joins   *)
(* the reactors it has the mutex, so run() adds none to those it stopped.      *)
LEMMA StoppingStep == IInv /\ StoppingInv /\ [Next]_vars => StoppingInv'
<1> SUFFICES ASSUME IInv, StoppingInv, [Next]_vars PROVE StoppingInv'
  OBVIOUS
<1> USE DEF StoppingInv
<1>1. CASE Start \/ StopMisses \/ StopBegins
  BY <1>1 DEF Start, StopMisses, StopBegins
<1>2. CASE MainStep
  BY <1>2 DEF MainStep, StopsTimer, TimerStopped, StopLocks, StopsReactors, StopJoins,
     Erases, Destroyed
<1>3. ASSUME NEW r \in Reactors, RunCreates(r) PROVE StoppingInv'
  <2>1. main # "join"
    BY <1>3, HoldersDistinct DEF IInv, LockInv, RunCreates
  <2> QED
    BY <1>3, <2>1 DEF RunCreates
<1>4. CASE RunStep /\ ~\E r \in Reactors : RunCreates(r)
  BY <1>4 DEF RunStep, RunBegins, RunLocks, RunClients, RunRemote, RunTimer, RunEnds
<1>5. CASE TimerStep
  BY <1>5 DEF TimerStep, TimerFires, TimerSends, TimerCounts, TimerLocks, TimerUnlocks,
     TimerQuits
<1>6. ASSUME NEW r \in Reactors, SocketFails(r) \/ ReactorStep(r) PROVE StoppingInv'
  BY <1>6 DEF SocketFails, ReactorStep, OnSocketError, ErrorEnds, ReactorEnds
<1>7. CASE UserStep
  BY <1>7, UserFrame
<1>8. CASE UNCHANGED vars
  BY <1>8 DEF vars
<1> QED
  BY <1>1, <1>2, <1>3, <1>4, <1>5, <1>6, <1>7, <1>8 DEF Next, UserStep

(* Stop, run(), the timer and the reactors never wait for each other in a      *)
(* circle, but for a reactor caught by an error: what StopReturnsOrIsStuck     *)
(* needs besides fairness.                                                    *)
THEOREM OnlyErrorsCorrect == Spec => []OnlyErrorsBlockStop
<1>1. Init => StoppingInv
  BY DEF Init, StoppingInv
<1>2. IInv /\ StoppingInv => OnlyErrorsBlockStop
  <2> SUFFICES ASSUME IInv, StoppingInv PROVE OnlyErrorsBlockStop
    OBVIOUS
  <2>1. CASE main = "timerwait"
    BY <2>1, HoldersDistinct DEF IInv, LockInv, StoppingInv, OnlyErrorsBlockStop
  <2>2. CASE main = "lock"
    <3>1. ~missed
      BY <2>2 DEF IInv, ProgressInv
    <3> QED
      BY <2>2, <3>1 DEF IInv, LockInv, NoUpdateAfterStop, OnlyErrorsBlockStop
  <2>3. CASE main = "join"
    <3>1. \A r \in SocketReactorPool_ :
            r \in Reactors /\ reactor[r] \in ReactorStates /\ reactor[r] # "none"
      BY DEF IInv, TypeOK, PoolInv
    <3>2. \A r \in Reactors : reactor[r] # "error"
      BY <2>3, HoldersDistinct DEF IInv, LockInv
    <3> QED
      BY <2>3, <3>1, <3>2 DEF ReactorStates, StoppingInv, OnlyErrorsBlockStop
  <2> QED
    BY <2>1, <2>2, <2>3 DEF OnlyErrorsBlockStop
<1> QED
  BY <1>1, <1>2, StoppingStep, InductiveInvariant, PTL DEF Spec
=============================================================================
