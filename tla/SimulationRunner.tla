--------------------------- MODULE SimulationRunner ---------------------------
(***************************************************************************)
(* The life of a SimulationRunner: the coordinator's thread starts it, stops *)
(* it and destroys it, while its own thread is in run(), its timer sends      *)
(* updates and its reactors serve the sockets of the devices.                 *)
(*                                                                         *)
(* What events, callbacks and commands do to devices is DeviceConnection's    *)
(* subject.  Here an error of a socket is the time its callback holds the      *)
(* runner's Mutex_, an event is a task in the scheduler of the runner, and a   *)
(* command is a thread of its own, which nobody joins: both look at Running_   *)
(* before they use the reactor of their device.                               *)
(* A destroyed runner takes no more steps: what a thread still in it does is  *)
(* undefined, and QuietAfterStop says when there is such a thread.            *)
(***************************************************************************)
EXTENDS Integers, FiniteSets

CONSTANTS
  Reactors,     \* the reactors run() creates, each with its thread
  Tasks,        \* the events of the devices, each at most once in the scheduler
  Commands,     \* the threads of commands, each serving one command at a time
  Period,       \* updates between two rounds over the clients (15)
  MaxErrors,    \* bound on the socket errors
  Nobody

ASSUME PeriodAssumption == Period \in Nat \ {0}
ASSUME ErrorsAssumption == MaxErrors \in Nat
ASSUME NobodyAssumption == Nobody \notin Reactors \cup {"main", "run", "timer"}
ASSUME ReactorsAssumption == Reactors # {} /\ Reactors \cap {"main", "run", "timer"} = {}
ASSUME UsersAssumption == Tasks \cap Commands = {}

VARIABLES
  Running_, Mutex_,           \* Mutex_ is its holder
  main, run, timer, reactor,  \* where each thread is
  SocketReactorPool_,         \* reactors created and not destroyed
  stopped,                    \* reactors told to stop
  Clients_,                   \* whether there are clients
  StatsUpdates_,              \* modulo Period
  quitting,                   \* UpdateTimer_ was told to stop
  missed, overtook,           \* how an early Stop went, see below
  errors,
  task, command,              \* how far each event and each command is
  (* History: who had looked at Running_ for the last time when Stop cleared  *)
  (* it, and who used a reactor that was destroyed.                          *)
  caught, dangled

users == <<task, command, caught, dangled>>
vars == <<Running_, Mutex_, main, run, timer, reactor, SocketReactorPool_, stopped,
          Clients_, StatsUpdates_, quitting, missed, overtook, errors, users>>

Holders == Reactors \cup {"main", "run", "timer"}
MainStates == {"new", "started", "timer", "timerwait", "lock", "stop", "join",
               "returned", "destroying", "destroyed"}
RunStates == {"none", "new", "lock", "reactors", "remote", "timer", "unlock", "ended"}
TimerStates == {"off", "armed", "send", "count", "lock", "clients"}
ReactorStates == {"none", "running", "errorlock", "error", "ended"}
TaskStates == {"none", "scheduled", "started", "sent"}
CommandStates == {"none", "started", "sent", "asleep"}

Init ==
  /\ Running_ = FALSE /\ Mutex_ = Nobody
  /\ main = "new" /\ run = "none" /\ timer = "off"
  /\ reactor = [r \in Reactors |-> "none"]
  /\ SocketReactorPool_ = {} /\ stopped = {}
  /\ Clients_ = FALSE
  /\ StatsUpdates_ = 0
  /\ quitting = FALSE /\ missed = FALSE /\ overtook = FALSE
  /\ errors = 0
  /\ task = [t \in Tasks |-> "none"] /\ command = [k \in Commands |-> "none"]
  /\ caught = {} /\ dangled = {}

Alive == main # "destroyed"

-----------------------------------------------------------------------------
(* Mutated forms of definitions below, one slip in the code each. *)

RunUnguarded == UNCHANGED Mutex_                    \* run() without its guard

AlwaysChecks == TRUE                                \* no test of Running_

SendsUnlooked(t) ==                                 \* SendObject without its look
  /\ Alive /\ task[t] = "started"
  /\ \E next \in {"scheduled", "none", "sent"} : task' = [task EXCEPT ![t] = next]
  /\ UNCHANGED <<Running_, Mutex_, main, run, timer, reactor, SocketReactorPool_, stopped,
                 Clients_, StatsUpdates_, quitting, missed, overtook, errors, command,
                 caught, dangled>>

LocksThenStopsTimer ==                              \* the two lines swapped
  /\ main = "timer" /\ Mutex_ = Nobody
  /\ Mutex_' = "main" /\ quitting' = TRUE /\ main' = "timerwait"
  /\ UNCHANGED <<Running_, run, timer, reactor, SocketReactorPool_, stopped,
                 Clients_, StatsUpdates_, missed, overtook, errors, users>>

-----------------------------------------------------------------------------
(* my_mutex is recursive. *)
Lock(t) == Mutex_ \in {Nobody, t} /\ Mutex_' = t
Unlock == Mutex_' = Nobody

(* Start, then run(): Running_ is set before the mutex is taken, which is     *)
(* held while reactors, clients, secondaries and timer are started.           *)
Start ==
  /\ main = "new"
  /\ main' = "started" /\ run' = "new"
  /\ UNCHANGED <<Running_, Mutex_, timer, reactor, SocketReactorPool_, stopped,
                 Clients_, StatsUpdates_, quitting, missed, overtook, errors, users>>

RunBegins ==
  /\ Alive /\ run = "new"
  /\ Running_' = TRUE
  /\ run' = "lock"
  /\ UNCHANGED <<Mutex_, main, timer, reactor, SocketReactorPool_, stopped,
                 Clients_, StatsUpdates_, quitting, missed, overtook, errors, users>>

RunGuard == Lock("run")

RunLocks ==
  /\ Alive /\ run = "lock"
  /\ RunGuard
  /\ run' = "reactors"
  /\ UNCHANGED <<Running_, main, timer, reactor, SocketReactorPool_, stopped,
                 Clients_, StatsUpdates_, quitting, missed, overtook, errors, users>>

RunCreates(r) ==
  /\ Alive /\ run = "reactors"
  /\ reactor[r] = "none"
  /\ reactor' = [reactor EXCEPT ![r] = "running"]
  /\ SocketReactorPool_' = SocketReactorPool_ \cup {r}
  /\ UNCHANGED <<Running_, Mutex_, main, run, timer, stopped, Clients_,
                 StatsUpdates_, quitting, missed, overtook, errors, users>>

RunClients ==
  /\ Alive /\ run = "reactors"
  /\ \A r \in Reactors : reactor[r] # "none"
  /\ Clients_' = TRUE
  /\ task' = [t \in Tasks |-> "scheduled"]
  /\ run' = "remote"
  /\ UNCHANGED <<Running_, Mutex_, main, timer, reactor, SocketReactorPool_, stopped,
                 StatsUpdates_, quitting, missed, overtook, errors, command, caught,
                 dangled>>

(* StartRemoteSimulation throws when a secondary does not answer: the thread  *)
(* leaves run(), and the mutex with it, before the timer is started.          *)
RunRemote ==
  /\ Alive /\ run = "remote"
  /\ \/ run' = "timer" /\ UNCHANGED Mutex_
     \/ run' = "ended" /\ Unlock
  /\ UNCHANGED <<Running_, main, timer, reactor, SocketReactorPool_, stopped,
                 Clients_, StatsUpdates_, quitting, missed, overtook, errors, users>>

RunTimer ==
  /\ Alive /\ run = "timer"
  /\ timer' = "armed"
  /\ run' = "unlock"
  /\ UNCHANGED <<Running_, Mutex_, main, reactor, SocketReactorPool_, stopped,
                 Clients_, StatsUpdates_, quitting, missed, overtook, errors, users>>

RunEnds ==
  /\ Alive /\ run = "unlock"
  /\ Unlock
  /\ run' = "ended"
  /\ UNCHANGED <<Running_, main, timer, reactor, SocketReactorPool_, stopped,
                 Clients_, StatsUpdates_, quitting, missed, overtook, errors, users>>

-----------------------------------------------------------------------------
(* onUpdateTimer. *)
Checks == Running_

TimerFires ==
  /\ Alive /\ timer = "armed" /\ ~quitting
  /\ Checks
  /\ timer' = "send"
  /\ UNCHANGED <<Running_, Mutex_, main, run, reactor, SocketReactorPool_, stopped,
                 Clients_, StatsUpdates_, quitting, missed, overtook, errors, users>>

TimerSends ==
  /\ Alive /\ timer = "send"
  /\ timer' = "count"
  /\ UNCHANGED <<Running_, Mutex_, main, run, reactor, SocketReactorPool_, stopped,
                 Clients_, StatsUpdates_, quitting, missed, overtook, errors, users>>

TimerCounts ==
  /\ Alive /\ timer = "count"
  /\ StatsUpdates_' = (StatsUpdates_ + 1) % Period
  /\ timer' = IF StatsUpdates_' = 0 THEN "lock" ELSE "armed"
  /\ UNCHANGED <<Running_, Mutex_, main, run, reactor, SocketReactorPool_, stopped,
                 Clients_, quitting, missed, overtook, errors, users>>

TimerLocks ==
  /\ Alive /\ timer = "lock"
  /\ Lock("timer")
  /\ timer' = "clients"
  /\ UNCHANGED <<Running_, main, run, reactor, SocketReactorPool_, stopped,
                 Clients_, StatsUpdates_, quitting, missed, overtook, errors, users>>

TimerUnlocks ==
  /\ Alive /\ timer = "clients"
  /\ Unlock
  /\ timer' = "armed"
  /\ UNCHANGED <<Running_, main, run, reactor, SocketReactorPool_, stopped,
                 Clients_, StatsUpdates_, quitting, missed, overtook, errors, users>>

(* Poco::Timer ends between two callbacks. *)
TimerQuits ==
  /\ timer = "armed" /\ quitting
  /\ timer' = "off"
  /\ UNCHANGED <<Running_, Mutex_, main, run, reactor, SocketReactorPool_, stopped,
                 Clients_, StatsUpdates_, quitting, missed, overtook, errors, users>>

-----------------------------------------------------------------------------
(* A callback schedules another event of its device. *)
Schedules == \E t \in Tasks : task[t] = "none" /\ task' = [task EXCEPT ![t] = "scheduled"]

(* OnSocketError in the thread of a reactor, and the end of that thread.      *)
SocketFails(r) ==
  /\ Alive /\ reactor[r] = "running" /\ Clients_ /\ errors < MaxErrors
  /\ errors' = errors + 1
  /\ reactor' = [reactor EXCEPT ![r] = "errorlock"]
  /\ UNCHANGED <<Running_, Mutex_, main, run, timer, SocketReactorPool_, stopped,
                 Clients_, StatsUpdates_, quitting, missed, overtook, users>>

OnSocketError(r) ==
  /\ Alive /\ reactor[r] = "errorlock"
  /\ Lock(r)
  /\ reactor' = [reactor EXCEPT ![r] = "error"]
  /\ UNCHANGED <<Running_, main, run, timer, SocketReactorPool_, stopped, Clients_,
                 StatsUpdates_, quitting, missed, overtook, errors, users>>

ErrorEnds(r) ==
  /\ Alive /\ reactor[r] = "error"
  /\ Unlock
  /\ reactor' = [reactor EXCEPT ![r] = "running"]
  /\ UNCHANGED task \/ (Running_ /\ Schedules)
  /\ UNCHANGED <<Running_, main, run, timer, SocketReactorPool_, stopped, Clients_,
                 StatsUpdates_, quitting, missed, overtook, errors, command, caught,
                 dangled>>

ReactorEnds(r) ==
  /\ Alive /\ reactor[r] = "running" /\ r \in stopped
  /\ reactor' = [reactor EXCEPT ![r] = "ended"]
  /\ UNCHANGED <<Running_, Mutex_, main, run, timer, SocketReactorPool_, stopped,
                 Clients_, StatsUpdates_, quitting, missed, overtook, errors, users>>

-----------------------------------------------------------------------------
(* An event in a thread of the scheduler, and the thread of a command, which   *)
(* the reactor of its device starts: past their last look at Running_ they     *)
(* use the device's reactor, to add its handlers or to remove them.            *)
Passed == {t \in Tasks : task[t] = "sent"} \cup {k \in Commands : command[k] = "sent"}

UsesReactor(u) ==
  dangled' = IF SocketReactorPool_ = {} THEN dangled \cup {u} ELSE dangled

EventBegins(t) ==
  /\ Alive /\ task[t] = "scheduled"
  /\ task' = [task EXCEPT ![t] = IF Running_ THEN "started" ELSE "none"]
  /\ UNCHANGED <<Running_, Mutex_, main, run, timer, reactor, SocketReactorPool_, stopped,
                 Clients_, StatsUpdates_, quitting, missed, overtook, errors, command,
                 caught, dangled>>

(* SendObject looks at Running_, and Disconnect does after a failure; an event *)
(* that is sent without a connection to make or to drop goes no further.  It   *)
(* may schedule the next.                                                     *)
EventSends(t) ==
  /\ Alive /\ task[t] = "started"
  /\ \E next \in {"scheduled", "none", "sent"} :
       /\ next = "sent" => Running_
       /\ task' = [task EXCEPT ![t] = next]
  /\ UNCHANGED <<Running_, Mutex_, main, run, timer, reactor, SocketReactorPool_, stopped,
                 Clients_, StatsUpdates_, quitting, missed, overtook, errors, command,
                 caught, dangled>>

EventEnds(t) ==
  /\ Alive /\ task[t] = "sent"
  /\ UsesReactor(t)
  /\ \E next \in {"scheduled", "none"} : task' = [task EXCEPT ![t] = next]
  /\ UNCHANGED <<Running_, Mutex_, main, run, timer, reactor, SocketReactorPool_, stopped,
                 Clients_, StatsUpdates_, quitting, missed, overtook, errors, command,
                 caught>>

(* OnSocketReadable in a reactor that serves: a command, or the connection is   *)
(* lost, which OnSocketShutdown may also say; it is made again while Running_.  *)
Serves == Alive /\ Clients_ /\ \E r \in Reactors : reactor[r] = "running"

SocketLost ==
  /\ Serves /\ Running_
  /\ Schedules
  /\ UNCHANGED <<Running_, Mutex_, main, run, timer, reactor, SocketReactorPool_, stopped,
                 Clients_, StatsUpdates_, quitting, missed, overtook, errors, command,
                 caught, dangled>>

ProcessCommand(k) ==
  /\ Serves
  /\ command[k] = "none"
  /\ command' = [command EXCEPT ![k] = "started"]
  /\ UNCHANGED <<Running_, Mutex_, main, run, timer, reactor, SocketReactorPool_, stopped,
                 Clients_, StatsUpdates_, quitting, missed, overtook, errors, task,
                 caught, dangled>>

CommandSends(k) ==
  /\ Alive /\ command[k] = "started"
  /\ \E next \in {"none", "sent"} :
       /\ next = "sent" => Running_
       /\ command' = [command EXCEPT ![k] = next]
  /\ UNCHANGED <<Running_, Mutex_, main, run, timer, reactor, SocketReactorPool_, stopped,
                 Clients_, StatsUpdates_, quitting, missed, overtook, errors, task,
                 caught, dangled>>

(* A command whose answer fails drops the connection and has it made again;    *)
(* reboot, upgrade and factory drop it and sleep before that.                  *)
CommandDisconnects(k) ==
  /\ Alive /\ command[k] = "sent"
  /\ UsesReactor(k)
  /\ \/ command' = [command EXCEPT ![k] = "none"] /\ (Schedules \/ UNCHANGED task)
     \/ command' = [command EXCEPT ![k] = "asleep"] /\ UNCHANGED task
  /\ UNCHANGED <<Running_, Mutex_, main, run, timer, reactor, SocketReactorPool_, stopped,
                 Clients_, StatsUpdates_, quitting, missed, overtook, errors, caught>>

CommandWakes(k) ==
  /\ Alive /\ command[k] = "asleep"
  /\ command' = [command EXCEPT ![k] = "none"]
  /\ UNCHANGED task \/ (Running_ /\ Schedules)
  /\ UNCHANGED <<Running_, Mutex_, main, run, timer, reactor, SocketReactorPool_, stopped,
                 Clients_, StatsUpdates_, quitting, missed, overtook, errors, caught,
                 dangled>>

-----------------------------------------------------------------------------
(* Stop does nothing unless the runner runs.  A Stop that comes too early for *)
(* that has missed the run; one that gets the mutex first has overtaken it.    *)
StopMisses ==
  /\ main = "started" /\ ~Running_
  /\ missed' = TRUE
  /\ main' = "returned"
  /\ UNCHANGED <<Running_, Mutex_, run, timer, reactor, SocketReactorPool_, stopped,
                 Clients_, StatsUpdates_, quitting, overtook, errors, users>>

StopBegins ==
  /\ main = "started" /\ Running_
  /\ Running_' = FALSE
  /\ caught' = Passed
  /\ main' = "timer"
  /\ UNCHANGED <<Mutex_, run, timer, reactor, SocketReactorPool_, stopped,
                 Clients_, StatsUpdates_, quitting, missed, overtook, errors, task,
                 command, dangled>>

(* UpdateTimer_.stop() returns at once when the timer was never started, and  *)
(* waits for a callback otherwise.                                            *)
StopsTimer ==
  /\ main = "timer"
  /\ IF timer = "off" THEN main' = "lock" /\ UNCHANGED quitting
                      ELSE main' = "timerwait" /\ quitting' = TRUE
  /\ UNCHANGED <<Running_, Mutex_, run, timer, reactor, SocketReactorPool_, stopped,
                 Clients_, StatsUpdates_, missed, overtook, errors, users>>

TimerStopped ==
  /\ main = "timerwait" /\ timer = "off"
  /\ main' = "lock"
  /\ UNCHANGED <<Running_, Mutex_, run, timer, reactor, SocketReactorPool_, stopped,
                 Clients_, StatsUpdates_, quitting, missed, overtook, errors, users>>

StopLocks ==
  /\ main = "lock"
  /\ Lock("main")
  /\ overtook' = (run = "lock")
  /\ main' = "stop"
  /\ UNCHANGED <<Running_, run, timer, reactor, SocketReactorPool_, stopped,
                 Clients_, StatsUpdates_, quitting, missed, errors, users>>

StopsReactors ==
  /\ main = "stop"
  /\ stopped' = SocketReactorPool_
  /\ main' = "join"
  /\ UNCHANGED <<Running_, Mutex_, run, timer, reactor, SocketReactorPool_,
                 Clients_, StatsUpdates_, quitting, missed, overtook, errors, users>>

StopJoins ==
  /\ main = "join"
  /\ \A r \in SocketReactorPool_ : reactor[r] = "ended"
  /\ SocketReactorPool_' = {} /\ Clients_' = FALSE
  /\ Unlock
  /\ main' = "returned"
  /\ UNCHANGED <<Running_, run, timer, reactor, stopped, StatsUpdates_, quitting,
                 missed, overtook, errors, users>>

(* The coordinator erases the record; ~SimulationRunner stops the timer, which *)
(* may have been started after Stop had looked at it, and then the scheduler,   *)
(* which waits for the events its threads have begun and drops the others.      *)
Erases ==
  /\ main = "returned"
  /\ main' = "destroying" /\ quitting' = TRUE
  /\ UNCHANGED <<Running_, Mutex_, run, timer, reactor, SocketReactorPool_, stopped,
                 Clients_, StatsUpdates_, missed, overtook, errors, users>>

Destroyed ==
  /\ main = "destroying" /\ timer = "off"
  /\ \A t \in Tasks : task[t] \in {"none", "scheduled"}
  /\ task' = [t \in Tasks |-> "none"]
  /\ main' = "destroyed"
  /\ UNCHANGED <<Running_, Mutex_, run, timer, reactor, SocketReactorPool_, stopped,
                 Clients_, StatsUpdates_, quitting, missed, overtook, errors, command,
                 caught, dangled>>

-----------------------------------------------------------------------------
RunStep ==
  RunBegins \/ RunLocks \/ (\E r \in Reactors : RunCreates(r)) \/ RunClients
  \/ RunRemote \/ RunTimer \/ RunEnds

TimerStep ==
  TimerFires \/ TimerSends \/ TimerCounts \/ TimerLocks \/ TimerUnlocks \/ TimerQuits

ReactorStep(r) == OnSocketError(r) \/ ErrorEnds(r) \/ ReactorEnds(r)

EventStep(t) == EventBegins(t) \/ EventSends(t) \/ EventEnds(t)

CommandStep(k) == CommandSends(k) \/ CommandDisconnects(k) \/ CommandWakes(k)

MainStep ==
  StopsTimer \/ TimerStopped \/ StopLocks \/ StopsReactors \/ StopJoins \/ Erases
  \/ Destroyed

Next ==
  \/ Start \/ StopMisses \/ StopBegins \/ MainStep \/ RunStep \/ TimerStep
  \/ \E r \in Reactors : SocketFails(r) \/ ReactorStep(r)
  \/ SocketLost \/ \E t \in Tasks : EventStep(t)
  \/ \E k \in Commands : ProcessCommand(k) \/ CommandStep(k)

Spec == Init /\ [][Next]_vars

(* The threads run; whether the runner is started and stopped, and whether a  *)
(* socket fails, is up to others.                                             *)
FairSpec ==
  /\ Spec
  /\ WF_vars(MainStep) /\ WF_vars(RunStep) /\ WF_vars(TimerStep)
  /\ \A r \in Reactors : WF_vars(ReactorStep(r))
  /\ \A t \in Tasks : WF_vars(EventStep(t))
  /\ \A k \in Commands : WF_vars(CommandStep(k))
-----------------------------------------------------------------------------
(* The type of every variable. *)
TypeOK ==
  /\ Running_ \in BOOLEAN /\ Mutex_ \in Holders \cup {Nobody}
  /\ main \in MainStates /\ run \in RunStates /\ timer \in TimerStates
  /\ reactor \in [Reactors -> ReactorStates]
  /\ SocketReactorPool_ \subseteq Reactors /\ stopped \subseteq Reactors
  /\ Clients_ \in BOOLEAN /\ quitting \in BOOLEAN
  /\ missed \in BOOLEAN /\ overtook \in BOOLEAN
  /\ StatsUpdates_ \in 0 .. Period - 1
  /\ errors \in 0 .. MaxErrors
  /\ task \in [Tasks -> TaskStates] /\ command \in [Commands -> CommandStates]
  /\ caught \subseteq Tasks \cup Commands /\ dangled \subseteq Tasks \cup Commands

(* A runner that Stop found running, and did not overtake, is destroyed with  *)
(* run() over, each reactor it created ended, no timer armed and no event in   *)
(* any thread.  What may be left, and use it, is the thread of a command.      *)
QuietAfterStop ==
  main = "destroyed" /\ ~missed /\ ~overtook =>
    /\ run = "ended" /\ timer = "off"
    /\ \A r \in Reactors : reactor[r] \in {"none", "ended"}
    /\ SocketReactorPool_ = {} /\ ~Clients_
    /\ \A t \in Tasks : task[t] = "none"

(* A reactor that Stop has destroyed is used only by an event or a command that *)
(* had passed its last look at Running_ when Stop cleared it: whatever begins,  *)
(* sends or wakes up later turns back, whether Stop overtook run() or not.      *)
DanglesOnlyIfCaught == dangled \subseteq caught

(* Once Stop is past UpdateTimer_.stop() no update is sent, even by a timer   *)
(* that run() starts later, unless Stop missed the run.                       *)
NoUpdateAfterStop ==
  main \in {"lock", "stop", "join", "returned", "destroying", "destroyed"} /\ ~missed
    => timer \notin {"send", "count", "lock", "clients"}

(* Who holds the mutex, and how far the others are where main is. *)
LockInv ==
  /\ Mutex_ = "run" <=> run \in {"reactors", "remote", "timer", "unlock"}
  /\ Mutex_ = "timer" <=> timer = "clients"
  /\ Mutex_ = "main" <=> main \in {"stop", "join"}
  /\ \A r \in Reactors : Mutex_ = r <=> reactor[r] = "error"

(* Where run() and the timer can be, wherever main is. *)
ProgressInv ==
  /\ main = "new" <=> run = "none"
  /\ Running_ => run \notin {"none", "new"}
  /\ main \notin {"new", "started"} /\ ~missed => ~Running_ /\ run # "new"
  /\ main \in {"stop", "join", "returned", "destroying", "destroyed"}
       /\ ~missed /\ ~overtook => run = "ended"
  /\ missed => main \in {"returned", "destroying", "destroyed"}
  /\ main = "destroyed" => timer = "off" \/ missed \/ overtook

(* The reactors with a thread are in the pool until Stop has emptied it. *)
PoolInv ==
  /\ \A r \in SocketReactorPool_ : reactor[r] # "none"
  /\ main \in {"new", "started", "timer", "timerwait", "lock", "stop", "join"} \/ missed
       => \A r \in Reactors : reactor[r] # "none" => r \in SocketReactorPool_
  /\ main \in {"returned", "destroying", "destroyed"} /\ ~missed /\ ~overtook
       => /\ SocketReactorPool_ = {} /\ ~Clients_
          /\ \A r \in Reactors : reactor[r] \in {"none", "ended"}

(* Events and commands are there once run() has made its reactors, and those   *)
(* are there until Stop has destroyed them; from Stop's first line on nobody    *)
(* passes a look at Running_.                                                 *)
RunPast == run \in {"remote", "timer", "unlock", "ended"}
UserInv ==
  /\ RunPast /\ SocketReactorPool_ = {} =>
       main \in {"returned", "destroying", "destroyed"} /\ ~missed
  /\ Clients_ \/ (\E r \in Reactors : reactor[r] \in {"errorlock", "error"}) => RunPast
  /\ \A t \in Tasks : task[t] # "none" => RunPast
  /\ \A k \in Commands : command[k] # "none" => RunPast
  /\ main \in {"new", "started"} => dangled = {}
  /\ main \notin {"new", "started"} /\ ~missed => Passed \subseteq caught
  /\ main = "destroyed" => \A t \in Tasks : task[t] = "none"
  /\ DanglesOnlyIfCaught

(* How far Stop is with the timer and the reactors. *)
StoppingInv ==
  /\ main = "timerwait" => quitting
  /\ main = "join" => stopped = SocketReactorPool_

(* The inductive invariant; StoppingInv is inductive with it. *)
IInv == TypeOK /\ LockInv /\ ProgressInv /\ PoolInv /\ NoUpdateAfterStop /\ UserInv

(* What Stop waits for does not wait for Stop, but for the thread of a reactor *)
(* that an error keeps from ending: the timer is told to quit and finds the    *)
(* mutex free of Stop, whoever has the mutex goes on, and a reactor that is    *)
(* joined was told to stop.                                                   *)
OnlyErrorsBlockStop ==
  /\ main = "timerwait" => quitting /\ Mutex_ # "main"
  /\ main = "lock" => Mutex_ \notin {"main", "timer"}
  /\ main = "join" =>
       \A r \in SocketReactorPool_ :
         \/ reactor[r] \in {"ended", "errorlock"}
         \/ reactor[r] = "running" /\ r \in stopped

(* A reactor's thread that waits for the mutex while Stop holds it and joins  *)
(* the thread: neither continues.                                             *)
Stuck ==
  main = "join" /\ \E r \in SocketReactorPool_ : reactor[r] = "errorlock"

(* Stop returns, unless a socket error caught it joining that reactor: the    *)
(* timer's callback, run() and the reactors let it pass.                      *)
StopReturnsOrIsStuck == main = "timer" ~> main = "returned" \/ Stuck
=============================================================================
