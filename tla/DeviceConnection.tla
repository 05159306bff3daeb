--------------------------- MODULE DeviceConnection ---------------------------
(***************************************************************************)
(* The simulated devices of one runner and their connections to the        *)
(* gateway: OWLSclient, the events its scheduler runs (OWLS_*.cpp), the     *)
(* socket callbacks of the reactors and the threads of the gateway's        *)
(* commands.  All of them work on a client under its mutex; what they find  *)
(* there, another of them may have left.                                    *)
(*                                                                         *)
(* A handler that keeps the client's mutex is one action, and two where it  *)
(* waits for the gateway or sleeps in between.  Delays are not modelled: a   *)
(* task of the scheduler runs at any time after it was scheduled.           *)
(***************************************************************************)
EXTENDS Integers, FiniteSets

CONSTANTS
  Clients,      \* the devices of this runner
  Conns,        \* descriptors of sockets, used again once they are closed
  Nothing,      \* no socket, no client
  Periodic,     \* the events that schedule themselves: State, HealthCheck, WSPing
  Uris,         \* what an upgrade command names: "valid", "malformed"
  MayThrow,     \* what may fail to load or parse before EstablishConnection tries
  MaxTasks      \* bound on the tasks of one kind and the commands of one client

ASSUME NothingAssumption == Nothing \notin Clients \cup Conns
ASSUME ConnsAssumption == IsFiniteSet(Conns)
ASSUME KindsAssumption ==
  /\ Periodic \subseteq {"State", "HealthCheck", "WSPing"}
  /\ Uris \subseteq {"valid", "malformed"}
  /\ MayThrow \subseteq {"gateway", "certificates"}
  /\ MaxTasks \in Nat \ {0}

VARIABLES
  Running_,     \* SimulationRunner::Running_
  busy,         \* who keeps a client's mutex over a wait: "free" if nobody
  WS_, fd_, Connected_, Backoff_,    \* of each OWLSclient
  sock,         \* whether each descriptor is that of an open socket
  Clients_fd_,  \* the client SimulationRunner::Clients_fd_ has for a socket
  handlers,     \* the client in whose reactor a socket is registered
  reactor,      \* what the reactor of a client is doing
  tasks,        \* tasks of each kind the scheduler holds for a client
  commands,     \* threads of commands that wait for a client's mutex
  liveDevices   \* SimStats' count for this run

clientVars == <<WS_, fd_, Connected_>>
tableVars  == <<sock, Clients_fd_, handlers>>
vars == <<Running_, busy, clientVars, Backoff_, tableVars, reactor, tasks,
          commands, liveDevices>>

Kinds == Periodic \cup {"Establish", "Reconnect", "Log"}
Methods == {"configure", "reboot", "upgrade"}
Free(c) == busy[c] = "free"

(* run() makes the clients and schedules a first connection for each. *)
Init ==
  /\ Running_ = TRUE
  /\ busy = [c \in Clients |-> "free"]
  /\ WS_ = [c \in Clients |-> Nothing]
  /\ fd_ = [c \in Clients |-> Nothing]
  /\ Connected_ = [c \in Clients |-> FALSE]
  /\ Backoff_ = [c \in Clients |-> 0]
  /\ sock = [s \in Conns |-> "free"]
  /\ Clients_fd_ = [s \in Conns |-> Nothing]
  /\ handlers = [s \in Conns |-> Nothing]
  /\ reactor = [c \in Clients |-> "idle"]
  /\ tasks = [c \in Clients |-> [k \in Kinds |-> IF k = "Establish" THEN 1 ELSE 0]]
  /\ commands = [c \in Clients |-> [m \in Methods |-> 0]]
  /\ liveDevices = 0

-----------------------------------------------------------------------------
(* Mutated forms of the definitions below, one slip in the code each; they  *)
(* are in no behaviour and show that the properties can tell the difference. *)

NotCounted == liveDevices                 \* SimStats::Disconnect forgotten

SocketKept(c) ==                          \* RemoveClientFd forgotten
  UNCHANGED Clients_fd_

ConnectsWithoutReports(c) ==              \* Connect leaves the timers to State
  /\ busy[c] = "connecting"
  /\ Running_
  /\ liveDevices' = liveDevices + 1
  /\ fd_' = [fd_ EXCEPT ![c] = WS_[c]]
  /\ Clients_fd_' = [Clients_fd_ EXCEPT ![WS_[c]] = c]
  /\ handlers' = [handlers EXCEPT ![WS_[c]] = c]
  /\ Connected_' = [Connected_ EXCEPT ![c] = TRUE]
  /\ Backoff_' = [Backoff_ EXCEPT ![c] = 0]
  /\ busy' = [busy EXCEPT ![c] = "free"]
  /\ UNCHANGED <<Running_, WS_, sock, reactor, commands, tasks>>

ReconnectGivesUp(c) ==                    \* Reconnect schedules nothing
  /\ Connected_' = [Connected_ EXCEPT ![c] = FALSE]
  /\ UNCHANGED <<tasks, Backoff_>>

-----------------------------------------------------------------------------
(* Tasks scheduled after the runner has stopped return at their first line, *)
(* so they are left out.                                                    *)
AddTasks(c, ks) ==
  IF Running_ THEN [tasks EXCEPT ![c] = [k \in Kinds |-> @[k] + (IF k \in ks THEN 1 ELSE 0)]]
              ELSE tasks

Fits(c, ks) == \A k \in ks : tasks[c][k] < MaxTasks

Schedule(c, ks) == Fits(c, ks) /\ tasks' = AddTasks(c, ks)

(* A task leaves the scheduler, passes its check of Running() and gets the  *)
(* client's mutex; it may schedule others.  One that passed its check before *)
(* the runner stopped goes on.                                               *)
Task(c, k) == Free(c) /\ tasks[c][k] > 0

Replace(c, k, ks) ==
  tasks' = [tasks EXCEPT ![c] =
              [j \in Kinds |-> @[j] - (IF j = k THEN 1 ELSE 0)
                                    + (IF Running_ /\ j \in ks THEN 1 ELSE 0)]]

(* Backoff(): doubled, or back to 15 above 300.  TaskTypes bounds it by 600, *)
(* so that its sixteen bits never overflow.                                  *)
Backoff(c) ==
  Backoff_' = [Backoff_ EXCEPT ![c] = IF @ > 300 THEN 15 ELSE 2 * @]

-----------------------------------------------------------------------------
(* OWLSclient::Disconnect: the descriptor leaves the table; SimStats counts  *)
(* the device out, connected or not; the handlers and the socket go only if  *)
(* the client is connected.                                                  *)
RemoveClientFd(c) ==
  Clients_fd_' = IF fd_[c] # Nothing THEN [Clients_fd_ EXCEPT ![fd_[c]] = Nothing]
                                     ELSE Clients_fd_

(* A closed socket has no descriptor, so that its client has none to use;    *)
(* the next socket that is opened may get it.                                *)
Closed(c, s) ==
  /\ sock' = [sock EXCEPT ![s] = "free"]
  /\ handlers' = [handlers EXCEPT ![s] = Nothing]
  /\ WS_' = [WS_ EXCEPT ![c] = IF @ = s THEN Nothing ELSE @]

CountedOut == IF liveDevices > 0 THEN liveDevices - 1 ELSE 0

ClientDisconnect(c) ==
  /\ RemoveClientFd(c)
  /\ fd_' = [fd_ EXCEPT ![c] = Nothing]
  /\ liveDevices' = CountedOut
  /\ Connected_' = [Connected_ EXCEPT ![c] = FALSE]
  /\ IF Connected_[c]
       THEN Closed(c, WS_[c])
       ELSE UNCHANGED <<handlers, sock, WS_>>

Untouched == UNCHANGED <<clientVars, tableVars, liveDevices>>

(* OWLSClientEvents::Disconnect, with Reconnect = true as everywhere: does   *)
(* nothing once the runner has stopped.  The part that schedules is apart.   *)
Drops(c) == IF Running_ THEN ClientDisconnect(c) ELSE Untouched

EventDisconnect(c) ==
  /\ Drops(c)
  /\ IF Running_ THEN Schedule(c, {"Establish"}) /\ Backoff(c)
                 ELSE UNCHANGED <<tasks, Backoff_>>

(* ... by a task of kind k, which leaves the scheduler. *)
TaskDisconnect(c, k) ==
  /\ Drops(c)
  /\ Fits(c, {"Establish"})
  /\ Replace(c, k, {"Establish"})
  /\ IF Running_ THEN Backoff(c) ELSE UNCHANGED Backoff_

-----------------------------------------------------------------------------
(* EstablishConnection opens a WebSocket, whether or not the client has one; *)
(* the old socket is closed with its last reference, which the reactor holds *)
(* while it is registered.                                                   *)
EstablishOpens(c, s) ==
  /\ Task(c, "Establish")
  /\ sock[s] = "free"
  /\ sock' = [t \in Conns |->
                CASE t = s -> "open"
                  [] t = WS_[c] /\ handlers[t] = Nothing -> "free"
                  [] OTHER -> sock[t]]
  /\ WS_' = [WS_ EXCEPT ![c] = s]
  /\ busy' = [busy EXCEPT ![c] = "connecting"]
  /\ Replace(c, "Establish", {})
  /\ UNCHANGED <<Running_, fd_, Connected_, Backoff_, Clients_fd_, handlers,
                 reactor, commands, liveDevices>>

(* What comes before the client's mutex and the try block throws out of the   *)
(* task, which nothing has scheduled again: a gateway that does not parse,    *)
(* certificates or a key that do not load.                                   *)
EstablishThrows(c) ==
  /\ tasks[c]["Establish"] > 0
  /\ MayThrow # {}
  /\ Replace(c, "Establish", {})
  /\ UNCHANGED <<Running_, busy, clientVars, Backoff_, tableVars, reactor,
                 commands, liveDevices>>

EstablishFails(c) ==
  /\ Task(c, "Establish")
  /\ Fits(c, {"Reconnect"})
  /\ Replace(c, "Establish", {"Reconnect"})
  /\ Backoff(c)
  /\ UNCHANGED <<Running_, busy, clientVars, tableVars, reactor, commands,
                 liveDevices>>

(* Connect has sent its message, which it does only while the runner runs. *)
Connects(c) ==
  /\ busy[c] = "connecting"
  /\ Running_
  /\ Schedule(c, Periodic \cup {"Log"})
  /\ liveDevices' = liveDevices + 1
  /\ fd_' = [fd_ EXCEPT ![c] = WS_[c]]
  /\ Clients_fd_' = [Clients_fd_ EXCEPT ![WS_[c]] = c]
  /\ handlers' = [handlers EXCEPT ![WS_[c]] = c]
  /\ Connected_' = [Connected_ EXCEPT ![c] = TRUE]
  /\ Backoff_' = [Backoff_ EXCEPT ![c] = 0]
  /\ busy' = [busy EXCEPT ![c] = "free"]
  /\ UNCHANGED <<Running_, WS_, sock, reactor, commands>>

ConnectFails(c) ==
  /\ busy[c] = "connecting"
  /\ Schedule(c, {"Reconnect"})
  /\ Backoff(c)
  /\ busy' = [busy EXCEPT ![c] = "free"]
  /\ UNCHANGED <<Running_, clientVars, tableVars, reactor, commands, liveDevices>>

(* Reconnect only clears Connected_, whatever the client has by then. *)
Retries(c) ==
  /\ Connected_' = [Connected_ EXCEPT ![c] = FALSE]
  /\ Schedule(c, {"Establish"})
  /\ Backoff(c)

Reconnect(c) ==
  /\ Task(c, "Reconnect")
  /\ Connected_' = [Connected_ EXCEPT ![c] = FALSE]
  /\ Fits(c, {"Establish"})
  /\ Replace(c, "Reconnect", {"Establish"})
  /\ Backoff(c)
  /\ UNCHANGED <<Running_, busy, WS_, fd_, tableVars, reactor, commands,
                 liveDevices>>

(* State, HealthCheck and WSPing send, and schedule themselves again; Log    *)
(* sends once.  Without a connection they do nothing and are not scheduled   *)
(* again.                                                                    *)
Reports(c, k) ==
  /\ Task(c, k)
  /\ Replace(c, k, IF Connected_[c] /\ k \in Periodic THEN {k} ELSE {})
  /\ UNCHANGED <<Running_, busy, clientVars, Backoff_, tableVars, reactor,
                 commands, liveDevices>>

ReportFails(c, k) ==
  /\ Task(c, k)
  /\ Connected_[c]
  /\ TaskDisconnect(c, k)
  /\ UNCHANGED <<Running_, busy, reactor, commands>>

(* A task that finds the runner stopped. *)
Dropped(c, k) ==
  /\ ~Running_ /\ tasks[c][k] > 0
  /\ Replace(c, k, {})
  /\ UNCHANGED <<Running_, busy, clientVars, Backoff_, tableVars, reactor,
                 commands, liveDevices>>

-----------------------------------------------------------------------------
(* A reactor looks the socket up before it asks for the client's mutex.  A  *)
(* socket that is not in the table is ignored by OnSocketReadable and closed *)
(* by the other two.                                                         *)
Notified(c, s) == reactor[c] = "idle" /\ handlers[s] = c /\ sock[s] = "open"

Notices(c, s, what) ==
  /\ Notified(c, s)
  /\ Clients_fd_[s] = c
  /\ reactor' = [reactor EXCEPT ![c] = what]
  /\ UNCHANGED <<Running_, busy, clientVars, Backoff_, tableVars, tasks,
                 commands, liveDevices>>

ClosesUnknown(c, s) ==
  /\ Notified(c, s)
  /\ Clients_fd_[s] = Nothing
  /\ Closed(c, s)
  /\ UNCHANGED <<Running_, busy, fd_, Connected_, Backoff_, Clients_fd_,
                 reactor, tasks, commands, liveDevices>>

(* OnSocketReadable reads from the socket the client has by now: a frame, a *)
(* command for a thread of its own, or an error.                            *)
Answers(c) == WS_[c] # Nothing

Reads(c) ==
  /\ reactor[c] = "readable" /\ Free(c) /\ Answers(c)
  /\ \/ UNCHANGED commands
     \/ \E m \in Methods :
          /\ commands[c][m] < MaxTasks
          /\ commands' = [commands EXCEPT ![c][m] = @ + 1]
  /\ reactor' = [reactor EXCEPT ![c] = "idle"]
  /\ UNCHANGED <<Running_, busy, clientVars, Backoff_, tableVars, tasks,
                 liveDevices>>

ReadFails(c) ==
  /\ reactor[c] = "readable" /\ Free(c)
  /\ EventDisconnect(c)
  /\ reactor' = [reactor EXCEPT ![c] = "idle"]
  /\ UNCHANGED <<Running_, busy, commands>>

(* OnSocketShutdown and OnSocketError disconnect, release the mutex, and     *)
(* call Reconnect, which takes it again.                                     *)
SocketDown(c) ==
  /\ reactor[c] = "down" /\ Free(c)
  /\ ClientDisconnect(c)
  /\ reactor' = [reactor EXCEPT ![c] = IF Running_ THEN "reconnect" ELSE "idle"]
  /\ UNCHANGED <<Running_, busy, Backoff_, tasks, commands>>

ReactorReconnects(c) ==
  /\ reactor[c] = "reconnect" /\ Free(c)
  /\ Retries(c)
  /\ reactor' = [reactor EXCEPT ![c] = "idle"]
  /\ UNCHANGED <<Running_, busy, WS_, fd_, tableVars, commands, liveDevices>>

-----------------------------------------------------------------------------
(* The thread of a command answers; reboot, factory and upgrade then drop    *)
(* the connection and sleep, with the client's mutex.  DoFactory does what   *)
(* DoReboot does here, and DoLEDs what DoConfigure does.                      *)
Command(c, m) ==
  /\ Free(c) /\ commands[c][m] > 0
  /\ commands' = [commands EXCEPT ![c][m] = @ - 1]
  /\ UNCHANGED <<Running_, reactor>>

CommandFails(c, m) ==
  /\ Command(c, m)
  /\ EventDisconnect(c)
  /\ UNCHANGED busy

(* configure and leds end with the answer; a command that lacks a parameter *)
(* is logged and has none.                                                   *)
Concludes(c, m) ==
  /\ Command(c, m)
  /\ UNCHANGED <<busy, clientVars, Backoff_, tableVars, tasks, liveDevices>>

(* The URI of an upgrade is parsed after the connection was dropped, and a   *)
(* malformed one ends the command there.                                     *)
Restarts(c, m, uri) ==
  /\ Command(c, m) /\ Running_ /\ Answers(c)
  /\ ClientDisconnect(c)
  /\ busy' = [busy EXCEPT ![c] = IF m = "upgrade" /\ uri = "malformed" THEN "free" ELSE m]
  /\ UNCHANGED <<Backoff_, tasks>>

RestartEnds(c) ==
  /\ busy[c] \in {"reboot", "upgrade"}
  /\ EventDisconnect(c)
  /\ busy' = [busy EXCEPT ![c] = "free"]
  /\ UNCHANGED <<Running_, reactor, commands>>

(* SimulationRunner::Stop clears Running_. *)
RunnerStops ==
  /\ Running_
  /\ Running_' = FALSE
  /\ UNCHANGED <<busy, clientVars, Backoff_, tableVars, reactor, tasks,
                 commands, liveDevices>>

-----------------------------------------------------------------------------
Event(c) ==
  \/ \E s \in Conns : EstablishOpens(c, s)
  \/ EstablishThrows(c) \/ EstablishFails(c) \/ Connects(c) \/ ConnectFails(c)
  \/ Reconnect(c)
  \/ \E k \in Periodic \cup {"Log"} : Reports(c, k) \/ ReportFails(c, k)
  \/ \E k \in Kinds : Dropped(c, k)

Socket(c) ==
  \/ \E s \in Conns :
       \/ \E what \in {"readable", "down"} : Notices(c, s, what)
       \/ ClosesUnknown(c, s)
  \/ Reads(c) \/ ReadFails(c) \/ SocketDown(c) \/ ReactorReconnects(c)

Thread(c) ==
  \/ \E m \in Methods : CommandFails(c, m) \/ Concludes(c, m)
  \/ \E uri \in Uris : Restarts(c, "upgrade", uri)
  \/ Restarts(c, "reboot", "valid")
  \/ RestartEnds(c)

Next == RunnerStops \/ \E c \in Clients : Event(c) \/ Socket(c) \/ Thread(c)

Spec == Init /\ [][Next]_vars

(* Tasks that are due and threads that can run do run; the gateway and the   *)
(* user are not obliged to do anything.                                      *)
FairSpec == Spec /\ \A c \in Clients : WF_vars(Event(c)) /\ WF_vars(Thread(c))
-----------------------------------------------------------------------------
(* Types: sockets and what refers to them, and the work that waits for a client. *)
SocketTypes ==
  /\ busy \in [Clients -> {"free", "connecting", "reboot", "upgrade"}]
  /\ WS_ \in [Clients -> Conns \cup {Nothing}]
  /\ fd_ \in [Clients -> Conns \cup {Nothing}]
  /\ Connected_ \in [Clients -> BOOLEAN]
  /\ sock \in [Conns -> {"free", "open"}]
  /\ Clients_fd_ \in [Conns -> Clients \cup {Nothing}]
  /\ handlers \in [Conns -> Clients \cup {Nothing}]
  /\ liveDevices \in Nat

TaskTypes ==
  /\ Running_ \in BOOLEAN
  /\ Backoff_ \in [Clients -> Nat] /\ \A c \in Clients : Backoff_[c] <= 600
  /\ reactor \in [Clients -> {"idle", "readable", "down", "reconnect"}]
  /\ tasks \in [Clients -> [Kinds -> 0 .. MaxTasks]]
  /\ commands \in [Clients -> [Methods -> 0 .. MaxTasks]]

(* The type of every variable. *)
TypeOK == SocketTypes /\ TaskTypes

(* A descriptor in the table is an open socket that is registered with the   *)
(* reactor of the client the table names, and the descriptor a client holds  *)
(* is in the table; a connected client holds one.  A descriptor that was     *)
(* closed and given to another client is never taken for the one before.     *)
InTable == {s \in Conns : Clients_fd_[s] # Nothing}

TableIsLive ==
  /\ \A s \in InTable : sock[s] = "open" /\ handlers[s] = Clients_fd_[s]
  /\ \A c \in Clients :
       /\ fd_[c] # Nothing => Clients_fd_[fd_[c]] = c
       /\ Connected_[c] => fd_[c] # Nothing

(* SimStats never counts more live devices than there are sockets in the     *)
(* table, however many handlers drop the same connection or connect the same *)
(* device.                                                                   *)
LiveDevicesAreBacked == liveDevices <= Cardinality(InTable)

(* While the runner runs, a connected device has each of its periodic events *)
(* scheduled: no sequence of failures and reconnections silences it.         *)
ConnectedDevicesReport ==
  Running_ => \A c \in Clients :
                Connected_[c] => \A k \in Periodic : tasks[c][k] > 0

Returning(c) ==
  \/ tasks[c]["Establish"] + tasks[c]["Reconnect"] > 0
  \/ reactor[c] = "reconnect"
  \/ ~Free(c)

(* While the runner runs, a device that is not connected is on its way back: *)
(* a connection or a reconnection is scheduled, or its reactor or a command  *)
(* that keeps its mutex is about to schedule one.  It is so as long as        *)
(* EstablishConnection throws nothing before its try block, and no upgrade    *)
(* names a malformed URI.                                                    *)
Back(c) == Running_ => Connected_[c] \/ Returning(c)

DisconnectedDevicesReturn == \A c \in Clients : Back(c)

(* Two steps leave a device with no way back, and nothing else does: an       *)
(* attempt that throws before its try block, and an upgrade whose URI is      *)
(* parsed once the connection is gone.                                       *)
Strands(c) ==
  \/ EstablishThrows(c)
  \/ "malformed" \in Uris /\ Restarts(c, "upgrade", "malformed")

OnlyThrowsStrand == [][\A c \in Clients : Back(c) /\ ~Back(c)' => Strands(c)]_vars

(* Where the sockets are: what keeps a reconnection of one client from       *)
(* closing, or taking over, a socket that is still in the table.             *)
SocketInv ==
  /\ \A s \in Conns : sock[s] = "free" => handlers[s] = Nothing
  /\ \A c \in Clients :
       /\ WS_[c] # Nothing =>
            sock[WS_[c]] = "open" /\ handlers[WS_[c]] \in {c, Nothing}
       /\ WS_[c] # Nothing /\ WS_[c] \in InTable => fd_[c] = WS_[c]
       /\ Connected_[c] =>
            WS_[c] # Nothing /\ (handlers[WS_[c]] = c => fd_[c] = WS_[c])
       /\ busy[c] = "connecting" => WS_[c] # Nothing /\ handlers[WS_[c]] = Nothing
  /\ \A c, d \in Clients : WS_[c] = WS_[d] /\ WS_[c] # Nothing => c = d

(* The inductive invariant. *)
IInv ==
  /\ TypeOK
  /\ SocketInv
  /\ TableIsLive
  /\ LiveDevicesAreBacked
  /\ ConnectedDevicesReport
  /\ MayThrow = {} /\ "malformed" \notin Uris => DisconnectedDevicesReturn

(* "Exponential back-off": a connection attempt that fails is retried after  *)
(* a longer wait than the one before, up to the point where it wraps.        *)
BackoffGrows ==
  [][\A c \in Clients :
       Running_ /\ EstablishFails(c) /\ Backoff_[c] <= 300 =>
         Backoff_'[c] > Backoff_[c]]_vars
=============================================================================
