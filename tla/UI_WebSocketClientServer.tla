---------------------- MODULE UI_WebSocketClientServer ----------------------
(***************************************************************************)
(* The browsers that follow the log and the runs: the threads of requests    *)
(* add them, the reactor's thread serves and ends them, the cleaner erases   *)
(* the ended ones, and the main thread stops it all.                         *)
(*                                                                         *)
(* A client is known by its descriptor and by which connection of that       *)
(* descriptor it is, so that an iterator kept in ToBeRemoved_ can outlive    *)
(* its entry.  Poco's SocketReactor is external: its one thread calls back   *)
(* for sockets that have handlers, and holds on to such a socket; when it is *)
(* stopped it tells them all of its end.  Logging while a browser is         *)
(* connected sends to it, under LocalMutex_; with asynchronous logging a     *)
(* thread of its own does so, which holds nothing else.                      *)
(***************************************************************************)
EXTENDS Naturals, Sequences, FiniteSets

CONSTANTS
  Sockets,      \* descriptors
  MaxClients    \* bound on the connections that are made

Nobody == "nobody"
Reactor == "reactor"
Bus == "bus"

VARIABLES
  Clients_,         \* descriptor -> the connection it is of, 0 if none
  Registered,       \* the descriptors with handlers in the reactor
  Authenticated_,   \* descriptors whose client gave a token
  ToBeRemoved_,     \* iterators: descriptor and connection
  UsersConnected_, made,
  Running_, stopping,                     \* the reactor's own flag
  reactor, client,  \* the client it calls back for
  cleaner, bus, main,
  LocalMutex_, InfraMutex_,
  asynch,           \* logging.asynch
  dangled           \* an iterator or a client was used after its entry was gone

clientVars == <<Clients_, Registered, Authenticated_, ToBeRemoved_, UsersConnected_, made>>
reactorVars == <<reactor, client>>
flagVars == <<Running_, stopping>>
mutexVars == <<LocalMutex_, InfraMutex_>>
vars == <<clientVars, flagVars, reactorVars, cleaner, bus, main, mutexVars, asynch, dangled>>

NoClient == <<>>
Lives(it) == Clients_[it[1]] = it[2]
socket == client[1]

Init ==
  /\ Clients_ = [s \in Sockets |-> 0]
  /\ Registered = {} /\ Authenticated_ = {} /\ ToBeRemoved_ = <<>>
  /\ UsersConnected_ = 0 /\ made = 0
  /\ Running_ = FALSE /\ stopping = FALSE
  /\ reactor = "polls" /\ client = NoClient
  /\ cleaner = "started" /\ bus = "idle" /\ main = "serves"
  /\ LocalMutex_ = Nobody /\ InfraMutex_ = Nobody
  /\ asynch \in BOOLEAN
  /\ dangled = FALSE
-----------------------------------------------------------------------------
(* RESTAPI_webSocketServer::DoGet, NewClient: a descriptor is free when no    *)
(* client and no handler holds its socket.                                   *)
NewClient(s) ==
  /\ made < MaxClients
  /\ LocalMutex_ = Nobody
  /\ Clients_[s] = 0 /\ s \notin Registered
  /\ made' = made + 1
  /\ Clients_' = [Clients_ EXCEPT ![s] = made + 1]
  /\ Registered' = Registered \cup {s}
  /\ UsersConnected_' = Cardinality({t \in Sockets : Clients_'[t] # 0})
  /\ UNCHANGED <<Authenticated_, ToBeRemoved_, flagVars, reactorVars, cleaner, bus, main, mutexVars, asynch, dangled>>
-----------------------------------------------------------------------------
(* Mutated forms of definitions below, one slip in the code each. *)

EndsOnly ==                               \* the handlers left in the reactor
  /\ ToBeRemoved_' = Append(ToBeRemoved_, client)
  /\ UNCHANGED Registered

LogsItself ==                             \* no channel in between
  /\ bus = "logs"
  /\ UsersConnected_ = 0 \/ LocalMutex_ = Nobody
  /\ bus' = "idle" /\ InfraMutex_' = Nobody
  /\ UNCHANGED <<clientVars, flagVars, reactorVars, cleaner, main, LocalMutex_, asynch, dangled>>

ForgetsEnded ==                           \* the list cleared, the map kept
  /\ cleaner = "locks"
  /\ LocalMutex_ = Nobody
  /\ ToBeRemoved_' = <<>>
  /\ cleaner' = "sleeps"
  /\ UNCHANGED <<Clients_, Registered, Authenticated_, UsersConnected_, made, dangled,
                 flagVars, reactorVars, bus, main, mutexVars, asynch>>
-----------------------------------------------------------------------------
(* EndConnection. *)
EndConnection ==
  /\ Registered' = Registered \ {socket}
  /\ ToBeRemoved_' = Append(ToBeRemoved_, client)

(* The reactor's thread calls back for one of its sockets. *)
ReactorPicks(s) ==
  /\ reactor = "polls" /\ s \in Registered
  /\ client' = <<s, 0>>
  /\ reactor' = "locks"
  /\ UNCHANGED <<clientVars, flagVars, cleaner, bus, main, mutexVars, asynch, dangled>>

(* OnSocketReadable, OnSocketShutdown, OnSocketError: a callback takes the    *)
(* mutex and finds the client, if it is still there.                         *)
ReactorFinds ==
  /\ reactor = "locks"
  /\ LocalMutex_ = Nobody
  /\ \/ /\ Clients_[socket] = 0
        /\ reactor' = "polls" /\ client' = NoClient
        /\ UNCHANGED LocalMutex_
     \/ /\ Clients_[socket] # 0
        /\ client' = <<socket, Clients_[socket]>>
        /\ LocalMutex_' = Reactor
        /\ reactor' = "reads"
  /\ UNCHANGED <<clientVars, flagVars, cleaner, bus, main, InfraMutex_, asynch, dangled>>

(* The end of a callback: the client is kept, or is ended. *)
Returns ==
  /\ \/ UNCHANGED <<Registered, ToBeRemoved_>>
     \/ EndConnection
  /\ reactor' = "polls" /\ client' = NoClient
  /\ LocalMutex_' = Nobody

(* Pings, filters and commands; a frame that closes, a processor that says   *)
(* so, an exception, an error, a shutdown.                                   *)
ReactorReads ==
  /\ reactor = "reads"
  /\ Returns
  /\ dangled' = (dangled \/ ~Lives(client))
  /\ UNCHANGED <<Clients_, Authenticated_, UsersConnected_, made,
                 flagVars, cleaner, bus, main, InfraMutex_, asynch>>

(* The first text of a client is a token, which the security service is asked *)
(* about while LocalMutex_ is held; GetServices takes InfraMutex_.            *)
ReactorAsks ==
  /\ reactor = "reads" /\ socket \notin Authenticated_
  /\ reactor' = "asks"
  /\ dangled' = (dangled \/ ~Lives(client))
  /\ UNCHANGED <<client, clientVars, flagVars, cleaner, bus, main, mutexVars, asynch>>

ReactorAnswers ==
  /\ reactor = "asks"
  /\ InfraMutex_ = Nobody
  /\ Returns
  /\ Authenticated_' = IF ToBeRemoved_' = ToBeRemoved_
                         THEN Authenticated_ \cup {socket} ELSE Authenticated_
  /\ dangled' = (dangled \/ ~Lives(client))
  /\ UNCHANGED <<Clients_, UsersConnected_, made,
                 flagVars, cleaner, bus, main, InfraMutex_, asynch>>

(* Stopped, it tells the clients it has handlers for, one after the other.   *)
ReactorStops ==
  /\ reactor = "polls" /\ stopping
  /\ reactor' = "shuts"
  /\ UNCHANGED <<client, clientVars, flagVars, cleaner, bus, main, mutexVars, asynch, dangled>>

ReactorShuts ==
  /\ reactor = "shuts"
  /\ LocalMutex_ = Nobody
  /\ \E s \in Registered :
       /\ Clients_[s] # 0
       /\ Registered' = Registered \ {s}
       /\ ToBeRemoved_' = Append(ToBeRemoved_, <<s, Clients_[s]>>)
  /\ UNCHANGED <<reactorVars, Clients_, Authenticated_, UsersConnected_, made,
                 flagVars, cleaner, bus, main, mutexVars, asynch, dangled>>

ReactorEnds ==
  /\ reactor = "shuts"
  /\ reactor' = "ended"
  /\ UNCHANGED <<client, clientVars, flagVars, cleaner, bus, main, mutexVars, asynch, dangled>>
-----------------------------------------------------------------------------
(* run, of the cleaner. *)
CleanerUp ==
  /\ cleaner = "started"
  /\ Running_' = TRUE
  /\ cleaner' = "sleeps"
  /\ UNCHANGED <<clientVars, stopping, reactorVars, bus, main, mutexVars, asynch, dangled>>

CleanerWakes ==
  /\ cleaner = "sleeps"
  /\ cleaner' = IF Running_ THEN "locks" ELSE "ended"
  /\ UNCHANGED <<clientVars, flagVars, reactorVars, bus, main, mutexVars, asynch, dangled>>

(* Each iterator of the list is erased: one that is there twice, or whose     *)
(* entry is gone, dangles.                                                   *)
CleanerErases ==
  /\ cleaner = "locks"
  /\ LocalMutex_ = Nobody
  /\ LET Ended == {ToBeRemoved_[i] : i \in DOMAIN ToBeRemoved_} IN
       /\ Clients_' = [s \in Sockets |-> IF <<s, Clients_[s]>> \in Ended THEN 0 ELSE Clients_[s]]
       /\ Authenticated_' = {s \in Authenticated_ : <<s, Clients_[s]>> \notin Ended}
       /\ dangled' = \/ dangled
                     \/ Cardinality(Ended) # Len(ToBeRemoved_)
                     \/ \E it \in Ended : ~Lives(it)
  /\ ToBeRemoved_' = <<>>
  /\ UsersConnected_' = Cardinality({s \in Sockets : Clients_'[s] # 0})
  /\ cleaner' = "sleeps"
  /\ UNCHANGED <<Registered, made, flagVars, reactorVars, bus, main, mutexVars, asynch>>
-----------------------------------------------------------------------------
(* MicroService::BusMessageReceived logs while it holds InfraMutex_. *)
BusReceives ==
  /\ bus = "idle" /\ InfraMutex_ = Nobody
  /\ InfraMutex_' = Bus
  /\ bus' = "logs"
  /\ UNCHANGED <<clientVars, flagVars, reactorVars, cleaner, main, LocalMutex_, asynch, dangled>>

BusLogs ==
  /\ bus = "logs"
  /\ asynch \/ UsersConnected_ = 0 \/ LocalMutex_ = Nobody
  /\ bus' = "idle" /\ InfraMutex_' = Nobody
  /\ UNCHANGED <<clientVars, flagVars, reactorVars, cleaner, main, LocalMutex_, asynch, dangled>>
-----------------------------------------------------------------------------
(* Stop: the clients are cleared without the mutex, and nothing at all is     *)
(* stopped if the cleaner has not begun.                                     *)
StopClears ==
  /\ main = "serves"
  /\ \/ /\ Running_
        /\ Clients_' = [s \in Sockets |-> 0]
        /\ main' = "stopReactor"
     \/ /\ ~Running_
        /\ main' = "ended"
        /\ UNCHANGED Clients_
  /\ UNCHANGED <<Registered, Authenticated_, ToBeRemoved_, UsersConnected_, made,
                 flagVars, reactorVars, cleaner, bus, mutexVars, asynch, dangled>>

StopReactor ==
  /\ main = "stopReactor"
  /\ stopping' = TRUE
  /\ main' = "joinReactor"
  /\ UNCHANGED <<Running_, clientVars, reactorVars, cleaner, bus, mutexVars, asynch, dangled>>

JoinReactor ==
  /\ main = "joinReactor" /\ reactor = "ended"
  /\ Running_' = FALSE
  /\ main' = "joinCleaner"
  /\ UNCHANGED <<stopping, clientVars, reactorVars, cleaner, bus, mutexVars, asynch, dangled>>

JoinCleaner ==
  /\ main = "joinCleaner" /\ cleaner = "ended"
  /\ main' = "ended"
  /\ UNCHANGED <<clientVars, flagVars, reactorVars, cleaner, bus, mutexVars, asynch, dangled>>
-----------------------------------------------------------------------------
CallbackStep == ReactorReads \/ ReactorAsks \/ ReactorAnswers
ReactorStep == CallbackStep \/ ReactorStops \/ ReactorShuts \/ ReactorEnds
StopStep == StopReactor \/ JoinReactor \/ JoinCleaner

Next ==
  \/ \E s \in Sockets : NewClient(s) \/ ReactorPicks(s)
  \/ ReactorFinds \/ ReactorStep
  \/ CleanerUp \/ CleanerWakes \/ CleanerErases
  \/ BusReceives \/ BusLogs
  \/ StopClears \/ StopStep

Spec == Init /\ [][Next]_vars

(* Threads run and mutexes are granted at last; whether browsers come, say   *)
(* anything or go, and when the service stops, is open.                      *)
FairSpec ==
  /\ Spec
  /\ WF_vars(CallbackStep) /\ SF_vars(ReactorFinds) /\ SF_vars(ReactorAnswers)
  /\ SF_vars(ReactorStops) /\ SF_vars(ReactorEnds)
  /\ WF_vars(CleanerUp) /\ WF_vars(CleanerWakes) /\ SF_vars(CleanerErases)
  /\ WF_vars(BusLogs) /\ WF_vars(StopStep)
-----------------------------------------------------------------------------
(* No client is used or erased after its entry is gone, and none is erased   *)
(* twice, however callbacks, cleaner and new clients on a descriptor that is *)
(* in use again interleave, until Stop clears the map.                       *)
DanglesOnlyInStop == dangled => main # "serves"

(* While the server serves, the clients it keeps are those with handlers and  *)
(* those that wait to be erased: none is forgotten, and the reactor calls      *)
(* back for none that is gone.                                               *)
Listed(s) == \E i \in DOMAIN ToBeRemoved_ : ToBeRemoved_[i] = <<s, Clients_[s]>>
NoneForgotten ==
  main = "serves" => \A s \in Sockets : Clients_[s] # 0 <=> s \in Registered \/ Listed(s)

(* A client that ended is erased, unless the service stops.  With logging in  *)
(* the thread that logs, the bus and a callback can wait for each other.     *)
EndedClientsAreErased ==
  asynch => \A s \in Sockets :
    []<>(Clients_[s] = 0 \/ s \in Registered \/ main # "serves")

(* What a stop joins is told to end and can end: the reactor's flag is up, the  *)
(* cleaner's is down for good and nobody has the mutex it may wait for.  Each  *)
(* mutex has a holder that goes on, but for the reactor that asks for services *)
(* with LocalMutex_ while the bus logs with InfraMutex_ to the browsers.      *)
StopPasses ==
  /\ main \in {"joinReactor", "joinCleaner"} => stopping
  /\ main = "joinCleaner" =>
       ~Running_ /\ cleaner # "started" /\ reactor = "ended" /\ LocalMutex_ = Nobody
  /\ LocalMutex_ # Nobody => reactor = "reads" \/ reactor = "asks"
  /\ InfraMutex_ # Nobody => bus = "logs"

(* A stop that finds the cleaner running ends both threads. *)
StopReturns == asynch /\ main = "stopReactor" ~> main = "ended"
-----------------------------------------------------------------------------
(* The inductive invariant behind DanglesOnlyInStop, of what is so while main *)
(* serves: a client that a callback works on, or that waits to be erased, is  *)
(* still there, and no callback will find the latter again.                  *)
TypeOK ==
  /\ Clients_ \in [Sockets -> Nat] /\ made \in Nat
  /\ Registered \subseteq Sockets
  /\ ToBeRemoved_ \in Seq(Sockets \X Nat)
  /\ reactor \in {"polls", "locks", "reads", "asks"} /\ ~stopping

CallbackInv ==
  /\ reactor # "polls" => client \in Sockets \X Nat /\ socket \in Registered
  /\ reactor \in {"reads", "asks"} => LocalMutex_ = Reactor /\ Lives(client) /\ client[2] # 0

RemovalInv ==
  \A i \in DOMAIN ToBeRemoved_ :
    /\ Lives(ToBeRemoved_[i]) /\ ToBeRemoved_[i][2] # 0
    /\ ToBeRemoved_[i][1] \notin Registered
    /\ \A j \in DOMAIN ToBeRemoved_ : ToBeRemoved_[i][1] = ToBeRemoved_[j][1] => i = j

ServeInv == main = "serves" => TypeOK /\ CallbackInv /\ RemovalInv /\ ~dangled

(* Who has the mutexes, and which flags are up, however far the stop is.      *)
StopInv ==
  /\ LocalMutex_ = IF reactor \in {"reads", "asks"} THEN Reactor ELSE Nobody
  /\ InfraMutex_ = IF bus = "logs" THEN Bus ELSE Nobody
  /\ main \in {"joinReactor", "joinCleaner"} => stopping
  /\ cleaner = "started" => ~Running_
  /\ main \in {"stopReactor", "joinReactor", "joinCleaner"} => cleaner # "started"
  /\ main = "joinCleaner" => ~Running_ /\ reactor = "ended"
=============================================================================
