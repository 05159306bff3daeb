------------------ MODULE UI_WebSocketClientServer_proofs ------------------
(***************************************************************************)
(* Proofs about UI_WebSocketClientServer, for any descriptors and any        *)
(* number of connections.                                                  *)
(***************************************************************************)
EXTENDS UI_WebSocketClientServer, FunctionTheorems, FiniteSetTheorems, SequenceTheorems, TLAPS

ServingInv == TypeOK /\ CallbackInv /\ RemovalInv /\ ~dangled

(* As many iterators as entries: the list names no entry twice. *)
LEMMA NoneTwice ==
  ASSUME TypeOK, RemovalInv
  PROVE  Cardinality({ToBeRemoved_[i] : i \in DOMAIN ToBeRemoved_}) = Len(ToBeRemoved_)
<1> DEFINE Ended == {ToBeRemoved_[i] : i \in DOMAIN ToBeRemoved_}
<1>1. Len(ToBeRemoved_) \in Nat /\ DOMAIN ToBeRemoved_ = 1 .. Len(ToBeRemoved_)
  BY LenProperties DEF TypeOK
<1>2. ToBeRemoved_ = [i \in 1 .. Len(ToBeRemoved_) |-> ToBeRemoved_[i]]
  BY <1>1 DEF TypeOK
<1>3. ToBeRemoved_ \in [1 .. Len(ToBeRemoved_) -> Ended]
  BY <1>1, <1>2
<1>4. \A i, j \in DOMAIN ToBeRemoved_ : ToBeRemoved_[i] = ToBeRemoved_[j] => i = j
  BY DEF RemovalInv
<1>5. \A e \in Ended : \E i \in 1 .. Len(ToBeRemoved_) : ToBeRemoved_[i] = e
  BY <1>1
<1>6. ToBeRemoved_ \in Bijection(1 .. Len(ToBeRemoved_), Ended)
  BY <1>1, <1>3, <1>4, <1>5 DEF Bijection, Injection, Surjection, IsInjective
<1>7. ExistsBijection(1 .. Len(ToBeRemoved_), Ended)
  BY <1>6 DEF ExistsBijection
<1> QED
  BY <1>1, <1>7, FS_CountingElements

(* An iterator is put into the list by the callback that removes the handlers *)
(* of its client, so no callback finds that client again.                    *)
LEMMA EndConnectionInv ==
  ASSUME ServingInv, EndConnection, UNCHANGED Clients_, reactor \in {"reads", "asks"}
  PROVE  /\ ToBeRemoved_' \in Seq(Sockets \X Nat) /\ Registered' \subseteq Sockets
         /\ RemovalInv'
<1>1. /\ client \in Sockets \X Nat /\ socket \in Registered /\ Lives(client) /\ client[2] # 0
      /\ ToBeRemoved_ \in Seq(Sockets \X Nat)
  BY DEF ServingInv, TypeOK, CallbackInv
<1>2. /\ ToBeRemoved_' = Append(ToBeRemoved_, client)
      /\ Registered' = Registered \ {socket}
  BY DEF EndConnection
<1>3. /\ ToBeRemoved_' \in Seq(Sockets \X Nat) /\ Len(ToBeRemoved_) \in Nat
      /\ DOMAIN ToBeRemoved_' = 1 .. Len(ToBeRemoved_) + 1
      /\ DOMAIN ToBeRemoved_ = 1 .. Len(ToBeRemoved_)
      /\ \A i \in DOMAIN ToBeRemoved_ : ToBeRemoved_'[i] = ToBeRemoved_[i]
      /\ ToBeRemoved_'[Len(ToBeRemoved_) + 1] = client
  BY <1>1, <1>2, AppendProperties, LenProperties
<1>4. \A i \in DOMAIN ToBeRemoved_ :
        ToBeRemoved_[i][1] \notin Registered /\ ToBeRemoved_[i][1] # client[1]
  BY <1>1 DEF ServingInv, RemovalInv, socket
<1>5. RemovalInv'
  <2> SUFFICES ASSUME NEW i \in DOMAIN ToBeRemoved_'
               PROVE  /\ Clients_[ToBeRemoved_'[i][1]] = ToBeRemoved_'[i][2]
                      /\ ToBeRemoved_'[i][2] # 0 /\ ToBeRemoved_'[i][1] \notin Registered'
                      /\ \A j \in DOMAIN ToBeRemoved_' :
                           ToBeRemoved_'[i][1] = ToBeRemoved_'[j][1] => i = j
    BY DEF RemovalInv, Lives
  <2>1. \A k \in DOMAIN ToBeRemoved_' : k \in DOMAIN ToBeRemoved_ \/ k = Len(ToBeRemoved_) + 1
    BY <1>3
  <2>2. CASE i = Len(ToBeRemoved_) + 1
    BY <2>1, <2>2, <1>1, <1>2, <1>3, <1>4 DEF Lives, socket
  <2>3. CASE i \in DOMAIN ToBeRemoved_
    BY <2>1, <2>3, <1>2, <1>3, <1>4 DEF ServingInv, RemovalInv, Lives, socket
  <2> QED
    BY <2>1, <2>2, <2>3
<1> QED
  BY <1>2, <1>3, <1>5 DEF ServingInv, TypeOK

(* The steps that can disturb the invariant while main serves, one lemma each. *)
LEMMA NewClientInv ==
  ASSUME ServingInv, NEW s \in Sockets, NewClient(s)
  PROVE  ServingInv'
<1>1. /\ Clients_' = [Clients_ EXCEPT ![s] = made + 1] /\ Clients_[s] = 0 /\ s \notin Registered
      /\ made' = made + 1 /\ Registered' = Registered \cup {s}
      /\ UNCHANGED <<ToBeRemoved_, reactor, client, LocalMutex_, stopping, dangled>>
      /\ LocalMutex_ = Nobody
  BY DEF NewClient, flagVars, reactorVars, mutexVars
<1>2. TypeOK'
  BY <1>1 DEF ServingInv, TypeOK
<1>3. CallbackInv'
  BY <1>1 DEF ServingInv, TypeOK, CallbackInv, Nobody, Reactor, socket
<1>4. \A i \in DOMAIN ToBeRemoved_ :
        ToBeRemoved_[i] \in Sockets \X Nat /\ ToBeRemoved_[i][1] # s
  BY <1>1 DEF ServingInv, TypeOK, RemovalInv, Lives
<1>5. RemovalInv'
  BY <1>1, <1>4 DEF ServingInv, TypeOK, RemovalInv, Lives
<1> QED
  BY <1>1, <1>2, <1>3, <1>5 DEF ServingInv

LEMMA ReactorFindsInv ==
  ASSUME ServingInv, ReactorFinds
  PROVE  ServingInv'
<1>1. /\ client \in Sockets \X Nat /\ socket \in Registered /\ reactor = "locks"
      /\ UNCHANGED <<clientVars, stopping, dangled>>
  BY DEF ServingInv, CallbackInv, ReactorFinds, flagVars
<1>2. \/ reactor' = "polls"
      \/ /\ client' = <<socket, Clients_[socket]>> /\ Clients_[socket] # 0
         /\ LocalMutex_' = Reactor /\ reactor' = "reads"
  BY DEF ReactorFinds
<1>3. TypeOK'
  BY <1>1, <1>2 DEF ServingInv, TypeOK, clientVars
<1>4. CallbackInv'
  <2>1. CASE reactor' = "polls"
    BY <2>1 DEF CallbackInv
  <2>2. CASE /\ client' = <<socket, Clients_[socket]>> /\ Clients_[socket] # 0
             /\ LocalMutex_' = Reactor /\ reactor' = "reads"
    BY <1>1, <2>2 DEF ServingInv, TypeOK, CallbackInv, Lives, socket, clientVars
  <2> QED
    BY <1>2, <2>1, <2>2
<1>5. RemovalInv'
  BY <1>1 DEF ServingInv, RemovalInv, Lives, clientVars
<1> QED
  BY <1>1, <1>3, <1>4, <1>5 DEF ServingInv

LEMMA ReturnsInv ==
  ASSUME ServingInv, Returns, reactor \in {"reads", "asks"},
         UNCHANGED <<Clients_, made, stopping>>, dangled' = (dangled \/ ~Lives(client))
  PROVE  ServingInv'
<1>1. RemovalInv' /\ TypeOK'
  <2>1. CASE UNCHANGED <<Registered, ToBeRemoved_>>
    BY <2>1 DEF ServingInv, Returns, TypeOK, RemovalInv, Lives
  <2>2. CASE EndConnection
    BY <2>2, EndConnectionInv DEF ServingInv, Returns, TypeOK
  <2> QED
    BY <2>1, <2>2 DEF Returns
<1>2. CallbackInv' /\ ~dangled'
  BY DEF ServingInv, Returns, CallbackInv
<1> QED
  BY <1>1, <1>2 DEF ServingInv

LEMMA CleanerErasesInv ==
  ASSUME ServingInv, CleanerErases
  PROVE  ServingInv'
<1> DEFINE Ended == {ToBeRemoved_[i] : i \in DOMAIN ToBeRemoved_}
<1>1. /\ Clients_' = [s \in Sockets |-> IF <<s, Clients_[s]>> \in Ended THEN 0 ELSE Clients_[s]]
      /\ dangled' = (dangled \/ Cardinality(Ended) # Len(ToBeRemoved_)
                             \/ \E it \in Ended : ~Lives(it))
      /\ ToBeRemoved_' = <<>> /\ LocalMutex_ = Nobody
      /\ UNCHANGED <<Registered, made, stopping, reactor, client, LocalMutex_>>
  BY DEF CleanerErases, flagVars, reactorVars, mutexVars
<1>2. ~dangled'
  <2>1. \A it \in Ended : Lives(it)
    BY DEF ServingInv, RemovalInv
  <2>2. Cardinality(Ended) = Len(ToBeRemoved_)
    BY NoneTwice DEF ServingInv
  <2> QED
    BY <1>1, <2>1, <2>2 DEF ServingInv
<1>3. TypeOK'
  BY <1>1 DEF ServingInv, TypeOK
<1>4. CallbackInv'
  BY <1>1 DEF ServingInv, CallbackInv, Nobody, Reactor, socket
<1>5. RemovalInv'
  BY <1>1 DEF RemovalInv
<1> QED
  BY <1>2, <1>3, <1>4, <1>5 DEF ServingInv

(* The other steps of a server that serves. *)
LEMMA OthersInv ==
  ASSUME ServingInv,
         \/ \E s \in Sockets : ReactorPicks(s)
         \/ ReactorAsks \/ CleanerUp \/ CleanerWakes \/ BusReceives \/ BusLogs
         \/ UNCHANGED vars
  PROVE  ServingInv'
<1> USE DEF ServingInv, TypeOK, CallbackInv, RemovalInv, Lives, socket
<1>1. ASSUME NEW s \in Sockets, ReactorPicks(s) PROVE ServingInv'
  BY <1>1 DEF ReactorPicks, clientVars, flagVars
<1>2. CASE ReactorAsks
  BY <1>2 DEF ReactorAsks, clientVars, flagVars, mutexVars
<1>3. CASE CleanerUp \/ CleanerWakes
  BY <1>3 DEF CleanerUp, CleanerWakes, clientVars, flagVars, reactorVars, mutexVars
<1>4. CASE BusReceives \/ BusLogs
  BY <1>4 DEF BusReceives, BusLogs, clientVars, flagVars, reactorVars
<1>5. CASE UNCHANGED vars
  BY <1>5 DEF vars, clientVars, flagVars, reactorVars, mutexVars
<1> QED
  BY <1>1, <1>2, <1>3, <1>4, <1>5

(* Once main is stopping it does not serve again. *)
LEMMA MainLeaves ==
  ASSUME [Next]_vars, main' = "serves"
  PROVE  main = "serves" /\ ~StopClears /\ ~StopStep
<1>1. ~StopClears /\ ~StopStep
  BY DEF StopClears, StopStep, StopReactor, JoinReactor, JoinCleaner
<1>2. main' = main
  BY <1>1 DEF Next, ReactorStep, CallbackStep, NewClient, ReactorPicks, ReactorFinds,
     ReactorReads, ReactorAsks, ReactorAnswers, ReactorStops, ReactorShuts, ReactorEnds,
     CleanerUp, CleanerWakes, CleanerErases, BusReceives, BusLogs, vars
<1> QED
  BY <1>1, <1>2

(* While the server serves, whoever works on a client or is to erase it finds *)
(* it there: the callback that ends a client takes it out of the reactor, and *)
(* its descriptor is not free before it is erased.                           *)
THEOREM InductiveInvariant == Spec => []ServeInv
<1>1. Init => ServeInv
  BY DEF Init, ServeInv, TypeOK, CallbackInv, RemovalInv
<1>2. ServeInv /\ [Next]_vars => ServeInv'
  <2> SUFFICES ASSUME ServeInv, [Next]_vars, main' = "serves" PROVE ServingInv'
    BY DEF ServeInv, ServingInv
  <2>1. ServingInv /\ ~StopClears /\ ~StopStep
    BY MainLeaves DEF ServeInv, ServingInv
  <2>2. CASE ReactorReads
    BY <2>1, <2>2, ReturnsInv DEF ReactorReads, flagVars
  <2>3. CASE ReactorAnswers
    BY <2>1, <2>3, ReturnsInv DEF ReactorAnswers, flagVars
  <2>4. ~ReactorStops /\ ~ReactorShuts /\ ~ReactorEnds
    BY <2>1 DEF ServingInv, TypeOK, ReactorStops, ReactorShuts, ReactorEnds
  <2> QED
    BY <2>1, <2>2, <2>3, <2>4, NewClientInv, ReactorFindsInv, CleanerErasesInv, OthersInv
       DEF Next, ReactorStep, CallbackStep
<1> QED
  BY <1>1, <1>2, PTL DEF Spec

(* No client is used or erased after its entry is gone, nor erased twice,     *)
(* before Stop clears the map.                                               *)
THEOREM DanglesCorrect == Spec => []DanglesOnlyInStop
<1>1. ServeInv => DanglesOnlyInStop
  BY DEF ServeInv, DanglesOnlyInStop
<1> QED
  BY InductiveInvariant, <1>1, PTL

-----------------------------------------------------------------------------
(* A server that serves keeps the clients with handlers and those that wait. *)
Kept == \A s \in Sockets : Clients_[s] # 0 <=> s \in Registered \/ Listed(s)

(* A client that is ended moves from the reactor to the list. *)
LEMMA EndConnectionKept ==
  ASSUME ServingInv, Kept, EndConnection, UNCHANGED Clients_, reactor \in {"reads", "asks"}
  PROVE  Kept'
<1>1. /\ client \in Sockets \X Nat /\ client[1] = socket /\ client[2] # 0
      /\ Clients_[socket] = client[2] /\ socket \in Sockets
      /\ ToBeRemoved_ \in Seq(Sockets \X Nat)
  BY DEF ServingInv, TypeOK, CallbackInv, Lives, socket
<1>2. ToBeRemoved_' = Append(ToBeRemoved_, client) /\ Registered' = Registered \ {socket}
  BY DEF EndConnection
<1>3. /\ Len(ToBeRemoved_) \in Nat
      /\ DOMAIN ToBeRemoved_' = 1 .. Len(ToBeRemoved_) + 1
      /\ DOMAIN ToBeRemoved_ = 1 .. Len(ToBeRemoved_)
      /\ \A i \in DOMAIN ToBeRemoved_ : ToBeRemoved_'[i] = ToBeRemoved_[i]
      /\ ToBeRemoved_'[Len(ToBeRemoved_) + 1] = client
  BY <1>1, <1>2, AppendProperties, LenProperties
<1>4. ASSUME NEW s \in Sockets \ {socket} PROVE Listed(s)' <=> Listed(s)
  <2>1. client # <<s, Clients_[s]>>
    BY <1>1
  <2>2. ASSUME NEW i \in DOMAIN ToBeRemoved_', ToBeRemoved_'[i] = <<s, Clients_[s]>>
        PROVE  i \in DOMAIN ToBeRemoved_
    <3>1. i \in 1 .. Len(ToBeRemoved_) + 1 /\ i # Len(ToBeRemoved_) + 1
      BY <1>3, <2>1, <2>2
    <3>2. \A n \in Nat : \A k \in 1 .. n + 1 : k # n + 1 => k \in 1 .. n
      OBVIOUS
    <3> QED
      BY <1>3, <3>1, <3>2
  <2>3. Listed(s)' => Listed(s)
    BY <1>3, <2>2 DEF Listed
  <2>4. Listed(s) => Listed(s)'
    BY <1>3 DEF Listed
  <2> QED
    BY <2>3, <2>4
<1>5. client = <<socket, Clients_[socket]>>
  BY <1>1
<1>6. \E i \in DOMAIN ToBeRemoved_' : ToBeRemoved_'[i] = <<socket, Clients_[socket]>>
  <2>1. Len(ToBeRemoved_) + 1 \in DOMAIN ToBeRemoved_'
    BY <1>3
  <2> QED
    BY <1>3, <1>5, <2>1
<1> QED
  <2> SUFFICES ASSUME NEW s \in Sockets
               PROVE  Clients_[s] # 0 <=> s \in Registered' \/ Listed(s)'
    BY DEF Kept
  <2>1. CASE s # socket
    BY <1>2, <1>4, <2>1 DEF Kept
  <2>2. CASE s = socket
    <3>1. \E i \in DOMAIN ToBeRemoved_' : ToBeRemoved_'[i] = <<s, Clients_'[s]>>
      BY <1>6, <2>2
    <3>2. Listed(s)'
      BY <3>1 DEF Listed
    <3> QED
      BY <1>1, <2>2, <3>2
  <2> QED
    BY <2>1, <2>2

(* A new client has handlers, and the others keep what they had. *)
LEMMA NewClientKept ==
  ASSUME ServingInv, Kept, NEW s \in Sockets, NewClient(s)
  PROVE  Kept'
<1>1. /\ Clients_' = [Clients_ EXCEPT ![s] = made + 1] /\ Clients_[s] = 0 /\ made \in Nat
      /\ Clients_ \in [Sockets -> Nat]
      /\ Registered' = Registered \cup {s} /\ ToBeRemoved_' = ToBeRemoved_
  BY DEF NewClient, ServingInv, TypeOK
<1>2. ASSUME NEW t \in Sockets \ {s} PROVE Clients_'[t] = Clients_[t] /\ (Listed(t)' <=> Listed(t))
  BY <1>1 DEF Listed
<1> SUFFICES ASSUME NEW t \in Sockets
             PROVE  Clients_'[t] # 0 <=> t \in Registered' \/ Listed(t)'
  BY DEF Kept
<1>3. CASE t = s
  BY <1>1, <1>3
<1>4. CASE t # s
  BY <1>1, <1>2, <1>4 DEF Kept
<1> QED
  BY <1>3, <1>4

(* The cleaner erases those of the list, of which none has handlers.          *)
LEMMA CleanerKept ==
  ASSUME ServingInv, Kept, CleanerErases
  PROVE  Kept'
<1> DEFINE Ended == {ToBeRemoved_[i] : i \in DOMAIN ToBeRemoved_}
<1>1. /\ Clients_' = [s \in Sockets |-> IF <<s, Clients_[s]>> \in Ended THEN 0 ELSE Clients_[s]]
      /\ ToBeRemoved_' = <<>> /\ Registered' = Registered
  BY DEF CleanerErases
<1> SUFFICES ASSUME NEW s \in Sockets
             PROVE  Clients_'[s] # 0 <=> s \in Registered' \/ Listed(s)'
  BY DEF Kept
<1>2. <<s, Clients_[s]>> \in Ended <=> Listed(s)
  BY DEF Listed
<1>3. ~Listed(s)'
  BY <1>1 DEF Listed
<1>4. Listed(s) => s \notin Registered
  BY DEF ServingInv, RemovalInv, Listed
<1> QED
  BY <1>1, <1>2, <1>3, <1>4 DEF Kept

(* Every client that UI_WebSocketClientServer keeps while it serves has its    *)
(* handlers or waits for the cleaner, and none that the reactor calls back for *)
(* is gone: the safe half of EndedClientsAreErased.                           *)
THEOREM NoneForgottenCorrect == Spec => []NoneForgotten
<1>1. Init => NoneForgotten
  BY DEF Init, NoneForgotten, Listed
<1>2. ServeInv /\ NoneForgotten /\ [Next]_vars => NoneForgotten'
  <2> SUFFICES ASSUME ServeInv, NoneForgotten, [Next]_vars, main' = "serves" PROVE Kept'
    BY DEF NoneForgotten, Kept
  <2>1. ServingInv /\ Kept /\ ~StopClears /\ ~StopStep
    BY MainLeaves DEF ServeInv, ServingInv, NoneForgotten, Kept
  <2>2. ASSUME UNCHANGED <<Clients_, Registered, ToBeRemoved_>> PROVE Kept'
    BY <2>1, <2>2 DEF Kept, Listed
  <2>3. CASE ReactorReads \/ ReactorAnswers
    <3>1. Returns /\ UNCHANGED Clients_ /\ reactor \in {"reads", "asks"}
      BY <2>3 DEF ReactorReads, ReactorAnswers
    <3> QED
      BY <2>1, <2>2, <3>1, EndConnectionKept DEF Returns
  <2>4. ~ReactorStops /\ ~ReactorShuts /\ ~ReactorEnds
    BY <2>1 DEF ServingInv, TypeOK, ReactorStops, ReactorShuts, ReactorEnds
  <2>5. CASE \/ \E s \in Sockets : ReactorPicks(s)
             \/ ReactorFinds \/ ReactorAsks \/ CleanerUp \/ CleanerWakes
             \/ BusReceives \/ BusLogs \/ UNCHANGED vars
    BY <2>2, <2>5 DEF ReactorPicks, ReactorFinds, ReactorAsks, CleanerUp, CleanerWakes,
       BusReceives, BusLogs, vars, clientVars
  <2> QED
    BY <2>1, <2>3, <2>4, <2>5, NewClientKept, CleanerKept DEF Next, ReactorStep, CallbackStep
<1> QED
  BY <1>1, <1>2, InductiveInvariant, PTL DEF Spec

-----------------------------------------------------------------------------
(* The reactor gives its mutex back with its callback and the bus with its     *)
(* log; Stop goes on only from a cleaner that runs.                            *)
LEMMA StopInvStep == StopInv /\ [Next]_vars => StopInv'
<1> SUFFICES ASSUME StopInv, [Next]_vars PROVE StopInv'
  OBVIOUS
<1> USE DEF StopInv, clientVars, flagVars, reactorVars, mutexVars
<1> USE DEF Nobody, Reactor, Bus
<1>1. ASSUME NEW s \in Sockets, NewClient(s) \/ ReactorPicks(s) PROVE StopInv'
  BY <1>1 DEF NewClient, ReactorPicks
<1>2. CASE ReactorFinds
  <2>1. /\ reactor = "locks"
        /\ \/ reactor' = "polls" /\ LocalMutex_' = LocalMutex_
           \/ reactor' = "reads" /\ LocalMutex_' = Reactor
        /\ UNCHANGED <<InfraMutex_, bus, main, cleaner, Running_, stopping>>
    BY <1>2 DEF ReactorFinds
  <2> QED
    BY <2>1
<1>3. CASE ReactorReads \/ ReactorAsks
  BY <1>3 DEF ReactorReads, ReactorAsks, Returns
<1>4. CASE ReactorAnswers
  BY <1>4 DEF ReactorAnswers, Returns
<1>5. CASE ReactorStops \/ ReactorShuts \/ ReactorEnds
  BY <1>5 DEF ReactorStops, ReactorShuts, ReactorEnds
<1>6. CASE CleanerUp \/ CleanerWakes \/ CleanerErases
  <2>1. /\ UNCHANGED <<LocalMutex_, InfraMutex_, reactor, bus, main, stopping>>
        /\ cleaner' # "started"
        /\ Running_' = Running_ \/ cleaner = "started"
    BY <1>6 DEF CleanerUp, CleanerWakes, CleanerErases
  <2> QED
    BY <2>1
<1>7. CASE BusReceives \/ BusLogs
  BY <1>7 DEF BusReceives, BusLogs
<1>8. CASE StopClears
  BY <1>8 DEF StopClears
<1>9. CASE StopStep
  BY <1>9 DEF StopStep, StopReactor, JoinReactor, JoinCleaner
<1>10. CASE UNCHANGED vars
  BY <1>10 DEF vars
<1> QED
  BY <1>1, <1>2, <1>3, <1>4, <1>5, <1>6, <1>7, <1>8, <1>9, <1>10
     DEF Next, ReactorStep, CallbackStep

(* UI_WebSocketClientServer::Stop joins threads that are told to end, and no    *)
(* mutex is left behind by a thread that ended or waits for Stop: what          *)
(* StopReturns needs besides fairness.                                        *)
THEOREM StopCorrect == Spec => []StopPasses
<1>1. Init => StopInv
  BY DEF Init, StopInv
<1>2. StopInv => StopPasses
  BY DEF StopInv, StopPasses, Nobody, Reactor, Bus
<1> QED
  BY <1>1, <1>2, StopInvStep, PTL DEF Spec
=============================================================================
