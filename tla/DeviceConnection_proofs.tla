----------------------- MODULE DeviceConnection_proofs -----------------------
(***************************************************************************)
(* Proofs about DeviceConnection for every number of devices and sockets,  *)
(* every bound on tasks and every choice of periodic events.               *)
(***************************************************************************)
EXTENDS DeviceConnection, FiniteSetTheorems, TLAPS

(* The initial state satisfies every conjunct of the inductive invariant. *)
LEMMA InitIInv == Init => IInv
<1> SUFFICES ASSUME Init PROVE IInv
  OBVIOUS
<1> USE DEF Init
<1>1. InTable = {}
  BY DEF InTable
<1>2. TypeOK
  BY KindsAssumption DEF TypeOK, SocketTypes, TaskTypes, Kinds, Methods
<1>3. SocketInv /\ TableIsLive
  BY <1>1 DEF SocketInv, TableIsLive
<1>4. LiveDevicesAreBacked
  BY <1>1, FS_EmptySet DEF LiveDevicesAreBacked
<1>5. ConnectedDevicesReport
  BY DEF ConnectedDevicesReport
<1>6. ASSUME NEW c \in Clients PROVE tasks[c]["Establish"] + tasks[c]["Reconnect"] > 0
  <2>1. tasks[c]["Establish"] = 1 /\ tasks[c]["Reconnect"] = 0
    BY DEF Kinds
  <2> QED
    BY <2>1
<1> QED
  BY <1>2, <1>3, <1>4, <1>5, <1>6 DEF IInv, DisconnectedDevicesReturn, Back, Returning

(* The table of descriptors is finite, so its size is a number. *)
LEMMA TableSize ==
  /\ IsFiniteSet(InTable) /\ Cardinality(InTable) \in Nat
  /\ \A s : s \notin InTable => Cardinality(InTable \cup {s}) = Cardinality(InTable) + 1
  /\ \A s \in InTable : Cardinality(InTable \ {s}) = Cardinality(InTable) - 1
<1>1. IsFiniteSet(InTable)
  BY ConnsAssumption, FS_Subset DEF InTable
<1> QED
  BY <1>1, FS_CardinalityType, FS_AddElement, FS_RemoveElement

(* OWLSclient::Disconnect closes only sockets that are out of the table, and *)
(* counts a device out for each descriptor it takes from it.                 *)
LEMMA DisconnectKeeps ==
  ASSUME IInv, NEW c \in Clients, ClientDisconnect(c),
         \A d \in Clients : busy'[d] = "connecting" => busy[d] = "connecting" /\ d # c
  PROVE  SocketInv' /\ TableIsLive' /\ LiveDevicesAreBacked'
<1> USE NothingAssumption
<1>0. SocketTypes /\ SocketInv /\ TableIsLive /\ LiveDevicesAreBacked
  BY DEF IInv, TypeOK
<1>1. /\ Clients_fd_' \in [Conns -> Clients \cup {Nothing}]
      /\ \A s \in Conns : Clients_fd_'[s] = IF s = fd_[c] THEN Nothing ELSE Clients_fd_[s]
  BY <1>0 DEF SocketTypes, ClientDisconnect, RemoveClientFd
<1>2. /\ fd_'[c] = Nothing /\ ~Connected_'[c]
      /\ \A d \in Clients \ {c} : /\ fd_'[d] = fd_[d] /\ Connected_'[d] = Connected_[d]
                                  /\ WS_'[d] = WS_[d]
      /\ WS_'[c] = IF Connected_[c] THEN Nothing ELSE WS_[c]
  BY <1>0 DEF SocketTypes, ClientDisconnect, Closed
<1>3. /\ Connected_[c] => WS_[c] \in Conns
      /\ \A s \in Conns :
           /\ handlers'[s] = IF Connected_[c] /\ s = WS_[c] THEN Nothing ELSE handlers[s]
           /\ sock'[s] = IF Connected_[c] /\ s = WS_[c] THEN "free" ELSE sock[s]
  BY <1>0 DEF SocketTypes, SocketInv, ClientDisconnect, Closed
<1>4. InTable' = InTable \ {fd_[c]}
  BY <1>0, <1>1 DEF InTable, SocketTypes
<1>5. SocketInv'
  <2>1. ASSUME NEW s \in Conns, sock'[s] = "free" PROVE handlers'[s] = Nothing
    BY <1>0, <1>3, <2>1 DEF SocketInv
  <2>2. ASSUME NEW d \in Clients, WS_'[d] # Nothing
        PROVE  /\ WS_'[d] = WS_[d] /\ WS_[d] \in Conns
               /\ sock'[WS_[d]] = sock[WS_[d]] /\ handlers'[WS_[d]] = handlers[WS_[d]]
    <3>1. WS_'[d] = WS_[d] /\ WS_[d] \in Conns
      BY <1>0, <1>2, <2>2 DEF SocketTypes
    <3>2. ~(Connected_[c] /\ WS_[d] = WS_[c])
      BY <1>0, <1>2, <2>2, <3>1 DEF SocketInv
    <3> QED
      BY <1>3, <3>1, <3>2
  <2>3. ASSUME NEW d \in Clients
        PROVE  /\ WS_'[d] # Nothing =>
                    sock'[WS_'[d]] = "open" /\ handlers'[WS_'[d]] \in {d, Nothing}
               /\ WS_'[d] # Nothing /\ WS_'[d] \in InTable' => fd_'[d] = WS_'[d]
    BY <1>0, <1>2, <1>4, <2>2 DEF SocketInv
  <2>4. ASSUME NEW d \in Clients, Connected_'[d]
        PROVE  WS_'[d] # Nothing /\ (handlers'[WS_'[d]] = d => fd_'[d] = WS_'[d])
    <3>1. d # c /\ Connected_[d] /\ WS_'[d] = WS_[d] /\ WS_[d] # Nothing /\ fd_'[d] = fd_[d]
      BY <1>0, <1>2, <2>4 DEF SocketInv
    <3> QED
      BY <1>0, <2>2, <3>1 DEF SocketInv
  <2>5. ASSUME NEW d \in Clients, busy'[d] = "connecting"
        PROVE  WS_'[d] # Nothing /\ handlers'[WS_'[d]] = Nothing
    <3>1. d # c /\ WS_'[d] = WS_[d] /\ WS_[d] # Nothing /\ handlers[WS_[d]] = Nothing
      BY <1>0, <1>2, <2>5 DEF SocketInv
    <3> QED
      BY <2>2, <3>1
  <2>6. \A d, e \in Clients : WS_'[d] = WS_'[e] /\ WS_'[d] # Nothing => d = e
    BY <1>0, <2>2 DEF SocketInv
  <2> QED
    BY <2>1, <2>3, <2>4, <2>5, <2>6 DEF SocketInv
<1>6. TableIsLive'
  <2>1. ASSUME NEW s \in InTable'
        PROVE  sock'[s] = "open" /\ handlers'[s] = Clients_fd_'[s]
    <3>1. s \in InTable /\ s # fd_[c] /\ s \in Conns
      BY <1>4, <2>1 DEF InTable
    <3>2. ~(Connected_[c] /\ s = WS_[c])
      BY <1>0, <1>3, <3>1 DEF SocketInv
    <3> QED
      BY <1>0, <1>1, <1>3, <3>1, <3>2 DEF TableIsLive
  <2>2. ASSUME NEW d \in Clients PROVE fd_'[d] # Nothing => Clients_fd_'[fd_'[d]] = d
    BY <1>0, <1>1, <1>2 DEF TableIsLive, SocketTypes
  <2>3. ASSUME NEW d \in Clients PROVE Connected_'[d] => fd_'[d] # Nothing
    BY <1>0, <1>2 DEF TableIsLive
  <2> QED
    BY <2>1, <2>2, <2>3 DEF TableIsLive
<1>7. LiveDevicesAreBacked'
  <2>1. liveDevices \in Nat /\ liveDevices <= Cardinality(InTable)
    BY <1>0 DEF SocketTypes, LiveDevicesAreBacked
  <2>2. liveDevices' = IF liveDevices > 0 THEN liveDevices - 1 ELSE 0
    BY DEF ClientDisconnect, CountedOut
  <2>3. Cardinality(InTable') \in Nat /\ Cardinality(InTable') >= Cardinality(InTable) - 1
    <3>1. CASE fd_[c] \in InTable
      <4>1. Cardinality(InTable \ {fd_[c]}) = Cardinality(InTable) - 1
        BY <3>1, TableSize
      <4>2. Cardinality(InTable) \in Nat /\ Cardinality(InTable) > 0
        BY <3>1, TableSize, FS_EmptySet
      <4> QED
        BY <1>4, <4>1, <4>2
    <3>2. CASE fd_[c] \notin InTable
      <4>1. InTable' = InTable
        BY <1>4, <3>2
      <4> QED
        BY <4>1, TableSize
    <3> QED
      BY <3>1, <3>2
  <2> QED
    BY <2>1, <2>2, <2>3, TableSize DEF LiveDevicesAreBacked
<1> QED
  BY <1>5, <1>6, <1>7

(* A step that leaves the sockets, the table and the clients alone, or only *)
(* clears a client's Connected_.                                             *)
LEMMA SocketFrame ==
  ASSUME SocketInv, TableIsLive, LiveDevicesAreBacked,
         UNCHANGED <<WS_, fd_, tableVars, liveDevices>>,
         \A d \in Clients : /\ Connected_'[d] => Connected_[d]
                            /\ busy'[d] = "connecting" => busy[d] = "connecting"
  PROVE  SocketInv' /\ TableIsLive' /\ LiveDevicesAreBacked'
BY DEF SocketInv, TableIsLive, LiveDevicesAreBacked, InTable, tableVars

(* No step takes a socket that is in the table from it but through the       *)
(* client that holds it, and none counts a device in without adding one.     *)
LEMMA SocketStep ==
  ASSUME IInv, TypeOK', [Next]_vars
  PROVE  SocketInv' /\ TableIsLive' /\ LiveDevicesAreBacked'
<1> USE NothingAssumption
<1> USE DEF clientVars, tableVars
<1>0. SocketTypes /\ SocketInv /\ TableIsLive /\ LiveDevicesAreBacked
  BY DEF IInv, TypeOK
<1>1. ASSUME NEW c \in Clients, NEW s \in Conns, EstablishOpens(c, s)
      PROVE  SocketInv' /\ TableIsLive' /\ LiveDevicesAreBacked'
  <2>1. /\ sock[s] = "free" /\ handlers[s] = Nothing /\ s \notin InTable
        /\ busy'[c] = "connecting" /\ WS_'[c] = s
        /\ \A d \in Clients \ {c} : busy'[d] = busy[d] /\ WS_'[d] = WS_[d] /\ WS_[d] # s
        /\ \A t \in Conns : sock'[t] = CASE t = s -> "open"
                              [] t = WS_[c] /\ handlers[t] = Nothing -> "free"
                              [] OTHER -> sock[t]
    BY <1>0, <1>1 DEF EstablishOpens, SocketTypes, SocketInv, TableIsLive
  <2>2. InTable' = InTable
    BY <1>1 DEF EstablishOpens, InTable
  <2>3. ASSUME NEW t \in InTable PROVE sock'[t] = sock[t] /\ handlers'[t] = handlers[t]
    <3>1. t \in Conns /\ handlers[t] # Nothing
      BY <1>0 DEF InTable, TableIsLive
    <3> QED
      BY <1>1, <2>1, <3>1 DEF EstablishOpens
  <2>4. TableIsLive'
    BY <1>0, <1>1, <2>2, <2>3 DEF TableIsLive, EstablishOpens
  <2>5. ASSUME NEW d \in Clients \ {c}, WS_[d] # Nothing
        PROVE  sock'[WS_[d]] = sock[WS_[d]]
    <3>1. WS_[d] \in Conns /\ WS_[d] # WS_[c]
      BY <1>0, <2>5 DEF SocketTypes, SocketInv
    <3> QED
      BY <2>1, <3>1
  <2>6. \A t \in Conns : sock'[t] = "free" => sock[t] = "free" \/ handlers[t] = Nothing
    BY <2>1
  <2>7. SocketInv'
    <3>1. \A t \in Conns : sock'[t] = "free" => handlers'[t] = Nothing
      BY <1>0, <1>1, <2>6 DEF SocketInv, EstablishOpens
    <3>2. /\ WS_'[c] # Nothing /\ sock'[WS_'[c]] = "open" /\ handlers'[WS_'[c]] = Nothing
          /\ WS_'[c] \notin InTable'
      <4>1. handlers' = handlers /\ s # Nothing
        BY <1>1 DEF EstablishOpens
      <4>2. sock'[s] = "open"
        <5>1. WS_[c] # s
          BY <1>0, <2>1, <4>1 DEF SocketInv
        <5> QED
          BY <2>1, <5>1
      <4>3. WS_'[c] = s /\ handlers'[s] = Nothing /\ s \notin InTable'
        BY <2>1, <2>2, <4>1
      <4> QED
        BY <4>1, <4>2, <4>3
    <3>3. ASSUME NEW d \in Clients \ {c}
          PROVE  /\ WS_'[d] # Nothing =>
                      sock'[WS_'[d]] = "open" /\ handlers'[WS_'[d]] \in {d, Nothing}
                 /\ WS_'[d] # Nothing /\ WS_'[d] \in InTable' => fd_'[d] = WS_'[d]
                 /\ Connected_'[d] =>
                      WS_'[d] # Nothing /\ (handlers'[WS_'[d]] = d => fd_'[d] = WS_'[d])
                 /\ busy'[d] = "connecting" => WS_'[d] # Nothing /\ handlers'[WS_'[d]] = Nothing
      BY <1>0, <1>1, <2>1, <2>2, <2>5 DEF SocketInv, EstablishOpens
    <3>4. \A d, e \in Clients : WS_'[d] = WS_'[e] /\ WS_'[d] # Nothing => d = e
      BY <1>0, <2>1 DEF SocketInv
    <3> QED
      BY <3>1, <3>2, <3>3, <3>4 DEF SocketInv
  <2> QED
    BY <1>0, <1>1, <2>2, <2>4, <2>7 DEF LiveDevicesAreBacked, EstablishOpens
<1>2. ASSUME NEW c \in Clients, Connects(c)
      PROVE  SocketInv' /\ TableIsLive' /\ LiveDevicesAreBacked'
  <2> PICK s \in Conns : /\ s = WS_[c] /\ sock[s] = "open"
                         /\ handlers[s] = Nothing /\ s \notin InTable
    BY <1>0, <1>2 DEF Connects, SocketInv, SocketTypes, TableIsLive, InTable
  <2>1. /\ fd_'[c] = s /\ Connected_'[c] /\ WS_' = WS_ /\ sock' = sock
        /\ busy'[c] = "free"
        /\ \A d \in Clients \ {c} : /\ fd_'[d] = fd_[d] /\ Connected_'[d] = Connected_[d]
                                    /\ busy'[d] = busy[d]
        /\ \A t \in Conns : /\ Clients_fd_'[t] = IF t = s THEN c ELSE Clients_fd_[t]
                            /\ handlers'[t] = IF t = s THEN c ELSE handlers[t]
    BY <1>0, <1>2 DEF Connects, SocketTypes
  <2>2. InTable' = InTable \cup {s}
    BY <2>1 DEF InTable
  <2>3. \A d \in Clients \ {c} : WS_[d] # s
    BY <1>0 DEF SocketInv
  <2>4. SocketInv'
    <3>1. \A t \in Conns : sock'[t] = "free" => handlers'[t] = Nothing
      BY <1>0, <2>1 DEF SocketInv
    <3>2. ASSUME NEW d \in Clients
          PROVE  /\ WS_'[d] # Nothing =>
                      sock'[WS_'[d]] = "open" /\ handlers'[WS_'[d]] \in {d, Nothing}
                 /\ WS_'[d] # Nothing /\ WS_'[d] \in InTable' => fd_'[d] = WS_'[d]
                 /\ Connected_'[d] =>
                      WS_'[d] # Nothing /\ (handlers'[WS_'[d]] = d => fd_'[d] = WS_'[d])
      BY <1>0, <2>1, <2>2, <2>3 DEF SocketInv, SocketTypes
    <3>3. ASSUME NEW d \in Clients, busy'[d] = "connecting"
          PROVE  WS_'[d] # Nothing /\ handlers'[WS_'[d]] = Nothing
      BY <1>0, <2>1, <2>3, <3>3 DEF SocketInv, SocketTypes
    <3> QED
      BY <1>0, <2>1, <3>1, <3>2, <3>3 DEF SocketInv
  <2>5. TableIsLive'
    <3>1. ASSUME NEW t \in InTable'
          PROVE  sock'[t] = "open" /\ handlers'[t] = Clients_fd_'[t]
      BY <1>0, <2>1, <2>2 DEF TableIsLive, InTable
    <3>2. ASSUME NEW d \in Clients, fd_'[d] # Nothing PROVE Clients_fd_'[fd_'[d]] = d
      <4>1. CASE d = c
        BY <2>1, <4>1
      <4>2. CASE d # c
        <5>1. fd_[d] \in Conns /\ Clients_fd_[fd_[d]] = d /\ fd_[d] # s
          BY <1>0, <2>1, <3>2, <4>2 DEF TableIsLive, SocketTypes, InTable
        <5> QED
          BY <2>1, <4>2, <5>1
      <4> QED
        BY <4>1, <4>2
    <3>3. \A d \in Clients : Connected_'[d] => fd_'[d] # Nothing
      BY <1>0, <2>1 DEF TableIsLive
    <3> QED
      BY <3>1, <3>2, <3>3 DEF TableIsLive
  <2>6. LiveDevicesAreBacked'
    <3>1. liveDevices' = liveDevices + 1 /\ liveDevices \in Nat
      BY <1>0, <1>2 DEF Connects, SocketTypes
    <3> QED
      BY <1>0, <2>2, <3>1, TableSize DEF LiveDevicesAreBacked
  <2> QED
    BY <2>4, <2>5, <2>6
<1>3. ASSUME NEW c \in Clients, NEW s \in Conns, ClosesUnknown(c, s)
      PROVE  SocketInv' /\ TableIsLive' /\ LiveDevicesAreBacked'
  <2>1. /\ s \notin InTable /\ InTable' = InTable /\ handlers[s] = c
        /\ \A t \in Conns : /\ sock'[t] = IF t = s THEN "free" ELSE sock[t]
                            /\ handlers'[t] = IF t = s THEN Nothing ELSE handlers[t]
        /\ WS_'[c] = IF WS_[c] = s THEN Nothing ELSE WS_[c]
        /\ \A d \in Clients \ {c} : WS_'[d] = WS_[d]
    BY <1>0, <1>3 DEF ClosesUnknown, Closed, Notified, InTable, SocketTypes
  <2>2. \A d \in Clients : Connected_[d] => WS_[d] # s
    <3>1. ASSUME NEW d \in Clients, Connected_[d], WS_[d] = s PROVE FALSE
      <4>1. d = c /\ fd_[d] = s
        BY <1>0, <2>1, <3>1 DEF SocketInv
      <4>2. Clients_fd_[s] = d
        BY <1>0, <4>1 DEF TableIsLive
      <4> QED
        BY <2>1, <4>2 DEF InTable
    <3> QED
      BY <3>1
  <2>3. SocketInv'
    <3>1. \A t \in Conns : sock'[t] = "free" => handlers'[t] = Nothing
      BY <1>0, <2>1 DEF SocketInv
    <3>2. ASSUME NEW d \in Clients, WS_'[d] # Nothing
          PROVE  /\ WS_'[d] = WS_[d] /\ WS_[d] \in Conns /\ WS_[d] # s
                 /\ sock'[WS_[d]] = sock[WS_[d]] /\ handlers'[WS_[d]] = handlers[WS_[d]]
      <4>1. WS_'[d] = WS_[d] /\ WS_[d] \in Conns
        BY <1>0, <2>1, <3>2 DEF SocketTypes
      <4>2. WS_[d] # s
        BY <1>0, <2>1, <3>2, <4>1 DEF SocketInv
      <4> QED
        BY <2>1, <4>1, <4>2
    <3>3. UNCHANGED <<busy, fd_, Connected_>>
      BY <1>3 DEF ClosesUnknown
    <3>4. ASSUME NEW d \in Clients
          PROVE  /\ WS_'[d] # Nothing =>
                      sock'[WS_'[d]] = "open" /\ handlers'[WS_'[d]] \in {d, Nothing}
                 /\ WS_'[d] # Nothing /\ WS_'[d] \in InTable' => fd_'[d] = WS_'[d]
                 /\ Connected_'[d] =>
                      WS_'[d] # Nothing /\ (handlers'[WS_'[d]] = d => fd_'[d] = WS_'[d])
                 /\ busy'[d] = "connecting" => WS_'[d] # Nothing /\ handlers'[WS_'[d]] = Nothing
      BY <1>0, <2>1, <2>2, <3>2, <3>3 DEF SocketInv
    <3>5. \A d, e \in Clients : WS_'[d] = WS_'[e] /\ WS_'[d] # Nothing => d = e
      BY <1>0, <3>2 DEF SocketInv
    <3> QED
      BY <3>1, <3>4, <3>5 DEF SocketInv
  <2>4. TableIsLive'
    BY <1>0, <1>3, <2>1 DEF TableIsLive, ClosesUnknown, InTable
  <2> QED
    BY <1>0, <1>3, <2>1, <2>3, <2>4 DEF LiveDevicesAreBacked, ClosesUnknown
<1>4. ASSUME NEW c \in Clients, Drops(c),
             busy[c] # "connecting", busy'[c] # "connecting",
             \A d \in Clients \ {c} : busy'[d] = busy[d]
      PROVE  SocketInv' /\ TableIsLive' /\ LiveDevicesAreBacked'
  <2>1. CASE Running_
    BY <1>4, <2>1, DisconnectKeeps DEF Drops
  <2>2. CASE ~Running_
    BY <1>0, <1>4, <2>2, SocketFrame DEF Drops, Untouched
  <2> QED
    BY <2>1, <2>2
<1>5. ASSUME NEW c \in Clients,
             \/ \E k \in Kinds : ReportFails(c, k)
             \/ ReadFails(c) \/ RestartEnds(c)
             \/ \E m \in Methods : CommandFails(c, m)
      PROVE  SocketInv' /\ TableIsLive' /\ LiveDevicesAreBacked'
  BY <1>0, <1>4, <1>5 DEF ReportFails, TaskDisconnect, ReadFails, RestartEnds,
     CommandFails, Command, EventDisconnect, Task, Free, SocketTypes
<1>6. ASSUME NEW c \in Clients,
             \/ SocketDown(c)
             \/ \E m \in Methods, uri \in Uris \cup {"valid"} : Restarts(c, m, uri)
      PROVE  SocketInv' /\ TableIsLive' /\ LiveDevicesAreBacked'
  <2>1. ClientDisconnect(c) /\ busy[c] = "free"
    BY <1>6 DEF SocketDown, Restarts, Command, Free
  <2>2. \A d \in Clients : busy'[d] = "connecting" => busy[d] = "connecting" /\ d # c
    BY <1>0, <1>6, <2>1 DEF SocketDown, Restarts, SocketTypes, Methods
  <2> QED
    BY <2>1, <2>2, DisconnectKeeps
<1>7. ASSUME NEW c \in Clients,
             \/ EstablishFails(c) \/ ConnectFails(c) \/ Reconnect(c)
             \/ EstablishThrows(c)
             \/ \E k \in Kinds : Reports(c, k) \/ Dropped(c, k)
             \/ \E s \in Conns, what \in {"readable", "down"} : Notices(c, s, what)
             \/ Reads(c) \/ ReactorReconnects(c)
             \/ \E m \in Methods : Concludes(c, m)
      PROVE  SocketInv' /\ TableIsLive' /\ LiveDevicesAreBacked'
  <2>1. UNCHANGED <<WS_, fd_, tableVars, liveDevices>>
    BY <1>7 DEF EstablishThrows, EstablishFails, ConnectFails, Reconnect, Reports, Dropped,
       Notices, Reads, ReactorReconnects, Concludes
  <2>2. \A d \in Clients : /\ Connected_'[d] => Connected_[d]
                           /\ busy'[d] = "connecting" => busy[d] = "connecting"
    BY <1>0, <1>7 DEF EstablishThrows, EstablishFails, ConnectFails, Reconnect, Reports, Dropped,
       Notices, Reads, ReactorReconnects, Retries, Concludes, SocketTypes
  <2> QED
    BY <1>0, <2>1, <2>2, SocketFrame
<1>8. CASE RunnerStops
  BY <1>0, <1>8, SocketFrame DEF RunnerStops
<1>9. CASE UNCHANGED vars
  BY <1>0, <1>9, SocketFrame DEF vars
<1> QED
  BY <1>1, <1>2, <1>3, <1>5, <1>6, <1>7, <1>8, <1>9
     DEF Next, Event, Socket, Thread, Kinds, Methods

(* A task that leaves the scheduler, and the tasks it schedules. *)
LEMMA ReplaceEffect ==
  ASSUME TaskTypes, NEW c \in Clients, NEW k \in Kinds, NEW ks \in SUBSET Kinds,
         Replace(c, k, ks), tasks[c][k] > 0, Fits(c, ks \ {k})
  PROVE  /\ tasks' \in [Clients -> [Kinds -> 0 .. MaxTasks]]
         /\ \A d \in Clients \ {c} : tasks'[d] = tasks[d]
         /\ \A j \in Kinds : tasks'[c][j] = tasks[c][j] - (IF j = k THEN 1 ELSE 0)
                                  + (IF Running_ /\ j \in ks THEN 1 ELSE 0)
<1>0. tasks \in [Clients -> [Kinds -> 0 .. MaxTasks]] /\ Running_ \in BOOLEAN
  BY DEF TaskTypes
<1>1. \A j \in Kinds : tasks[c][j] \in 0 .. MaxTasks /\ tasks[c][j] \in Nat
  BY <1>0, KindsAssumption
<1> DEFINE row == [j \in Kinds |-> tasks[c][j] - (IF j = k THEN 1 ELSE 0)
                                  + (IF Running_ /\ j \in ks THEN 1 ELSE 0)]
<1>2. tasks' = [tasks EXCEPT ![c] = row]
  BY DEF Replace
<1>3. ASSUME NEW j \in Kinds PROVE row[j] \in 0 .. MaxTasks
  BY <1>0, <1>1, KindsAssumption DEF Fits
<1>4. row \in [Kinds -> 0 .. MaxTasks]
  BY <1>3
<1>5. tasks' \in [Clients -> [Kinds -> 0 .. MaxTasks]]
  <2> HIDE DEF row
  <2> QED
    BY <1>0, <1>1, <1>2, <1>4
<1>6. tasks'[c] = row /\ \A d \in Clients \ {c} : tasks'[d] = tasks[d]
  <2> HIDE DEF row
  <2> QED
    BY <1>0, <1>1, <1>2
<1> QED
  BY <1>5, <1>6

(* A handler that schedules tasks. *)
LEMMA ScheduleEffect ==
  ASSUME TaskTypes, NEW c \in Clients, NEW ks \in SUBSET Kinds, Schedule(c, ks)
  PROVE  /\ tasks' \in [Clients -> [Kinds -> 0 .. MaxTasks]]
         /\ \A d \in Clients \ {c} : tasks'[d] = tasks[d]
         /\ \A j \in Kinds :
              tasks'[c][j] = tasks[c][j] + (IF Running_ /\ j \in ks THEN 1 ELSE 0)
<1>0. tasks \in [Clients -> [Kinds -> 0 .. MaxTasks]] /\ Running_ \in BOOLEAN
  BY DEF TaskTypes
<1>1. \A j \in Kinds : tasks[c][j] \in 0 .. MaxTasks /\ tasks[c][j] \in Nat
  BY <1>0, KindsAssumption
<1> DEFINE row == [j \in Kinds |-> tasks[c][j] + (IF j \in ks THEN 1 ELSE 0)]
<1>2. CASE Running_
  <2>1. tasks' = [tasks EXCEPT ![c] = row]
    BY <1>2 DEF Schedule, AddTasks
  <2>2. ASSUME NEW j \in Kinds PROVE row[j] \in 0 .. MaxTasks
    BY <1>0, <1>1, KindsAssumption DEF Fits, Schedule
  <2>3. row \in [Kinds -> 0 .. MaxTasks]
    BY <2>2
  <2>4. /\ tasks' \in [Clients -> [Kinds -> 0 .. MaxTasks]]
        /\ tasks'[c] = row /\ \A d \in Clients \ {c} : tasks'[d] = tasks[d]
    <3> HIDE DEF row
    <3> QED
      BY <1>0, <2>1, <2>3
  <2> QED
    BY <1>2, <2>4
<1>3. CASE ~Running_
  BY <1>0, <1>1, <1>3 DEF Schedule, AddTasks
<1> QED
  BY <1>0, <1>1, <1>2, <1>3

(* Backoff() stays far within its sixteen bits. *)
LEMMA BackoffType ==
  ASSUME TaskTypes, NEW c \in Clients, Backoff(c)
  PROVE  /\ Backoff_' \in [Clients -> Nat]
         /\ \A d \in Clients : Backoff_'[d] <= 600
<1> DEFINE next == IF Backoff_[c] > 300 THEN 15 ELSE 2 * Backoff_[c]
<1>1. /\ Backoff_ \in [Clients -> Nat] /\ Backoff_[c] \in Nat
      /\ \A d \in Clients : Backoff_[d] <= 600
  BY DEF TaskTypes
<1>2. next \in Nat /\ next <= 600
  BY <1>1
<1>3. Backoff_' = [Backoff_ EXCEPT ![c] = next]
  BY DEF Backoff
<1> HIDE DEF next
<1> QED
  BY <1>1, <1>2, <1>3

(* Each step of the scheduler's tasks keeps the types of what it changes. *)
LEMMA TaskTypesStep ==
  ASSUME TaskTypes, [Next]_vars
  PROVE  TaskTypes'
<1> USE DEF TaskTypes
<1>1. \A k \in Kinds : /\ {k} \subseteq Kinds /\ {} \subseteq Kinds
                       /\ {k} \ {k} = {}
  OBVIOUS
<1>2. {"Establish", "Reconnect", "Log"} \cup Periodic \subseteq Kinds
  BY DEF Kinds
<1>3. \A c \in Clients : Fits(c, {})
  BY DEF Fits
<1>4. ASSUME NEW c \in Clients, EventDisconnect(c)
      PROVE  /\ tasks' \in [Clients -> [Kinds -> 0 .. MaxTasks]]
             /\ Backoff_' \in [Clients -> Nat] /\ \A d \in Clients : Backoff_'[d] <= 600
  BY <1>2, <1>4, ScheduleEffect, BackoffType DEF EventDisconnect
<1>5. ASSUME NEW c \in Clients, NEW k \in Kinds, ReportFails(c, k), k # "Establish"
      PROVE  /\ tasks' \in [Clients -> [Kinds -> 0 .. MaxTasks]]
             /\ Backoff_' \in [Clients -> Nat] /\ \A d \in Clients : Backoff_'[d] <= 600
  <2>1. {"Establish"} \in SUBSET Kinds /\ {"Establish"} \ {k} = {"Establish"}
    BY <1>2, <1>5
  <2>2. tasks' \in [Clients -> [Kinds -> 0 .. MaxTasks]]
    BY <1>5, <2>1, ReplaceEffect DEF ReportFails, TaskDisconnect, Task
  <2> QED
    BY <1>5, <2>2, BackoffType DEF ReportFails, TaskDisconnect
<1>6. ASSUME NEW c \in Clients, NEW s \in Conns, EstablishOpens(c, s) PROVE TaskTypes'
  <2>0. /\ "Establish" \in Kinds /\ {} \in SUBSET Kinds /\ Fits(c, {} \ {"Establish"})
        /\ Replace(c, "Establish", {}) /\ tasks[c]["Establish"] > 0
    BY <1>6 DEF Kinds, Fits, EstablishOpens, Task
  <2>1. tasks' \in [Clients -> [Kinds -> 0 .. MaxTasks]]
    BY <2>0, ReplaceEffect
  <2> QED
    BY <1>6, <2>1 DEF EstablishOpens
<1>7. ASSUME NEW c \in Clients, EstablishFails(c) \/ Reconnect(c) PROVE TaskTypes'
  <2>1. /\ {"Reconnect"} \in SUBSET Kinds /\ {"Reconnect"} \ {"Establish"} = {"Reconnect"}
        /\ {"Establish"} \in SUBSET Kinds /\ {"Establish"} \ {"Reconnect"} = {"Establish"}
        /\ "Establish" \in Kinds /\ "Reconnect" \in Kinds
    BY <1>2
  <2>2. tasks' \in [Clients -> [Kinds -> 0 .. MaxTasks]]
    BY <1>7, <2>1, ReplaceEffect DEF EstablishFails, Reconnect, Task
  <2> QED
    BY <1>7, <2>2, BackoffType DEF EstablishFails, Reconnect
<1>8. ASSUME NEW c \in Clients, Connects(c) PROVE TaskTypes'
  <2>1. tasks' \in [Clients -> [Kinds -> 0 .. MaxTasks]]
    BY <1>2, <1>8, ScheduleEffect DEF Connects
  <2>2. Backoff_' \in [Clients -> Nat] /\ \A d \in Clients : Backoff_'[d] <= 600
    BY <1>8 DEF Connects
  <2>3. UNCHANGED <<Running_, reactor, commands>>
    BY <1>8 DEF Connects
  <2> QED
    BY <2>1, <2>2, <2>3
<1>9. ASSUME NEW c \in Clients, ConnectFails(c) \/ ReactorReconnects(c) PROVE TaskTypes'
  <2>1. tasks' \in [Clients -> [Kinds -> 0 .. MaxTasks]]
    BY <1>2, <1>9, ScheduleEffect DEF ConnectFails, ReactorReconnects, Retries
  <2>2. Backoff(c)
    BY <1>9 DEF ConnectFails, ReactorReconnects, Retries
  <2>3. /\ UNCHANGED <<Running_, commands>>
        /\ reactor' = reactor \/ reactor' = [reactor EXCEPT ![c] = "idle"]
    BY <1>9 DEF ConnectFails, ReactorReconnects
  <2> QED
    BY <2>1, <2>2, <2>3, BackoffType
<1>10. ASSUME NEW c \in Clients, NEW k \in Kinds, Reports(c, k) \/ Dropped(c, k)
       PROVE  TaskTypes'
  <2>0. PICK ks \in {{}, {k}} : Replace(c, k, ks) /\ tasks[c][k] > 0
    BY <1>10 DEF Reports, Dropped, Task
  <2>1. tasks' \in [Clients -> [Kinds -> 0 .. MaxTasks]]
    BY <1>1, <1>3, <2>0, ReplaceEffect
  <2> QED
    BY <1>10, <2>1 DEF Reports, Dropped
<1>10a. ASSUME NEW c \in Clients, EstablishThrows(c) PROVE TaskTypes'
  <2>1. /\ Replace(c, "Establish", {}) /\ tasks[c]["Establish"] > 0
        /\ UNCHANGED <<Running_, Backoff_, reactor, commands>>
    BY <1>10a DEF EstablishThrows, Task
  <2>2. "Establish" \in Kinds /\ {} \in SUBSET Kinds /\ Fits(c, {} \ {"Establish"})
    BY DEF Kinds, Fits
  <2>3. tasks' \in [Clients -> [Kinds -> 0 .. MaxTasks]]
    BY <2>1, <2>2, ReplaceEffect
  <2> QED
    BY <2>1, <2>3
<1>11. ASSUME NEW c \in Clients, NEW k \in Periodic \cup {"Log"}, ReportFails(c, k)
       PROVE  TaskTypes'
  <2>1. k \in Kinds /\ k # "Establish"
    BY KindsAssumption DEF Kinds
  <2> QED
    BY <1>5, <1>11, <2>1 DEF ReportFails
<1>12. ASSUME NEW c \in Clients, Socket(c), ~ReactorReconnects(c) PROVE TaskTypes'
  <2>1. CASE ReadFails(c)
    BY <1>4, <2>1 DEF ReadFails
  <2>2. CASE Reads(c)
    <3>1. commands' \in [Clients -> [Methods -> 0 .. MaxTasks]]
      <4>1. ASSUME NEW m \in Methods, commands[c][m] < MaxTasks,
                   commands' = [commands EXCEPT ![c][m] = @ + 1]
            PROVE  commands' \in [Clients -> [Methods -> 0 .. MaxTasks]]
        BY <4>1, KindsAssumption
      <4> QED
        BY <2>2, <4>1 DEF Reads
    <3> QED
      BY <2>2, <3>1 DEF Reads
  <2>3. ASSUME NEW s \in Conns, NEW what \in {"readable", "down"}, Notices(c, s, what)
        PROVE  TaskTypes'
    BY <2>3 DEF Notices
  <2>4. ASSUME NEW s \in Conns, ClosesUnknown(c, s) PROVE TaskTypes'
    BY <2>4 DEF ClosesUnknown
  <2>5. CASE SocketDown(c)
    BY <2>5 DEF SocketDown
  <2> QED
    BY <1>12, <2>1, <2>2, <2>3, <2>4, <2>5 DEF Socket
<1>13. ASSUME NEW c \in Clients, Thread(c) PROVE TaskTypes'
  <2>1. ASSUME NEW m \in Methods, Command(c, m)
        PROVE  commands' \in [Clients -> [Methods -> 0 .. MaxTasks]]
    BY <2>1, KindsAssumption DEF Command
  <2>2. CASE RestartEnds(c)
    BY <1>4, <2>2 DEF RestartEnds
  <2>3. ASSUME NEW m \in Methods, CommandFails(c, m) PROVE TaskTypes'
    BY <1>4, <2>1, <2>3 DEF CommandFails, Command
  <2>4. ASSUME NEW m \in Methods, Concludes(c, m) PROVE TaskTypes'
    BY <2>1, <2>4 DEF Concludes, Command
  <2>5. ASSUME NEW m \in Methods, NEW uri, Restarts(c, m, uri) PROVE TaskTypes'
    BY <2>1, <2>5 DEF Restarts, Command
  <2> QED
    BY <1>13, <2>2, <2>3, <2>4, <2>5 DEF Thread, Methods
<1>14. CASE RunnerStops
  BY <1>14 DEF RunnerStops
<1>15. CASE UNCHANGED vars
  BY <1>15 DEF vars
<1>16. ASSUME NEW c \in Clients, Event(c) PROVE TaskTypes'
  <2>1. Periodic \cup {"Log"} \subseteq Kinds
    BY DEF Kinds
  <2> QED
    BY <1>6, <1>7, <1>8, <1>9, <1>10, <1>10a, <1>11, <1>16, <2>1 DEF Event
<1> QED
  BY <1>9, <1>12, <1>13, <1>14, <1>15, <1>16 DEF Next

(* Each step keeps the types of the sockets, the table and the clients. *)
LEMMA SocketTypesStep ==
  ASSUME SocketTypes, SocketInv, [Next]_vars
  PROVE  SocketTypes'
<1> USE DEF clientVars, tableVars
<1>1. ASSUME NEW c \in Clients, ClientDisconnect(c)
      PROVE  /\ Clients_fd_' \in [Conns -> Clients \cup {Nothing}]
             /\ fd_' \in [Clients -> Conns \cup {Nothing}]
             /\ WS_' \in [Clients -> Conns \cup {Nothing}]
             /\ Connected_' \in [Clients -> BOOLEAN]
             /\ handlers' \in [Conns -> Clients \cup {Nothing}]
             /\ sock' \in [Conns -> {"free", "open"}]
             /\ liveDevices' \in Nat
  BY <1>1 DEF SocketTypes, ClientDisconnect, Closed, RemoveClientFd, CountedOut
<1>2. ASSUME NEW c \in Clients, Drops(c), busy' = busy \/ busy' = [busy EXCEPT ![c] = "free"]
      PROVE  SocketTypes'
  BY <1>1, <1>2 DEF SocketTypes, Drops, Untouched
<1>3. ASSUME NEW c \in Clients, NEW s \in Conns, EstablishOpens(c, s) PROVE SocketTypes'
  BY <1>3 DEF SocketTypes, EstablishOpens
<1>4. ASSUME NEW c \in Clients, Connects(c) PROVE SocketTypes'
  <2>1. WS_[c] \in Conns
    BY <1>4 DEF SocketTypes, SocketInv, Connects
  <2> QED
    BY <1>4, <2>1 DEF SocketTypes, Connects
<1>5. ASSUME NEW c \in Clients, ConnectFails(c) \/ Reconnect(c) \/ ReactorReconnects(c)
      PROVE  SocketTypes'
  BY <1>5 DEF SocketTypes, ConnectFails, Reconnect, ReactorReconnects, Retries
<1>6. ASSUME NEW c \in Clients, Event(c) PROVE SocketTypes'
  <2>1. ASSUME NEW k, ReportFails(c, k) PROVE SocketTypes'
    BY <1>2, <2>1 DEF ReportFails, TaskDisconnect
  <2>2. ASSUME NEW k, EstablishThrows(c) \/ EstablishFails(c) \/ Reports(c, k) \/ Dropped(c, k)
        PROVE  SocketTypes'
    BY <2>2 DEF SocketTypes, EstablishThrows, EstablishFails, Reports, Dropped
  <2> QED
    BY <1>3, <1>4, <1>5, <1>6, <2>1, <2>2 DEF Event
<1>7. ASSUME NEW c \in Clients, Socket(c) PROVE SocketTypes'
  <2>1. CASE ReadFails(c)
    BY <1>2, <2>1 DEF ReadFails, EventDisconnect
  <2>2. CASE SocketDown(c)
    BY <1>1, <2>2 DEF SocketTypes, SocketDown
  <2>3. ASSUME NEW s \in Conns, NEW what, Reads(c) \/ Notices(c, s, what) \/ ClosesUnknown(c, s)
        PROVE  SocketTypes'
    BY <2>3 DEF SocketTypes, Reads, Notices, ClosesUnknown, Closed
  <2>4. CASE Reads(c)
    BY <2>4 DEF SocketTypes, Reads
  <2> QED
    BY <1>5, <1>7, <2>1, <2>2, <2>3, <2>4 DEF Socket
<1>8. ASSUME NEW c \in Clients, Thread(c) PROVE SocketTypes'
  <2>1. CASE RestartEnds(c)
    BY <1>2, <2>1 DEF RestartEnds, EventDisconnect
  <2>2. ASSUME NEW m, CommandFails(c, m) PROVE SocketTypes'
    BY <1>2, <2>2 DEF CommandFails, EventDisconnect
  <2>3. ASSUME NEW m, Concludes(c, m) PROVE SocketTypes'
    BY <2>3 DEF SocketTypes, Concludes
  <2>4. ASSUME NEW m \in {"reboot", "upgrade"}, NEW uri, Restarts(c, m, uri) PROVE SocketTypes'
    <3>1. busy' \in [Clients -> {"free", "connecting", "reboot", "upgrade"}]
      BY <2>4 DEF SocketTypes, Restarts
    <3> QED
      BY <1>1, <2>4, <3>1 DEF SocketTypes, Restarts
  <2> QED
    BY <1>8, <2>1, <2>2, <2>3, <2>4 DEF Thread
<1>9. CASE RunnerStops
  BY <1>9 DEF SocketTypes, RunnerStops
<1>10. CASE UNCHANGED vars
  BY <1>10 DEF SocketTypes, vars
<1> QED
  BY <1>6, <1>7, <1>8, <1>9, <1>10 DEF Next

(* What every step does to the tasks and the devices: it works on one       *)
(* client, and never starts the runner.                                      *)
LEMMA OneClient ==
  ASSUME TaskTypes, SocketTypes, NEW c \in Clients, Event(c) \/ Socket(c) \/ Thread(c)
  PROVE  /\ Running_' = Running_
         /\ \A d \in Clients \ {c} :
              /\ Connected_'[d] = Connected_[d] /\ busy'[d] = busy[d]
              /\ reactor'[d] = reactor[d] /\ tasks'[d] = tasks[d]
<1> DEFINE Same == /\ Running_' = Running_
                   /\ \A d \in Clients \ {c} :
                        /\ Connected_'[d] = Connected_[d] /\ busy'[d] = busy[d]
                        /\ reactor'[d] = reactor[d] /\ tasks'[d] = tasks[d]
<1> USE DEF clientVars
<1>1. ASSUME NEW k, NEW ks, Replace(c, k, ks) PROVE \A d \in Clients \ {c} : tasks'[d] = tasks[d]
  <2> DEFINE row == [j \in Kinds |-> tasks[c][j] - (IF j = k THEN 1 ELSE 0)
                                    + (IF Running_ /\ j \in ks THEN 1 ELSE 0)]
  <2>1. tasks' = [tasks EXCEPT ![c] = row]
    BY <1>1 DEF Replace
  <2>2. tasks \in [Clients -> [Kinds -> 0 .. MaxTasks]]
    BY DEF TaskTypes
  <2> HIDE DEF row
  <2> QED
    BY <2>1, <2>2
<1>2. ASSUME NEW ks \in SUBSET Kinds, Schedule(c, ks)
      PROVE  \A d \in Clients \ {c} : tasks'[d] = tasks[d]
  BY <1>2, ScheduleEffect
<1>3. {"Establish"} \subseteq Kinds /\ {"Reconnect"} \subseteq Kinds
      /\ Periodic \cup {"Log"} \subseteq Kinds
  BY DEF Kinds
<1>4. ASSUME EventDisconnect(c)
      PROVE  \A d \in Clients \ {c} : /\ tasks'[d] = tasks[d]
                                      /\ Connected_'[d] = Connected_[d]
  BY <1>2, <1>3, <1>4 DEF EventDisconnect, Drops, ClientDisconnect, Untouched, SocketTypes
<1>5. ASSUME Event(c) PROVE Same
  <2>1. ASSUME NEW s \in Conns, EstablishOpens(c, s) PROVE Same
    BY <1>1, <2>1 DEF EstablishOpens, SocketTypes
  <2>2. CASE EstablishFails(c)
    BY <1>1, <2>2 DEF EstablishFails
  <2>3. CASE Connects(c)
    BY <1>2, <1>3, <2>3 DEF Connects, SocketTypes
  <2>4. CASE ConnectFails(c)
    BY <1>2, <1>3, <2>4 DEF ConnectFails, SocketTypes
  <2>5. CASE Reconnect(c)
    BY <1>1, <2>5 DEF Reconnect, SocketTypes
  <2>6. ASSUME NEW k, EstablishThrows(c) \/ Reports(c, k) \/ Dropped(c, k) PROVE Same
    BY <1>1, <2>6 DEF EstablishThrows, Reports, Dropped
  <2>7. ASSUME NEW k, ReportFails(c, k) PROVE Same
    BY <1>1, <2>7 DEF ReportFails, TaskDisconnect, Drops, ClientDisconnect, Untouched,
                      SocketTypes
  <2> HIDE DEF Same
  <2> QED
    BY <1>5, <2>1, <2>2, <2>3, <2>4, <2>5, <2>6, <2>7 DEF Event
<1>6. ASSUME Socket(c) PROVE Same
  <2>1. reactor \in [Clients -> {"idle", "readable", "down", "reconnect"}]
    BY DEF TaskTypes
  <2>2. ASSUME NEW s, NEW what, Notices(c, s, what) \/ ClosesUnknown(c, s) PROVE Same
    BY <2>1, <2>2 DEF Notices, ClosesUnknown
  <2>3. CASE Reads(c)
    BY <2>1, <2>3 DEF Reads
  <2>4. CASE ReadFails(c)
    BY <1>4, <2>1, <2>4 DEF ReadFails
  <2>5. CASE SocketDown(c)
    BY <2>1, <2>5 DEF SocketDown, ClientDisconnect, SocketTypes
  <2>6. CASE ReactorReconnects(c)
    BY <1>2, <1>3, <2>1, <2>6 DEF ReactorReconnects, Retries, SocketTypes
  <2> HIDE DEF Same
  <2> QED
    BY <1>6, <2>2, <2>3, <2>4, <2>5, <2>6 DEF Socket
<1>7. ASSUME Thread(c) PROVE Same
  <2>1. CASE RestartEnds(c)
    BY <1>4, <2>1 DEF RestartEnds, SocketTypes
  <2>2. ASSUME NEW m, CommandFails(c, m) PROVE Same
    BY <1>4, <2>2 DEF CommandFails, Command
  <2>3. ASSUME NEW m, Concludes(c, m) PROVE Same
    BY <2>3 DEF Concludes, Command
  <2>4. ASSUME NEW m, NEW uri, Restarts(c, m, uri) PROVE Same
    BY <2>4 DEF Restarts, Command, ClientDisconnect, SocketTypes
  <2> HIDE DEF Same
  <2> QED
    BY <1>7, <2>1, <2>2, <2>3, <2>4 DEF Thread
<1> QED
  BY <1>5, <1>6, <1>7

(* A connection schedules every periodic event, each of them schedules      *)
(* itself again, and nothing else takes one from a connected device.         *)
LEMMA ReportStep ==
  ASSUME TaskTypes, SocketTypes, ConnectedDevicesReport, [Next]_vars
  PROVE  ConnectedDevicesReport'
<1>0. /\ Periodic \subseteq Kinds /\ "Log" \in Kinds
      /\ "Log" \notin Periodic /\ "Establish" \notin Periodic /\ "Reconnect" \notin Periodic
  BY KindsAssumption DEF Kinds
<1>1. \A d \in Clients, k \in Kinds : tasks[d][k] \in Nat
  <2>1. tasks \in [Clients -> [Kinds -> 0 .. MaxTasks]]
    BY DEF TaskTypes
  <2> QED
    BY <2>1, KindsAssumption
<1>2. ASSUME NEW c \in Clients, Event(c) \/ Socket(c) \/ Thread(c),
             Running_' /\ Connected_'[c] => \A k \in Periodic : tasks'[c][k] > 0
      PROVE  ConnectedDevicesReport'
  BY <1>2, OneClient DEF ConnectedDevicesReport
<1>3. ASSUME NEW c \in Clients, ~Connected_'[c] \/ (tasks' = tasks /\ Connected_'[c] = Connected_[c]),
             Event(c) \/ Socket(c) \/ Thread(c)
      PROVE  ConnectedDevicesReport'
  BY <1>2, <1>3, OneClient DEF ConnectedDevicesReport
<1>4. ASSUME NEW c \in Clients, NEW k \in Kinds, NEW ks \in {{}, {k}, {"Reconnect"}},
             Replace(c, k, ks), tasks[c][k] > 0, Fits(c, ks \ {k}), Running_,
             Connected_[c], k \in Periodic => ks = {k}
      PROVE  \A j \in Periodic : tasks'[c][j] > 0
  <2>1. ks \in SUBSET Kinds
    BY <1>4 DEF Kinds
  <2>2. \A j \in Kinds : tasks'[c][j] = tasks[c][j] - (IF j = k THEN 1 ELSE 0)
                                      + (IF Running_ /\ j \in ks THEN 1 ELSE 0)
    BY <1>4, <2>1, ReplaceEffect
  <2>3. \A j \in Periodic : tasks[c][j] > 0
    BY <1>4 DEF ConnectedDevicesReport
  <2> QED
    BY <1>0, <1>1, <1>4, <2>2, <2>3
<1>5. ASSUME NEW c \in Clients, ClientDisconnect(c) PROVE ~Connected_'[c]
  BY <1>5 DEF ClientDisconnect, SocketTypes
<1>6. ASSUME NEW c \in Clients, EventDisconnect(c) PROVE ~Running_ \/ ~Connected_'[c]
  BY <1>5, <1>6 DEF EventDisconnect, Drops
<1>7. ASSUME NEW c \in Clients, Event(c) PROVE ConnectedDevicesReport'
  <2>0. Running_' = Running_
    BY <1>7, OneClient
  <2>1. ASSUME NEW s \in Conns, EstablishOpens(c, s) PROVE ConnectedDevicesReport'
    <3>1. Fits(c, {} \ {"Establish"}) /\ "Establish" \in Kinds
      BY DEF Fits, Kinds
    <3>2. /\ Replace(c, "Establish", {}) /\ tasks[c]["Establish"] > 0
          /\ Connected_' = Connected_
      BY <2>1 DEF EstablishOpens, Task
    <3>3. Running_ /\ Connected_[c] => \A j \in Periodic : tasks'[c][j] > 0
      BY <1>0, <1>4, <3>1, <3>2
    <3> QED
      BY <1>2, <1>7, <2>0, <3>2, <3>3
  <2>2. CASE EstablishFails(c)
    <3>1. /\ {"Reconnect"} \ {"Establish"} = {"Reconnect"} /\ "Establish" \in Kinds
          /\ Connected_' = Connected_
      BY <2>2 DEF Kinds, EstablishFails, clientVars
    <3>2. /\ Replace(c, "Establish", {"Reconnect"}) /\ tasks[c]["Establish"] > 0
          /\ Fits(c, {"Reconnect"} \ {"Establish"})
      BY <2>2, <3>1 DEF EstablishFails, Task
    <3>3. Running_ /\ Connected_[c] => \A j \in Periodic : tasks'[c][j] > 0
      BY <1>0, <1>4, <3>1, <3>2
    <3> QED
      BY <1>2, <1>7, <2>0, <3>1, <3>3
  <2>3. CASE Connects(c)
    <3>1. Periodic \cup {"Log"} \in SUBSET Kinds
      BY <1>0
    <3>2. \A j \in Kinds : tasks'[c][j] = tasks[c][j]
                  + (IF Running_ /\ j \in Periodic \cup {"Log"} THEN 1 ELSE 0)
      BY <2>3, <3>1, ScheduleEffect DEF Connects
    <3> QED
      BY <1>0, <1>1, <1>2, <1>7, <2>0, <3>2
  <2>4. CASE ConnectFails(c)
    <3>1. {"Reconnect"} \in SUBSET Kinds /\ Schedule(c, {"Reconnect"}) /\ Connected_' = Connected_
      BY <2>4 DEF ConnectFails, Kinds, clientVars
    <3>2. \A j \in Kinds : tasks'[c][j] = tasks[c][j]
                  + (IF Running_ /\ j \in {"Reconnect"} THEN 1 ELSE 0)
      BY <3>1, ScheduleEffect
    <3> QED
      BY <1>0, <1>1, <1>2, <1>7, <2>0, <3>1, <3>2 DEF ConnectedDevicesReport
  <2>5. CASE Reconnect(c)
    BY <1>3, <1>7, <2>5 DEF Reconnect, SocketTypes
  <2>6. ASSUME NEW k \in Periodic \cup {"Log"}, Reports(c, k) PROVE ConnectedDevicesReport'
    <3>1. Connected_' = Connected_ /\ k \in Kinds /\ tasks[c][k] > 0
      BY <1>0, <2>6 DEF Reports, clientVars, Task
    <3>2. CASE ~Connected_[c]
      BY <1>3, <1>7, <3>1, <3>2
    <3>3. CASE Connected_[c] /\ Running_
      <4>1. PICK ks \in {{}, {k}} : Replace(c, k, ks) /\ (k \in Periodic => ks = {k})
        BY <2>6, <3>3 DEF Reports
      <4>2. Fits(c, ks \ {k})
        BY DEF Fits
      <4>3. \A j \in Periodic : tasks'[c][j] > 0
        BY <1>4, <3>1, <3>3, <4>1, <4>2
      <4> QED
        BY <1>2, <1>7, <4>3
    <3> QED
      BY <1>2, <1>7, <2>0, <3>2, <3>3
  <2>7. ASSUME NEW k, ReportFails(c, k) PROVE ConnectedDevicesReport'
    BY <1>2, <1>5, <1>7, <2>0, <2>7 DEF ReportFails, TaskDisconnect, Drops
  <2>8. ASSUME NEW k, Dropped(c, k) PROVE ConnectedDevicesReport'
    BY <2>0, <2>8 DEF Dropped, ConnectedDevicesReport
  <2>9. CASE EstablishThrows(c)
    <3>1. /\ Replace(c, "Establish", {}) /\ tasks[c]["Establish"] > 0
          /\ Connected_' = Connected_ /\ "Establish" \in Kinds
      BY <2>9 DEF EstablishThrows, Task, clientVars, Kinds
    <3>2. Fits(c, {} \ {"Establish"})
      BY DEF Fits
    <3>3. Running_ /\ Connected_[c] => \A j \in Periodic : tasks'[c][j] > 0
      BY <1>0, <1>4, <3>1, <3>2
    <3> QED
      BY <1>2, <1>7, <2>0, <3>1, <3>3
  <2> QED
    BY <1>7, <2>1, <2>2, <2>3, <2>4, <2>5, <2>6, <2>7, <2>8, <2>9 DEF Event
<1>8. ASSUME NEW c \in Clients, Socket(c) PROVE ConnectedDevicesReport'
  <2>0. Running_' = Running_
    BY <1>8, OneClient
  <2>1. CASE ReadFails(c)
    BY <1>2, <1>6, <1>8, <2>0, <2>1 DEF ReadFails
  <2>2. CASE SocketDown(c)
    BY <1>3, <1>5, <1>8, <2>2 DEF SocketDown
  <2>3. CASE ReactorReconnects(c)
    BY <1>3, <1>8, <2>3 DEF ReactorReconnects, Retries, SocketTypes
  <2>4. ASSUME NEW s, NEW what, Notices(c, s, what) \/ ClosesUnknown(c, s) \/ Reads(c)
        PROVE  ConnectedDevicesReport'
    BY <1>3, <1>8, <2>4 DEF Notices, ClosesUnknown, Reads, clientVars
  <2> QED
    BY <1>8, <2>1, <2>2, <2>3, <2>4 DEF Socket
<1>9. ASSUME NEW c \in Clients, Thread(c) PROVE ConnectedDevicesReport'
  <2>0. Running_' = Running_
    BY <1>9, OneClient
  <2>1. ASSUME NEW m, RestartEnds(c) \/ CommandFails(c, m) PROVE ConnectedDevicesReport'
    BY <1>2, <1>6, <1>9, <2>0, <2>1 DEF RestartEnds, CommandFails
  <2>2. ASSUME NEW m, Concludes(c, m) PROVE ConnectedDevicesReport'
    BY <1>3, <1>9, <2>2 DEF Concludes, clientVars
  <2>3. ASSUME NEW m, NEW uri, Restarts(c, m, uri) PROVE ConnectedDevicesReport'
    BY <1>3, <1>5, <1>9, <2>3 DEF Restarts
  <2> QED
    BY <1>9, <2>1, <2>2, <2>3 DEF Thread
<1>10. CASE RunnerStops \/ UNCHANGED vars
  BY <1>10 DEF RunnerStops, vars, clientVars, ConnectedDevicesReport
<1> QED
  BY <1>7, <1>8, <1>9, <1>10 DEF Next

(* A device that loses its connection, or fails to get one, schedules its    *)
(* return before the mutex of its client is free again, but for the two      *)
(* steps that throw.                                                         *)
LEMMA ReturnStep ==
  ASSUME TaskTypes, SocketTypes, [Next]_vars, NEW e \in Clients, Back(e), ~Strands(e)
  PROVE  Back(e)'
<1>0. /\ Periodic \subseteq Kinds /\ {"Establish", "Reconnect", "Log"} \subseteq Kinds
      /\ "Establish" \notin Periodic /\ "Reconnect" \notin Periodic
  BY KindsAssumption DEF Kinds
<1>1. /\ \A d \in Clients, k \in Kinds : tasks[d][k] \in Nat
      /\ reactor \in [Clients -> {"idle", "readable", "down", "reconnect"}]
      /\ busy \in [Clients -> {"free", "connecting", "reboot", "upgrade"}]
  <2>1. tasks \in [Clients -> [Kinds -> 0 .. MaxTasks]]
    BY DEF TaskTypes
  <2> QED
    BY <2>1, KindsAssumption DEF TaskTypes, SocketTypes
<1>2. ASSUME NEW c \in Clients, Event(c) \/ Socket(c) \/ Thread(c),
             Running_ => Connected_'[c] \/ Returning(c)'
      PROVE  Back(e)'
  <2>1. CASE c = e
    <3>1. Running_' = Running_
      BY <1>2, OneClient
    <3>2. Running_ => Connected_'[e] \/ Returning(e)'
      BY <1>2, <2>1
    <3> QED
      BY <3>1, <3>2 DEF Back
  <2>2. CASE c # e
    BY <1>2, <2>2, OneClient DEF Back, Returning, Free
  <2> QED
    BY <2>1, <2>2
<1>2a. ASSUME NEW c \in Clients \ {e}, Event(c) \/ Socket(c) \/ Thread(c) PROVE Back(e)'
  BY <1>2a, OneClient DEF Back, Returning, Free
<1>3. ASSUME NEW c \in Clients, Event(c) \/ Socket(c) \/ Thread(c),
             Connected_'[c] = Connected_[c], busy'[c] = busy[c],
             reactor[c] = "reconnect" => reactor'[c] = "reconnect",
             /\ tasks'[c]["Establish"] = tasks[c]["Establish"]
             /\ tasks'[c]["Reconnect"] = tasks[c]["Reconnect"]
      PROVE  Back(e)'
  <2>1. CASE c = e
    BY <1>2, <1>3, <2>1, OneClient DEF Back, Returning, Free
  <2>2. CASE c # e
    BY <1>2a, <1>3, <2>2
  <2> QED
    BY <2>1, <2>2
<1>4. ASSUME NEW c \in Clients, NEW k \in {"Establish", "Reconnect"}, Running_, Schedule(c, {k})
      PROVE  Returning(c)'
  <2>1. \A j \in Kinds : tasks'[c][j] = tasks[c][j] + (IF Running_ /\ j \in {k} THEN 1 ELSE 0)
    BY <1>0, <1>4, ScheduleEffect
  <2>2. /\ tasks'[c]["Establish"] \in Nat /\ tasks'[c]["Reconnect"] \in Nat
        /\ tasks'[c][k] > 0
    BY <1>0, <1>1, <1>4, <2>1
  <2> QED
    BY <2>2 DEF Returning
<1>5. ASSUME NEW c \in Clients, NEW k \in Kinds, NEW j \in {"Establish", "Reconnect"}, k # j,
             Running_, tasks[c][k] > 0, Fits(c, {j}), Replace(c, k, {j})
      PROVE  Returning(c)'
  <2>0. {j} \ {k} = {j} /\ {j} \in SUBSET Kinds
    BY <1>0, <1>5
  <2>1. \A i \in Kinds : tasks'[c][i] = tasks[c][i] - (IF i = k THEN 1 ELSE 0)
                                      + (IF Running_ /\ i \in {j} THEN 1 ELSE 0)
    BY <1>5, <2>0, ReplaceEffect
  <2>2. \A i \in Kinds : tasks'[c][i] \in Nat
    <3>1. tasks' \in [Clients -> [Kinds -> 0 .. MaxTasks]]
      BY <1>5, <2>0, ReplaceEffect
    <3> QED
      BY <3>1, KindsAssumption
  <2>3. tasks'[c][j] > 0
    BY <1>0, <1>1, <1>5, <2>1
  <2> QED
    BY <1>0, <2>2, <2>3 DEF Returning
<1>6. ASSUME NEW c \in Clients, EventDisconnect(c), Running_ PROVE Returning(c)'
  BY <1>4, <1>6 DEF EventDisconnect
<1>7. ASSUME NEW c \in Clients, Event(c) PROVE Back(e)'
  <2>1. ASSUME NEW s \in Conns, EstablishOpens(c, s) PROVE Back(e)'
    BY <1>1, <1>2, <1>7, <2>1 DEF EstablishOpens, Returning, Free
  <2>2. CASE EstablishFails(c)
    BY <1>0, <1>2, <1>5, <1>7, <2>2 DEF EstablishFails, Task
  <2>3. CASE Connects(c)
    BY <1>2, <1>7, <2>3 DEF Connects, SocketTypes
  <2>4. CASE ConnectFails(c)
    BY <1>2, <1>4, <1>7, <2>4 DEF ConnectFails
  <2>5. CASE Reconnect(c)
    BY <1>0, <1>2, <1>5, <1>7, <2>5 DEF Reconnect, Task
  <2>6. ASSUME NEW k \in Periodic \cup {"Log"}, Reports(c, k) PROVE Back(e)'
    <3>1. k \in Kinds /\ k # "Establish" /\ k # "Reconnect"
      BY <1>0, <2>6
    <3>2. PICK ks \in {{}, {k}} : Replace(c, k, ks)
      BY <2>6 DEF Reports
    <3>3. Fits(c, ks \ {k}) /\ ks \in SUBSET Kinds /\ tasks[c][k] > 0
      BY <2>6, <3>1, <3>2 DEF Fits, Reports, Task
    <3>4. \A i \in Kinds : tasks'[c][i] = tasks[c][i] - (IF i = k THEN 1 ELSE 0)
                                        + (IF Running_ /\ i \in ks THEN 1 ELSE 0)
      BY <3>1, <3>2, <3>3, ReplaceEffect
    <3>5. tasks'[c]["Establish"] = tasks[c]["Establish"] /\ tasks'[c]["Reconnect"] = tasks[c]["Reconnect"]
      BY <1>0, <1>1, <3>1, <3>2, <3>4
    <3> QED
      BY <1>3, <1>7, <2>6, <3>5 DEF Reports, clientVars
  <2>7. ASSUME NEW k \in Periodic \cup {"Log"}, ReportFails(c, k) PROVE Back(e)'
    <3>1. k \in Kinds /\ k # "Establish"
      BY <1>0, <2>7
    <3> QED
      BY <1>2, <1>5, <1>7, <2>7, <3>1 DEF ReportFails, TaskDisconnect, Task
  <2>8. ASSUME NEW k, Dropped(c, k) PROVE Back(e)'
    BY <1>2, <1>7, <2>8 DEF Dropped
  <2>9. CASE EstablishThrows(c)
    BY <1>2a, <1>7, <2>9 DEF Strands, EstablishThrows
  <2> QED
    BY <1>7, <2>1, <2>2, <2>3, <2>4, <2>5, <2>6, <2>7, <2>8, <2>9 DEF Event
<1>8. ASSUME NEW c \in Clients, Socket(c) PROVE Back(e)'
  <2>1. CASE ReadFails(c)
    BY <1>2, <1>6, <1>8, <2>1 DEF ReadFails
  <2>2. CASE SocketDown(c)
    <3>1. Running_ => reactor'[c] = "reconnect"
      BY <1>1, <2>2 DEF SocketDown
    <3> QED
      BY <1>2, <1>8, <3>1 DEF Returning
  <2>3. CASE ReactorReconnects(c)
    BY <1>2, <1>4, <1>8, <2>3 DEF ReactorReconnects, Retries
  <2>4. ASSUME NEW s, NEW what, Notices(c, s, what) \/ ClosesUnknown(c, s) \/ Reads(c)
        PROVE  Back(e)'
    <3>1. /\ UNCHANGED <<tasks, busy, Connected_>>
          /\ reactor[c] # "reconnect" \/ reactor' = reactor
      BY <2>4 DEF Notices, Notified, ClosesUnknown, Reads, clientVars
    <3> QED
      BY <1>3, <1>8, <3>1
  <2> QED
    BY <1>8, <2>1, <2>2, <2>3, <2>4 DEF Socket
<1>9. ASSUME NEW c \in Clients, Thread(c) PROVE Back(e)'
  <2>1. ASSUME NEW m, RestartEnds(c) \/ CommandFails(c, m) PROVE Back(e)'
    BY <1>2, <1>6, <1>9, <2>1 DEF RestartEnds, CommandFails
  <2>2. ASSUME NEW m, Concludes(c, m) PROVE Back(e)'
    <3>1. UNCHANGED <<tasks, busy, Connected_, reactor>>
      BY <2>2 DEF Concludes, Command, clientVars
    <3> QED
      BY <1>3, <1>9, <3>1
  <2>3. ASSUME NEW m \in {"reboot", "upgrade"}, NEW uri \in Uris \cup {"valid"}, Restarts(c, m, uri)
        PROVE  Back(e)'
    <3>1. CASE m = "upgrade" /\ uri = "malformed"
      BY <1>2a, <1>9, <2>3, <3>1 DEF Strands
    <3>2. CASE ~(m = "upgrade" /\ uri = "malformed")
      <4>1. busy'[c] # "free"
        BY <1>1, <2>3, <3>2 DEF Restarts
      <4> QED
        BY <1>2, <1>9, <4>1 DEF Returning, Free
    <3> QED
      BY <3>1, <3>2
  <2> QED
    BY <1>9, <2>1, <2>2, <2>3 DEF Thread
<1>10. CASE RunnerStops \/ UNCHANGED vars
  BY <1>10 DEF RunnerStops, vars, clientVars, Back, Returning, Free
<1> QED
  BY <1>7, <1>8, <1>9, <1>10 DEF Next

-----------------------------------------------------------------------------
(* The inductive invariant of the devices: where each socket is, who holds   *)
(* it, how many of them are counted, and what is scheduled for each device.  *)
THEOREM InductiveInvariant == Spec => []IInv
<1>1. IInv /\ [Next]_vars => IInv'
  <2> SUFFICES ASSUME IInv, [Next]_vars PROVE IInv'
    OBVIOUS
  <2>1. TypeOK'
    BY TaskTypesStep, SocketTypesStep DEF IInv, TypeOK
  <2>2. SocketInv' /\ TableIsLive' /\ LiveDevicesAreBacked'
    BY <2>1, SocketStep
  <2>3. ConnectedDevicesReport'
    BY ReportStep DEF IInv, TypeOK
  <2>4. MayThrow = {} /\ "malformed" \notin Uris => DisconnectedDevicesReturn'
    <3>1. MayThrow = {} /\ "malformed" \notin Uris => \A c \in Clients : ~Strands(c)
      BY DEF Strands, EstablishThrows
    <3> QED
      BY <3>1, ReturnStep DEF IInv, TypeOK, DisconnectedDevicesReturn
  <2> QED
    BY <2>1, <2>2, <2>3, <2>4 DEF IInv
<1> QED
  BY <1>1, InitIInv, PTL DEF Spec

(* Every variable keeps its type; Backoff_ stays far within sixteen bits. *)
THEOREM TypeCorrect == Spec => []TypeOK
<1>1. IInv => TypeOK
  BY DEF IInv
<1> QED
  BY <1>1, InductiveInvariant, PTL

(* The table of descriptors names only open, registered sockets, each with  *)
(* the client in whose reactor it is; a connected client is in the table.    *)
THEOREM TableCorrect == Spec => []TableIsLive
<1>1. IInv => TableIsLive
  BY DEF IInv
<1> QED
  BY <1>1, InductiveInvariant, PTL

(* SimStats never counts more live devices than the table has sockets.       *)
THEOREM LiveDevicesCorrect == Spec => []LiveDevicesAreBacked
<1>1. IInv => LiveDevicesAreBacked
  BY DEF IInv
<1> QED
  BY <1>1, InductiveInvariant, PTL

(* No connected device of a running runner is silent.                        *)
THEOREM ReportsCorrect == Spec => []ConnectedDevicesReport
<1>1. IInv => ConnectedDevicesReport
  BY DEF IInv
<1> QED
  BY <1>1, InductiveInvariant, PTL

(* No device of a running runner is stranded, as long as the gateway's name, *)
(* the certificates and the key load and no upgrade names a malformed URI.   *)
THEOREM DevicesReturn ==
  ASSUME MayThrow = {}, "malformed" \notin Uris
  PROVE  Spec => []DisconnectedDevicesReturn
<1>1. IInv => DisconnectedDevicesReturn
  BY DEF IInv
<1> QED
  BY <1>1, InductiveInvariant, PTL

(* Of all the steps of events, reactors and commands only the two that throw *)
(* leave a device with no way back.                                          *)
THEOREM OnlyThrowsCorrect == Spec => OnlyThrowsStrand
<1> DEFINE Kept == \A c \in Clients : Back(c) /\ ~Back(c)' => Strands(c)
<1>1. IInv /\ [Next]_vars => [Kept]_vars
  BY ReturnStep DEF IInv, TypeOK
<1> QED
  BY <1>1, InductiveInvariant, PTL DEF Spec, OnlyThrowsStrand
=============================================================================
