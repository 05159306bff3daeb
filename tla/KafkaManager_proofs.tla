------------------------ MODULE KafkaManager_proofs ------------------------
(***************************************************************************)
(* Proofs about KafkaManager, for any messages of others and any bounds, and  *)
(* about the registry that its consumer feeds, for any services and any age. *)
(***************************************************************************)
EXTENDS KafkaManager, MicroService, SequenceTheorems, TLAPS

(* What is on its way is in the order of a life: the parts of IInv on events. *)
OrderInv ==
  QueueInOrder /\ NoteIsNext /\ SentIsOldest /\ JoinIsFirst /\ LeaveIsLast

(* How far the threads have got: the parts of IInv on stops. *)
StopInv == BusFollows /\ ProducerFollows /\ ConsumerFollows

(* Everything precedes LEAVE but a LEAVE; only JOIN and keep-alives precede a *)
(* keep-alive; nothing precedes a JOIN.                                      *)
LEMMA Ranks ==
  /\ None \notin Events
  /\ \A e \in Events : Before(e, Leave) <=> e # Leave
  /\ \A e \in Events : Before(e, KeepAlive) <=> e # Leave
  /\ Leave # None /\ Join # None /\ KeepAlive # None
BY MessagesAssumption DEF Before, Events, Join, KeepAlive, Leave

(* A post is taken by a producer that waits, or joins the end of the queue.  *)
LEMMA PostCases ==
  ASSUME TypeOK, NoteIsNext, NEW e \in Events, Post(e)
  PROVE  /\ Queue_' \in Seq(Events) /\ note' \in Events \cup {None}
         /\ \/ /\ producer = "waits" /\ producer' = "took" /\ Queue_ = <<>> /\ note = None
               /\ note' = e /\ Queue_' = Queue_
            \/ /\ producer # "waits" /\ producer' = producer /\ note' = note
               /\ Len(Queue_') = Len(Queue_) + 1
               /\ DOMAIN Queue_' = 1 .. Len(Queue_) + 1 /\ DOMAIN Queue_ = 1 .. Len(Queue_)
               /\ Queue_'[Len(Queue_) + 1] = e
               /\ \A i \in DOMAIN Queue_ : Queue_'[i] = Queue_[i]
               /\ Len(Queue_) \in Nat
<1>1. CASE producer = "waits"
  BY <1>1, Ranks DEF Post, NoteIsNext, TypeOK, EventType
<1>2. CASE producer # "waits"
  <2>1. Queue_' = Append(Queue_, e) /\ note' = note /\ producer' = producer
    BY <1>2 DEF Post
  <2>2. Queue_ \in Seq(Events) /\ note \in Events \cup {None}
    BY DEF TypeOK, EventType
  <2> HIDE DEF Events
  <2> QED
    BY <1>2, <2>1, <2>2, AppendProperties, LenProperties
<1> QED
  BY <1>1, <1>2

(* A post that everything under way precedes keeps the order. *)
LEMMA PostKeepsOrder ==
  ASSUME TypeOK, OrderInv, NEW e \in Events, Post(e), sent' = sent,
         \A d \in Queued \cup ({note, sent} \ {None}) : Before(d, e)
  PROVE  /\ QueueInOrder' /\ NoteIsNext' /\ SentIsOldest'
         /\ Queued' \cup {note'} \subseteq Queued \cup {note, e}
<1>1. CASE producer = "waits"
  <2>1. producer' = "took" /\ Queue_' = <<>> /\ Queue_ = <<>> /\ note' = e /\ note = None
    BY <1>1, PostCases DEF OrderInv
  <2>2. Queued' = {} /\ Queued = {}
    BY <2>1 DEF Queued
  <2> QED
    BY <2>1, <2>2 DEF QueueInOrder, NoteIsNext, SentIsOldest
<1>2. CASE producer # "waits"
  <2>1. /\ producer' = producer /\ note' = note
        /\ DOMAIN Queue_' = 1 .. Len(Queue_) + 1 /\ DOMAIN Queue_ = 1 .. Len(Queue_)
        /\ Queue_'[Len(Queue_) + 1] = e /\ Len(Queue_) \in Nat
        /\ \A i \in DOMAIN Queue_ : Queue_'[i] = Queue_[i]
    BY <1>2, PostCases DEF OrderInv
  <2>2. Queued' = Queued \cup {e}
    BY <2>1 DEF Queued
  <2>3. QueueInOrder'
    <3> SUFFICES ASSUME NEW i \in DOMAIN Queue_', NEW j \in DOMAIN Queue_', i < j
                 PROVE  Before(Queue_'[i], Queue_'[j])
      BY DEF QueueInOrder, Before
    <3>1. i \in DOMAIN Queue_ /\ Queue_'[i] = Queue_[i]
      BY <2>1
    <3>2. CASE j \in DOMAIN Queue_
      BY <2>1, <3>1, <3>2 DEF OrderInv, QueueInOrder
    <3>3. CASE j = Len(Queue_) + 1
      BY <2>1, <3>1, <3>3 DEF Queued
    <3> QED
      BY <2>1, <3>2, <3>3
  <2>4. NoteIsNext'
    <3>1. note # None => \A d \in Queued' : Before(note, d)
      BY <2>2 DEF OrderInv, NoteIsNext
    <3> QED
      BY <1>2, <2>1, <3>1 DEF OrderInv, NoteIsNext, Before
  <2>5. SentIsOldest'
    <3>1. sent # None => \A d \in Queued' \cup ({note} \ {None}) : Before(sent, d)
      BY <2>2 DEF OrderInv, SentIsOldest
    <3> QED
      BY <2>1, <3>1 DEF SentIsOldest, Before
  <2> QED
    BY <2>1, <2>2, <2>3, <2>4, <2>5
<1> QED
  BY <1>1, <1>2

(* The threads stay in the places the code has. *)
LEMMA PlaceStep == ASSUME PlaceType, Next PROVE PlaceType'
<1>1. CASE EventBusStep
  BY <1>1 DEF EventBusStep, BusUp, BusJoins, BusChecks, BusWakes, BusBeats, BusLeaves, Post,
              producerVars, consumerVars, PlaceType
<1>2. CASE ProducerStep
  BY <1>2 DEF ProducerStep, ProducerUp, ProducerAsks, ProducerTook, ProducerSends, ProducerFails,
              eventBusVars, consumerVars, PlaceType
<1>3. CASE ConsumerStep \/ ConsumerHandles
  BY <1>3 DEF ConsumerStep, ConsumerUp, DispatcherMade, DispatcherRuns, ConsumerPolls,
              ConsumerHandles, ConsumerCommits, eventBusVars, producerVars, PlaceType
<1>4. CASE StartStep \/ StopBus
  BY <1>4 DEF StartStep, StartConsumer, StartProducer, StartBus, StopBus,
              eventBusVars, producerVars, consumerVars, PlaceType
<1>5. CASE StopStep
  BY <1>5 DEF StopStep, WakeBus, JoinBus, StopProducer, WakeProducer, JoinProducer,
              StopConsumer, HaltConsumer, JoinConsumer,
              eventBusVars, producerVars, consumerVars, PlaceType
<1>6. CASE \E m \in Foreign : Arrives(m)
  BY <1>6 DEF Arrives, eventBusVars, producerVars, consumerVars, PlaceType
<1> QED
  BY <1>1, <1>2, <1>3, <1>4, <1>5, <1>6 DEF Next

(* The flags stay flags. *)
LEMMA FlagStep == ASSUME FlagType, Next PROVE FlagType'
<1>1. CASE EventBusStep
  BY <1>1, Zenon DEF EventBusStep, BusUp, BusJoins, BusChecks, BusWakes, BusBeats, BusLeaves,
              producerVars, consumerVars, FlagType
<1>2. CASE ProducerStep
  BY <1>2, Zenon DEF ProducerStep, ProducerUp, ProducerAsks, ProducerTook, ProducerSends,
              ProducerFails, eventBusVars, consumerVars, FlagType
<1>3. CASE ConsumerStep \/ ConsumerHandles
  BY <1>3, Zenon DEF ConsumerStep, ConsumerUp, DispatcherMade, DispatcherRuns, ConsumerPolls,
              ConsumerHandles, ConsumerCommits, eventBusVars, producerVars, FlagType
<1>4. CASE StartStep \/ StopBus
  BY <1>4, Zenon DEF StartStep, StartConsumer, StartProducer, StartBus, StopBus,
              eventBusVars, producerVars, consumerVars, FlagType
<1>5. CASE StopStep
  BY <1>5, Zenon DEF StopStep, WakeBus, JoinBus, StopProducer, WakeProducer, JoinProducer,
              StopConsumer, HaltConsumer, JoinConsumer,
              eventBusVars, producerVars, consumerVars, FlagType
<1>6. CASE \E m \in Foreign : Arrives(m)
  BY <1>6, Zenon DEF Arrives, eventBusVars, producerVars, consumerVars, FlagType
<1> QED
  BY <1>1, <1>2, <1>3, <1>4, <1>5, <1>6 DEF Next

(* What is queued, taken and sent stay events. *)
LEMMA EventStep == ASSUME TypeOK, NoteIsNext, Next PROVE EventType'
<1> USE Ranks DEF EventType
<1>1. CASE BusJoins \/ BusBeats \/ BusLeaves
  <2>1. sent' = sent
    BY <1>1 DEF BusJoins, BusBeats, BusLeaves, topicVars
  <2>2. UNCHANGED <<Queue_, note>> \/ \E e \in Events : Post(e)
    BY <1>1 DEF BusJoins, BusBeats, BusLeaves, Events
  <2> QED
    BY <2>1, <2>2, PostCases DEF TypeOK
<1>2. CASE ProducerAsks
  <2>1. sent' = sent
    BY <1>2 DEF ProducerAsks, topicVars
  <2>2. Queue_' \in Seq(Events) /\ note' \in Events \cup {None}
    <3>1. Queue_ \in Seq(Events) /\ note \in Events \cup {None}
      BY DEF TypeOK
    <3> HIDE DEF Events
    <3> QED
      BY <1>2, <3>1, HeadTailProperties DEF ProducerAsks
  <2> QED
    BY <2>1, <2>2 DEF TypeOK
<1>3. CASE BusUp \/ BusChecks \/ BusWakes
  BY <1>3 DEF BusUp, BusChecks, BusWakes, producerVars, topicVars, TypeOK
<1>4. CASE ProducerUp \/ ProducerTook \/ ProducerSends \/ ProducerFails
  BY <1>4 DEF ProducerUp, ProducerTook, ProducerSends, ProducerFails, topicVars, TypeOK
<1>5. CASE ConsumerStep \/ ConsumerHandles
  BY <1>5 DEF ConsumerStep, ConsumerUp, DispatcherMade, DispatcherRuns, ConsumerPolls,
              ConsumerHandles, ConsumerCommits, producerVars, topicVars, TypeOK
<1>6. CASE StartStep \/ StopBus
  BY <1>6 DEF StartStep, StartConsumer, StartProducer, StartBus, StopBus,
              producerVars, topicVars, TypeOK
<1>7. CASE StopStep
  BY <1>7 DEF StopStep, WakeBus, JoinBus, StopProducer, WakeProducer, JoinProducer,
              StopConsumer, HaltConsumer, JoinConsumer, producerVars, topicVars, TypeOK
<1>8. CASE \E m \in Foreign : Arrives(m)
  BY <1>8 DEF Arrives, producerVars, TypeOK
<1> QED
  BY <1>1, <1>2, <1>3, <1>4, <1>5, <1>6, <1>7, <1>8 DEF Next, EventBusStep, ProducerStep

(* The topic stays a sequence of messages, and it is only ProducerSends that *)
(* adds a message of this process.                                           *)
LEMMA TopicStep ==
  ASSUME TopicType, Next
  PROVE  TopicType' /\ (topic' = Append(topic, OwnMessage) => ProducerSends)
<1> DEFINE Messages == Foreign \cup {OwnMessage}
<1>1. topic \in Seq(Messages) /\ OwnMessage \notin Foreign /\ OwnMessage \in Messages
  BY MessagesAssumption DEF TopicType
<1> HIDE DEF Messages, OwnMessage
<1>2. /\ topic # Append(topic, OwnMessage)
      /\ topic # <<>> => Tail(topic) \in Seq(Messages) /\ Tail(topic) # Append(topic, OwnMessage)
  BY <1>1, AppendProperties, HeadTailProperties, LenProperties, EmptySeq
<1>3. CASE ProducerSends
  <2>1. topic' = Append(topic, OwnMessage) /\ consumer' = consumer
    BY <1>3 DEF ProducerSends, consumerVars
  <2>2. Append(topic, OwnMessage) \in Seq(Messages) /\ Append(topic, OwnMessage) # <<>>
    BY <1>1, AppendProperties
  <2> QED
    BY <1>3, <2>1, <2>2 DEF TopicType, Messages
<1>4. CASE ConsumerHandles
  BY <1>2, <1>4 DEF ConsumerHandles, TopicType, Messages
<1>5. CASE \E m \in Foreign : Arrives(m)
  <2>1. PICK m \in Foreign : topic' = Append(topic, m) /\ consumer' = consumer
    BY <1>5 DEF Arrives, consumerVars
  <2>2. m \in Messages /\ m # OwnMessage
    BY <1>1 DEF Messages
  <2>3. /\ Append(topic, m) \in Seq(Messages) /\ Append(topic, m) # <<>>
        /\ Append(topic, m) # Append(topic, OwnMessage)
    BY <1>1, <2>2, AppendProperties
  <2> QED
    BY <2>1, <2>3 DEF TopicType, Messages
<1>6. CASE EventBusStep \/ ConsumerStep
  <2>1. topic' = topic /\ (consumer' = "handles" => topic # <<>>)
    BY <1>6 DEF EventBusStep, BusUp, BusJoins, BusChecks, BusWakes, BusBeats, BusLeaves,
       ConsumerStep, ConsumerUp, DispatcherMade, DispatcherRuns, ConsumerPolls, ConsumerCommits,
       topicVars, consumerVars, TopicType
  <2> QED
    BY <1>1, <1>2, <2>1 DEF TopicType, Messages
<1>7. CASE ProducerUp \/ ProducerAsks \/ ProducerTook \/ ProducerFails
  BY <1>2, <1>7 DEF ProducerUp, ProducerAsks, ProducerTook, ProducerFails,
     topicVars, consumerVars, TopicType
<1>8. CASE StartStep \/ StopBus \/ StopStep
  <2>1. topic' = topic /\ (consumer' = consumer \/ consumer' = "started")
    BY <1>8 DEF StartStep, StartConsumer, StartProducer, StartBus, StopBus, StopStep, WakeBus,
       JoinBus, StopProducer, WakeProducer, JoinProducer, StopConsumer, HaltConsumer,
       JoinConsumer, topicVars, consumerVars
  <2> QED
    BY <1>2, <2>1 DEF TopicType
<1> QED
  BY <1>3, <1>4, <1>5, <1>6, <1>7, <1>8 DEF Next, ProducerStep

(* The variables keep their types. *)
LEMMA TypeStep == ASSUME TypeOK, NoteIsNext, Next PROVE TypeOK'
BY PlaceStep, FlagStep, EventStep, TopicStep DEF TypeOK

(* Steps of main, the consumer and others leave the events under way alone:  *)
(* main starts the producer, and may wake it.                                *)
LEMMA AsideKeepsOrder ==
  ASSUME TypeOK, OrderInv, UNCHANGED <<Queue_, note, sent, bus>>,
         \/ producer' = producer
         \/ producer = "waits" /\ producer' = "took"
         \/ producer \in {"idle", "started"} /\ producer' \in {"started", "asks"}
  PROVE  OrderInv'
BY DEF OrderInv, QueueInOrder, NoteIsNext, SentIsOldest, JoinIsFirst, LeaveIsLast,
       Queued, Before, Leave, Join

(* Taking the first message of the queue keeps the order. *)
LEMMA AskKeepsOrder == ASSUME TypeOK, OrderInv, ProducerAsks PROVE OrderInv'
<1>1. CASE Queue_ = <<>>
  <2>1. note' = note /\ Queue_' = Queue_ /\ sent' = sent /\ bus' = bus /\ producer' = "waits"
    BY <1>1 DEF ProducerAsks, eventBusVars, topicVars
  <2> QED
    BY <1>1, <2>1 DEF OrderInv, QueueInOrder, NoteIsNext, SentIsOldest, JoinIsFirst,
                      LeaveIsLast, Queued, Before, ProducerAsks, Leave, Join
<1>2. CASE Queue_ # <<>>
  <2>1. /\ note' = Queue_[1] /\ Queue_' = Tail(Queue_)
        /\ sent' = sent /\ bus' = bus /\ producer' = "took" /\ note = None
    BY <1>2 DEF ProducerAsks, eventBusVars, topicVars, OrderInv, NoteIsNext
  <2>2. /\ Len(Queue_) \in Nat \ {0} /\ DOMAIN Queue_ = 1 .. Len(Queue_)
        /\ DOMAIN Queue_' = 1 .. Len(Queue_) - 1
        /\ \A i \in 1 .. Len(Queue_) - 1 : Queue_'[i] = Queue_[i + 1]
    <3>1. Queue_ \in Seq(Events)
      BY DEF TypeOK, EventType
    <3> HIDE DEF Events
    <3> QED
      BY <1>2, <2>1, <3>1, HeadTailProperties, EmptySeq, LenProperties
  <2>3. Queued' \subseteq Queued /\ note' \in Queued
    BY <2>1, <2>2 DEF Queued
  <2>4. QueueInOrder'
    BY <2>2 DEF OrderInv, QueueInOrder, Before
  <2>5. \A e \in Queued' : Before(note', e)
    <3> SUFFICES ASSUME NEW i \in DOMAIN Queue_' PROVE Before(note', Queue_'[i])
      BY DEF Queued, Before
    <3>1. 1 \in DOMAIN Queue_ /\ i + 1 \in DOMAIN Queue_ /\ 1 < i + 1
      BY <2>2
    <3>2. Before(Queue_[1], Queue_[i + 1])
      BY <3>1 DEF OrderInv, QueueInOrder
    <3> QED
      BY <2>1, <2>2, <3>2
  <2>6. NoteIsNext'
    BY <2>1, <2>5 DEF NoteIsNext, Before
  <2>7. SentIsOldest'
    BY <2>1, <2>3 DEF OrderInv, SentIsOldest, Before
  <2>8. JoinIsFirst' /\ LeaveIsLast'
    BY <1>2, <2>1, <2>3 DEF OrderInv, JoinIsFirst, LeaveIsLast
  <2> QED
    BY <2>4, <2>6, <2>7, <2>8 DEF OrderInv
<1> QED
  BY <1>1, <1>2

(* Every step keeps the order. *)
LEMMA OrderStep == ASSUME TypeOK, OrderInv, BusFollows, ProducerFollows, Next PROVE OrderInv'
<1> USE Ranks
<1>1. CASE BusJoins
  <2>1. Queued = {} /\ note = None /\ sent = None /\ bus' = "checks" /\ sent' = sent
    BY <1>1 DEF BusJoins, topicVars, OrderInv, JoinIsFirst, Queued
  <2>2. QueueInOrder' /\ NoteIsNext' /\ SentIsOldest' /\ Queued' \cup {note'} \subseteq {None, Join}
    BY <1>1, <2>1, PostKeepsOrder DEF BusJoins, Events
  <2>3. Join # Leave
    BY DEF Join, Leave
  <2> QED
    BY <2>1, <2>2, <2>3 DEF OrderInv, JoinIsFirst, LeaveIsLast
<1>2. CASE BusBeats
  <2>1. sent' = sent /\ Leave \notin Queued \cup {note, sent}
        /\ Queued \cup {note, sent} \subseteq Events \cup {None}
    BY <1>2 DEF BusBeats, topicVars, OrderInv, LeaveIsLast, Queued, TypeOK, EventType
  <2>2. CASE Post(KeepAlive) /\ bus' = "checks"
    <3>1. \A d \in Queued \cup ({note, sent} \ {None}) : Before(d, KeepAlive)
      BY <2>1 DEF Before, KeepAlive, Join
    <3>2. /\ QueueInOrder' /\ NoteIsNext' /\ SentIsOldest'
          /\ Queued' \cup {note'} \subseteq Queued \cup {note, KeepAlive}
      BY <2>1, <2>2, <3>1, PostKeepsOrder DEF Events
    <3>3. KeepAlive # Leave
      BY DEF KeepAlive, Leave
    <3> QED
      BY <2>1, <2>2, <3>2, <3>3 DEF OrderInv, JoinIsFirst, LeaveIsLast
  <2>3. CASE bus' = "leaves" /\ UNCHANGED <<Queue_, note, producer>>
    BY <2>1, <2>3 DEF OrderInv, QueueInOrder, NoteIsNext, SentIsOldest, JoinIsFirst,
                      LeaveIsLast, Queued, Before, Leave, Join
  <2> QED
    BY <1>2, <2>2, <2>3 DEF BusBeats
<1>3. CASE BusLeaves
  <2>1. sent' = sent /\ Leave \notin Queued \cup {note, sent} /\ bus' = "ended"
        /\ Queued \cup {note, sent} \subseteq Events \cup {None}
    BY <1>3 DEF BusLeaves, topicVars, OrderInv, LeaveIsLast, Queued, TypeOK, EventType
  <2>2. \A d \in Queued \cup ({note, sent} \ {None}) : Before(d, Leave)
    BY <2>1 DEF Before, Leave, Join
  <2>3. QueueInOrder' /\ NoteIsNext' /\ SentIsOldest'
    BY <1>3, <2>1, <2>2, PostKeepsOrder DEF BusLeaves, Events
  <2> QED
    BY <2>1, <2>3 DEF OrderInv, JoinIsFirst, LeaveIsLast
<1>4. CASE ProducerAsks
  BY <1>4, AskKeepsOrder
<1>5. CASE BusUp \/ BusChecks \/ BusWakes
  <2>1. /\ UNCHANGED <<Queue_, note, sent, producer>>
        /\ \/ bus = "started" /\ bus' = "joins"
           \/ bus = "checks" /\ bus' \in {"sleeps", "leaves"}
           \/ bus = "sleeps" /\ bus' = "rechecks"
    BY <1>5 DEF BusUp, BusChecks, BusWakes, producerVars, topicVars
  <2> QED
    BY <2>1 DEF OrderInv, QueueInOrder, NoteIsNext, SentIsOldest, JoinIsFirst, LeaveIsLast,
                Queued, Before, Leave, Join
<1>6. CASE ProducerTook \/ ProducerFails
  <2>1. /\ UNCHANGED <<Queue_, sent, bus>>
        /\ \/ producer = "took" /\ producer' = "sends" /\ note # None /\ note' = note
           \/ producer \in {"took", "sends"} /\ producer' \in {"ended", "asks"} /\ note' = None
    BY <1>6 DEF ProducerTook, ProducerFails, eventBusVars, topicVars
  <2>2. QueueInOrder' /\ SentIsOldest'
    BY <2>1 DEF OrderInv, QueueInOrder, SentIsOldest, Queued, Before, Leave, Join
  <2>3. NoteIsNext'
    BY <2>1 DEF OrderInv, NoteIsNext, Queued, Before, Leave, Join
  <2>4. JoinIsFirst' /\ LeaveIsLast'
    BY <2>1 DEF OrderInv, JoinIsFirst, LeaveIsLast, Queued
  <2> QED
    BY <2>2, <2>3, <2>4 DEF OrderInv
<1>7. CASE ProducerSends
  <2>1. /\ UNCHANGED <<Queue_, bus>> /\ note # None /\ producer' = "asks"
        /\ sent' = note /\ note' = None
    BY <1>7 DEF ProducerSends, eventBusVars, OrderInv, NoteIsNext
  <2>2. QueueInOrder' /\ NoteIsNext'
    BY <2>1 DEF OrderInv, QueueInOrder, NoteIsNext, Before, Leave, Join
  <2>3. SentIsOldest'
    BY <2>1 DEF OrderInv, NoteIsNext, SentIsOldest, Queued, Before, Leave, Join
  <2>4. JoinIsFirst' /\ LeaveIsLast'
    BY <2>1 DEF OrderInv, JoinIsFirst, LeaveIsLast, Queued
  <2> QED
    BY <2>2, <2>3, <2>4 DEF OrderInv
<1>8. CASE ProducerUp
  <2>1. UNCHANGED <<Queue_, note, sent, bus>> /\ producer = "started" /\ producer' = "asks"
    BY <1>8 DEF ProducerUp, eventBusVars, topicVars
  <2> QED
    BY <2>1, AsideKeepsOrder
<1>9. CASE ConsumerStep \/ ConsumerHandles \/ \E m \in Foreign : Arrives(m)
  <2>1. UNCHANGED <<Queue_, note, sent, bus, producer>>
    BY <1>9 DEF ConsumerStep, ConsumerUp, DispatcherMade, DispatcherRuns, ConsumerPolls,
                ConsumerHandles, ConsumerCommits, Arrives, eventBusVars, producerVars, topicVars
  <2> QED
    BY <2>1, AsideKeepsOrder
<1>10. CASE StartBus
  <2>1. /\ UNCHANGED <<Queue_, note, sent, producer>>
        /\ bus = "idle" /\ bus' = "started"
    BY <1>10 DEF StartBus, producerVars, topicVars, BusFollows
  <2> QED
    BY <2>1 DEF OrderInv, QueueInOrder, NoteIsNext, SentIsOldest, JoinIsFirst, LeaveIsLast,
                Queued, Before
<1>11. CASE StartConsumer \/ StartProducer
  <2>1. UNCHANGED <<Queue_, note, sent, bus>>
    BY <1>11 DEF StartConsumer, StartProducer, eventBusVars, producerVars, topicVars
  <2>2. producer' = producer \/ (producer = "idle" /\ producer' = "started")
    BY <1>11 DEF StartConsumer, StartProducer, producerVars, ProducerFollows
  <2> QED
    BY <2>1, <2>2, AsideKeepsOrder
<1>12. CASE StopBus \/ StopStep
  <2>1. UNCHANGED <<Queue_, note, sent, bus>>
        /\ (producer' = producer \/ (producer = "waits" /\ producer' = "took"))
    BY <1>12 DEF StopBus, StopStep, WakeBus, JoinBus, StopProducer, WakeProducer, JoinProducer,
                 StopConsumer, HaltConsumer, JoinConsumer, eventBusVars, producerVars, topicVars
  <2> QED
    BY <2>1, AsideKeepsOrder
<1> QED
  BY <1>1, <1>2, <1>3, <1>4, <1>5, <1>6, <1>7, <1>8, <1>9, <1>10, <1>11, <1>12
     DEF Next, EventBusStep, ProducerStep, StartStep

(* The events that are queued or taken, and not sent yet. *)
UnderWay == (Queued \cup {note}) \ {None}

(* A post adds its event to them. *)
LEMMA PostGoesUnderWay ==
  ASSUME TypeOK, NoteIsNext, NEW e \in Events, Post(e)
  PROVE  UnderWay' = UnderWay \cup {e}
<1>1. e # None
  BY Ranks
<1>2. CASE producer = "waits"
  <2>1. note = None /\ note' = e /\ Queued' = Queued /\ Queued = {}
    BY <1>2, PostCases DEF Queued
  <2> QED
    BY <1>1, <2>1 DEF UnderWay
<1>3. CASE producer # "waits"
  <2>1. Queued' = Queued \cup {e} /\ note' = note
    BY <1>3, PostCases DEF Queued
  <2> QED
    BY <1>1, <2>1 DEF UnderWay
<1> QED
  BY <1>2, <1>3

(* A message taken from the queue is still under way. *)
LEMMA AskKeepsUnderWay ==
  ASSUME TypeOK, NoteIsNext, ProducerAsks
  PROVE  UnderWay' = UnderWay
<1>1. CASE Queue_ = <<>>
  BY <1>1 DEF ProducerAsks, UnderWay, Queued
<1>2. CASE Queue_ # <<>>
  <2>1. note = None /\ note' = Queue_[1] /\ Queue_' = Tail(Queue_)
    BY <1>2 DEF ProducerAsks, NoteIsNext
  <2>2. /\ Len(Queue_) \in Nat \ {0} /\ DOMAIN Queue_ = 1 .. Len(Queue_)
        /\ DOMAIN Queue_' = 1 .. Len(Queue_) - 1
        /\ \A i \in 1 .. Len(Queue_) - 1 : Queue_'[i] = Queue_[i + 1]
    <3>1. Queue_ \in Seq(Events)
      BY DEF TypeOK, EventType
    <3> HIDE DEF Events
    <3> QED
      BY <1>2, <2>1, <3>1, HeadTailProperties, EmptySeq, LenProperties
  <2>3. Queued' \cup {note'} \subseteq Queued
    BY <2>1, <2>2 DEF Queued
  <2>4. Queued \subseteq Queued' \cup {note'}
    <3> SUFFICES ASSUME NEW i \in DOMAIN Queue_ PROVE Queue_[i] \in Queued' \cup {note'}
      BY DEF Queued
    <3>1. CASE i = 1
      BY <2>1, <3>1
    <3>2. CASE i # 1
      <4>1. i - 1 \in DOMAIN Queue_' /\ Queue_'[i - 1] = Queue_[i]
        BY <2>2, <3>2
      <4> QED
        BY <4>1 DEF Queued
    <3> QED
      BY <3>1, <3>2
  <2> QED
    BY <2>1, <2>3, <2>4 DEF UnderWay
<1> QED
  BY <1>1, <1>2

(* The places of the bus before its JOIN; after its LEAVE it has ended. *)
BeforeJoin == {"idle", "started", "joins"}
SamePart == (bus \in BeforeJoin <=> bus' \in BeforeJoin) /\ (bus = "ended" <=> bus' = "ended")

(* A step leaves what is under way alone, or the bus adds to it, or the       *)
(* producer is done with the first of it.                                    *)
Rests == UnderWay' = UnderWay /\ SamePart
Posts(event) == UnderWay' = UnderWay \cup {event} /\ sent' = sent /\ topic' = topic
Passes == note # None /\ UnderWay' = Queued \ {None} /\ bus' = bus

LEMMA WaySteps ==
  ASSUME TypeOK, OrderInv, BusFollows, Next
  PROVE  \/ /\ Rests /\ sent' = sent
            /\ topic' = topic \/ ConsumerHandles \/ \E m \in Foreign : Arrives(m)
         \/ Posts(Join) /\ bus = "joins" /\ bus' = "checks"
         \/ Posts(KeepAlive) /\ bus = "rechecks" /\ bus' = "checks"
         \/ Posts(Leave) /\ bus = "leaves" /\ bus' = "ended"
         \/ /\ Passes
            /\ \/ sent' = sent /\ topic' = topic
               \/ sent' = note /\ topic' = Append(topic, OwnMessage)
<1> USE DEF Rests, SamePart, BeforeJoin
<1>1. CASE BusJoins
  BY <1>1, PostGoesUnderWay DEF BusJoins, topicVars, Posts, Events, OrderInv
<1>2. CASE BusBeats
  <2>1. CASE Post(KeepAlive) /\ bus' = "checks"
    BY <1>2, <2>1, PostGoesUnderWay DEF BusBeats, topicVars, Posts, Events, OrderInv
  <2>2. CASE bus' = "leaves" /\ UNCHANGED <<Queue_, note, producer>>
    BY <1>2, <2>2 DEF BusBeats, topicVars, UnderWay, Queued
  <2> QED
    BY <1>2, <2>1, <2>2 DEF BusBeats
<1>3. CASE BusLeaves
  BY <1>3, PostGoesUnderWay DEF BusLeaves, topicVars, Posts, Events, OrderInv
<1>4. CASE ProducerAsks
  BY <1>4, AskKeepsUnderWay DEF ProducerAsks, eventBusVars, topicVars, OrderInv
<1>5. CASE BusUp \/ BusChecks \/ BusWakes
  BY <1>5 DEF BusUp, BusChecks, BusWakes, producerVars, topicVars, UnderWay, Queued
<1>6. CASE ProducerTook
  <2>1. Queue_' = Queue_ /\ UNCHANGED <<sent, topic, bus>> /\ (note' = note \/ note' = None)
    BY <1>6 DEF ProducerTook, eventBusVars, topicVars
  <2>2. Queued' = Queued
    BY <2>1 DEF Queued
  <2> QED
    BY <2>1, <2>2 DEF UnderWay, Passes
<1>7. CASE ProducerSends \/ ProducerFails
  <2>1. /\ Queue_' = Queue_ /\ bus' = bus /\ note # None /\ note' = None
        /\ \/ sent' = sent /\ topic' = topic
           \/ sent' = note /\ topic' = Append(topic, OwnMessage)
    BY <1>7 DEF ProducerSends, ProducerFails, eventBusVars, topicVars, OrderInv, NoteIsNext
  <2>2. UnderWay' = Queued \ {None}
    BY <2>1 DEF UnderWay, Queued
  <2> QED
    BY <2>1, <2>2 DEF Passes
<1>8. CASE ConsumerStep \/ ConsumerHandles \/ \E m \in Foreign : Arrives(m)
  BY <1>8 DEF ConsumerStep, ConsumerUp, DispatcherMade, DispatcherRuns, ConsumerPolls,
              ConsumerHandles, ConsumerCommits, Arrives, eventBusVars, producerVars, topicVars,
              UnderWay, Queued
<1>9. CASE ProducerUp \/ StartStep
  BY <1>9 DEF ProducerUp, StartStep, StartConsumer, StartProducer, StartBus,
              eventBusVars, producerVars, topicVars, UnderWay, Queued, BusFollows
<1>10. CASE StopBus \/ StopStep
  BY <1>10 DEF StopBus, StopStep, WakeBus, JoinBus, StopProducer, WakeProducer, JoinProducer,
               StopConsumer, HaltConsumer, JoinConsumer, eventBusVars, producerVars, topicVars,
               UnderWay, Queued
<1> QED
  BY <1>1, <1>2, <1>3, <1>4, <1>5, <1>6, <1>7, <1>8, <1>9, <1>10
     DEF Next, EventBusStep, ProducerStep

(* An event that passes has the rest of the life behind it. *)
LEMMA PassesInOrder ==
  ASSUME TypeOK, OrderInv, note # None
  PROVE  /\ note \in Events /\ bus \notin BeforeJoin
         /\ Join \notin Queued
         /\ note = Leave => Queued = {} /\ bus = "ended"
<1>1. note \in Events /\ \A e \in Queued : Before(note, e)
  BY DEF TypeOK, EventType, OrderInv, NoteIsNext
<1>2. bus \notin BeforeJoin
  BY DEF OrderInv, JoinIsFirst, BeforeJoin
<1>3. note = Leave => bus = "ended"
  BY <1>2 DEF OrderInv, LeaveIsLast, TypeOK, PlaceType, BeforeJoin
<1> QED
  BY <1>1, <1>2, <1>3 DEF Before

(* A queue is empty if no event is in it. *)
LEMMA EmptyQueue ==
  ASSUME NEW q \in Seq(Events)
  PROVE  /\ q = <<>> <=> {q[i] : i \in DOMAIN q} = {}
         /\ None \notin {q[i] : i \in DOMAIN q}
<1>1. None \notin Events
  BY Ranks
<1> HIDE DEF Events
<1>2. /\ DOMAIN q = 1 .. Len(q) /\ Len(q) \in Nat /\ (q = <<>> <=> Len(q) = 0)
      /\ \A i \in DOMAIN q : q[i] \in Events
  BY EmptySeq, LenProperties, ElementOfSeq
<1>3. q # <<>> => q[1] \in {q[i] : i \in DOMAIN q}
  BY <1>2
<1>4. q = <<>> => {q[i] : i \in DOMAIN q} = {}
  BY <1>2
<1>5. None \notin {q[i] : i \in DOMAIN q}
  BY <1>1, <1>2
<1> QED
  BY <1>3, <1>4, <1>5

(* The LEAVE of a bus that has ended is the last under way. *)
LEMMA LeaveStep ==
  ASSUME TypeOK, OrderInv, LeaveIsQueued, BusFollows, Next
  PROVE  LeaveIsQueued'
<1>1. LeaveIsQueued <=> (bus = "ended" /\ UnderWay # {} => Leave \in UnderWay)
  BY EmptyQueue, Ranks DEF LeaveIsQueued, UnderWay, Queued, TypeOK, EventType
<1>2. LeaveIsQueued' <=> (bus' = "ended" /\ UnderWay' # {} => Leave \in UnderWay')
  <2>1. Queue_' \in Seq(Events)
    BY TypeStep DEF OrderInv, TypeOK, EventType
  <2> QED
    BY <2>1, EmptyQueue, Ranks DEF LeaveIsQueued, UnderWay, Queued
<1>3. CASE Passes
  BY <1>1, <1>2, <1>3, PassesInOrder, Ranks DEF Passes, UnderWay
<1>4. CASE Rests
  BY <1>1, <1>2, <1>4 DEF Rests, SamePart
<1> QED
  BY <1>1, <1>2, <1>3, <1>4, WaySteps DEF Posts

(* Every step keeps pace with main. *)
LEMMA StopStepInv == ASSUME TypeOK, OrderInv, StopInv, Next PROVE StopInv'
<1>1. CASE EventBusStep
  <2>1. main' = main /\ missed' = missed /\ producerRunning_' = producerRunning_
        /\ UNCHANGED consumerVars
        /\ (producer' = producer \/ (producer = "waits" /\ producer' = "took"))
    BY <1>1 DEF EventBusStep, BusUp, BusJoins, BusChecks, BusWakes, BusBeats, BusLeaves, Post,
                producerVars, consumerVars
  <2>2. ConsumerFollows'
    BY <2>1 DEF StopInv, ConsumerFollows, consumerVars
  <2>3. BusFollows'
    BY <1>1, <2>1 DEF EventBusStep, BusUp, BusJoins, BusChecks, BusWakes, BusBeats, BusLeaves,
                      StopInv, BusFollows
  <2>4. bus # "ended" /\ main # "joinProducer"
    BY <1>1 DEF EventBusStep, BusUp, BusJoins, BusChecks, BusWakes, BusBeats, BusLeaves,
                StopInv, BusFollows
  <2>5. ProducerFollows'
    BY <2>1, <2>4 DEF StopInv, ProducerFollows
  <2> QED
    BY <2>2, <2>3, <2>5 DEF StopInv
<1>2. CASE ProducerStep
  <2>1. main' = main /\ missed' = missed /\ UNCHANGED <<eventBusVars, consumerVars>>
    BY <1>2 DEF ProducerStep, ProducerUp, ProducerAsks, ProducerTook, ProducerSends, ProducerFails
  <2>2. BusFollows' /\ ConsumerFollows'
    BY <2>1 DEF StopInv, BusFollows, ConsumerFollows, eventBusVars, consumerVars
  <2>3. \/ producer = "started" /\ producer' = "asks" /\ producerRunning_'
        \/ /\ producerRunning_' = producerRunning_
           /\ \/ producer = "asks" /\ producer' = "took" /\ Queue_ # <<>>
              \/ producer = "asks" /\ producer' = "waits" /\ Queue_ = <<>>
              \/ producer = "took" /\ producer' = "sends" /\ producerRunning_
              \/ producer = "took" /\ producer' = "ended"
              \/ producer = "sends" /\ producer' = "asks" /\ Queue_' = Queue_
    BY <1>2 DEF ProducerStep, ProducerUp, ProducerAsks, ProducerTook, ProducerSends, ProducerFails
  <2>4. ProducerFollows'
    BY <2>1, <2>3 DEF StopInv, ProducerFollows
  <2> QED
    BY <2>2, <2>4 DEF StopInv
<1>3. CASE ConsumerStep \/ ConsumerHandles
  <2>1. main' = main /\ missed' = missed /\ UNCHANGED <<eventBusVars, producerVars>>
    BY <1>3 DEF ConsumerStep, ConsumerUp, DispatcherMade, DispatcherRuns, ConsumerPolls,
                ConsumerHandles, ConsumerCommits
  <2>2. BusFollows' /\ ProducerFollows'
    BY <2>1 DEF StopInv, BusFollows, ProducerFollows, eventBusVars, producerVars
  <2>3. ConsumerFollows'
    BY <1>3, <2>1 DEF ConsumerStep, ConsumerUp, DispatcherMade, DispatcherRuns, ConsumerPolls,
                ConsumerHandles, ConsumerCommits, StopInv, ConsumerFollows
  <2> QED
    BY <2>2, <2>3 DEF StopInv
<1>4. CASE StartStep \/ StopBus
  <2> USE <1>4 DEF StartStep, StartConsumer, StartProducer, StartBus, StopBus, Misses
  <2>1. BusFollows'
    BY DEF eventBusVars, StopInv, BusFollows
  <2>2. ProducerFollows'
    BY DEF producerVars, StopInv, ProducerFollows
  <2>3. ConsumerFollows'
    BY DEF consumerVars, StopInv, ConsumerFollows
  <2> QED
    BY <2>1, <2>2, <2>3 DEF StopInv
<1>6. CASE StopStep
  <2>1. BusFollows'
    BY <1>6 DEF StopStep, WakeBus, JoinBus, StopProducer, WakeProducer, JoinProducer,
        StopConsumer, HaltConsumer, JoinConsumer, Misses, eventBusVars, StopInv, BusFollows
  <2>2. ProducerFollows'
    BY <1>6 DEF StopStep, WakeBus, JoinBus, StopProducer, WakeProducer, JoinProducer,
        StopConsumer, HaltConsumer, JoinConsumer, Misses, producerVars, StopInv, ProducerFollows
  <2>3. ConsumerFollows'
    BY <1>6 DEF StopStep, WakeBus, JoinBus, StopProducer, WakeProducer, JoinProducer,
        StopConsumer, HaltConsumer, JoinConsumer, Misses, consumerVars, StopInv, ConsumerFollows
  <2> QED
    BY <2>1, <2>2, <2>3 DEF StopInv
<1>5. CASE \E m \in Foreign : Arrives(m)
  BY <1>5 DEF Arrives, StopInv, BusFollows, ProducerFollows, ConsumerFollows,
              eventBusVars, producerVars, consumerVars
<1> QED
  BY <1>1, <1>2, <1>3, <1>4, <1>5, <1>6 DEF Next

(* IInv is all of them together. *)
LEMMA InvParts == IInv <=> TypeOK /\ OrderInv /\ LeaveIsQueued /\ StopInv
BY DEF IInv, OrderInv, StopInv

(* A step that changes no variable keeps the invariant. *)
LEMMA Stuttering == ASSUME IInv, UNCHANGED vars PROVE IInv'
<1> USE DEF vars, eventBusVars, producerVars, consumerVars, topicVars
<1>1. TypeOK'
  <2>1. FlagType'
    BY Zenon DEF IInv, TypeOK, FlagType
  <2>2. PlaceType' /\ EventType' /\ TopicType'
    <3>1. PlaceType /\ EventType /\ TopicType
      BY DEF IInv, TypeOK
    <3> QED
      BY <3>1 DEF PlaceType, EventType, TopicType
  <2> QED
    BY <2>1, <2>2 DEF TypeOK
<1>2. OrderInv'
  BY InvParts DEF OrderInv, QueueInOrder, NoteIsNext, SentIsOldest, JoinIsFirst, LeaveIsLast,
                  Queued, Before
<1>3. LeaveIsQueued'
  BY InvParts DEF LeaveIsQueued, Queued
<1>4. StopInv'
  BY InvParts DEF StopInv, BusFollows, ProducerFollows, ConsumerFollows
<1> QED
  BY <1>1, <1>2, <1>3, <1>4 DEF IInv, OrderInv, StopInv

(* A process starts in a state of the invariant. *)
LEMMA InitInv == Init => IInv
<1> SUFFICES ASSUME Init PROVE IInv
  OBVIOUS
<1>1. TypeOK
  <2>1. <<>> \in Seq(Events)
    OBVIOUS
  <2>2. FlagType
    BY Zenon DEF Init, FlagType
  <2>3. TopicType
    <3>1. <<>> \in Seq(Foreign \cup {OwnMessage})
      OBVIOUS
    <3>2. ASSUME NEW m \in Foreign
          PROVE  <<m>> \in Seq(Foreign \cup {OwnMessage})
      OBVIOUS
    <3> QED
      BY <3>1, <3>2 DEF Init, TopicType
  <2> QED
    BY <2>1, <2>2, <2>3 DEF Init, TypeOK, PlaceType, EventType
<1>2. OrderInv /\ LeaveIsQueued
  BY DEF Init, LeaveIsQueued, OrderInv, QueueInOrder, NoteIsNext, SentIsOldest, JoinIsFirst, LeaveIsLast, Queued
<1>3. StopInv
  BY DEF Init, StopInv, BusFollows, ProducerFollows, ConsumerFollows
<1> QED
  BY <1>1, <1>2, <1>3, InvParts

(* IInv is an invariant: the messages under way are in the order of a life,   *)
(* and each thread is as far as the main thread's stop supposes.             *)
THEOREM InductiveInvariant == Spec => []IInv
<1>1. Init => IInv
  BY InitInv
<1>2. IInv /\ [Next]_vars => IInv'
  <2> SUFFICES ASSUME IInv, [Next]_vars PROVE IInv'
    OBVIOUS
  <2>1. CASE Next
    BY <2>1, InvParts, TypeStep, OrderStep, LeaveStep, StopStepInv DEF IInv, OrderInv, StopInv
  <2>2. CASE UNCHANGED vars
    BY <2>2, Stuttering
  <2> QED
    BY <2>1, <2>2
<1> QED
  BY <1>1, <1>2, PTL DEF Spec

(* A stop of the bus hangs on a thread only if main overtook that thread on  *)
(* its way to the loop, the queue or the dispatcher that the stop would end. *)
THEOREM HangsOnlyInTheWindows == Spec => []HangsOnlyIfMissed
<1>1. IInv => HangsOnlyIfMissed
  BY DEF IInv, BusFollows, ProducerFollows, ConsumerFollows, HangsOnlyIfMissed,
         BusStays, ProducerStays, ConsumerStays
<1> QED
  BY <1>1, InductiveInvariant, PTL

(* Whatever sends fail, what this process announces is in the order of a life. *)
THEOREM AnnouncementsInOrder == Spec => AnnouncedInOrder
<1> DEFINE Ordered == topic' = Append(topic, OwnMessage) =>
                        sent' \in Events /\ (sent = None \/ Before(sent, sent'))
<1>1. IInv /\ [Next]_vars => [Ordered]_vars
  <2> SUFFICES ASSUME IInv, Next PROVE Ordered \/ UNCHANGED vars
    OBVIOUS
  <2>1. CASE ProducerSends
    BY <2>1 DEF ProducerSends, IInv, TypeOK, EventType, NoteIsNext, SentIsOldest
  <2>2. CASE ~ProducerSends
    BY <2>2, TopicStep DEF IInv, TypeOK
  <2> QED
    BY <2>1, <2>2
<1> QED
  BY <1>1, InductiveInvariant, PTL DEF Spec, AnnouncedInOrder
-----------------------------------------------------------------------------
(* What others see of the process: a life. *)

(* The life, by what is under way and how far the bus has got. *)
LEMMA LifeIs ==
  /\ life \in {"unborn", "up", "gone"}
  /\ life = "unborn" <=> bus \in BeforeJoin \/ Join \in UnderWay
  /\ life # "unborn" => (life = "up" <=> bus # "ended" \/ Leave \in UnderWay)
<1>1. JoinPending <=> bus \in BeforeJoin \/ Join \in UnderWay
  BY Ranks DEF JoinPending, BeforeJoin, UnderWay
<1>2. LeavePending <=> bus # "ended" \/ Leave \in UnderWay
  BY Ranks DEF LeavePending, UnderWay
<1> QED
  BY <1>1, <1>2 DEF life

LEMMA LifeIsNext ==
  /\ life' \in {"unborn", "up", "gone"}
  /\ life' = "unborn" <=> bus' \in BeforeJoin \/ Join \in UnderWay'
  /\ life' # "unborn" => (life' = "up" <=> bus' # "ended" \/ Leave \in UnderWay')
<1>1. JoinPending' <=> bus' \in BeforeJoin \/ Join \in UnderWay'
  BY Ranks DEF JoinPending, BeforeJoin, UnderWay
<1>2. LeavePending' <=> bus' # "ended" \/ Leave \in UnderWay'
  BY Ranks DEF LeavePending, UnderWay
<1> QED
  BY <1>1, <1>2 DEF life

(* The life goes on when an event passes, and as that event has it; it rests   *)
(* at every other step.                                                      *)
LEMMA LifeSteps ==
  ASSUME IInv, Next
  PROVE  \/ /\ life' = life /\ sent' = sent
            /\ topic' = topic \/ ConsumerHandles \/ \E m \in Foreign : Arrives(m)
         \/ /\ LifeStep(life, note, life') /\ note \in Events
            /\ \/ sent' = sent /\ topic' = topic
               \/ sent' = note /\ topic' = Append(topic, OwnMessage)
<1>1. TypeOK /\ OrderInv /\ LeaveIsQueued /\ BusFollows
  BY InvParts DEF StopInv
<1>2. Join # KeepAlive /\ Join # Leave /\ KeepAlive # Leave
  BY DEF Join, KeepAlive, Leave
<1>3. ASSUME Passes PROVE LifeStep(life, note, life') /\ note \in Events
  <2>1. note # None /\ bus' = bus /\ UnderWay' = Queued \ {None} /\ UnderWay = (Queued \cup {note}) \ {None}
    BY <1>3 DEF Passes, UnderWay
  <2>2. /\ note \in Events /\ bus \notin BeforeJoin /\ Join \notin Queued
        /\ note = Leave => Queued = {} /\ bus = "ended"
    BY <1>1, <2>1, PassesInOrder
  <2>3. bus = "ended" => Leave \in UnderWay
    BY <1>1, <2>1, Ranks DEF LeaveIsQueued, UnderWay
  <2>4. CASE note = Join
    <3>1. life = "unborn" /\ life' = "up"
      BY <1>2, <2>1, <2>2, <2>3, <2>4, LifeIs, LifeIsNext
    <3> QED
      BY <2>2, <2>4, <3>1 DEF LifeStep, Join
  <2>5. CASE note = KeepAlive
    <3>1. life = "up" /\ life' = "up"
      BY <1>2, <2>1, <2>2, <2>3, <2>5, LifeIs, LifeIsNext
    <3> QED
      BY <2>2, <2>5, <3>1 DEF LifeStep, KeepAlive
  <2>6. CASE note = Leave
    <3>1. life = "up" /\ life' = "gone"
      BY <1>2, <2>1, <2>2, <2>3, <2>6, LifeIs, LifeIsNext
    <3> QED
      BY <2>2, <2>6, <3>1 DEF LifeStep, Leave
  <2> QED
    BY <2>2, <2>4, <2>5, <2>6 DEF Events
<1>4. Rests => life' = life
  BY LifeIs, LifeIsNext DEF Rests, SamePart
<1>5. Posts(Join) /\ bus = "joins" /\ bus' = "checks" => life' = life
  BY <1>2, LifeIs, LifeIsNext DEF Posts, BeforeJoin
<1>6. Posts(KeepAlive) /\ bus = "rechecks" /\ bus' = "checks" => life' = life
  BY <1>2, LifeIs, LifeIsNext DEF Posts, BeforeJoin
<1>7. Posts(Leave) /\ bus = "leaves" /\ bus' = "ended" => life' = life
  BY <1>2, LifeIs, LifeIsNext DEF Posts, BeforeJoin
<1> QED
  BY <1>1, <1>3, <1>4, <1>5, <1>6, <1>7, WaySteps DEF Posts

(* A step of the process is a step of ServiceLife, or none of it: a message    *)
(* that is sent is said, a JOIN or a LEAVE that is lost passes in silence.    *)
LEMMA ServiceStep ==
  ASSUME IInv, [Next]_vars
  PROVE  [Service!Next]_(Service!vars)
<1> USE DEF Service!Next, Service!vars
<1>1. CASE UNCHANGED vars
  <2>1. UnderWay' = UnderWay /\ bus' = bus /\ sent' = sent /\ topic' = topic
    BY <1>1 DEF vars, eventBusVars, producerVars, topicVars, UnderWay, Queued
  <2> QED
    BY <2>1, LifeIs, LifeIsNext
<1>2. CASE life' = life /\ sent' = sent /\ topic' = topic
  BY <1>2
<1>3. CASE life' = life /\ sent' = sent /\ ConsumerHandles
  <2>1. topic # <<>> /\ topic' = Tail(topic)
    BY <1>3 DEF ConsumerHandles, IInv, TypeOK, TopicType
  <2> QED
    BY <1>3, <2>1 DEF Service!Others
<1>4. CASE life' = life /\ sent' = sent /\ \E m \in Foreign : Arrives(m)
  BY <1>4 DEF Arrives, Service!Others
<1>5. ASSUME NEW event \in SystemEvents \cup {Silence},
             LifeStep(life, event, life'), Service!Says(event)
      PROVE  Service!Next
  BY <1>5 DEF Service!Lives, LifeStep, Service!LifeStep, SystemEvents, Service!SystemEvents,
              Silence, Service!Silence
<1>6. CASE /\ LifeStep(life, note, life') /\ note \in Events
           /\ \/ sent' = sent /\ topic' = topic
              \/ sent' = note /\ topic' = Append(topic, OwnMessage)
  <2>1. note \in SystemEvents /\ note # Service!Silence
    BY <1>6 DEF Events, SystemEvents, Service!Silence, Join, KeepAlive, Leave
  <2>2. CASE sent' = note /\ topic' = Append(topic, OwnMessage)
    BY <1>5, <1>6, <2>1, <2>2 DEF Service!Says, OwnMessage
  <2>3. CASE sent' = sent /\ topic' = topic /\ life' # life
    <3>1. LifeStep(life, Silence, life')
      BY <1>6, <2>3 DEF LifeStep
    <3>2. Service!Says(Silence)
      BY <2>3 DEF Service!Says, Silence, Service!Silence
    <3> QED
      BY <1>5, <3>1, <3>2
  <2> QED
    BY <1>2, <1>6, <2>2, <2>3
<1> QED
  BY <1>1, <1>2, <1>3, <1>4, <1>6, LifeSteps

(* The event bus, the queue and the producer, with whatever sends fail and     *)
(* however a stop overtakes them, are one life on the topic.                  *)
THEOREM ServiceLifeCorrect == Spec => ImplementsServiceLife
<1>1. Init => Service!Init
  BY LifeIs DEF Init, Service!Init, BeforeJoin
<1>2. IInv /\ [Next]_vars => [Service!Next]_(Service!vars)
  BY ServiceStep
<1> QED
  BY <1>1, <1>2, InductiveInvariant, PTL DEF Spec, ImplementsServiceLife, Service!Spec

(* ServingInv is an invariant with IInv. *)
LEMMA ServingStep == ASSUME IInv, ServingInv, [Next]_vars PROVE ServingInv'
<1>1. TypeOK /\ OrderInv /\ StopInv
  BY InvParts
<1>2. CASE EventBusStep
  <2>1. /\ main' = main /\ producerRunning_' = producerRunning_ /\ UNCHANGED consumerVars
        /\ \/ producer' = producer /\ note' = note
           \/ producer = "waits" /\ producer' = "took" /\ note' # None
    BY <1>2, Ranks
       DEF EventBusStep, BusUp, BusJoins, BusChecks, BusWakes, BusBeats, BusLeaves, Post,
           producerVars, consumerVars, Events
  <2>2. main = "serves" /\ bus' # "started" => busRunning_' /\ bus' \notin {"leaves", "ended"}
    BY <1>2 DEF EventBusStep, BusUp, BusJoins, BusChecks, BusWakes, BusBeats, BusLeaves, ServingInv
  <2> QED
    BY <2>1, <2>2 DEF ServingInv, consumerVars
<1>3. CASE ProducerStep
  <2>1. Queue_ # <<>> => Head(Queue_) # None
    <3>1. Queue_ \in Seq(Events) /\ None \notin Events
      BY <1>1, Ranks DEF TypeOK, EventType
    <3> HIDE DEF Events
    <3> QED
      BY <3>1, HeadTailProperties
  <2> QED
    BY <1>3, <2>1
       DEF ProducerStep, ProducerUp, ProducerAsks, ProducerTook, ProducerSends, ProducerFails,
           eventBusVars, consumerVars, ServingInv
<1>4. CASE ConsumerStep \/ ConsumerHandles
  BY <1>4 DEF ConsumerStep, ConsumerUp, DispatcherMade, DispatcherRuns, ConsumerPolls,
              ConsumerHandles, ConsumerCommits, eventBusVars, producerVars, ServingInv
<1>5. CASE StartStep \/ StopBus
  BY <1>1, <1>5 DEF StartStep, StartConsumer, StartProducer, StartBus, StopBus,
         eventBusVars, producerVars, consumerVars, ServingInv, StopInv, ConsumerFollows
<1>6. CASE StopStep
  BY <1>6 DEF StopStep, WakeBus, JoinBus, StopProducer, WakeProducer, JoinProducer,
              StopConsumer, HaltConsumer, JoinConsumer, ServingInv
<1>7. CASE (\E m \in Foreign : Arrives(m)) \/ UNCHANGED vars
  BY <1>7 DEF Arrives, vars, eventBusVars, producerVars, consumerVars, ServingInv
<1> QED
  BY <1>2, <1>3, <1>4, <1>5, <1>6, <1>7 DEF Next

(* Nothing of the process itself keeps its keep-alives from its consumer while *)
(* it serves: the bus posts, the producer drops nothing, the dispatcher polls. *)
THEOREM BeatsCorrect == Spec => []BeatsGoOn
<1>1. Init => ServingInv
  BY DEF Init, ServingInv
<1>2. IInv /\ ServingInv /\ [Next]_vars => ServingInv'
  BY ServingStep
<1>3. ServingInv => BeatsGoOn
  BY DEF ServingInv, BeatsGoOn
<1> QED
  BY <1>1, <1>2, <1>3, InductiveInvariant, PTL DEF Spec
-----------------------------------------------------------------------------
(* The registry of the same process, which the consumer feeds from the topic. *)

(* A message at the end of a sequence leaves those before it in their places. *)
LEMMA Appended ==
  ASSUME NEW M, NEW s \in Seq(M), NEW m \in M
  PROVE  /\ Append(s, m) \in Seq(M)
         /\ \A n \in DOMAIN s : n \in DOMAIN Append(s, m) /\ Append(s, m)[n] = s[n]
         /\ Len(s) + 1 \in DOMAIN Append(s, m) /\ Append(s, m)[Len(s) + 1] = m
         /\ \A n \in DOMAIN Append(s, m) \ DOMAIN s : n = Len(s) + 1
         /\ \A n \in DOMAIN s : n > 0 /\ n < Len(s) + 1
         /\ Len(s) + 1 > 0
<1>1. DOMAIN s = 1 .. Len(s) /\ Len(s) \in Nat
  BY LenProperties
<1>2. Append(s, m) \in Seq(M) /\ DOMAIN Append(s, m) = 1 .. Len(s) + 1
  BY AppendProperties, LenProperties
<1>3. Append(s, m)[Len(s) + 1] = m /\ \A n \in 1 .. Len(s) : Append(s, m)[n] = s[n]
  BY AppendProperties
<1> QED
  BY <1>1, <1>2, <1>3

(* Without its head, a sequence has each other message one place nearer. *)
LEMMA Shifted ==
  ASSUME NEW M, NEW s \in Seq(M), s # <<>>
  PROVE  /\ Head(s) \in M /\ 1 \in DOMAIN s /\ s[1] = Head(s)
         /\ Tail(s) \in Seq(M)
         /\ \A n \in DOMAIN Tail(s) : n > 0 /\ n + 1 \in DOMAIN s /\ Tail(s)[n] = s[n + 1]
         /\ \A n \in DOMAIN s : n > 1 => n - 1 \in DOMAIN Tail(s) /\ Tail(s)[n - 1] = s[n]
<1>1. DOMAIN s = 1 .. Len(s) /\ Len(s) \in Nat /\ Len(s) > 0
  BY LenProperties, EmptySeq
<1>2. /\ Head(s) \in M /\ Head(s) = s[1] /\ Tail(s) \in Seq(M)
      /\ DOMAIN Tail(s) = 1 .. Len(s) - 1 /\ \A n \in 1 .. Len(s) - 1 : Tail(s)[n] = s[n + 1]
  BY HeadTailProperties, LenProperties
<1> QED
  BY <1>1, <1>2

(* Every message is one of a peer, or this process's own. *)
LEMMA RegistryMessage ==
  /\ \A p \in Peers, i \in Nat, e \in SystemEvents :
       /\ Message(p, i, e) \in SystemMessages
       /\ Message(p, i, e).from = p /\ Message(p, i, e).id = i
  /\ OwnBeat \in SystemMessages /\ OwnBeat.from = Self
BY DEF Message, OwnBeat, SystemMessages, SystemEvents

(* What reaches the broker with the ids as they are leaves each JOIN where it *)
(* waits, and is itself of the present id.                                   *)
LEMMA RegistrySends ==
  ASSUME RegistryInv, NEW m \in SystemMessages, Sends(m),
         UNCHANGED <<Services_, age, id, lost, open, steps>>, up' \in [Peers -> BOOLEAN],
         m.from \in Peers => m.id = id[m.from]
  PROVE  RegistryInv'
<1>1. topic' = Append(topic, m) /\ topic \in Seq(SystemMessages)
  BY DEF Sends, RegistryInv, RegistryTypeOK
<1>2. topic' \in Seq(SystemMessages)
  BY <1>1, Appended
<1>3. ASSUME NEW p \in Peers, NEW n, JoinWaits(p, n) PROVE JoinWaits(p, n)'
  BY <1>1, <1>3, Appended DEF JoinWaits, Message
<1>4. EntryGivesWay'
  BY <1>3 DEF EntryGivesWay, RegistryInv
<1>5. OldMessagesFirst'
  BY <1>1, <1>3, Appended DEF OldMessagesFirst, RegistryInv
<1> QED
  BY <1>2, <1>4, <1>5 DEF RegistryInv, RegistryTypeOK

(* A start: the JOIN of the new id goes behind everything of the former ones, *)
(* or is lost.                                                               *)
LEMMA RegistryStarts ==
  ASSUME RegistryInv, NEW q \in Peers, Starts(q)
  PROVE  RegistryInv'
<1> DEFINE m == Message(q, id[q] + 1, "join")
<1>1. /\ topic \in Seq(SystemMessages) /\ id \in [Peers -> Nat \ {0}]
      /\ UNCHANGED <<open, Services_, age, steps>>
      /\ id' \in [Peers -> Nat \ {0}] /\ id'[q] = id[q] + 1
      /\ \A p \in Peers \ {q} : id'[p] = id[p] /\ lost'[p] = lost[p]
  BY DEF Starts, RegistryInv, RegistryTypeOK, entryVars
<1>2. m \in SystemMessages /\ m.from = q
  BY <1>1, RegistryMessage DEF SystemEvents
<1>3. up' \in [Peers -> BOOLEAN] /\ lost' \in [Peers -> BOOLEAN]
  <2>1. up \in [Peers -> BOOLEAN] /\ lost \in [Peers -> BOOLEAN]
    BY DEF RegistryInv, RegistryTypeOK
  <2>2. /\ up' = [up EXCEPT ![q] = TRUE]
        /\ \/ lost' = [lost EXCEPT ![q] = FALSE]
           \/ lost' = [lost EXCEPT ![q] = TRUE]
    BY DEF Starts
  <2> QED
    BY <2>1, <2>2
<1>4. \/ topic' = Append(topic, m)
      \/ topic' = topic /\ lost'[q]
  BY <1>1 DEF Starts, Sends, RegistryInv, RegistryTypeOK
<1> HIDE DEF m
<1>5. topic' \in Seq(SystemMessages) /\ \A k \in DOMAIN topic : k \in DOMAIN topic' /\ topic'[k] = topic[k]
  <2>1. CASE topic' = Append(topic, m)
    BY <1>1, <1>2, <2>1, Appended
  <2> QED
    BY <1>1, <1>4, <2>1
<1>6. ASSUME NEW p \in Peers \ {q}, NEW n, JoinWaits(p, n) PROVE JoinWaits(p, n)'
  BY <1>1, <1>5, <1>6 DEF JoinWaits, Message
<1>7. ~lost'[q] => \A n \in DOMAIN topic \cup {0} : JoinWaits(q, n)'
  <2>1. CASE topic' = Append(topic, m) /\ ~lost'[q]
    <3>1. /\ Len(topic) + 1 \in DOMAIN topic' /\ topic'[Len(topic) + 1] = m
          /\ \A n \in DOMAIN topic \cup {0} : Len(topic) + 1 > n
      BY <1>1, <1>2, <2>1, Appended
    <3>2. m = Message(q, id'[q], "join")
      BY <1>1 DEF m
    <3> QED
      BY <3>1, <3>2 DEF JoinWaits, Message
  <2> QED
    BY <1>4, <2>1
<1>8. EntryGivesWay'
  BY <1>1, <1>6, <1>7 DEF EntryGivesWay, RegistryInv
<1>9. OldMessagesFirst'
  <2> SUFFICES ASSUME NEW p \in Peers, NEW n \in DOMAIN topic', ~lost'[p],
                      topic'[n].from = p, topic'[n].id # id'[p]
               PROVE  JoinWaits(p, n)'
    BY DEF OldMessagesFirst
  <2>1. n \in DOMAIN topic /\ topic'[n] = topic[n]
    <3>1. ASSUME topic' = Append(topic, m), n \notin DOMAIN topic PROVE FALSE
      <4>1. topic'[n] = m
        BY <1>1, <1>2, <3>1, Appended
      <4>2. m.from = q /\ m.id = id'[q]
        BY <1>1 DEF m, Message
      <4> QED
        BY <4>1, <4>2
    <3> QED
      BY <1>4, <1>5, <3>1
  <2> QED
    BY <1>1, <1>6, <1>7, <2>1 DEF OldMessagesFirst, RegistryInv
<1> QED
  BY <1>1, <1>3, <1>5, <1>8, <1>9 DEF RegistryInv, RegistryTypeOK

(* The consumer hands the first message on: a JOIN of the present id makes    *)
(* the entry, and whatever else can make an entry of a former id came before. *)
LEMMA RegistryHandles ==
  ASSUME RegistryInv, Handles
  PROVE  RegistryInv'
<1> DEFINE m == Head(topic)
<1>1. /\ topic \in Seq(SystemMessages) /\ topic # <<>> /\ topic' = Tail(topic)
      /\ UNCHANGED <<open, up, id, lost, steps>>
      /\ Services_ \in [Peers -> Nat] /\ age \in [Peers -> Int] /\ id \in [Peers -> Nat \ {0}]
  BY DEF Handles, RegistryInv, RegistryTypeOK, peerVars
<1>2. /\ m \in SystemMessages /\ topic' \in Seq(SystemMessages)
      /\ 1 \in DOMAIN topic /\ topic[1] = m
      /\ \A n \in DOMAIN topic' : n > 0 /\ n + 1 \in DOMAIN topic /\ topic'[n] = topic[n + 1]
      /\ \A n \in DOMAIN topic : n > 1 => n - 1 \in DOMAIN topic' /\ topic'[n - 1] = topic[n]
      /\ DOMAIN topic \subseteq Nat /\ DOMAIN topic' \subseteq Nat
  BY <1>1, Shifted, LenProperties
<1> HIDE DEF m
<1>3. ASSUME NEW p \in Peers, NEW n \in Nat \ {0}, JoinWaits(p, n)
      PROVE  JoinWaits(p, n - 1)'
  <2>1. PICK k \in DOMAIN topic : k > n /\ topic[k] = Message(p, id[p], "join")
    BY <1>3 DEF JoinWaits
  <2>2. k \in Nat /\ k > 1 /\ k - 1 \in DOMAIN topic' /\ topic'[k - 1] = topic[k] /\ k - 1 > n - 1
    BY <1>2, <2>1
  <2> QED
    BY <1>1, <2>1, <2>2 DEF JoinWaits, Message
<1>4. ASSUME NEW p \in Peers
      PROVE  Services_'[p] \in {0, Services_[p], m.id} /\ age'[p] \in Int
             /\ (m.from # p => Services_'[p] \in {0, Services_[p]})
             /\ (m = Message(p, id[p], "join") => Services_'[p] \in {0, id[p]})
  BY <1>1, <1>2 DEF Handles, BusMessageReceived, Entry,
     Seen, Message, m, SystemMessages
<1>5. Services_' \in [Peers -> Nat] /\ age' \in [Peers -> Int]
  <2>1. /\ DOMAIN Services_' = Peers /\ Services_' = [p \in DOMAIN Services_' |-> Services_'[p]]
        /\ DOMAIN age' = Peers /\ age' = [p \in DOMAIN age' |-> age'[p]]
    BY DEF Handles, BusMessageReceived
  <2>2. m.id \in Nat
    BY <1>2 DEF SystemMessages
  <2>3. \A p \in Peers : Services_'[p] \in Nat /\ age'[p] \in Int
    <3> TAKE p \in Peers
    <3>1. Services_[p] \in Nat /\ Services_'[p] \in {0, Services_[p], m.id} /\ age'[p] \in Int
      BY <1>1, <1>4
    <3> QED
      BY <2>2, <3>1
  <2> QED
    BY <2>1, <2>3
<1>6. EntryGivesWay'
  <2> SUFFICES ASSUME NEW p \in Peers, ~lost[p], Services_'[p] \notin {0, id[p]}
               PROVE  JoinWaits(p, 0)'
    BY <1>1 DEF EntryGivesWay
  <2>1. CASE m.from = p /\ m.id # id[p]
    BY <1>2, <1>3, <2>1 DEF OldMessagesFirst, RegistryInv
  <2>2. CASE ~(m.from = p /\ m.id # id[p])
    <3>1. Services_[p] \notin {0, id[p]}
      BY <1>4, <2>2
    <3>2. PICK k \in DOMAIN topic : k > 0 /\ topic[k] = Message(p, id[p], "join")
      BY <3>1 DEF EntryGivesWay, RegistryInv, JoinWaits
    <3>3. k # 1
      BY <1>2, <1>4, <3>2
    <3> QED
      BY <1>2, <1>3, <3>2, <3>3 DEF JoinWaits
  <2> QED
    BY <2>1, <2>2
<1>7. OldMessagesFirst'
  <2> SUFFICES ASSUME NEW p \in Peers, NEW n \in DOMAIN topic', ~lost[p],
                      topic'[n].from = p, topic'[n].id # id[p]
               PROVE  JoinWaits(p, n)'
    BY <1>1 DEF OldMessagesFirst
  <2>1. JoinWaits(p, n + 1)
    BY <1>2 DEF OldMessagesFirst, RegistryInv
  <2>2. n \in Nat /\ n + 1 \in Nat \ {0} /\ n + 1 - 1 = n
    BY <1>2
  <2> QED
    BY <1>3, <2>1, <2>2
<1> QED
  BY <1>1, <1>2, <1>5, <1>6, <1>7 DEF RegistryInv, RegistryTypeOK

(* Every other step leaves the topic, the entries' ids and the ids alone. *)
LEMMA RegistryAside ==
  ASSUME RegistryInv,
         \/ Closes \/ Tick \/ SetBack
         \/ \E p \in Peers : Crashes(p)
         \/ UNCHANGED registryVars
  PROVE  RegistryInv'
<1>1. UNCHANGED <<topic, Services_, id, lost>>
  BY DEF Closes, Tick, SetBack, Crashes, registryVars,
         entryVars, peerVars
<1>2. open' \in BOOLEAN /\ steps' \in Nat /\ up' \in [Peers -> BOOLEAN]
  <2>1. open \in BOOLEAN /\ steps \in Nat /\ up \in [Peers -> BOOLEAN]
    BY DEF RegistryInv, RegistryTypeOK
  <2>2. CASE \E p \in Peers : Crashes(p)
    BY <2>1, <2>2 DEF Crashes
  <2>3. CASE ~\E p \in Peers : Crashes(p)
    <3>1. up' = up /\ (open' = open \/ open' = FALSE) /\ (steps' = steps \/ steps' = steps + 1)
      BY <2>3 DEF Closes, Tick, SetBack,
             registryVars, peerVars
    <3>2. steps' \in Nat
      BY <2>1, <3>1
    <3>3. up' \in [Peers -> BOOLEAN]
      BY <2>1, <3>1
    <3>4. open' \in BOOLEAN
      BY <2>1, <3>1, Zenon
    <3> QED
      BY <3>2, <3>3, <3>4
  <2> QED
    BY <2>2, <2>3
<1>3. age' \in [Peers -> Int]
  BY DEF RegistryInv, RegistryTypeOK, Closes, Tick, SetBack,
         Crashes, registryVars, entryVars, peerVars, Aged
<1>4. EntryGivesWay' /\ OldMessagesFirst'
  BY <1>1 DEF RegistryInv, EntryGivesWay, OldMessagesFirst,
         JoinWaits, Message
<1> QED
  BY <1>1, <1>2, <1>3, <1>4 DEF RegistryInv, RegistryTypeOK

(* The registry's inductive invariant. *)
LEMMA RegistryStep ==
  ASSUME RegistryInv, [RegistryNext]_registryVars
  PROVE  RegistryInv'
<1>1. CASE Handles
  BY <1>1, RegistryHandles
<1>2. CASE OwnBeats
  <2>1. up' = up /\ up \in [Peers -> BOOLEAN]
    BY <1>2 DEF OwnBeats, RegistryInv, RegistryTypeOK, peerVars
  <2> QED
    BY <1>2, <2>1, PeersAssumption, RegistrySends, RegistryMessage
    DEF OwnBeats, entryVars, peerVars
<1>3. ASSUME NEW p \in Peers, Starts(p) PROVE RegistryInv'
  BY <1>3, RegistryStarts
<1>4. ASSUME NEW p \in Peers, Beats(p) \/ Leaves(p) PROVE RegistryInv'
  <2>1. PICK e \in SystemEvents : Sends(Message(p, id[p], e))
    BY <1>4 DEF Beats, Leaves, SystemEvents
  <2>2. id[p] \in Nat /\ up' \in [Peers -> BOOLEAN]
    BY <1>4 DEF RegistryInv, RegistryTypeOK, Beats, Leaves, peerVars
  <2>3. UNCHANGED <<Services_, age, id, lost, open, steps>>
    BY <1>4 DEF Beats, Leaves, entryVars, peerVars
  <2> QED
    BY <2>1, <2>2, <2>3, RegistrySends, RegistryMessage
<1> QED
  BY <1>1, <1>2, <1>3, <1>4, RegistryAside DEF RegistryNext

(* RegistryInv is an invariant: what is left of the former lives of a service   *)
(* is ahead of the JOIN of its present one.                                   *)
THEOREM RegistryInvariant == RegistrySpec => []RegistryInv
<1>1. RegistryInit => RegistryInv
  <2> SUFFICES ASSUME RegistryInit PROVE RegistryInv
    OBVIOUS
  <2>1. /\ open \in BOOLEAN /\ steps \in Nat
        /\ Services_ \in [Peers -> Nat] /\ age \in [Peers -> Int]
        /\ up \in [Peers -> BOOLEAN] /\ id \in [Peers -> Nat \ {0}] /\ lost \in [Peers -> BOOLEAN]
    BY DEF RegistryInit
  <2>2. topic \in Seq(SystemMessages) /\ \A n \in DOMAIN topic : topic[n].from \in Peers => topic[n].id = 1
    <3>1. CASE topic = <<>>
      BY <3>1
    <3>2. ASSUME NEW p \in Peers, NEW e \in SystemEvents, topic = <<Message(p, 1, e)>>
          PROVE  topic \in Seq(SystemMessages) /\ \A n \in DOMAIN topic : topic[n].id = 1
      <4>1. Message(p, 1, e) \in SystemMessages /\ Message(p, 1, e).id = 1
        BY RegistryMessage
      <4> QED
        BY <3>2, <4>1
    <3> QED
      BY <3>1, <3>2 DEF RegistryInit
  <2>3. EntryGivesWay /\ OldMessagesFirst
    BY <2>2 DEF RegistryInit, EntryGivesWay, OldMessagesFirst
  <2> QED
    BY <2>1, <2>2, <2>3 DEF RegistryInv, RegistryTypeOK
<1>2. RegistryInv /\ [RegistryNext]_registryVars => RegistryInv'
  BY RegistryStep
<1> QED
  BY <1>1, <1>2, PTL DEF RegistrySpec


(* What a process knows of a service that lives is what that service announced *)
(* when it started last, unless the announcement was lost or still waits.     *)
THEOREM RegistryIsCurrent == RegistrySpec => []StaleOnlyIfJoinLost
<1>1. RegistryInv => StaleOnlyIfJoinLost
  BY DEF RegistryInv, EntryGivesWay, JoinWaits, StaleOnlyIfJoinLost, Known
<1> QED
  BY <1>1, RegistryInvariant, PTL

(* What the registry expects of a service is a life: a service announces, loses *)
(* and leaves nothing in an order that ServiceLife does not have, and takes a   *)
(* new id when it begins another.                                             *)
THEOREM PeersAreLives ==
  ASSUME RegistryTypeOK, NEW p \in Peers
  PROVE  (Starts(p) \/ Beats(p) \/ Leaves(p) \/ Crashes(p)) <=> LivesOn(p)
<1>1. /\ up \in [Peers -> BOOLEAN] /\ lost \in [Peers -> BOOLEAN]
      /\ up[p] \in BOOLEAN
  BY DEF RegistryTypeOK
<1> USE DEF SystemEvents, Silence
<1>2. Starts(p) => LivesOn(p)
  <2> SUFFICES ASSUME Starts(p) PROVE LivesOn(p)
    OBVIOUS
  <2> USE DEF Starts
  <2>1. ~up[p] /\ up' = [up EXCEPT ![p] = TRUE] /\ id'[p] = id[p] + 1
    BY DEF RegistryTypeOK
  <2>2. LifeStep("unborn", "join", "up") /\ LifeStep("unborn", Silence, "up")
    BY DEF LifeStep
  <2>3. CASE Sends(Message(p, id[p] + 1, "join")) /\ lost' = [lost EXCEPT ![p] = FALSE]
    BY <2>1, <2>2, <2>3 DEF LivesOn
  <2>4. CASE UNCHANGED topic /\ lost' = [lost EXCEPT ![p] = TRUE]
    BY <2>1, <2>2, <2>4 DEF LivesOn
  <2> QED
    BY <2>3, <2>4
<1>3. Beats(p) => LivesOn(p)
  BY <1>1 DEF Beats, LivesOn, LifeStep, peerVars
<1>4. Leaves(p) => LivesOn(p)
  BY <1>1 DEF Leaves, LivesOn, LifeStep
<1>5. Crashes(p) => LivesOn(p)
  BY <1>1 DEF Crashes, LivesOn, LifeStep
<1>6. LivesOn(p) => Starts(p) \/ Beats(p) \/ Leaves(p) \/ Crashes(p)
  <2> SUFFICES ASSUME NEW event \in SystemEvents \cup {Silence}, NEW after \in {"up", "gone"},
                      LifeStep(IF up[p] THEN "up" ELSE "unborn", event, after),
                      up' = [up EXCEPT ![p] = (after = "up")],
                      IF up[p]
                        THEN UNCHANGED <<id, lost>>
                        ELSE /\ id[p] < MaxId /\ id' = [id EXCEPT ![p] = @ + 1]
                             /\ lost' = [lost EXCEPT ![p] = (event = Silence)],
                      IF event = Silence THEN UNCHANGED topic
                                         ELSE Sends(Message(p, id'[p], event)),
                      UNCHANGED <<open, entryVars, steps>>
               PROVE  Starts(p) \/ Beats(p) \/ Leaves(p) \/ Crashes(p)
    BY DEF LivesOn
  <2>1. CASE ~up[p]
    <3>1. event \in {"join", Silence} /\ after = "up" /\ id'[p] = id[p] + 1
      BY <2>1 DEF LifeStep, RegistryTypeOK
    <3> QED
      BY <2>1, <3>1 DEF Starts
  <2>2. CASE up[p] /\ event = "keep-alive"
    <3>1. up' = up
      BY <1>1, <2>2 DEF LifeStep
    <3> QED
      BY <2>2, <3>1 DEF Beats, peerVars
  <2>3. CASE up[p] /\ event # "keep-alive"
    <3>1. event \in {"leave", Silence} /\ after = "gone"
      BY <2>3 DEF LifeStep
    <3> QED
      BY <2>3, <3>1 DEF Leaves, Crashes
  <2> QED
    BY <2>1, <2>2, <2>3
<1> QED
  BY <1>2, <1>3, <1>4, <1>5, <1>6

(* An entry of a service that has gone, with nothing of it on its way, only    *)
(* ages, and goes with the next message that finds it too old.                *)
THEOREM DepartedCorrect == RegistrySpec => DepartedFade
<1> DEFINE Fades(p) == /\ Waits(p)' => up'[p]
                       /\ Known(p)' => Services_'[p] = Services_[p] /\ (age'[p] >= age[p] \/ SetBack)
                       /\ Handles /\ Expired(age[p]) => ~Known(p)'
           Fade == \A p \in Peers : ~up[p] /\ Known(p) /\ ~Waits(p) => Fades(p)
<1>1. RegistryInv /\ [RegistryNext]_registryVars => [Fade]_registryVars
  <2> SUFFICES ASSUME RegistryInv, RegistryNext, NEW p \in Peers,
                      ~up[p], Known(p), ~Waits(p)
               PROVE  Fades(p)
    OBVIOUS
  <2>1. /\ topic \in Seq(SystemMessages) /\ p # Self /\ age \in [Peers -> Int]
        /\ up \in [Peers -> BOOLEAN] /\ id \in [Peers -> Nat \ {0}]
    BY PeersAssumption DEF RegistryInv, RegistryTypeOK
  <2>2. ASSUME NEW m \in SystemMessages, topic' = Append(topic, m), m.from # p
        PROVE  ~Waits(p)'
    BY <2>1, <2>2, Appended DEF Waits
  <2>3. CASE Handles
    <3>1. /\ topic # <<>> /\ topic' = Tail(topic)
          /\ Services_' = [q \in Peers |-> IF Expired(Seen(Head(topic), q)) THEN 0
                                            ELSE Entry(Head(topic), q)]
          /\ age' = [q \in Peers |-> IF Services_'[q] = 0 THEN 0 ELSE Seen(Head(topic), q)]
      BY <2>3 DEF Handles, BusMessageReceived
    <3>2. 1 \in DOMAIN topic /\ topic[1] = Head(topic)
          /\ \A n \in DOMAIN topic' : n + 1 \in DOMAIN topic /\ topic'[n] = topic[n + 1]
      BY <2>1, <3>1, Shifted
    <3>3. Head(topic).from # p /\ ~Waits(p)'
      BY <3>2 DEF Waits
    <3>4. Services_'[p] = (IF Expired(age[p]) THEN 0 ELSE Services_[p])
          /\ (Services_'[p] # 0 => age'[p] = age[p])
      BY <3>1, <3>3 DEF Seen, Entry
    <3> QED
      BY <2>1, <3>3, <3>4 DEF Known
  <2>4. CASE Tick \/ SetBack \/ Closes \/ \E q \in Peers : Crashes(q)
    <3>1. UNCHANGED <<topic, Services_>> /\ (age'[p] >= age[p] \/ SetBack)
      <4>1. CASE Tick
        <5>1. age' = Aged(1) /\ age[p] \in Int
          BY <2>1, <4>1 DEF Tick
        <5>2. Aged(1)[p] \in {age[p], age[p] + 1}
          BY DEF Aged
        <5> QED
          BY <4>1, <5>1, <5>2 DEF Tick
      <4>2. CASE SetBack
        BY <4>2 DEF SetBack
      <4>3. CASE Closes \/ \E q \in Peers : Crashes(q)
        BY <2>1, <4>3 DEF Closes, Crashes, entryVars
      <4> QED
        BY <2>4, <4>1, <4>2, <4>3
    <3> QED
      BY <2>3, <3>1 DEF Waits
  <2>5. ASSUME NEW m \in SystemMessages, Sends(m), m.from # p, UNCHANGED entryVars
        PROVE  Fades(p)
    BY <2>1, <2>2, <2>3, <2>5 DEF Sends, entryVars
  <2>6. CASE OwnBeats
    BY <2>1, <2>5, <2>6, RegistryMessage DEF OwnBeats
  <2>7. ASSUME NEW q \in Peers, Starts(q) PROVE Fades(p)
    <3>1. UNCHANGED entryVars /\ up' = [up EXCEPT ![q] = TRUE]
          /\ (Sends(Message(q, id[q] + 1, "join")) \/ topic' = topic)
      BY <2>7 DEF Starts
    <3>2. CASE q = p
      <4>1. up'[p]
        BY <2>1, <3>1, <3>2
      <4> QED
        BY <2>1, <2>3, <3>1, <4>1 DEF entryVars
    <3>3. CASE q # p /\ topic' = topic
      BY <2>1, <2>3, <3>1, <3>3 DEF Waits, entryVars
    <3>4. CASE q # p /\ Sends(Message(q, id[q] + 1, "join"))
      <4>1. id[q] + 1 \in Nat /\ "join" \in SystemEvents
        BY <2>1 DEF SystemEvents
      <4> QED
        BY <2>5, <3>1, <3>4, <4>1, RegistryMessage
    <3> QED
      BY <3>1, <3>2, <3>3, <3>4
  <2>8. ASSUME NEW q \in Peers, Beats(q) \/ Leaves(q) PROVE Fades(p)
    <3>1. q # p /\ UNCHANGED entryVars /\ \E e \in SystemEvents : Sends(Message(q, id[q], e))
      BY <2>8 DEF Beats, Leaves, SystemEvents
    <3> QED
      BY <2>1, <2>5, <3>1, RegistryMessage
  <2> QED
    BY <2>3, <2>4, <2>6, <2>7, <2>8 DEF RegistryNext
<1> QED
  BY <1>1, RegistryInvariant, PTL DEF RegistrySpec, DepartedFade
=============================================================================
