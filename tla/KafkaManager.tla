---------------------------- MODULE KafkaManager ----------------------------
(***************************************************************************)
(* A process on the service bus: EventBusManager announces it, the          *)
(* KafkaProducer sends what is queued, the KafkaConsumer hands on what      *)
(* arrives, and the main thread starts them and stops them again.           *)
(*                                                                         *)
(* Poco::NotificationQueue, Poco::Thread's trySleep and wakeUp, the broker   *)
(* and cppkafka's dispatcher are external.  wakeUpAll reaches only a thread  *)
(* that waits already; wakeUp is remembered; the dispatcher's run() raises   *)
(* the flag that its stop() lowers.                                          *)
(***************************************************************************)
EXTENDS ServiceBus, Naturals

CONSTANTS
  Foreign,      \* the messages of other processes
  None,         \* no notification
  MaxQueue      \* bound on the queue when a keep-alive is posted

Join == "join"
KeepAlive == "keep-alive"
Leave == "leave"
Events == {Join, KeepAlive, Leave}
OwnMessage == [from |-> Self]     \* no receiver here looks further

ASSUME BoundsAssumption == MaxQueue \in Nat \ {0} /\ MaxTopic \in Nat \ {0}
ASSUME MessagesAssumption == None \notin Events /\ OwnMessage \notin Foreign

VARIABLES
  main,         \* where the main thread is
  bus, busRunning_, woken,              \* EventBusManager, its wake-up event
  producer, producerRunning_, Queue_, note,
  consumer, consumerRunning_, dispatching,   \* the dispatcher's own flag
  sent,         \* the last event of this process that reached the broker
  missed        \* the threads that a stop of main came too early for

eventBusVars == <<bus, busRunning_, woken>>
producerVars == <<producer, producerRunning_, Queue_, note>>
consumerVars == <<consumer, consumerRunning_, dispatching>>
topicVars == <<topic, sent>>
vars == <<main, eventBusVars, producerVars, consumerVars, topicVars, missed>>

(* The consumer may find messages that were sent before it started. *)
Init ==
  /\ main = "startConsumer"
  /\ bus = "idle" /\ busRunning_ = FALSE /\ woken = FALSE
  /\ producer = "idle" /\ producerRunning_ = FALSE
  /\ Queue_ = <<>> /\ note = None
  /\ consumer = "idle" /\ consumerRunning_ = FALSE /\ dispatching = FALSE
  /\ topic \in {<<>>} \cup {<<m>> : m \in Foreign}
  /\ sent = None
  /\ missed = {}
-----------------------------------------------------------------------------
(* Mutated forms of definitions below, one slip in the code each. *)

PostsInFront(event) ==                    \* a queue served from the wrong end
  IF producer = "waits"
    THEN note' = event /\ producer' = "took" /\ UNCHANGED Queue_
    ELSE Queue_' = <<event>> \o Queue_ /\ UNCHANGED <<note, producer>>

WakesNobody ==                            \* the flag lowered, and no wake-up
  /\ main = "wakeProducer"
  /\ main' = "joinProducer"
  /\ UNCHANGED <<eventBusVars, producerVars, consumerVars, topicVars, missed>>

-----------------------------------------------------------------------------
(* KafkaProducer::Produce: the queue hands the message to a thread that      *)
(* waits for one.                                                            *)
Post(event) ==
  IF producer = "waits"
    THEN note' = event /\ producer' = "took" /\ UNCHANGED Queue_
    ELSE Queue_' = Append(Queue_, event) /\ UNCHANGED <<note, producer>>

(* A mutated form of BusBeats below. *)
BeatsOnce ==                              \* an if where the while is
  /\ bus = "rechecks"
  /\ Post(KeepAlive)
  /\ bus' = "leaves"
  /\ UNCHANGED <<main, busRunning_, woken, producerRunning_, consumerVars, topicVars, missed>>

(* EventBusManager::run. *)
BusUp ==
  /\ bus = "started"
  /\ busRunning_' = TRUE
  /\ bus' = "joins"
  /\ UNCHANGED <<main, woken, producerVars, consumerVars, topicVars, missed>>

BusJoins ==
  /\ bus = "joins"
  /\ Post(Join)
  /\ bus' = "checks"
  /\ UNCHANGED <<main, busRunning_, woken, producerRunning_, consumerVars, topicVars, missed>>

BusChecks ==
  /\ bus = "checks"
  /\ bus' = IF busRunning_ THEN "sleeps" ELSE "leaves"
  /\ UNCHANGED <<main, busRunning_, woken, producerVars, consumerVars, topicVars, missed>>

(* trySleep ends by its time or by a wake-up, which it consumes. *)
BusWakes ==
  /\ bus = "sleeps"
  /\ woken \/ Len(Queue_) < MaxQueue
  /\ woken' = FALSE
  /\ bus' = "rechecks"
  /\ UNCHANGED <<main, busRunning_, producerVars, consumerVars, topicVars, missed>>

BusBeats ==
  /\ bus = "rechecks"
  /\ \/ /\ busRunning_
        /\ Post(KeepAlive)
        /\ bus' = "checks"
     \/ /\ ~busRunning_
        /\ bus' = "leaves"
        /\ UNCHANGED <<Queue_, note, producer>>
  /\ UNCHANGED <<main, busRunning_, woken, producerRunning_, consumerVars, topicVars, missed>>

BusLeaves ==
  /\ bus = "leaves"
  /\ Post(Leave)
  /\ bus' = "ended"
  /\ UNCHANGED <<main, busRunning_, woken, producerRunning_, consumerVars, topicVars, missed>>
-----------------------------------------------------------------------------
(* KafkaProducer::run. *)
ProducerUp ==
  /\ producer = "started"
  /\ producerRunning_' = TRUE
  /\ producer' = "asks"
  /\ UNCHANGED <<main, eventBusVars, Queue_, note, consumerVars, topicVars, missed>>

(* waitDequeueNotification: a message, or a place among those that wait. *)
ProducerAsks ==
  /\ producer = "asks"
  /\ \/ /\ Queue_ # <<>>
        /\ note' = Head(Queue_) /\ Queue_' = Tail(Queue_)
        /\ producer' = "took"
     \/ /\ Queue_ = <<>>
        /\ producer' = "waits"
        /\ UNCHANGED <<note, Queue_>>
  /\ UNCHANGED <<main, eventBusVars, producerRunning_, consumerVars, topicVars, missed>>

(* while (Note && Running_): a message taken after the stop is dropped. *)
ProducerTook ==
  /\ producer = "took"
  /\ \/ /\ note # None /\ producerRunning_
        /\ producer' = "sends"
        /\ UNCHANGED note
     \/ /\ note = None \/ ~producerRunning_
        /\ producer' = "ended"
        /\ note' = None
  /\ UNCHANGED <<main, eventBusVars, producerRunning_, Queue_, consumerVars, topicVars, missed>>

ProducerSends ==
  /\ producer = "sends"
  /\ Len(topic) <= MaxTopic
  /\ topic' = Append(topic, OwnMessage)
  /\ sent' = note
  /\ note' = None
  /\ producer' = "asks"
  /\ UNCHANGED <<main, eventBusVars, producerRunning_, Queue_, consumerVars, missed>>

(* Whatever produce() or flush() throws is caught, and the message is lost. *)
ProducerFails ==
  /\ producer = "sends"
  /\ note' = None
  /\ producer' = "asks"
  /\ UNCHANGED <<main, eventBusVars, producerRunning_, Queue_, consumerVars, topicVars, missed>>
-----------------------------------------------------------------------------
(* KafkaConsumer::run: the flag, the dispatcher, and the dispatcher's run(). *)
ConsumerUp ==
  /\ consumer = "started"
  /\ consumerRunning_' = TRUE
  /\ consumer' = "subscribed"
  /\ UNCHANGED <<main, eventBusVars, producerVars, dispatching, topicVars, missed>>

DispatcherMade ==
  /\ consumer = "subscribed"
  /\ consumer' = "made"
  /\ UNCHANGED <<main, eventBusVars, producerVars, consumerRunning_, dispatching, topicVars, missed>>

DispatcherRuns ==
  /\ consumer = "made"
  /\ dispatching' = TRUE
  /\ consumer' = "polls"
  /\ UNCHANGED <<main, eventBusVars, producerVars, consumerRunning_, topicVars, missed>>

ConsumerPolls ==
  /\ consumer = "polls"
  /\ \/ dispatching /\ topic # <<>> /\ consumer' = "handles"
     \/ ~dispatching /\ consumer' = "ended"
  /\ UNCHANGED <<main, eventBusVars, producerVars, consumerRunning_, dispatching, topicVars, missed>>

(* The callback runs the watchers of the topic, whose exceptions it swallows. *)
ConsumerHandles ==
  /\ consumer = "handles"
  /\ topic' = Tail(topic)
  /\ consumer' = "commits"
  /\ UNCHANGED <<main, eventBusVars, producerVars, consumerRunning_, dispatching, sent, missed>>

(* The commit is outside that try block: what it throws ends the thread. *)
ConsumerCommits ==
  /\ consumer = "commits"
  /\ consumer' \in {"polls", "ended"}
  /\ UNCHANGED <<main, eventBusVars, producerVars, consumerRunning_, dispatching, topicVars, missed>>
-----------------------------------------------------------------------------
(* StartSubSystemServers: KafkaManager::Start, then EventBusManager::Start. *)
StartConsumer ==
  /\ main = "startConsumer"
  /\ consumer' = "started"
  /\ main' = "startProducer"
  /\ UNCHANGED <<eventBusVars, producerVars, consumerRunning_, dispatching, topicVars, missed>>

StartProducer ==
  /\ main = "startProducer"
  /\ producerRunning_' = TRUE
  /\ producer' = "started"
  /\ main' = "startBus"
  /\ UNCHANGED <<eventBusVars, Queue_, note, consumerVars, topicVars, missed>>

StartBus ==
  /\ main = "startBus"
  /\ bus' = "started"
  /\ main' = "serves"
  /\ UNCHANGED <<busRunning_, woken, producerVars, consumerVars, topicVars, missed>>

(* History: a stop that comes while its thread is still on its way to the     *)
(* point where the stop would reach it.                                      *)
Misses(thread, early) == missed' = IF early THEN missed \cup {thread} ELSE missed

(* StopSubSystemServers: EventBusManager::Stop. *)
StopBus ==
  /\ main = "serves"
  /\ busRunning_' = FALSE
  /\ main' = "wakeBus"
  /\ Misses("bus", bus = "started")
  /\ UNCHANGED <<bus, woken, producerVars, consumerVars, topicVars>>

WakeBus ==
  /\ main = "wakeBus"
  /\ woken' = TRUE
  /\ main' = "joinBus"
  /\ UNCHANGED <<bus, busRunning_, producerVars, consumerVars, topicVars, missed>>

JoinBus ==
  /\ main = "joinBus" /\ bus = "ended"
  /\ main' = "stopProducer"
  /\ UNCHANGED <<eventBusVars, producerVars, consumerVars, topicVars, missed>>

(* KafkaManager::Stop: KafkaProducer::Stop, ... *)
StopProducer ==
  /\ main = "stopProducer"
  /\ producerRunning_' = FALSE
  /\ main' = "wakeProducer"
  /\ Misses("producer", producer = "started")
  /\ UNCHANGED <<eventBusVars, producer, Queue_, note, consumerVars, topicVars>>

WakeProducer ==
  /\ main = "wakeProducer"
  /\ producer' = IF producer = "waits" THEN "took" ELSE producer
  /\ main' = "joinProducer"
  /\ Misses("producer", producer \in {"asks", "sends"} /\ Queue_ = <<>>)
  /\ UNCHANGED <<eventBusVars, producerRunning_, Queue_, note, consumerVars, topicVars>>

JoinProducer ==
  /\ main = "joinProducer" /\ producer = "ended"
  /\ main' = "stopConsumer"
  /\ UNCHANGED <<eventBusVars, producerVars, consumerVars, topicVars, missed>>

(* ... and KafkaConsumer::Stop, which leaves a consumer alone that has not    *)
(* raised its flag, and can halt only a dispatcher that exists.              *)
StopConsumer ==
  /\ main = "stopConsumer"
  /\ consumerRunning_' = FALSE
  /\ main' = IF consumerRunning_ THEN "haltConsumer" ELSE "ended"
  /\ Misses("consumer", ~consumerRunning_)
  /\ UNCHANGED <<eventBusVars, producerVars, consumer, dispatching, topicVars>>

HaltConsumer ==
  /\ main = "haltConsumer"
  /\ dispatching' = FALSE
  /\ main' = "joinConsumer"
  /\ Misses("consumer", consumer \in {"subscribed", "made"})
  /\ UNCHANGED <<eventBusVars, producerVars, consumer, consumerRunning_, topicVars>>

JoinConsumer ==
  /\ main = "joinConsumer" /\ consumer = "ended"
  /\ main' = "ended"
  /\ UNCHANGED <<eventBusVars, producerVars, consumerVars, topicVars, missed>>
-----------------------------------------------------------------------------
EventBusStep == BusUp \/ BusJoins \/ BusChecks \/ BusWakes \/ BusBeats \/ BusLeaves

ProducerStep ==
  ProducerUp \/ ProducerAsks \/ ProducerTook \/ ProducerSends \/ ProducerFails

ConsumerStep ==
  ConsumerUp \/ DispatcherMade \/ DispatcherRuns \/ ConsumerPolls \/ ConsumerCommits

StartStep == StartConsumer \/ StartProducer \/ StartBus

StopStep ==
  \/ WakeBus \/ JoinBus \/ StopProducer \/ WakeProducer \/ JoinProducer
  \/ StopConsumer \/ HaltConsumer \/ JoinConsumer

(* Another process's message reaches the broker. *)
Arrives(m) ==
  /\ Len(topic) < MaxTopic
  /\ topic' = Append(topic, m)
  /\ UNCHANGED <<main, eventBusVars, producerVars, consumerVars, sent, missed>>

Next ==
  \/ EventBusStep \/ ProducerStep \/ ConsumerStep \/ ConsumerHandles
  \/ StartStep \/ StopBus \/ StopStep
  \/ \E m \in Foreign : Arrives(m)

Spec == Init /\ [][Next]_vars

(* Threads run, and a broker that is asked again and again takes a message at *)
(* last; whether it ever refuses one, and when the process is told to stop,   *)
(* is open.                                                                  *)
FairSpec ==
  /\ Spec
  /\ WF_vars(EventBusStep) /\ WF_vars(ProducerStep) /\ SF_vars(ProducerSends)
  /\ WF_vars(ConsumerStep) /\ WF_vars(ConsumerHandles)
  /\ WF_vars(StartStep \/ StopStep)
-----------------------------------------------------------------------------
Queued == {Queue_[i] : i \in DOMAIN Queue_}

(* The order of a life: it begins with JOIN and ends with LEAVE. *)
Before(e, f) == e # Leave /\ f # Join

(* Other processes never see this one join again, or live on, after it left, *)
(* nor leave twice: whatever sends fail, and however the stop overtakes the  *)
(* threads, what reaches the broker is in the order of a life.               *)
AnnouncedInOrder ==
  [][topic' = Append(topic, OwnMessage) =>
       sent' \in Events /\ (sent = None \/ Before(sent, sent'))]_vars

(* The life of this process as the topic tells it: it begins when the JOIN is  *)
(* sent or lost, and ends when the LEAVE is.                                  *)
JoinPending == bus \in {"idle", "started", "joins"} \/ Join \in Queued \cup {note}
LeavePending == bus # "ended" \/ Leave \in Queued \cup {note}
life ==
  CASE JoinPending -> "unborn"
    [] ~JoinPending /\ LeavePending -> "up"
    [] OTHER -> "gone"

(* Three threads, a queue and lost sends are one life to everyone else: JOIN, *)
(* keep-alives and LEAVE in this order, the first and the last at most once,   *)
(* each in a message of its own.  It is what MicroService expects of a service. *)
Service == INSTANCE ServiceLife
ImplementsServiceLife == Service!Spec

(* The three joins of a stop, and a thread that will not end there: one that *)
(* raised its flag after the stop lowered it, a producer that waits for a    *)
(* message nobody will post, a dispatcher that runs.                         *)
BusStays == main = "joinBus" /\ busRunning_
ProducerStays == main = "joinProducer" /\ producer = "waits"
ConsumerStays == main = "joinConsumer" /\ dispatching

(* The stop of a process hangs only in the windows that the code leaves open:*)
(* a thread that main overtook between two of its steps.  A thread that had  *)
(* got to its loop, its queue or its dispatcher is always brought to its end.*)
HangsOnlyIfMissed ==
  /\ BusStays => "bus" \in missed
  /\ ProducerStays => "producer" \in missed
  /\ ConsumerStays => "consumer" \in missed

(* A stop that overtook no thread returns. *)
StopEnds == main = "wakeBus" ~> main = "ended" \/ missed # {}

(* While the process serves and its consumer lives, it hears its own          *)
(* keep-alives again and again: they are what ages the entries of others.     *)
Serves == main = "serves" /\ consumer # "ended"

OwnBeatsAreHeard ==
  <>[]Serves => []<><<ConsumerHandles /\ Head(topic) = OwnMessage>>_vars
-----------------------------------------------------------------------------
(* The inductive invariant behind AnnouncedInOrder and HangsOnlyIfMissed.    *)
PlaceType ==
  /\ main \in {"startConsumer", "startProducer", "startBus", "serves", "wakeBus", "joinBus",
               "stopProducer", "wakeProducer", "joinProducer",
               "stopConsumer", "haltConsumer", "joinConsumer", "ended"}
  /\ bus \in {"idle", "started", "joins", "checks", "sleeps", "rechecks", "leaves", "ended"}
  /\ producer \in {"idle", "started", "asks", "waits", "took", "sends", "ended"}
  /\ consumer \in {"idle", "started", "subscribed", "made", "polls", "handles", "commits", "ended"}

FlagType == {busRunning_, woken, producerRunning_, consumerRunning_, dispatching} \subseteq BOOLEAN

EventType ==
  Queue_ \in Seq(Events) /\ note \in Events \cup {None} /\ sent \in Events \cup {None}

TopicType ==
  topic \in Seq(Foreign \cup {OwnMessage}) /\ (consumer = "handles" => topic # <<>>)

TypeOK == PlaceType /\ FlagType /\ EventType /\ TopicType

QueueInOrder ==
  \A i, j \in DOMAIN Queue_ : i < j => Before(Queue_[i], Queue_[j])

NoteIsNext ==
  /\ note # None => producer \in {"took", "sends"} /\ \A e \in Queued : Before(note, e)
  /\ producer = "sends" => note # None
  /\ producer = "waits" => Queue_ = <<>>

SentIsOldest ==
  sent # None => \A e \in Queued \cup ({note} \ {None}) : Before(sent, e)

(* The event bus posts JOIN first and LEAVE last. *)
JoinIsFirst ==
  bus \in {"idle", "started", "joins"} => Queue_ = <<>> /\ note = None /\ sent = None

LeaveIsLast ==
  bus \in {"checks", "sleeps", "rechecks", "leaves"} =>
    Leave \notin Queued \cup {note, sent}

(* Whatever is under way once the bus has ended is ahead of its LEAVE, or is it. *)
LeaveIsQueued ==
  bus = "ended" /\ (Queue_ # <<>> \/ note # None) => Leave \in Queued \cup {note}

(* How far main has got, and the threads with it. *)
BusFollows ==
  /\ bus = "idle" <=> main \in {"startConsumer", "startProducer", "startBus"}
  /\ main \in {"stopProducer", "wakeProducer", "joinProducer",
              "stopConsumer", "haltConsumer", "joinConsumer", "ended"} => bus = "ended"
  /\ main \in {"wakeBus", "joinBus"} /\ "bus" \notin missed => ~busRunning_ /\ bus # "started"

ProducerFollows ==
  /\ producer = "idle" <=> main \in {"startConsumer", "startProducer"}
  /\ main \in {"wakeProducer", "joinProducer"} /\ "producer" \notin missed =>
       ~producerRunning_ /\ producer # "started"
  /\ main = "joinProducer" /\ "producer" \notin missed =>
       /\ producer # "waits"
       /\ producer \in {"asks", "sends"} => Queue_ # <<>>

ConsumerFollows ==
  /\ consumer = "idle" <=> main = "startConsumer"
  /\ consumerRunning_ \/ main \in {"haltConsumer", "joinConsumer"} =>
       consumer \notin {"idle", "started"}
  /\ main = "joinConsumer" /\ "consumer" \notin missed =>
       ~dispatching /\ consumer \notin {"subscribed", "made"}

(* While the process serves, its bus and its producer go on and drop nothing,  *)
(* and its dispatcher, once it polls, is told to: keep-alives fail to be heard  *)
(* only by what the broker refuses or a commit throws.                        *)
BeatsGoOn ==
  main = "serves" =>
    /\ bus = "started" \/ (busRunning_ /\ bus # "leaves" /\ bus # "ended")
    /\ producerRunning_ /\ producer # "ended" /\ (producer = "took" => note # None)
    /\ consumer \in {"polls", "handles", "commits"} => dispatching

(* The same on the way there. *)
ServingInv ==
  /\ main \in {"startBus", "serves"} =>
       producerRunning_ /\ producer # "ended" /\ (producer = "took" => note # None)
  /\ main = "serves" /\ bus # "started" => busRunning_ /\ bus # "leaves" /\ bus # "ended"
  /\ main \in {"startProducer", "startBus", "serves"}
       /\ consumer \in {"polls", "handles", "commits"} => dispatching

IInv ==
  /\ TypeOK
  /\ QueueInOrder /\ NoteIsNext /\ SentIsOldest /\ JoinIsFirst /\ LeaveIsLast
  /\ LeaveIsQueued
  /\ BusFollows /\ ProducerFollows /\ ConsumerFollows
=============================================================================
