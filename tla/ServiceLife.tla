------------------------------ MODULE ServiceLife ------------------------------
(***************************************************************************)
(* What other processes may rely on of a service, from the topic of the bus:  *)
(* it lives once.  Its JOIN comes first, if it comes at all, then keep-alives, *)
(* then its LEAVE, if that comes, and after it nothing.  Any announcement may  *)
(* be lost, and each is a message of its own at the end of the topic.         *)
(***************************************************************************)
EXTENDS ServiceBus

CONSTANTS
  Foreign,      \* the messages of other processes
  None          \* nothing announced yet

VARIABLES
  life,         \* "unborn", "up" or "gone"
  sent          \* the last event that was announced

vars == <<life, sent, topic>>

Init ==
  /\ life = "unborn" /\ sent = None
  /\ topic \in {<<>>} \cup {<<m>> : m \in Foreign}

Says(event) ==
  IF event = Silence
    THEN UNCHANGED <<topic, sent>>
    ELSE topic' = Append(topic, [from |-> Self]) /\ sent' = event

Lives ==
  \E event \in SystemEvents \cup {Silence}, after \in {"up", "gone"} :
    LifeStep(life, event, after) /\ Says(event) /\ life' = after

(* Others announce themselves, and this process consumes. *)
Others ==
  /\ \/ topic # <<>> /\ topic' = Tail(topic)
     \/ \E m \in Foreign : topic' = Append(topic, m)
  /\ UNCHANGED <<life, sent>>

Next == Lives \/ Others

Spec == Init /\ [][Next]_vars
=============================================================================
