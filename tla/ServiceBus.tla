------------------------------ MODULE ServiceBus ------------------------------
(***************************************************************************)
(* The topic of the service bus, as one process sees it: KafkaManager sends  *)
(* to it and consumes from it, MicroService learns from it which services    *)
(* there are.  Every message goes to partition 0 of one topic, so the topic  *)
(* is one sequence.  The life of a service, as its messages tell it, is what    *)
(* KafkaManager keeps to and what MicroService expects of the others.         *)
(***************************************************************************)
EXTENDS Sequences

CONSTANTS
  Self,         \* this process
  MaxTopic      \* bound on what waits at the broker when another process sends

VARIABLE
  topic         \* what the broker holds for the consumer

SystemEvents == {"join", "keep-alive", "leave"}
Silence == "silence"          \* no message, or one that is lost

(* What a service that is before, unborn or up, may announce on its way to be   *)
(* after, up or gone.                                                         *)
LifeStep(before, event, after) ==
  \/ before = "unborn" /\ event \in {"join", Silence} /\ after = "up"
  \/ before = "up" /\ event = "keep-alive" /\ after = "up"
  \/ before = "up" /\ event \in {"leave", Silence} /\ after = "gone"
=============================================================================
