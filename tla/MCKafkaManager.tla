--------------------------- MODULE MCKafkaManager ---------------------------
(* Small instances of KafkaManager for TLC. *)
EXTENDS KafkaManager
CONSTANTS other
=============================================================================
