---------------------------- MODULE MCOWLSCluster ----------------------------
(* Small instances of OWLSCluster for TLC. *)
EXTENDS OWLSCluster

=============================================================================
