---------------------------- MODULE MCRESTObjects ---------------------------
(* RESTObjects has no constants: every struct, every member, every path. *)
EXTENDS RESTObjects
=============================================================================
