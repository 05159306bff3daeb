--------------------------- MODULE RESTAPI_utils ----------------------------
(***************************************************************************)
(* How the objects of the REST API are converted to JSON and back.         *)
(*                                                                         *)
(* A struct is the function from its members to their conversions.  A      *)
(* member goes by its key, by its own name if it has none; a list is like   *)
(* one of its elements; an embedded document is like the text it is read    *)
(* back as.  A conversion says which members to_json writes and from_json   *)
(* reads, and which of them are written into the object itself, without a   *)
(* key of their own.                                                       *)
(***************************************************************************)
EXTENDS TLC

(* Texts, numbers, and the lists of them. *)
Leaf == [name |-> "value", held |-> <<>>, writes |-> {}, reads |-> {}, inlined |-> {}]
Values(members) == [m \in members |-> Leaf]

(* A struct whose members notWritten, or notRead, have no such statement. *)
Except(name, struct, notWritten, notRead) ==
  [name |-> name, held |-> struct, inlined |-> {},
   writes |-> DOMAIN struct \ notWritten, reads |-> DOMAIN struct \ notRead]

Both(name, struct) == Except(name, struct, {}, {})
WritesOnly(name, struct, notWritten) == Except(name, struct, notWritten, DOMAIN struct)
ReadsOnly(name, struct) == Except(name, struct, DOMAIN struct, {})

(* A struct that calls the conversions of its member info on its own object. *)
InlinesExcept(name, struct, neither) ==
  [Except(name, struct, neither, neither) EXCEPT !.inlined = {"info"}]
Inlines(name, struct) == InlinesExcept(name, struct, {})
=============================================================================
