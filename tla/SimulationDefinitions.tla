----------------------- MODULE SimulationDefinitions -----------------------
(***************************************************************************)
(* The definitions of simulations: the threads of requests create, change,   *)
(* delete and read them, each a few statements on the database, which runs   *)
(* one statement at a time and may fail any of them.                         *)
(*                                                                         *)
(* A definition keeps the fields that are treated differently: name stands   *)
(* for gateway, deviceType and macPrefix too, the numbers of clients for     *)
(* those of associations, devices for every number that is held between two  *)
(* limits, certificate for key and clientInterval, which a PUT leaves out.    *)
(* A body holds some of them.  What authorizes a request, and how it is       *)
(* parsed, comes before and changes nothing here.                            *)
(***************************************************************************)
EXTENDS Integers, FiniteSets, Functions

CONSTANTS
  Handlers,     \* the threads that serve requests
  Ids,          \* the ids that POST draws
  Bodies,       \* partial definitions that clients send
  Word,         \* numbers have 64 bits: 2^64
  Draws,        \* what the random engine yields
  None          \* no definition

Defaults ==
  [name |-> "", minClients |-> 1, maxClients |-> 3, devices |-> 5,
   stateInterval |-> 60, certificate |-> ""]
Fields == DOMAIN Defaults
PutFields == Fields \ {"certificate"}

ASSUME WordAssumption == Word \in Nat /\ Word > 4 /\ Draws \subseteq Nat
ASSUME BodiesAssumption ==
  \A b \in Bodies :
    /\ DOMAIN b \subseteq Fields
    /\ \A f \in DOMAIN b \cap {"minClients", "maxClients"} : b[f] \in 0 .. Word - 1

VARIABLES
  table,        \* id -> the stored definition, or None
  drawn,        \* the ids that were given out
  pc, id, body, existing,     \* each thread's request, and its copy
  (* History: the ids whose definition a PUT wrote, those that were deleted, *)
  (* and those written since a thread read its copy.                         *)
  patched, deleted, overtaken

requestVars == <<id, body, existing>>
historyVars == <<patched, deleted, overtaken>>
vars == <<table, drawn, pc, requestVars, historyVars>>

Init ==
  /\ table = [i \in Ids |-> None] /\ drawn = {}
  /\ pc = [h \in Handlers |-> "idle"]
  /\ id = [h \in Handlers |-> None] /\ body = [h \in Handlers |-> None]
  /\ existing = [h \in Handlers |-> None]
  /\ patched = {} /\ deleted = {} /\ overtaken = {}
-----------------------------------------------------------------------------
(* SimulationDetails::from_json: the defaults stay where the body is silent.  *)
New(b) == [f \in Fields |-> IF f \in DOMAIN b THEN b[f] ELSE Defaults[f]]

MaxDevices == 1000000

(* What ValidateSimulation asks of single fields; the number of devices and   *)
(* its like have both limits, stateInterval and maxClients only these.       *)
FieldsAreValid(d) ==
  /\ d.name # ""
  /\ d.devices \in 1 .. MaxDevices
  /\ d.stateInterval >= 30
  /\ d.minClients <= 4

ValidateSimulation(d) == FieldsAreValid(d) /\ d.minClients <= d.maxClients

(* AssignIfPresent, field by field. *)
Merged(d, b) == [f \in Fields |-> IF f \in DOMAIN b \cap PutFields THEN b[f] ELSE d[f]]

(* What a runner makes of a stored definition.  Each device draws its number   *)
(* of clients, and of associations, between the limits, with unsigned         *)
(* arithmetic and a division by their difference: equal limits end the        *)
(* daemon.  The number of a device has five hexadecimal digits in its serial. *)
Random(lo, hi) == {((r % ((hi - lo) % Word)) + lo) % Word : r \in Draws}

Serials == 1048576

(* The end of a request, whatever it answers. *)
Ends(h) ==
  /\ pc' = [pc EXCEPT ![h] = "idle"]
  /\ id' = [id EXCEPT ![h] = None]
  /\ body' = [body EXCEPT ![h] = None]
  /\ existing' = [existing EXCEPT ![h] = None]

(* A statement that writes row i leaves behind whoever read it before. *)
Overtakes(i) == overtaken' = overtaken \cup {h \in Handlers : pc[h] = "update" /\ id[h] = i}
-----------------------------------------------------------------------------
(* DoPost: an invalid body is refused; CreateRecord; the record is read again. *)
Post(h, b) ==
  /\ pc[h] = "idle"
  /\ ValidateSimulation(New(b))
  /\ \E i \in Ids \ drawn :
       /\ drawn' = drawn \cup {i}
       /\ \/ /\ table' = [table EXCEPT ![i] = New(b)]
             /\ pc' = [pc EXCEPT ![h] = "answer"] /\ id' = [id EXCEPT ![h] = i]
          \/ UNCHANGED <<table, pc, id>>           \* BadRequest
  /\ UNCHANGED <<body, existing, historyVars>>

(* The answer of a POST or a PUT is what GetRecord finds then, or nothing.    *)
Answers(h) ==
  /\ pc[h] = "answer"
  /\ Ends(h)
  /\ UNCHANGED <<table, drawn, historyVars>>

(* Mutated forms of the actions of DoPut, one slip in the code each. *)
PutTrusts(h, i, b) ==                     \* the body is not validated
  /\ pc[h] = "idle"
  /\ table[i] # None
  /\ existing' = [existing EXCEPT ![h] = Merged(table[i], b)]
  /\ id' = [id EXCEPT ![h] = i] /\ body' = [body EXCEPT ![h] = b]
  /\ pc' = [pc EXCEPT ![h] = "update"]
  /\ overtaken' = overtaken \ {h}
  /\ UNCHANGED <<table, drawn, patched, deleted>>

PutForgets(h, i, b) ==                    \* the body itself is to be stored
  /\ pc[h] = "idle"
  /\ table[i] # None
  /\ ValidateSimulation(New(b))
  /\ existing' = [existing EXCEPT ![h] = New(b)]
  /\ id' = [id EXCEPT ![h] = i] /\ body' = [body EXCEPT ![h] = b]
  /\ pc' = [pc EXCEPT ![h] = "update"]
  /\ overtaken' = overtaken \ {h}
  /\ UNCHANGED <<table, drawn, patched, deleted>>

PutReplaces(h) ==                         \* ReplaceRecord, which creates
  /\ pc[h] = "update"
  /\ table' = [table EXCEPT ![id[h]] = existing[h]]
  /\ patched' = patched \cup {id[h]} /\ Overtakes(id[h])
  /\ pc' = [pc EXCEPT ![h] = "answer"]
  /\ UNCHANGED <<drawn, requestVars, deleted>>

(* DoPut: NotFound for an id that is not stored, BadRequest for a body that   *)
(* is not a valid definition by itself; the stored definition is read, and    *)
(* the fields of the body are put in.                                        *)
PutReads(h, i, b) ==
  /\ pc[h] = "idle"
  /\ table[i] # None
  /\ ValidateSimulation(New(b))
  /\ existing' = [existing EXCEPT ![h] = Merged(table[i], b)]
  /\ id' = [id EXCEPT ![h] = i] /\ body' = [body EXCEPT ![h] = b]
  /\ pc' = [pc EXCEPT ![h] = "update"]
  /\ overtaken' = overtaken \ {h}
  /\ UNCHANGED <<table, drawn, patched, deleted>>

(* UpdateRecord is content with no row; only a failure is NotFound.           *)
PutUpdates(h) ==
  /\ pc[h] = "update"
  /\ table' = [table EXCEPT ![id[h]] = IF @ = None THEN None ELSE existing[h]]
  /\ patched' = patched \cup {id[h]} /\ Overtakes(id[h])
  /\ pc' = [pc EXCEPT ![h] = "answer"]
  /\ UNCHANGED <<drawn, requestVars, deleted>>

PutFails(h) ==
  /\ pc[h] = "update"
  /\ Ends(h)
  /\ UNCHANGED <<table, drawn, historyVars>>

(* DoDelete: DeleteRecord is content with no row as well; a failure leaves    *)
(* the row.                                                                  *)
Delete(h, i) ==
  /\ pc[h] = "idle" /\ i \in drawn
  /\ table' = [table EXCEPT ![i] = None]
  /\ deleted' = deleted \cup {i} /\ Overtakes(i)
  /\ UNCHANGED <<drawn, pc, requestVars, patched>>
-----------------------------------------------------------------------------
Next ==
  \E h \in Handlers :
    \/ \E b \in Bodies : Post(h, b) \/ \E i \in Ids : PutReads(h, i, b)
    \/ Answers(h) \/ PutUpdates(h) \/ PutFails(h)
    \/ \E i \in Ids : Delete(h, i)

Spec == Init /\ [][Next]_vars
-----------------------------------------------------------------------------
(* DoPut validates the body and stores something else, the merged definition. *)
(* Even so, whatever requests ran, a runner can work with what is stored: its  *)
(* devices have serials of their own, and what they draw is within the        *)
(* limits.  Two things go wrong, and only these: limits that are equal, which  *)
(* the validation accepts, and limits in the wrong order, which need a PUT.   *)
StoredAreRunnable ==
  \A i \in Ids : table[i] # None =>
    LET lo == table[i].minClients
        hi == table[i].maxClients
    IN  /\ table[i].devices \in 1 .. Serials
        /\ \/ lo = hi
           \/ lo > hi /\ i \in patched
           \/ lo < hi /\ Random(lo, hi) \subseteq lo .. hi

(* A field that a PUT's body does not name keeps its value, unless another    *)
(* request wrote that definition after this one had read it; and what PUT     *)
(* leaves out is as it was created, whatever the bodies name.                 *)
OnlyTheBodyChanges ==
  [][\A h \in Handlers, i \in Ids :
       PutUpdates(h) /\ id[h] = i /\ table[i] # None =>
         \A f \in Fields : table'[i][f] # table[i][f] =>
           f # "certificate" /\ (f \in DOMAIN body[h] \/ h \in overtaken)]_vars

(* A deleted definition does not come back, though a PUT that read it before  *)
(* is still to write it.                                                     *)
DeletedStayDeleted == \A i \in deleted : table[i] = None
-----------------------------------------------------------------------------
(* The inductive invariant behind these: what is in the table was drawn and   *)
(* has valid fields, in the right order unless a PUT wrote them, and what a   *)
(* PUT is about to write is the merge of its body with the definition that    *)
(* is stored, or that was before the thread was overtaken.                    *)
TypeOK ==
  /\ table = [i \in Ids |-> table[i]] /\ existing = [h \in Handlers |-> existing[h]]
  /\ pc \in [Handlers -> {"idle", "update", "answer"}]
  /\ id \in [Handlers -> Ids \cup {None}]
  /\ body \in [Handlers -> Bodies \cup {None}]
  /\ drawn \subseteq Ids /\ deleted \subseteq drawn
  /\ patched \subseteq Ids \cup {None} /\ overtaken \subseteq Handlers

NumbersFit(d) == d.minClients \in 0 .. Word - 1 /\ d.maxClients \in 0 .. Word - 1

StoredAreValid ==
  \A i \in Ids : table[i] # None =>
    /\ NumbersFit(table[i]) /\ FieldsAreValid(table[i])
    /\ ValidateSimulation(table[i]) \/ i \in patched

StoredAreDrawn == \A i \in Ids : table[i] # None => i \in drawn

CopyInv ==
  \A h \in Handlers : pc[h] = "update" =>
    /\ id[h] \in drawn /\ body[h] \in Bodies
    /\ NumbersFit(existing[h]) /\ FieldsAreValid(existing[h])
    /\ table[id[h]] # None =>
         /\ existing[h].certificate = table[id[h]].certificate
         /\ h \notin overtaken => existing[h] = Merged(table[id[h]], body[h])

IInv == TypeOK /\ StoredAreDrawn /\ CopyInv /\ StoredAreValid /\ DeletedStayDeleted
=============================================================================
