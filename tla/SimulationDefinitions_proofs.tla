-------------------- MODULE SimulationDefinitions_proofs --------------------
(***************************************************************************)
(* Theorems of SimulationDefinitions, for any threads, ids and bodies.      *)
(***************************************************************************)
EXTENDS SimulationDefinitions, TLAPS

LEMMA FieldsAre ==
  /\ Fields = {"name", "minClients", "maxClients", "devices", "stateInterval", "certificate"}
  /\ PutFields = {"name", "minClients", "maxClients", "devices", "stateInterval"}
BY DEF Fields, PutFields, Defaults

(* A body's numbers have the width of the code's, and so have the defaults.   *)
LEMMA NewFits == ASSUME NEW b \in Bodies PROVE NumbersFit(New(b))
<1>1. Defaults.minClients = 1 /\ Defaults.maxClients = 3
  BY DEF Defaults
<1>2. ASSUME NEW f \in {"minClients", "maxClients"} PROVE New(b)[f] \in 0 .. Word - 1
  <2>1. f \in Fields /\ Defaults[f] \in 0 .. Word - 1
    BY <1>1, FieldsAre, WordAssumption
  <2>2. f \in DOMAIN b => b[f] \in 0 .. Word - 1
    BY BodiesAssumption
  <2> QED
    BY <2>1, <2>2 DEF New
<1> QED
  BY <1>2 DEF NumbersFit

(* A merge takes each field from a body that is valid by itself, or from a    *)
(* definition whose fields are; the certificate it never takes from the body. *)
LEMMA MergedIsValid ==
  ASSUME NEW d, NumbersFit(d), FieldsAreValid(d), NEW b \in Bodies, ValidateSimulation(New(b))
  PROVE  /\ NumbersFit(Merged(d, b)) /\ FieldsAreValid(Merged(d, b))
         /\ Merged(d, b).certificate = d.certificate
<1>1. \A f \in Fields : Merged(d, b)[f] \in {d[f], New(b)[f]}
  BY DEF Merged, New
<1>2. FieldsAreValid(New(b))
  BY DEF ValidateSimulation
<1>3. \A f \in {"name", "devices", "stateInterval", "minClients", "maxClients"} :
        Merged(d, b)[f] = d[f] \/ Merged(d, b)[f] = New(b)[f]
  BY <1>1, FieldsAre
<1>4. FieldsAreValid(Merged(d, b))
  BY <1>2, <1>3 DEF FieldsAreValid
<1>5. Merged(d, b).certificate = d.certificate
  BY FieldsAre DEF Merged
<1>6. NumbersFit(Merged(d, b))
  BY <1>3, NewFits DEF NumbersFit
<1> QED
  BY <1>4, <1>5, <1>6

LEMMA InitInv == Init => IInv
BY DEF Init, IInv, TypeOK, StoredAreDrawn, CopyInv, StoredAreValid, DeletedStayDeleted

(* The actions of one thread, one lemma each. *)
LEMMA PostInv ==
  ASSUME IInv, NEW h \in Handlers, NEW b \in Bodies, Post(h, b)
  PROVE  IInv'
<1> USE DEF IInv
<1>1. PICK i \in Ids \ drawn :
        /\ drawn' = drawn \cup {i}
        /\ \/ /\ table' = [table EXCEPT ![i] = New(b)]
              /\ pc' = [pc EXCEPT ![h] = "answer"] /\ id' = [id EXCEPT ![h] = i]
           \/ UNCHANGED <<table, pc, id>>
  BY DEF Post
<1>2. pc[h] = "idle" /\ ValidateSimulation(New(b)) /\ UNCHANGED <<body, existing, historyVars>>
  BY DEF Post
<1>3. TypeOK'
  BY <1>1, <1>2 DEF TypeOK, historyVars
<1>4. StoredAreDrawn'
  BY <1>1 DEF StoredAreDrawn, TypeOK
<1>5. \A g \in Handlers : pc'[g] = "update" =>
        /\ pc[g] = "update" /\ id'[g] = id[g] /\ id[g] \in Ids /\ id[g] # i
        /\ table'[id[g]] = table[id[g]]
  BY <1>1, <1>2 DEF TypeOK, CopyInv
<1>6. CopyInv'
  BY <1>1, <1>2, <1>5 DEF CopyInv, historyVars
<1>7. StoredAreValid'
  BY <1>1, <1>2, NewFits DEF StoredAreValid, TypeOK, ValidateSimulation, historyVars
<1>8. DeletedStayDeleted'
  BY <1>1, <1>2 DEF DeletedStayDeleted, TypeOK, historyVars
<1> QED
  BY <1>3, <1>4, <1>6, <1>7, <1>8

LEMMA EndsInv ==
  ASSUME IInv, NEW h \in Handlers, Ends(h), UNCHANGED <<table, drawn, historyVars>>
  PROVE  IInv'
<1> USE DEF IInv
<1>1. TypeOK'
  BY DEF TypeOK, Ends, historyVars
<1>2. StoredAreDrawn' /\ StoredAreValid' /\ DeletedStayDeleted'
  BY DEF StoredAreDrawn, StoredAreValid, DeletedStayDeleted, historyVars
<1>3. CopyInv'
  BY DEF CopyInv, TypeOK, Ends, historyVars
<1> QED
  BY <1>1, <1>2, <1>3

LEMMA PutReadsInv ==
  ASSUME IInv, NEW h \in Handlers, NEW i \in Ids, NEW b \in Bodies, PutReads(h, i, b)
  PROVE  IInv'
<1> USE DEF IInv
<1>1. TypeOK'
  BY DEF TypeOK, PutReads
<1>2. StoredAreDrawn' /\ StoredAreValid' /\ DeletedStayDeleted'
  BY DEF StoredAreDrawn, StoredAreValid, DeletedStayDeleted, PutReads
<1>3. /\ existing'[h] = Merged(table[i], b) /\ id'[h] = i /\ body'[h] = b
      /\ i \in drawn /\ NumbersFit(table[i]) /\ FieldsAreValid(table[i]) /\ table' = table
      /\ ValidateSimulation(New(b)) /\ drawn' = drawn
  BY DEF PutReads, TypeOK, StoredAreDrawn, StoredAreValid
<1>4. /\ NumbersFit(existing'[h]) /\ FieldsAreValid(existing'[h])
      /\ existing'[h].certificate = table'[id'[h]].certificate
  BY <1>3, MergedIsValid
<1>5. \A g \in Handlers \ {h} :
        /\ pc'[g] = pc[g] /\ id'[g] = id[g] /\ body'[g] = body[g] /\ existing'[g] = existing[g]
        /\ g \in overtaken' <=> g \in overtaken
  BY DEF PutReads, TypeOK
<1>6. CopyInv'
  <2> SUFFICES ASSUME NEW g \in Handlers, pc'[g] = "update"
               PROVE  /\ id'[g] \in drawn' /\ body'[g] \in Bodies
                      /\ NumbersFit(existing'[g]) /\ FieldsAreValid(existing'[g])
                      /\ table'[id'[g]] # None =>
                           /\ existing'[g].certificate = table'[id'[g]].certificate
                           /\ g \notin overtaken' => existing'[g] = Merged(table'[id'[g]], body'[g])
    BY DEF CopyInv, NumbersFit, FieldsAreValid, Merged
  <2>1. CASE g = h
    BY <2>1, <1>3, <1>4
  <2>2. CASE g # h
    BY <2>2, <1>3, <1>5 DEF CopyInv
  <2> QED
    BY <2>1, <2>2
<1> QED
  BY <1>1, <1>2, <1>6

LEMMA PutUpdatesInv ==
  ASSUME IInv, NEW h \in Handlers, PutUpdates(h)
  PROVE  IInv'
<1> USE DEF IInv
<1>1. /\ id[h] \in Ids /\ NumbersFit(existing[h]) /\ FieldsAreValid(existing[h])
      /\ table[id[h]] # None => existing[h].certificate = table[id[h]].certificate
      /\ pc[h] = "update"
  BY DEF PutUpdates, TypeOK, CopyInv
<1>2. \A j \in Ids : table'[j] = IF j # id[h] \/ table[j] = None THEN table[j] ELSE existing[h]
  BY DEF PutUpdates, TypeOK
<1>3. TypeOK'
  BY <1>1 DEF TypeOK, PutUpdates, Overtakes, requestVars
<1>4. StoredAreDrawn' /\ DeletedStayDeleted'
  BY <1>2 DEF StoredAreDrawn, DeletedStayDeleted, PutUpdates, TypeOK
<1>5. StoredAreValid'
  BY <1>1, <1>2 DEF StoredAreValid, PutUpdates, requestVars
<1>6. CopyInv'
  <2> SUFFICES ASSUME NEW g \in Handlers, pc'[g] = "update"
               PROVE  /\ id'[g] \in drawn' /\ body'[g] \in Bodies
                      /\ NumbersFit(existing'[g]) /\ FieldsAreValid(existing'[g])
                      /\ table'[id'[g]] # None =>
                           /\ existing'[g].certificate = table'[id'[g]].certificate
                           /\ g \notin overtaken' => existing'[g] = Merged(table'[id'[g]], body'[g])
    BY DEF CopyInv, NumbersFit, FieldsAreValid, Merged
  <2>1. /\ pc[g] = "update" /\ id' = id /\ body' = body /\ existing' = existing /\ drawn' = drawn
        /\ id[g] \in Ids /\ overtaken' = overtaken \cup {k \in Handlers : pc[k] = "update" /\ id[k] = id[h]}
    BY DEF PutUpdates, Overtakes, requestVars, TypeOK, CopyInv
  <2>2. CASE id[g] = id[h]
    BY <1>1, <1>2, <2>1, <2>2 DEF CopyInv
  <2>3. CASE id[g] # id[h]
    BY <1>2, <2>1, <2>3 DEF CopyInv
  <2> QED
    BY <2>2, <2>3
<1> QED
  BY <1>3, <1>4, <1>5, <1>6

LEMMA DeleteInv ==
  ASSUME IInv, NEW h \in Handlers, NEW i \in Ids, Delete(h, i)
  PROVE  IInv'
<1> USE DEF IInv
<1>1. \A j \in Ids : table'[j] = IF j = i THEN None ELSE table[j]
  BY DEF Delete, TypeOK
<1>2. TypeOK'
  BY DEF TypeOK, Delete, Overtakes, requestVars
<1>3. StoredAreDrawn' /\ StoredAreValid'
  BY <1>1 DEF StoredAreDrawn, StoredAreValid, Delete
<1>4. DeletedStayDeleted'
  BY <1>1 DEF DeletedStayDeleted, Delete, TypeOK
<1>5. CopyInv'
  BY <1>1 DEF CopyInv, Delete, Overtakes, requestVars, TypeOK
<1> QED
  BY <1>2, <1>3, <1>4, <1>5

(* No thread stores anything but a valid definition or the merge of one with  *)
(* a valid body: IInv holds of every state.                                  *)
THEOREM InductiveInvariant == Spec => []IInv
<1>1. IInv /\ [Next]_vars => IInv'
  <2> SUFFICES ASSUME IInv, [Next]_vars PROVE IInv'
    OBVIOUS
  <2>1. ASSUME NEW h \in Handlers, Answers(h) PROVE IInv'
    BY <2>1, EndsInv DEF Answers
  <2>2. ASSUME NEW h \in Handlers, PutFails(h) PROVE IInv'
    BY <2>2, EndsInv DEF PutFails
  <2>3. CASE UNCHANGED vars
    BY <2>3 DEF IInv, TypeOK, StoredAreDrawn, CopyInv, StoredAreValid, DeletedStayDeleted,
                vars, requestVars, historyVars
  <2> QED
    BY <2>1, <2>2, <2>3, PostInv, PutReadsInv, PutUpdatesInv, DeleteInv DEF Next
<1> QED
  BY InitInv, <1>1, PTL DEF Spec

(* Five hexadecimal digits number as many devices as a definition may have.   *)
LEMMA SerialsSuffice == \A n \in 1 .. MaxDevices : n \in 1 .. Serials
<1>1. MaxDevices \in Nat /\ Serials \in Nat /\ MaxDevices <= Serials
  BY SMT DEF MaxDevices, Serials
<1> QED
  BY <1>1

(* Numbers that fit the word are drawn within limits that are in order: the   *)
(* unsigned difference and the sum are the exact ones.                        *)
LEMMA DrawsWithin ==
  ASSUME NEW lo \in 0 .. Word - 1, NEW hi \in 0 .. Word - 1, lo < hi
  PROVE  Random(lo, hi) \subseteq lo .. hi
<1>1. \A n \in 0 .. Word - 1 : n % Word = n
  BY WordAssumption, SMTT(30)
<1>2. hi - lo \in 1 .. Word - 1 /\ (hi - lo) % Word = hi - lo
  BY <1>1, WordAssumption
<1>3. ASSUME NEW r \in Draws PROVE ((r % ((hi - lo) % Word)) + lo) % Word \in lo .. hi
  <2> DEFINE n == r % (hi - lo)
  <2>1. n \in 0 .. (hi - lo) - 1
    BY <1>2, WordAssumption
  <2>2. n + lo \in lo .. hi - 1
    BY <2>1
  <2>3. (n + lo) % Word = n + lo
    <3>1. n + lo \in 0 .. Word - 1
      BY <2>2, WordAssumption
    <3> QED
      BY <1>1, <3>1
  <2> QED
    BY <1>2, <2>2, <2>3
<1> QED
  BY <1>3 DEF Random

(* A runner can work with every stored definition, whatever requests wrote it, *)
(* though DoPut validates another definition than the one it stores: limits    *)
(* that are equal, and a PUT that puts them in the wrong order, are the only   *)
(* exceptions.                                                                 *)
THEOREM RunnableCorrect == Spec => []StoredAreRunnable
<1>1. IInv => StoredAreRunnable
  <2> SUFFICES ASSUME IInv, NEW i \in Ids, table[i] # None
               PROVE  /\ table[i].devices \in 1 .. Serials
                      /\ \/ table[i].minClients = table[i].maxClients
                         \/ table[i].minClients > table[i].maxClients /\ i \in patched
                         \/ /\ table[i].minClients < table[i].maxClients
                            /\ Random(table[i].minClients, table[i].maxClients)
                                 \subseteq table[i].minClients .. table[i].maxClients
    BY DEF StoredAreRunnable
  <2> DEFINE lo == table[i].minClients
             hi == table[i].maxClients
  <2>1. /\ lo \in 0 .. Word - 1 /\ hi \in 0 .. Word - 1
        /\ table[i].devices \in 1 .. MaxDevices
        /\ lo <= hi \/ i \in patched
    BY DEF IInv, StoredAreValid, NumbersFit, FieldsAreValid, ValidateSimulation
  <2>2. table[i].devices \in 1 .. Serials
    BY <2>1, SerialsSuffice
  <2>3. lo < hi => Random(lo, hi) \subseteq lo .. hi
    BY <2>1, DrawsWithin
  <2> HIDE DEF lo, hi
  <2>4. \/ lo = hi
        \/ lo > hi /\ i \in patched
        \/ lo < hi /\ Random(lo, hi) \subseteq lo .. hi
    BY <2>1, <2>3, WordAssumption
  <2> QED
    BY <2>2, <2>4 DEF lo, hi
<1> QED
  BY InductiveInvariant, <1>1, PTL

(* A PUT that read a definition before it was deleted does not bring it back. *)
THEOREM DeletedCorrect == Spec => []DeletedStayDeleted
<1>1. IInv => DeletedStayDeleted
  BY DEF IInv
<1> QED
  BY InductiveInvariant, <1>1, PTL

(* A PUT that was not overtaken changes no field that its body does not name, *)
(* and none changes the certificate.                                         *)
THEOREM BodyCorrect == Spec => OnlyTheBodyChanges
<1> DEFINE Changes == \A h \in Handlers, i \in Ids :
                        PutUpdates(h) /\ id[h] = i /\ table[i] # None =>
                          \A f \in Fields : table'[i][f] # table[i][f] =>
                            f # "certificate" /\ (f \in DOMAIN body[h] \/ h \in overtaken)
<1>1. IInv /\ [Next]_vars => [Changes]_vars
  <2> SUFFICES ASSUME IInv, NEW h \in Handlers, NEW i \in Ids,
                      PutUpdates(h), id[h] = i, table[i] # None,
                      NEW f \in Fields, table'[i][f] # table[i][f]
               PROVE  f # "certificate" /\ (f \in DOMAIN body[h] \/ h \in overtaken)
    OBVIOUS
  <2>1. /\ table'[i] = existing[h] /\ existing[h].certificate = table[i].certificate
        /\ h \notin overtaken => existing[h] = Merged(table[i], body[h])
    BY DEF PutUpdates, IInv, TypeOK, CopyInv
  <2>2. ASSUME existing[h] = Merged(table[i], body[h]) PROVE f \in DOMAIN body[h]
    BY <2>1, <2>2 DEF Merged
  <2> QED
    BY <2>1, <2>2
<1> QED
  BY InductiveInvariant, <1>1, PTL DEF Spec, OnlyTheBodyChanges
=============================================================================
