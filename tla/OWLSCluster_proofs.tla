-------------------------- MODULE OWLSCluster_proofs --------------------------
(***************************************************************************)
(* Proofs about OWLSCluster, for any number of secondaries and of devices.  *)
(***************************************************************************)
EXTENDS OWLSCluster, FiniteSetTheorems, TLAPS

(* Division, for any divisor. *)
LEMMA DivMod ==
  ASSUME NEW d \in Nat, NEW m \in Nat \ {0}
  PROVE  /\ d \div m \in Nat /\ d % m \in Nat /\ d % m < m
         /\ d = (m * (d \div m)) + (d % m)
OBVIOUS

(* A number between one divisor and two has what is over as its remainder. *)
LEMMA ModOf ==
  ASSUME NEW d \in Nat, NEW m \in Nat \ {0}, NEW r \in Nat, d = m + r, r < m
  PROVE  d % m = r
OBVIOUS

(* A batch of nothing has nothing over a daemon each. *)
LEMMA AtLeast ==
  ASSUME NEW n \in Nat, NEW b \in Nat \ {0}
  PROVE  n * b \in Nat /\ n * b >= n /\ b * (n + 1) = (n * b) + b /\ (n + 1) * b = (n * b) + b
OBVIOUS

(* The arithmetic of the split: the batches of n secondaries, the master's    *)
(* and the remainder add up to the devices.                                  *)
LEMMA SplitAddsUp ==
  ASSUME NEW d \in Nat, NEW n \in Nat, NEW b, b = d \div (n + 1), b # 0
  PROVE  /\ b \in Nat /\ d % (b * (n + 1)) \in Nat
         /\ (b + (d % (b * (n + 1)))) + (n * b) = d
<1> DEFINE k == n + 1
           m == b * k
           r == d % k
<1>1. k \in Nat \ {0}
  OBVIOUS
<1>2. b = d \div k
  OBVIOUS
<1> HIDE DEF k
<1>3. b \in Nat \ {0} /\ r \in Nat /\ r < k /\ d = (k * b) + r
  BY <1>1, <1>2, DivMod
<1>4. n * b \in Nat /\ n * b >= n /\ m = (n * b) + b /\ k * b = (n * b) + b
  BY <1>3, AtLeast DEF k
<1> HIDE DEF m, r
<1>5. m \in Nat \ {0} /\ d = m + r /\ r < m
  BY <1>3, <1>4 DEF k
<1>6. d % m = r
  BY <1>3, <1>5, ModOf
<1>7. (b + r) + (n * b) = d
  BY <1>3, <1>4, <1>5
<1>8. d % (b * (n + 1)) = r
  BY <1>6 DEF k, m
<1> QED
  BY <1>3, <1>7, <1>8

(* A batch is empty only when there are no more devices than secondaries. *)
LEMMA FewDevices ==
  ASSUME NEW d \in Nat, NEW n \in Nat, d \div (n + 1) = 0
  PROVE  d <= n
<1> DEFINE k == n + 1
<1>1. k \in Nat \ {0} /\ d \div k = 0
  OBVIOUS
<1> HIDE DEF k
<1>2. d % k < k /\ d % k \in Nat /\ d = (k * (d \div k)) + (d % k)
  BY <1>1, DivMod
<1>3. d = d % k
  BY <1>1, <1>2
<1> QED
  BY <1>2, <1>3 DEF k

(* The lists are finite, and lose one element with each secondary. *)
LEMMA Sizes ==
  ASSUME NEW S \in SUBSET Secondaries
  PROVE  /\ Cardinality(S) \in Nat
         /\ (Cardinality(S) = 0) <=> (S = {})
         /\ \A s \in S : Cardinality(S \ {s}) = Cardinality(S) - 1
<1>1. IsFiniteSet(Secondaries)
  BY NAssumption, FS_Interval DEF Secondaries
<1>2. IsFiniteSet(S)
  BY <1>1, FS_Subset
<1> QED
  BY <1>2, FS_CardinalityType, FS_EmptySet, FS_RemoveElement

(* A request's numbers. *)
LEMMA RequestType ==
  ASSUME TypeOK
  PROVE  /\ ThisBatchSize \in Nat /\ ThisBatchSize <= BatchSize
         /\ Request \in Part
         /\ Request.offset = StartValue /\ Request.limit = ThisBatchSize
         /\ Request.index = Index
<1>1. devices \in Nat /\ StartValue \in Nat /\ BatchSize \in Nat /\ Index \in Nat
  BY DevicesAssumption DEF TypeOK
<1>2. (devices - StartValue) % Word \in Nat
  BY <1>1, WordAssumption
<1>3. ThisBatchSize \in Nat /\ ThisBatchSize <= BatchSize
  BY <1>1, <1>2 DEF ThisBatchSize
<1> QED
  BY <1>1, <1>3 DEF Request, Part

(* The cluster starts in a state of the invariant. *)
LEMMA InitInv == Init => IInv
<1> SUFFICES ASSUME Init PROVE IInv
  OBVIOUS
<1>1. TypeOK
  <2>1. NoPart \in Part /\ 0 \in Nat
    BY DEF NoPart, Part
  <2>2. asked \in [Secondaries -> Part] /\ part \in [Secondaries -> Part]
    BY <2>1 DEF Init
  <2>3. slot \in [Secondaries -> Secondaries \cup {0}]
    BY DEF Init
  <2>4. /\ LookForServices_ \in BOOLEAN /\ failed \in BOOLEAN
        /\ replaced \in BOOLEAN /\ early \in BOOLEAN /\ crashed \in BOOLEAN
    BY DEF Init
  <2>5. /\ Services_ \subseteq Secondaries /\ toStart \subseteq Secondaries
        /\ toEnd \subseteq Secondaries
        /\ late \subseteq [op : {"start", "end"}, to : Secondaries]
    BY DEF Init
  <2> QED
    BY <2>1, <2>2, <2>3, <2>4, <2>5 DEF Init, TypeOK
<1>2. \A s \in Secondaries : ~Asked(s) /\ part[s] = NoPart
  BY DEF Init, Asked
<1>3. AskInv /\ OrderInv
  BY <1>2 DEF Init, AskInv, OrderInv
<1>4. SplitInv
  BY <1>2 DEF Init, SplitInv
<1>5. DevicesCovered /\ StopReachesAll /\ CrashesOnFewDevices
  BY DEF Init, DevicesCovered, StopReachesAll, CrashesOnFewDevices
<1> QED
  BY <1>1, <1>3, <1>4, <1>5 DEF IInv

(* Types.  The parts first: they are the only records. *)
PartTypes ==
  /\ asked \in [Secondaries -> Part] /\ part \in [Secondaries -> Part]
  /\ late \subseteq [op : {"start", "end"}, to : Secondaries]

(* A step keeps the types of the parts. *)
LEMMA PartTypesStep == ASSUME TypeOK, Next PROVE PartTypes'
<1>1. NoPart \in Part /\ Request \in Part
  BY RequestType DEF NoPart, Part
<1>2. PartTypes
  BY DEF TypeOK, PartTypes
<1>3. CASE (\E flag \in BOOLEAN : OtherRuns(flag)) \/ Worker \/ Start
  BY <1>2, <1>3 DEF PartTypes, OtherRuns, Worker, WorkerReads, WorkerRefreshes, Start,
     StartStats, StartSim, partVars
<1>4. CASE Run
  <2>1. CASE RunAlone \/ RunShared \/ RunSplits \/ RunPads \/ DividesByZero \/ RunLists
             \/ RunEnds \/ RunDangles
    BY <1>2, <2>1 DEF PartTypes, RunAlone, RunShared, RunSplits, RunPads,
       DividesByZero, RunLists, RunEnds, RunDangles, partVars
  <2>2. ASSUME NEW s \in Secondaries, RunStarts(s) PROVE PartTypes'
    BY <1>1, <1>2, <2>2 DEF PartTypes, RunStarts, Asks, Accepts
  <2>3. ASSUME NEW s \in Secondaries, RunThrows(s) PROVE PartTypes'
    BY <1>1, <1>2, <2>3 DEF PartTypes, RunThrows, Asks
  <2> QED
    BY <1>4, <2>1, <2>2, <2>3 DEF Run
<1>5. CASE End
  <2>1. CASE (\E op \in {"stop", "cancel"} : Ends(op)) \/ Erases \/ Completes
    BY <1>2, <2>1 DEF PartTypes, Ends, Erases, Completes, partVars
  <2>2. ASSUME NEW s \in Secondaries, EndAnswered(s) \/ EndThrows(s) PROVE PartTypes'
    BY <1>1, <1>2, <2>2 DEF PartTypes, EndAnswered, EndThrows
  <2> QED
    BY <1>5, <2>1, <2>2 DEF End
<1>6. ASSUME NEW s \in Secondaries, Secondary(s) PROVE PartTypes'
  <2>1. CASE UpdateRemoteStatus(s)
    BY <1>2, <2>1 DEF PartTypes, UpdateRemoteStatus, partVars
  <2>2. CASE SecondaryCompletes(s)
    BY <1>1, <1>2, <2>2 DEF PartTypes, SecondaryCompletes
  <2>3. ASSUME NEW op, Arrives(s, op) PROVE PartTypes'
    BY <1>1, <1>2, <2>3 DEF PartTypes, Arrives, Accepts
  <2> QED
    BY <1>6, <2>1, <2>2, <2>3 DEF Secondary
<1> QED
  BY <1>3, <1>4, <1>5, <1>6 DEF Next

(* The rest. *)
RestTypes ==
  /\ LookForServices_ \in BOOLEAN /\ Services_ \subseteq Secondaries
  /\ worker \in {"sleep", "refresh"}
  /\ master \in {"none", "stats", "running", "stop", "cancel", "stopped", "completed"}
  /\ run \in {"none", "new", "split", "pad", "list", "starts", "ended"}
  /\ devices \in DeviceCounts \cup {0}
  /\ BatchSize \in Nat /\ Pad \in Nat /\ StartValue \in Nat /\ Index \in Nat
  /\ toStart \subseteq Secondaries /\ toEnd \subseteq Secondaries /\ mine \in Nat
  /\ slots \in Nat /\ slot \in [Secondaries -> Secondaries \cup {0}]
  /\ failed \in BOOLEAN /\ replaced \in BOOLEAN /\ early \in BOOLEAN
  /\ crashed \in BOOLEAN

(* TypeOK is the two together. *)
LEMMA TypeParts == TypeOK <=> PartTypes /\ RestTypes
BY DEF TypeOK, PartTypes, RestTypes

(* A step keeps the types of the rest. *)
LEMMA RestTypesStep == ASSUME TypeOK, Next PROVE RestTypes'
<1>1. RestTypes
  BY TypeParts
<1>2. Cardinality(Services_) \in Nat /\ devices \in Nat
  BY Sizes, DevicesAssumption DEF TypeOK
<1> USE <1>1 DEF listVars, localVars, statVars, RestTypes
<1>3. CASE (\E flag \in BOOLEAN : OtherRuns(flag)) \/ WorkerReads
  BY <1>3 DEF OtherRuns, WorkerReads
<1>4. ASSUME NEW found \in SUBSET Secondaries, WorkerRefreshes(found) PROVE RestTypes'
  <2>1. replaced' \in BOOLEAN /\ crashed' \in BOOLEAN
    BY <1>4 DEF WorkerRefreshes
  <2> QED
    BY <1>4, <2>1 DEF WorkerRefreshes
<1>5. CASE StartStats
  BY <1>2, <1>5 DEF StartStats, Statuses
<1>6. ASSUME NEW d \in DeviceCounts, StartSim(d) PROVE RestTypes'
  BY <1>6 DEF StartSim
<1>7. CASE RunAlone \/ RunShared \/ DividesByZero
  BY <1>2, <1>7 DEF RunAlone, RunShared, DividesByZero
<1>8. CASE RunSplits
  <2>1. Batch(Cardinality(Services_)) \in Nat
    BY <1>2 DEF Batch
  <2> QED
    BY <1>8, <2>1 DEF RunSplits
<1>9. CASE RunPads
  <2>1. BatchSize * (Cardinality(Services_) + 1) \in Nat \ {0}
    BY <1>2, <1>9 DEF RunPads
  <2>2. Remainder(Cardinality(Services_)) \in Nat
    BY <1>2, <2>1 DEF Remainder
  <2> QED
    BY <1>9, <2>2 DEF RunPads
<1>10. CASE RunLists \/ RunEnds
  BY <1>10 DEF RunLists, RunEnds, AfterMaster
<1>18. CASE RunDangles
  <2>1. /\ devices' \in DeviceCounts \cup {0} /\ crashed' \in BOOLEAN
        /\ run' \in {run, "ended"} /\ toStart' \subseteq toStart
    BY <1>18 DEF RunDangles
  <2> QED
    BY <1>18, <2>1 DEF RunDangles
<1>11. ASSUME NEW s \in Secondaries, RunStarts(s) \/ RunThrows(s) PROVE RestTypes'
  <2>1. Index' \in Nat /\ StartValue' \in Nat
    BY <1>11 DEF RunStarts, RunThrows, Asks
  <2>2. toStart' \subseteq Secondaries /\ failed' \in BOOLEAN
    BY <1>11 DEF RunStarts, RunThrows
  <2> QED
    BY <1>11, <2>1, <2>2 DEF RunStarts, RunThrows
<1>12. ASSUME NEW s \in Secondaries, UpdateRemoteStatus(s) PROVE RestTypes'
  BY <1>12 DEF UpdateRemoteStatus
<1>13. ASSUME NEW s \in Secondaries, NEW op, SecondaryCompletes(s) \/ Arrives(s, op)
       PROVE  RestTypes'
  BY <1>13 DEF SecondaryCompletes, Arrives
<1>14. ASSUME NEW op \in {"stop", "cancel"}, Ends(op) PROVE RestTypes'
  BY <1>14 DEF Ends, RunnerStops
<1>15. ASSUME NEW s \in Secondaries, EndAnswered(s) \/ EndThrows(s) PROVE RestTypes'
  BY <1>15 DEF EndAnswered, EndThrows
<1>16. CASE Erases
  <2>1. LookForServices_' \in BOOLEAN
    BY <1>16 DEF Erases
  <2> QED
    BY <1>16, <2>1 DEF Erases
<1>17. CASE Completes
  BY <1>17 DEF Completes, RunnerStops
<1> QED
  BY <1>3, <1>4, <1>5, <1>6, <1>7, <1>8, <1>9, <1>10, <1>11, <1>12, <1>13, <1>14, <1>15,
     <1>16, <1>17, <1>18 DEF Next, Worker, Start, Run, End, Secondary

(* The threads of the master keep their order. *)
LEMMA OrderStep == ASSUME IInv, Next PROVE OrderInv'
<1> USE DEF IInv, OrderInv
<1>1. CASE (\E flag \in BOOLEAN : OtherRuns(flag)) \/ Worker
  BY <1>1 DEF OtherRuns, Worker, WorkerReads, WorkerRefreshes, partVars, statVars
<1>2. CASE Start
  BY <1>2 DEF Start, StartStats, StartSim, partVars, statVars
<1>3. CASE RunAlone \/ RunShared \/ RunSplits \/ RunPads \/ DividesByZero \/ RunLists
           \/ RunEnds
  BY <1>3 DEF RunAlone, RunShared, RunSplits, RunPads, DividesByZero, RunLists, RunEnds,
     partVars, statVars
<1>4. ASSUME NEW s \in Secondaries, RunStarts(s) \/ RunThrows(s) PROVE OrderInv'
  BY <1>4 DEF RunStarts, RunThrows, Asks, statVars
<1>7. CASE RunDangles
  BY <1>7 DEF RunDangles, Dangling, TypeOK, partVars, statVars
<1>5. CASE End
  BY <1>5 DEF End, Ends, RunnerStops, EndAnswered, EndThrows, Erases, Completes, TypeOK,
     partVars, statVars
<1>6. ASSUME NEW s \in Secondaries, Secondary(s) PROVE OrderInv'
  BY <1>6 DEF Secondary, UpdateRemoteStatus, SecondaryCompletes, Arrives, partVars,
     statVars
<1> QED
  BY <1>1, <1>2, <1>3, <1>4, <1>5, <1>6, <1>7 DEF Next, Run

(* A runner that is gone stays gone. *)
LEMMA DanglingStays == ASSUME Next, Dangling PROVE Dangling'
<1> USE DEF Dangling
<1>1. CASE (\E flag \in BOOLEAN : OtherRuns(flag)) \/ Worker \/ Start
  BY <1>1 DEF OtherRuns, Worker, WorkerReads, WorkerRefreshes, Start, StartStats, StartSim
<1>2. CASE Run
  BY <1>2 DEF Run, RunAlone, RunShared, RunSplits, RunPads, DividesByZero, RunLists,
     RunStarts, RunThrows, RunEnds, RunDangles
<1>3. CASE End
  BY <1>3 DEF End, Ends, EndAnswered, EndThrows, Erases, Completes
<1>4. ASSUME NEW s \in Secondaries, Secondary(s) PROVE Dangling'
  BY <1>4 DEF Secondary, UpdateRemoteStatus, SecondaryCompletes, Arrives
<1> QED
  BY <1>1, <1>2, <1>3, <1>4 DEF Next

(* A request that goes out asks a secondary for the devices behind those      *)
(* already given, under an index of its own.                                *)
Apart(s) ==
  Asked(s) =>
    /\ mine <= asked[s].offset /\ asked[s].index # 0
    /\ \A t \in Secondaries \ {s} : Asked(t) =>
         /\ asked[s].index # asked[t].index
         /\ \/ asked[s].offset + asked[s].limit <= asked[t].offset
            \/ asked[t].offset + asked[t].limit <= asked[s].offset

(* What a request changes, whether it is answered or not. *)
LEMMA AskNew ==
  ASSUME TypeOK, AskInv, NEW s \in Secondaries, Asks(s), mine' = mine
  PROVE  /\ run = "starts" /\ s \in toStart /\ ~Asked(s) /\ part[s] = NoPart
         /\ asked'[s] = Request /\ Asked(s)'
         /\ \A t \in Secondaries \ {s} : asked'[t] = asked[t] /\ (Asked(t)' <=> Asked(t))
         /\ \A t \in Secondaries : Apart(t)'
<1>1. run = "starts" /\ s \in toStart
  BY DEF Asks, First
<1>2. ~Asked(s) /\ part[s] = NoPart
  BY <1>1 DEF AskInv, Asked
<1>3. asked'[s] = Request /\ \A t \in Secondaries \ {s} : asked'[t] = asked[t]
  BY DEF Asks, TypeOK
<1>4. /\ Request.offset = StartValue /\ Request.index = Index /\ Request.index # 0
      /\ Request.limit \in Nat
  BY <1>1, RequestType DEF AskInv
<1>5. Asked(s)'
  BY <1>3, <1>4 DEF Asked, NoPart
<1>6. \A t \in Secondaries \ {s} : Asked(t)' <=> Asked(t)
  BY <1>3 DEF Asked
<1>7. /\ mine \in Nat /\ StartValue \in Nat /\ Index \in Nat
      /\ \A t \in Secondaries :
           /\ asked[t].offset \in Nat /\ asked[t].limit \in Nat
           /\ asked[t].index \in Nat
  BY DEF TypeOK, Part
<1>8. mine <= StartValue
  BY <1>1, <1>7 DEF AskInv, TypeOK
<1>9. \A t \in Secondaries : Asked(t) =>
        asked[t].offset + asked[t].limit <= StartValue /\ asked[t].index < Index
  BY <1>1 DEF AskInv
<1>10. ASSUME NEW t \in Secondaries PROVE Apart(t)'
  <2>1. CASE t = s
    BY <1>3, <1>4, <1>6, <1>7, <1>8, <1>9, <2>1 DEF Apart
  <2>2. CASE t # s
    <3>1. Apart(t)
      BY DEF AskInv, Apart
    <3> QED
      BY <1>3, <1>4, <1>6, <1>7, <1>9, <2>2, <3>1 DEF Apart
  <2> QED
    BY <2>1, <2>2
<1> QED
  BY <1>1, <1>2, <1>3, <1>5, <1>6, <1>10

(* A step keeps the parts that were asked apart. *)
LEMMA AskStep == ASSUME IInv, Next PROVE AskInv'
<1>1. TypeOK /\ AskInv /\ OrderInv
  BY DEF IInv
<1>2. \A s \in Secondaries :
        asked[s].offset \in Nat /\ asked[s].limit \in Nat /\ asked[s].index \in Nat
  BY <1>1 DEF TypeOK, Part
<1> USE <1>1, <1>2 DEF partVars, localVars
<1>3. CASE \/ \E flag \in BOOLEAN : OtherRuns(flag)
           \/ Worker \/ Start \/ DividesByZero \/ RunEnds
  BY <1>3 DEF AskInv, Asked, OrderInv, OtherRuns, Worker, WorkerReads, WorkerRefreshes,
     Start, StartSim, StartStats, DividesByZero, RunEnds
<1>13. CASE RunDangles
  <2>1. UNCHANGED <<localVars, mine, partVars>>
    BY <1>13 DEF RunDangles
  <2>2. \/ run' = run /\ toStart' = toStart
        \/ run' = "ended" /\ toStart' = {}
    BY <1>13 DEF RunDangles
  <2> QED
    BY <2>1, <2>2 DEF AskInv, Asked
<1>4. CASE RunAlone \/ RunShared \/ RunSplits
  BY <1>4 DEF AskInv, Asked, RunAlone, RunShared, RunSplits
<1>5. CASE RunPads
  BY <1>5 DEF AskInv, Asked, RunPads
<1>6. CASE RunLists
  BY <1>6 DEF AskInv, Asked, RunLists, AfterMaster, TypeOK
<1>7. ASSUME NEW s \in Secondaries, RunStarts(s) PROVE AskInv'
  <2>1. Asks(s) /\ mine' = mine /\ late' = late /\ run' = run /\ BatchSize' = BatchSize
    BY <1>7 DEF RunStarts
  <2>2. /\ Pad' = Pad /\ Index' = Index + 1 /\ StartValue' = StartValue + BatchSize
        /\ toStart' = toStart \ {s}
    BY <1>7 DEF RunStarts, Asks
  <2>3. /\ run = "starts" /\ ~Asked(s) /\ part[s] = NoPart
        /\ asked'[s] = Request /\ Asked(s)'
        /\ \A t \in Secondaries \ {s} :
             asked'[t] = asked[t] /\ (Asked(t)' <=> Asked(t))
        /\ \A t \in Secondaries : Apart(t)'
    BY <2>1, AskNew
  <2>4. part' = part \/ part' = [part EXCEPT ![s] = Request]
    BY <1>7 DEF RunStarts, Accepts
  <2>5. \A t \in Secondaries : part'[t] = NoPart \/ part'[t] = asked'[t]
    BY <2>3, <2>4 DEF AskInv, TypeOK
  <2>6. \A m \in late' : m.op = "start" => Asked(m.to)'
    BY <2>1, <2>3 DEF AskInv, TypeOK
  <2>7. /\ StartValue \in Nat /\ BatchSize \in Nat /\ Pad \in Nat /\ Index \in Nat
        /\ Index # 0 /\ BatchSize + Pad <= StartValue
    BY <2>3 DEF AskInv, TypeOK
  <2>8. /\ Request.offset = StartValue /\ Request.index = Index
        /\ Request.limit \in Nat /\ Request.limit <= BatchSize
    BY RequestType, <2>7
  <2>9. ASSUME NEW t \in Secondaries, Asked(t)'
        PROVE  /\ asked'[t].offset + asked'[t].limit <= StartValue'
               /\ asked'[t].index < Index'
    <3>1. CASE t = s
      BY <2>2, <2>3, <2>7, <2>8, <3>1
    <3>2. CASE t # s
      <4>1. asked[t].offset + asked[t].limit <= StartValue /\ asked[t].index < Index
        BY <2>3, <2>9, <3>2 DEF AskInv
      <4> QED
        BY <2>2, <2>3, <2>7, <3>2, <4>1
    <3> QED
      BY <3>1, <3>2
  <2>10. \A t \in toStart' : ~Asked(t)'
    BY <2>2, <2>3 DEF AskInv, TypeOK
  <2>11. Index' # 0 /\ BatchSize' + Pad' <= StartValue' /\ mine' \in {0, BatchSize' + Pad'}
    BY <2>1, <2>2, <2>3, <2>7 DEF AskInv
  <2> QED
    BY <2>1, <2>3, <2>5, <2>6, <2>9, <2>10, <2>11 DEF AskInv, Apart
<1>8. ASSUME NEW s \in Secondaries, RunThrows(s) PROVE AskInv'
  <2>1. /\ Asks(s) /\ mine' = mine /\ part' = part
        /\ run' = "ended" /\ toStart' = {}
        /\ late' = late \cup {[op |-> "start", to |-> s]}
    BY <1>8 DEF RunThrows
  <2>2. /\ ~Asked(s) /\ part[s] = NoPart /\ Asked(s)'
        /\ \A t \in Secondaries \ {s} :
             asked'[t] = asked[t] /\ (Asked(t)' <=> Asked(t))
        /\ \A t \in Secondaries : Apart(t)'
    BY <2>1, AskNew
  <2>3. \A t \in Secondaries : part'[t] = NoPart \/ part'[t] = asked'[t]
    BY <2>1, <2>2 DEF AskInv
  <2>4. \A m \in late' : m.op = "start" => Asked(m.to)'
    BY <2>1, <2>2 DEF AskInv, TypeOK
  <2> QED
    BY <2>1, <2>2, <2>3, <2>4 DEF AskInv, Apart
<1>9. ASSUME NEW s \in Secondaries, UpdateRemoteStatus(s) \/ SecondaryCompletes(s)
      PROVE  AskInv'
  <2>1. \A t \in Secondaries : part'[t] = NoPart \/ part'[t] = part[t]
    BY <1>9 DEF UpdateRemoteStatus, SecondaryCompletes, TypeOK
  <2>2. /\ asked' = asked /\ late' = late /\ run' = run /\ toStart' = toStart
        /\ Index' = Index /\ BatchSize' = BatchSize /\ Pad' = Pad
        /\ StartValue' = StartValue /\ mine' = mine
    BY <1>9 DEF UpdateRemoteStatus, SecondaryCompletes
  <2> QED
    BY <2>1, <2>2 DEF AskInv, Asked
<1>10. ASSUME NEW s \in Secondaries, NEW op, Arrives(s, op) PROVE AskInv'
  BY <1>10 DEF AskInv, Asked, Arrives, Accepts, TypeOK
<1>11. CASE (\E op \in {"stop", "cancel"} : Ends(op)) \/ Erases \/ Completes
  BY <1>11 DEF AskInv, Asked, Ends, RunnerStops, Erases, Completes
<1>12. ASSUME NEW s \in Secondaries, EndAnswered(s) \/ EndThrows(s) PROVE AskInv'
  BY <1>12 DEF AskInv, Asked, EndAnswered, EndThrows, TypeOK
<1> QED
  BY <1>3, <1>4, <1>5, <1>6, <1>7, <1>8, <1>9, <1>10, <1>11, <1>12, <1>13
  DEF Next, Run, End, Secondary

(* The conjuncts of SplitInv: the statuses, the lists, the split, and the end. *)
Counted == slots # 0 => slots = Cardinality(Services_) + 1
Listed ==
  \A s \in Secondaries : Asked(s) =>
    s \in Services_ /\ asked[s].index <= Cardinality(Services_)
Split == run = "pad" => BatchSize = devices \div (Cardinality(Services_) + 1)
Padded ==
  run = "list" =>
    BatchSize # 0 /\ mine = BatchSize + Pad
      /\ mine + Cardinality(Services_) * BatchSize = devices
Sharing ==
  run = "starts" =>
    /\ BatchSize # 0 /\ mine # 0 /\ mine = BatchSize + Pad
    /\ StartValue + Cardinality(toStart) * BatchSize = devices
    /\ Index + Cardinality(toStart) = Cardinality(Services_) + 1
    /\ toStart \subseteq Services_
    /\ \A s \in Services_ : s \in toStart \/ Valid(asked[s])
    /\ Given = 0 .. StartValue - 1
Ended ==
  master \in {"stop", "cancel"} /\ ~failed /\ ~early =>
    \A s \in Secondaries \ toEnd : part[s] = NoPart

(* SplitInv is the six together. *)
LEMMA SplitParts ==
  SplitInv <=> (~replaced /\ ~Dangling => Counted /\ Listed /\ Split /\ Padded /\ Sharing /\ Ended)
BY DEF SplitInv, Counted, Listed, Split, Padded, Sharing, Ended

(* The steps of run() that give out the devices. *)
LEMMA PadStep ==
  ASSUME IInv, ~replaced, ~Dangling, RunPads
  PROVE  Padded'
<1> DEFINE n == Cardinality(Services_)
<1>1. n \in Nat /\ devices \in Nat
  BY Sizes, DevicesAssumption DEF IInv, TypeOK
<1>2. BatchSize = devices \div (n + 1) /\ BatchSize # 0
  BY DEF RunPads, IInv, SplitInv
<1>3. Pad' = Remainder(n) /\ mine' = BatchSize + Pad' /\ BatchSize' = BatchSize
      /\ devices' = devices /\ Services_' = Services_
  BY DEF RunPads, listVars
<1> HIDE DEF n
<1>4. BatchSize \in Nat /\ Remainder(n) \in Nat
      /\ (BatchSize + Remainder(n)) + (n * BatchSize) = devices
  BY <1>1, <1>2, SplitAddsUp DEF Remainder
<1>5. mine' + (n * BatchSize) = devices
  BY <1>3, <1>4
<1> QED
  BY <1>2, <1>3, <1>5 DEF Padded, n

(* The master has taken the first devices when the loop over secondaries begins. *)
LEMMA ListStep ==
  ASSUME IInv, ~replaced, ~Dangling, RunLists
  PROVE  Sharing'
<1>1. /\ toStart' = Services_ /\ StartValue' = BatchSize + Pad /\ Index' = 1
      /\ BatchSize' = BatchSize /\ Pad' = Pad /\ mine' = mine /\ devices' = devices
      /\ Services_' = Services_ /\ asked' = asked /\ run = "list"
  BY DEF RunLists, AfterMaster, listVars, partVars
<1>2. /\ BatchSize # 0 /\ mine = BatchSize + Pad
      /\ mine + Cardinality(Services_) * BatchSize = devices
      /\ BatchSize \in Nat /\ Pad \in Nat /\ mine \in Nat
      /\ Cardinality(Services_) \in Nat
  BY <1>1, Sizes DEF IInv, SplitInv, TypeOK
<1>3. \A s \in Secondaries : ~Asked(s)
  BY <1>1 DEF IInv, AskInv
<1>4. \A s \in Secondaries : Span(asked[s]) = {}
  BY <1>3 DEF Asked, NoPart, Span
<1>5. Given' = 0 .. mine - 1
  BY <1>1, <1>4 DEF Given, Mine, Span
<1>6. StartValue' = mine /\ mine # 0
  BY <1>1, <1>2
<1> QED
  BY <1>1, <1>2, <1>5, <1>6 DEF Sharing

(* Each answered start gives out the next batch, which is never cut short. *)
LEMMA StartStep ==
  ASSUME IInv, ~replaced, ~Dangling, NEW s \in Secondaries, RunStarts(s)
  PROVE  Sharing'
<1> DEFINE k == Cardinality(toStart)
<1>1. /\ Asks(s) /\ toStart' = toStart \ {s} /\ StartValue' = StartValue + BatchSize
      /\ Index' = Index + 1 /\ BatchSize' = BatchSize /\ Pad' = Pad /\ mine' = mine
      /\ devices' = devices /\ Services_' = Services_
  BY DEF RunStarts, Asks, listVars
<1>2. /\ run = "starts" /\ s \in toStart /\ ~Asked(s) /\ asked'[s] = Request
      /\ \A t \in Secondaries \ {s} : asked'[t] = asked[t]
  BY <1>1, AskNew DEF IInv
<1>3. /\ StartValue \in Nat /\ BatchSize \in Nat \ {0} /\ Index \in Nat /\ Pad \in Nat
      /\ mine \in Nat \ {0} /\ mine = BatchSize + Pad /\ mine <= StartValue /\ Index # 0
  BY <1>2 DEF IInv, TypeOK, SplitInv, AskInv
<1>4. /\ StartValue + k * BatchSize = devices
      /\ Index + k = Cardinality(Services_) + 1
      /\ toStart \subseteq Services_
      /\ \A t \in Services_ : t \in toStart \/ Valid(asked[t])
      /\ Given = 0 .. StartValue - 1
  BY <1>2 DEF IInv, SplitInv
<1>5. k \in Nat \ {0} /\ Cardinality(toStart') = k - 1
      /\ Cardinality(Services_) \in Nat
  BY <1>1, <1>2, Sizes DEF IInv, TypeOK
<1> HIDE DEF k
<1>6. k * BatchSize \in Nat /\ k * BatchSize >= BatchSize
      /\ (k - 1) * BatchSize = (k * BatchSize) - BatchSize
  BY <1>3, <1>5
<1>7. devices - StartValue = k * BatchSize /\ devices \in Nat
  BY <1>3, <1>4, <1>6
<1>8. ThisBatchSize = BatchSize
  <2>1. devices \in DeviceCounts
    BY <1>2 DEF IInv, OrderInv
  <2>2. Word \in Nat \ {0} /\ k * BatchSize < Word
    BY <1>3, <1>6, <1>7, <2>1, WordAssumption
  <2>3. (devices - StartValue) % Word = k * BatchSize
    BY <1>6, <1>7, <2>2
  <2> QED
    BY <1>3, <1>6, <2>3 DEF ThisBatchSize
<1>9. /\ Request.offset = StartValue /\ Request.limit = BatchSize
      /\ Request.index = Index
  BY <1>8 DEF Request
<1>10. Valid(asked'[s])
  BY <1>2, <1>3, <1>9 DEF Valid
<1>11. \A t \in Services_ : t \in toStart \ {s} \/ Valid(asked'[t])
  BY <1>2, <1>4, <1>10 DEF IInv, TypeOK
<1>12. Span(asked[s]) = {} /\ Span(asked'[s]) = StartValue .. (StartValue + BatchSize) - 1
  BY <1>2, <1>3, <1>9 DEF Span, Asked, NoPart
<1>13. Given' = Given \cup Span(asked'[s])
  <2>1. Mine' = Mine
    BY <1>1 DEF Mine
  <2>2. UNION {Span(asked'[t]) : t \in Secondaries} =
          (UNION {Span(asked[t]) : t \in Secondaries}) \cup Span(asked'[s])
    <3>1. \A t \in Secondaries \ {s} : Span(asked'[t]) = Span(asked[t])
      BY <1>2
    <3>2. Span(asked[s]) = {}
      BY <1>12
    <3>3. \A x : (\E t \in Secondaries : x \in Span(asked'[t])) <=>
                 \/ \E t \in Secondaries : x \in Span(asked[t])
                 \/ x \in Span(asked'[s])
      BY ONLY <3>1, <3>2, s \in Secondaries
    <3> QED
      BY ONLY <3>3
  <2> QED
    BY <2>1, <2>2 DEF Given
<1>14. Given' = 0 .. (StartValue + BatchSize) - 1
  BY <1>3, <1>4, <1>12, <1>13
<1>15. StartValue' + (k - 1) * BatchSize = devices
  BY <1>1, <1>3, <1>6, <1>7
<1>16. Index' + (k - 1) = Cardinality(Services_) + 1
  BY <1>1, <1>3, <1>4, <1>5
<1> QED
  BY <1>1, <1>3, <1>4, <1>5, <1>11, <1>14, <1>15, <1>16 DEF Sharing

(* What is asked, and what is left. *)
LEMMA ListedStep ==
  ASSUME IInv, ~replaced, ~Dangling, NEW s \in Secondaries, Asks(s), mine' = mine,
         Services_' = Services_
  PROVE  Listed'
<1>1. /\ run = "starts" /\ s \in toStart /\ asked'[s] = Request
      /\ \A t \in Secondaries \ {s} : asked'[t] = asked[t] /\ (Asked(t)' <=> Asked(t))
  BY AskNew DEF IInv
<1>2. /\ Index + Cardinality(toStart) = Cardinality(Services_) + 1
      /\ s \in Services_ /\ Listed
  BY <1>1 DEF IInv, SplitInv, Listed
<1>3. Cardinality(toStart) \in Nat \ {0} /\ Cardinality(Services_) \in Nat /\ Index \in Nat
  BY <1>1, Sizes DEF IInv, TypeOK
<1>4. Request.index = Index /\ Index <= Cardinality(Services_)
  BY <1>2, <1>3 DEF Request
<1> QED
  BY <1>1, <1>2, <1>4 DEF Listed

(* A step keeps the split adding up. *)
LEMMA SplitStep == ASSUME IInv, Next PROVE SplitInv'
<1> SUFFICES ASSUME ~replaced', ~Dangling'
             PROVE  /\ Counted' /\ Listed' /\ Split'
                    /\ Padded' /\ Sharing' /\ Ended'
  BY DEF SplitInv, Counted, Listed, Split, Padded, Sharing, Ended
<1>0. ~Dangling
  BY DanglingStays
<1>1. TypeOK /\ AskInv /\ OrderInv
  BY DEF IInv
<1>2. (replaced' <=> replaced) => Counted /\ Listed /\ Split /\ Padded /\ Sharing /\ Ended
  BY <1>0, SplitParts DEF IInv
<1> DEFINE NotAsked == \A s \in Secondaries : ~Asked(s)
           Goal == Counted' /\ Listed' /\ Split' /\ Padded' /\ Sharing' /\ Ended'
<1>3. /\ run \notin {"starts", "ended"} => NotAsked
      /\ run = "none" <=> master = "none"
      /\ master \in {"none", "stats"} => slots = 0
      /\ ~failed => late = {}
  BY <1>1 DEF AskInv, OrderInv
<1> USE DEF listVars, localVars, partVars, statVars
<1>4. CASE (\E flag \in BOOLEAN : OtherRuns(flag)) \/ WorkerReads \/ DividesByZero
  <2>1. UNCHANGED <<Services_, master, devices, run, localVars, toStart, mine, toEnd,
                    partVars, statVars, failed, replaced, early>>
    BY <1>4 DEF OtherRuns, WorkerReads, DividesByZero
  <2> QED
    BY <1>2, <2>1 DEF Counted, Listed, Split, Padded, Sharing, Ended, Given, Mine, Asked
<1>5. ASSUME NEW found \in SUBSET Secondaries, WorkerRefreshes(found) PROVE Goal
  <2>1. ~replaced /\ UNCHANGED <<master, devices, run, localVars, mine, partVars, statVars,
                                 failed, early, toStart, toEnd>>
        /\ (Used => Services_' = Services_)
    BY <1>5 DEF WorkerRefreshes
  <2>2. CASE Used
    BY <1>2, <2>1, <2>2 DEF Counted, Listed, Split, Padded, Sharing, Ended, Given, Mine,
       Asked
  <2>3. CASE ~Used
    BY <1>1, <1>3, <2>1, <2>3 DEF Used, Counted, Listed, Split, Padded, Sharing, Ended,
       OrderInv, Asked
  <2> QED
    BY <2>2, <2>3
<1>6. ASSUME NEW d \in DeviceCounts, StartSim(d) PROVE Goal
  BY <1>3, <1>6 DEF StartSim, Counted, Listed, Split, Padded, Sharing, Ended, Asked
<1>7. CASE StartStats
  BY <1>2, <1>7 DEF StartStats, Statuses, Counted, Listed, Split, Padded, Sharing, Ended,
     Given, Mine, Asked
<1>8. CASE RunAlone \/ RunShared
  BY <1>2, <1>3, <1>8 DEF RunAlone, RunShared, Counted, Listed, Split, Padded, Sharing,
     Ended, Asked
<1>9. CASE RunSplits
  BY <1>2, <1>3, <1>9 DEF RunSplits, Batch, Counted, Listed, Split, Padded, Sharing, Ended,
     Asked
<1>10. CASE RunPads
  <2>1. Padded'
    BY <1>0, <1>10, PadStep DEF RunPads
  <2> QED
    BY <1>2, <1>3, <1>10, <2>1 DEF RunPads, Counted, Listed, Split, Sharing, Ended, Asked
<1>11. CASE RunLists
  <2>1. Sharing'
    BY <1>0, <1>11, ListStep DEF RunLists
  <2> QED
    BY <1>2, <1>3, <1>11, <2>1 DEF RunLists, Counted, Listed, Split, Padded, Ended, Asked
<1>12. ASSUME NEW s \in Secondaries, RunStarts(s) PROVE Goal
  <2>1. Sharing'
    BY <1>0, <1>12, StartStep DEF RunStarts
  <2>2. Listed'
    BY <1>0, <1>12, ListedStep DEF RunStarts
  <2>3. run' = "starts" /\ master' = master /\ slots' = slots /\ Services_' = Services_
        /\ (master \in {"stop", "cancel"} => early) /\ replaced' = replaced
        /\ early' = early
    BY <1>1, <1>12 DEF RunStarts, Asks, OrderInv
  <2> QED
    BY <1>2, <2>1, <2>2, <2>3 DEF Counted, Split, Padded, Ended
<1>13. ASSUME NEW s \in Secondaries, RunThrows(s) PROVE Goal
  <2>1. Listed'
    BY <1>0, <1>13, ListedStep DEF RunThrows
  <2>2. run' = "ended" /\ failed' /\ slots' = slots /\ Services_' = Services_
        /\ replaced' = replaced
    BY <1>13 DEF RunThrows
  <2> QED
    BY <1>2, <2>1, <2>2 DEF Counted, Split, Padded, Sharing, Ended
<1>14. CASE RunEnds
  BY <1>2, <1>14 DEF RunEnds, Counted, Listed, Split, Padded, Sharing, Ended, Asked
<1>15. ASSUME NEW s \in Secondaries, UpdateRemoteStatus(s) \/ SecondaryCompletes(s)
       PROVE  Goal
  <2>1. \A t \in Secondaries : part'[t] = NoPart \/ part'[t] = part[t]
    BY <1>1, <1>15 DEF UpdateRemoteStatus, SecondaryCompletes, TypeOK
  <2>2. UNCHANGED <<Services_, master, devices, run, localVars, toStart, mine, toEnd,
                    asked, slots, failed, replaced, early>>
    BY <1>15 DEF UpdateRemoteStatus, SecondaryCompletes
  <2> QED
    BY <1>2, <2>1, <2>2 DEF Counted, Listed, Split, Padded, Sharing, Ended, Given, Mine,
       Asked
<1>16. ASSUME NEW s \in Secondaries, NEW op, Arrives(s, op) PROVE Goal
  <2>1. failed
    BY <1>3, <1>16 DEF Arrives
  <2>2. UNCHANGED <<Services_, master, devices, run, localVars, toStart, mine, toEnd,
                    asked, slots, failed, replaced, early>>
    BY <1>16 DEF Arrives
  <2> QED
    BY <1>2, <2>1, <2>2 DEF Counted, Listed, Split, Padded, Sharing, Ended, Given, Mine,
       Asked
<1>17. ASSUME NEW op \in {"stop", "cancel"}, Ends(op) PROVE Goal
  <2>1. UNCHANGED <<Services_, run, asked, part, slots, replaced>> /\ toEnd' = Services_
        /\ run \in {"new", "ended"}
    BY <1>17 DEF Ends, RunnerStops
  <2>2. \A s \in Secondaries \ Services_ : part[s] = NoPart
    BY <1>1, <1>2, <2>1 DEF Listed, AskInv, Asked
  <2> QED
    BY <1>2, <2>1, <2>2 DEF Counted, Listed, Split, Padded, Sharing, Ended, Asked
<1>18. ASSUME NEW s \in Secondaries, EndAnswered(s) \/ EndThrows(s) PROVE Goal
  <2>1. UNCHANGED <<Services_, master, devices, run, localVars, toStart, mine, asked,
                    slots, replaced, early>>
    BY <1>18 DEF EndAnswered, EndThrows
  <2>2. Ended'
    <3>1. CASE EndThrows(s)
      BY <3>1 DEF EndThrows, Ended
    <3>2. CASE EndAnswered(s)
      BY <1>1, <1>2, <3>2 DEF EndAnswered, Ended, TypeOK
    <3> QED
      BY <1>18, <3>1, <3>2
  <2> QED
    BY <1>2, <2>1, <2>2 DEF Counted, Listed, Split, Padded, Sharing, Given, Mine, Asked
<1>20. CASE RunDangles
  BY <1>0, <1>20 DEF RunDangles
<1>19. CASE Erases \/ Completes
  <2>1. /\ UNCHANGED <<Services_, run, asked, replaced>> /\ slots' = 0
        /\ run \in {"new", "ended"} /\ master' \notin {"stop", "cancel"}
    <3>1. master' \in {"stopped", "completed"} /\ ~early'
      BY <1>19 DEF Erases, Completes, Dangling
    <3> QED
      BY <1>1, <1>19, <3>1 DEF Erases, Completes, RunnerStops, OrderInv
  <2> QED
    BY <1>2, <2>1 DEF Counted, Listed, Split, Padded, Sharing, Ended, Asked
<1> QED
  BY <1>4, <1>5, <1>6, <1>7, <1>8, <1>9, <1>10, <1>11, <1>12, <1>13, <1>14, <1>15, <1>16,
     <1>17, <1>18, <1>19, <1>20 DEF Next, Worker, Start, Run, End, Secondary

(* A run that ends has given out what it had to. *)
LEMMA CoveredStep == ASSUME IInv, Next PROVE DevicesCovered'
<1> DEFINE NotAsked == \A s \in Secondaries : ~Asked(s)
<1> SUFFICES ASSUME run' = "ended", master' \in {"stats", "running"}, ~failed', ~replaced'
             PROVE  /\ \A s \in Services_' : Valid(asked'[s])
                    /\ Given' = 0 .. devices' - 1
  BY DEF DevicesCovered, Valid
<1> DEFINE Goal == (\A s \in Services_' : Valid(asked'[s])) /\ Given' = 0 .. devices' - 1
<1>1. TypeOK /\ AskInv /\ OrderInv /\ SplitInv /\ DevicesCovered
  BY DEF IInv
<1> USE DEF listVars, localVars, partVars, statVars
<1>2. ASSUME UNCHANGED <<Services_, master, run, devices, mine, asked, failed, replaced>>
      PROVE  Goal
  BY <1>1, <1>2 DEF DevicesCovered, Given, Mine, Valid
<1>3. CASE (\E flag \in BOOLEAN : OtherRuns(flag)) \/ WorkerReads \/ DividesByZero
  BY <1>2, <1>3 DEF OtherRuns, WorkerReads, DividesByZero
<1>4. ASSUME NEW found \in SUBSET Secondaries, WorkerRefreshes(found) PROVE Goal
  <2>1. run = "ended" /\ ~replaced /\ UNCHANGED <<master, run, devices, mine, asked, failed>>
    BY <1>4 DEF WorkerRefreshes
  <2>2. Services_' = Services_ /\ replaced' \in BOOLEAN /\ replaced \in BOOLEAN
    BY <1>1, <1>4, <2>1 DEF WorkerRefreshes, Used, TypeOK
  <2>3. replaced' = replaced
    BY <2>1, <2>2
  <2> QED
    BY <1>2, <2>1, <2>2, <2>3
<1>5. CASE StartStats
  BY <1>1, <1>5 DEF StartStats, DevicesCovered, Given, Mine, Valid
<1>6. CASE RunAlone
  <2>1. NotAsked /\ mine' = devices /\ devices' = devices /\ asked' = asked
        /\ Services_' = {}
    BY <1>1, <1>6 DEF RunAlone, AskInv
  <2>2. \A s \in Secondaries : Span(asked'[s]) = {}
    BY <2>1 DEF Asked, NoPart, Span
  <2>3. UNION {Span(asked'[s]) : s \in Secondaries} = {}
    BY <2>2
  <2>4. Mine' = 0 .. devices' - 1
    BY <2>1 DEF Mine
  <2> QED
    BY <2>1, <2>3, <2>4 DEF Given
<1>7. ASSUME (\E d \in DeviceCounts : StartSim(d)) \/ RunShared \/ RunSplits \/ RunPads
             \/ RunLists \/ (\E s \in Secondaries : RunStarts(s) \/ RunThrows(s))
             \/ RunDangles
      PROVE  FALSE
  BY <1>7 DEF RunDangles, Dangling, StartSim, RunShared, RunSplits, RunPads, RunLists, RunStarts, Asks, RunThrows
<1>8. CASE RunEnds
  <2>1. /\ run = "starts" /\ toStart = {} /\ ~replaced /\ ~Dangling
        /\ UNCHANGED <<Services_, devices, mine, asked>>
    BY <1>8 DEF RunEnds, Dangling
  <2>2. /\ StartValue + Cardinality(toStart) * BatchSize = devices
        /\ \A s \in Services_ : s \in toStart \/ Valid(asked[s])
        /\ Given = 0 .. StartValue - 1
    BY <1>1, <2>1 DEF SplitInv
  <2>3. StartValue = devices
    BY <1>1, <2>1, <2>2, Sizes DEF TypeOK
  <2> QED
    BY <2>1, <2>2, <2>3 DEF Given, Mine, Valid
<1>9. ASSUME NEW s \in Secondaries, Secondary(s) PROVE Goal
  BY <1>2, <1>9 DEF Secondary, UpdateRemoteStatus, SecondaryCompletes, Arrives
<1>10. CASE End
  BY <1>10 DEF End, Ends, EndAnswered, EndThrows, Erases, Completes
<1> QED
  BY <1>3, <1>4, <1>5, <1>6, <1>7, <1>8, <1>9, <1>10 DEF Next, Worker, Start, Run

(* A run that was stopped stays stopped on every secondary. *)
LEMMA StopStep == ASSUME IInv, Next PROVE StopReachesAll'
<1> SUFFICES ASSUME master' = "stopped", ~failed', ~replaced', ~early'
             PROVE  \A s \in Secondaries : part'[s] = NoPart
  BY DEF StopReachesAll
<1>1. TypeOK /\ AskInv /\ OrderInv /\ SplitInv /\ StopReachesAll
  BY DEF IInv
<1> USE DEF listVars, localVars, partVars, statVars
<1>2. CASE Erases
  <2>1. /\ master \in {"stop", "cancel"} /\ toEnd = {} /\ part' = part
        /\ ~failed /\ ~replaced /\ ~early
    BY <1>2 DEF Erases
  <2> QED
    BY <1>1, <2>1 DEF SplitInv, Dangling
<1> DEFINE Goal == \A s \in Secondaries : part'[s] = NoPart
<1>3. ASSUME master = "stopped", ~replaced, ~failed, ~early, part' = part \/ late # {} PROVE Goal
  BY <1>1, <1>3 DEF OrderInv, StopReachesAll
<1>4. CASE (\E flag \in BOOLEAN : OtherRuns(flag)) \/ Worker
  BY <1>3, <1>4 DEF OtherRuns, Worker, WorkerReads, WorkerRefreshes
<1>5. CASE Start
  BY <1>5 DEF Start, StartSim, StartStats
<1>6. CASE Run
  <2>1. master = "stopped" /\ run # "ended" /\ ~early
    BY <1>6 DEF Run, RunAlone, RunShared, RunSplits, RunPads, DividesByZero, RunLists,
       RunStarts, Asks, RunThrows, RunEnds, RunDangles
  <2> QED
    BY <1>1, <2>1 DEF OrderInv
<1>7. ASSUME NEW s \in Secondaries, Secondary(s) PROVE Goal
  <2>1. master = "stopped" /\ ~failed /\ ~replaced /\ ~early
    BY <1>7 DEF Secondary, UpdateRemoteStatus, SecondaryCompletes, Arrives
  <2>2. part' = part \/ late # {}
    <3>1. part[s] = NoPart
      BY <1>1, <2>1 DEF StopReachesAll
    <3> QED
      BY <1>7, <3>1 DEF Secondary, UpdateRemoteStatus, SecondaryCompletes, Arrives
  <2> QED
    BY <1>3, <2>1, <2>2
<1>8. CASE End /\ ~Erases
  BY <1>8 DEF End, Ends, EndAnswered, EndThrows, Completes
<1> QED
  BY <1>2, <1>4, <1>5, <1>6, <1>7, <1>8 DEF Next, End

(* What brings the master down under an unchanged list is the division. *)
LEMMA CrashStep == ASSUME IInv, Next PROVE CrashesOnFewDevices'
<1> SUFFICES ASSUME crashed', ~replaced', ~Dangling'
             PROVE  devices' <= Cardinality(Services_')
  BY DEF CrashesOnFewDevices
<1>1. TypeOK /\ SplitInv /\ CrashesOnFewDevices /\ ~Dangling
  BY DanglingStays DEF IInv
<1> USE DEF listVars, localVars, partVars, statVars
<1>2. CASE DividesByZero
  <2>1. /\ ~replaced /\ run = "pad" /\ BatchSize = 0
        /\ devices' = devices /\ Services_' = Services_
    BY <1>2 DEF DividesByZero
  <2>2. devices \div (Cardinality(Services_) + 1) = 0
    BY <1>1, <2>1 DEF SplitInv
  <2>3. devices \in Nat /\ Cardinality(Services_) \in Nat
    BY <1>1, Sizes, DevicesAssumption DEF TypeOK
  <2> QED
    BY <2>1, <2>2, <2>3, FewDevices
<1> DEFINE Goal == devices' <= Cardinality(Services_')
<1>3. ASSUME crashed, ~replaced, devices' = devices, Services_' = Services_ PROVE Goal
  BY <1>1, <1>3 DEF CrashesOnFewDevices
<1>4. CASE (\E flag \in BOOLEAN : OtherRuns(flag)) \/ Worker \/ Start
  BY <1>4 DEF OtherRuns, Worker, WorkerReads, WorkerRefreshes, Start, StartSim, StartStats
<1>5. CASE Run /\ ~DividesByZero
  BY <1>1, <1>5 DEF Run, RunAlone, RunShared, RunSplits, RunPads, RunLists, RunStarts,
     Asks, RunThrows, RunEnds, RunDangles
<1>6. ASSUME NEW s \in Secondaries, Secondary(s) PROVE Goal
  BY <1>3, <1>6 DEF Secondary, UpdateRemoteStatus, SecondaryCompletes, Arrives
<1>7. CASE End
  BY <1>7 DEF End, Ends, EndAnswered, EndThrows, Erases, Completes
<1> QED
  BY <1>2, <1>4, <1>5, <1>6, <1>7 DEF Next, Run

-----------------------------------------------------------------------------
(* Whatever the secondaries, the definitions and the requests that get lost,  *)
(* the shares, the list and the statuses stay in step.                       *)
THEOREM InductiveInvariant == Spec => []IInv
<1>1. ASSUME IInv, UNCHANGED vars PROVE IInv'
  BY <1>1 DEF IInv, TypeOK, AskInv, Asked, OrderInv, SplitInv, Given, Mine, Valid,
     DevicesCovered, StopReachesAll, CrashesOnFewDevices, Dangling, vars, listVars, localVars,
     partVars, statVars
<1>2. ASSUME IInv, Next PROVE IInv'
  <2>1. TypeOK'
    BY <1>2, PartTypesStep, RestTypesStep DEF TypeOK, PartTypes, RestTypes, IInv
  <2> QED
    BY <1>2, <2>1, AskStep, OrderStep, SplitStep, CoveredStep, StopStep, CrashStep DEF IInv
<1> QED
  BY InitInv, <1>1, <1>2, PTL DEF Spec

(* Every variable keeps its type. *)
THEOREM TypeCorrect == Spec => []TypeOK
<1>1. IInv => TypeOK
  BY DEF IInv
<1> QED
  BY InductiveInvariant, <1>1, PTL

(* No device is ever simulated by two daemons. *)
THEOREM DisjointCorrect == Spec => []DisjointParts
<1>1. ASSUME IInv PROVE DisjointParts
  <2>1. mine \in Nat /\ \A s \in Secondaries : part[s] = NoPart \/ part[s] = asked[s]
    BY <1>1 DEF IInv, TypeOK, AskInv
  <2>2. \A s \in Secondaries :
          /\ asked[s].offset \in Nat /\ asked[s].limit \in Nat
          /\ part[s] # NoPart => Asked(s)
    BY <1>1, <2>1 DEF IInv, TypeOK, Part, Asked
  <2>3. Span(NoPart) = {}
    BY DEF Span, NoPart
  <2>4. ASSUME NEW s \in Secondaries PROVE Span(part[s]) \cap Mine = {}
    <3>1. CASE part[s] = NoPart
      BY <2>3, <3>1
    <3>2. CASE part[s] # NoPart
      <4>1. part[s] = asked[s] /\ mine <= asked[s].offset
        BY <1>1, <2>1, <2>2, <3>2 DEF IInv, AskInv
      <4> QED
        BY <2>1, <2>2, <4>1 DEF Span, Mine
    <3> QED
      BY <3>1, <3>2
  <2>5. ASSUME NEW s \in Secondaries, NEW t \in Secondaries \ {s}
        PROVE  Span(part[s]) \cap Span(part[t]) = {}
    <3>1. CASE part[s] = NoPart \/ part[t] = NoPart
      BY <2>3, <3>1
    <3>2. CASE part[s] # NoPart /\ part[t] # NoPart
      <4>1. /\ part[s] = asked[s] /\ part[t] = asked[t]
            /\ \/ asked[s].offset + asked[s].limit <= asked[t].offset
               \/ asked[t].offset + asked[t].limit <= asked[s].offset
        BY <1>1, <2>1, <2>2, <3>2 DEF IInv, AskInv
      <4> QED
        BY <2>2, <4>1 DEF Span
    <3> QED
      BY <3>1, <3>2
  <2> QED
    BY <2>4, <2>5 DEF DisjointParts
<1> QED
  BY InductiveInvariant, <1>1, PTL

(* A run whose requests were answered gave out every device, and no other. *)
THEOREM CoveredCorrect == Spec => []DevicesCovered
<1>1. IInv => DevicesCovered
  BY DEF IInv
<1> QED
  BY InductiveInvariant, <1>1, PTL

(* The statistics of each part have a status of their own. *)
THEOREM CountsCorrect == Spec => []PartsCount
<1>1. ASSUME IInv PROVE PartsCount
  <2>1. \A s \in Secondaries :
          /\ part[s] = NoPart \/ (part[s] = asked[s] /\ Asked(s))
          /\ part[s].index \in Nat /\ asked[s].index \in Nat
    BY <1>1 DEF IInv, TypeOK, AskInv, Part, Asked
  <2>2. NoPart.index = 0
    BY DEF NoPart
  <2>3. ASSUME NEW s \in Secondaries, NEW t \in Secondaries,
               part[s].index = part[t].index, s # t
        PROVE  part[s] = NoPart
    <3>1. SUFFICES ASSUME part[s] # NoPart PROVE FALSE
      OBVIOUS
    <3>2. part[s] = asked[s] /\ Asked(s) /\ asked[s].index # 0
      BY <1>1, <2>1, <3>1 DEF IInv, AskInv
    <3>3. part[t] = asked[t] /\ Asked(t)
      BY <2>1, <2>2, <2>3, <3>2
    <3> QED
      BY <1>1, <2>3, <3>2, <3>3 DEF IInv, AskInv
  <2>4. ASSUME slots # 0, ~replaced, NEW s \in Secondaries, part[s] # NoPart
        PROVE  part[s].index \in 1 .. slots - 1
    <3>1. part[s] = asked[s] /\ asked[s].index # 0
      BY <1>1, <2>1, <2>4 DEF IInv, AskInv
    <3>2. /\ slots = Cardinality(Services_) + 1
          /\ asked[s].index <= Cardinality(Services_) /\ Cardinality(Services_) \in Nat
      BY <1>1, <2>1, <2>4, Sizes DEF IInv, TypeOK, SplitInv, OrderInv, Dangling
    <3> QED
      BY <2>1, <3>1, <3>2
  <2> QED
    BY <2>3, <2>4 DEF PartsCount
<1> QED
  BY InductiveInvariant, <1>1, PTL

(* A run that was over on the master before it was stopped, with every request *)
(* answered, is simulated nowhere.                                            *)
THEOREM StopCorrect == Spec => []StopReachesAll
<1>1. IInv => StopReachesAll
  BY DEF IInv
<1> QED
  BY InductiveInvariant, <1>1, PTL

(* The split only brings the master down with fewer devices than daemons, or  *)
(* once its runner is gone.                                                  *)
THEOREM CrashCorrect == Spec => []CrashesOnFewDevices
<1>1. IInv => CrashesOnFewDevices
  BY DEF IInv
<1> QED
  BY InductiveInvariant, <1>1, PTL
=============================================================================
