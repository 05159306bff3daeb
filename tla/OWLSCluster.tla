----------------------------- MODULE OWLSCluster -----------------------------
(***************************************************************************)
(* One run of a simulation over several OWLS daemons: the master splits the *)
(* devices of the definition between itself and the secondaries it knows,   *)
(* asks each of them to start its part, gathers their statistics, and asks  *)
(* them to stop or cancel.  Requests are HTTP calls that may be refused, or *)
(* not answered in time and arrive later or never.                          *)
(*                                                                         *)
(* The master's list of secondaries is read without a lock by three threads *)
(* while the coordinator's worker may replace it; "replaced" records that   *)
(* it was after its first use by this run.  "failed" records a request that *)
(* was not answered, and "early" an end of the run that did not wait for    *)
(* run() of the master's runner.                                            *)
(***************************************************************************)
EXTENDS Integers, FiniteSets

CONSTANTS
  N,            \* the secondaries are 1 .. N, in the order of their endpoints
  DeviceCounts, \* what a definition may have as devices
  Word          \* modulus of unsigned arithmetic (2^64 in the code)

ASSUME NAssumption == N \in Nat
ASSUME DevicesAssumption == DeviceCounts \subseteq Nat \ {0}
ASSUME WordAssumption == Word \in Nat \ {0} /\ \A d \in DeviceCounts : d < Word

VARIABLES
  LookForServices_, Services_,  \* of the master's coordinator
  worker,       \* its worker: "sleep", or "refresh" once it has read the flag
  master,       \* what the master has done of the run
  devices,      \* Details_.devices
  run,          \* where run() of the master's runner is
  BatchSize, Pad, StartValue, Index,    \* its locals
  toStart,      \* the secondaries it has yet to ask
  mine,         \* how many devices the master simulates, from the first
  toEnd,        \* the secondaries StopSim or CancelSim has yet to ask
  asked,        \* the part each secondary was asked to simulate
  part,         \* the part its own coordinator has a run of
  late,         \* requests the master has given up, which may still arrive
  slots, slot,  \* how many statuses SimStats has, and whose each is
  failed, replaced, early, crashed

listVars == <<LookForServices_, Services_, worker>>
localVars == <<BatchSize, Pad, StartValue, Index>>
partVars == <<asked, part, late>>
statVars == <<slots, slot>>
vars == <<listVars, master, devices, run, localVars, toStart, mine, toEnd,
          partVars, statVars, failed, replaced, early, crashed>>

Secondaries == 1 .. N
NoPart == [offset |-> 0, limit |-> 0, index |-> 0]
First(s, S) == s \in S /\ \A t \in S : s <= t

Init ==
  /\ LookForServices_ = TRUE /\ Services_ = {} /\ worker = "sleep"
  /\ master = "none" /\ devices = 0 /\ run = "none"
  /\ BatchSize = 0 /\ Pad = 0 /\ StartValue = 0 /\ Index = 0
  /\ toStart = {} /\ mine = 0 /\ toEnd = {}
  /\ asked = [s \in Secondaries |-> NoPart]
  /\ part = [s \in Secondaries |-> NoPart]
  /\ late = {}
  /\ slots = 0 /\ slot = [i \in Secondaries |-> 0]
  /\ failed = FALSE /\ replaced = FALSE /\ early = FALSE /\ crashed = FALSE

-----------------------------------------------------------------------------
(* Mutated forms of definitions below, one slip in the code each. *)

AfterBatch == BatchSize                  \* the remainder given twice

PaddedByOne(n) == IF devices % (n + 1) = 0 THEN 0 ELSE 1

DropsOne(n) == (devices - 1) \div (n + 1)  \* the last device forgotten

WithoutMaster == Cardinality(Services_)  \* a status per secondary only

EndRefusalThrows(s) ==                   \* a refusal ends the loop too
  /\ ~crashed /\ master \in {"stop", "cancel"} /\ First(s, toEnd)
  /\ \/ part[s] # NoPart
        /\ part' = [part EXCEPT ![s] = NoPart] /\ toEnd' = toEnd \ {s}
     \/ part[s] = NoPart /\ toEnd' = {} /\ UNCHANGED part
  /\ UNCHANGED <<listVars, master, devices, run, localVars, toStart, mine,
                 asked, late, statVars, failed, replaced, early, crashed>>

-----------------------------------------------------------------------------
(* The worker's refresh, in two steps, and what the other runs of the master *)
(* do to its flag: a cancellation raises it, whatever else runs, and a start *)
(* clears it.                                                               *)
Locked == master \in {"stats", "stop", "cancel"}

OtherRuns(flag) ==
  /\ ~crashed /\ ~Locked
  /\ LookForServices_' = flag
  /\ UNCHANGED <<Services_, worker, master, devices, run, localVars, toStart,
                 mine, toEnd, partVars, statVars, failed, replaced, early,
                 crashed>>

WorkerReads ==
  /\ ~crashed /\ worker = "sleep" /\ LookForServices_
  /\ worker' = "refresh"
  /\ UNCHANGED <<LookForServices_, Services_, master, devices, run, localVars,
                 toStart, mine, toEnd, partVars, statVars, failed, replaced,
                 early, crashed>>

Used == slots # 0 \/ run \notin {"none", "new"}
Iterates == run = "starts" \/ master \in {"stop", "cancel"}

(* A thread that is iterating over the list goes on with what it had, ends,  *)
(* or brings the daemon down.                                               *)
WorkerRefreshes(found) ==
  /\ ~crashed /\ worker = "refresh"
  /\ Services_' = found
  /\ worker' = "sleep"
  /\ replaced' = (replaced \/ (Used /\ found # Services_))
  /\ \/ UNCHANGED <<toStart, toEnd, crashed>>
     \/ /\ Iterates
        /\ toStart' = {} /\ toEnd' = {}
        /\ replaced' = TRUE
        /\ crashed' \in BOOLEAN
  /\ UNCHANGED <<LookForServices_, master, devices, run, localVars, mine,
                 partVars, statVars, failed, early>>

-----------------------------------------------------------------------------
(* StartSim on the master: the runner's thread starts before SimStats makes  *)
(* a status for each daemon.                                                *)
StartSim(d) ==
  /\ ~crashed /\ master = "none"
  /\ LookForServices_' = FALSE
  /\ devices' = d
  /\ master' = "stats" /\ run' = "new"
  /\ UNCHANGED <<Services_, worker, localVars, toStart, mine, toEnd, partVars,
                 statVars, failed, replaced, early, crashed>>

Statuses == Cardinality(Services_) + 1

StartStats ==
  /\ ~crashed /\ master = "stats"
  /\ slots' = Statuses
  /\ master' = "running"
  /\ UNCHANGED <<listVars, devices, run, localVars, toStart, mine, toEnd,
                 partVars, slot, failed, replaced, early, crashed>>

-----------------------------------------------------------------------------
(* run() of the master's runner: it reads the list four times. *)
RunAlone ==
  /\ ~crashed /\ run = "new" /\ Services_ = {}
  /\ mine' = devices
  /\ run' = "ended"
  /\ UNCHANGED <<listVars, master, devices, localVars, toStart, toEnd, partVars,
                 statVars, failed, replaced, early, crashed>>

RunShared ==
  /\ ~crashed /\ run = "new" /\ Services_ # {}
  /\ run' = "split"
  /\ UNCHANGED <<listVars, master, devices, localVars, toStart, mine, toEnd,
                 partVars, statVars, failed, replaced, early, crashed>>

Batch(n) == devices \div (n + 1)

RunSplits ==
  /\ ~crashed /\ run = "split"
  /\ BatchSize' = Batch(Cardinality(Services_))
  /\ run' = "pad"
  /\ UNCHANGED <<listVars, master, devices, Pad, StartValue, Index, toStart,
                 mine, toEnd, partVars, statVars, failed, replaced, early,
                 crashed>>

(* The remainder, which divides by zero when there are fewer devices than    *)
(* daemons; the master simulates its batch and the remainder.                *)
Remainder(n) == devices % (BatchSize * (n + 1))

RunPads ==
  /\ ~crashed /\ run = "pad" /\ BatchSize # 0
  /\ Pad' = Remainder(Cardinality(Services_))
  /\ mine' = BatchSize + Pad'
  /\ run' = "list"
  /\ UNCHANGED <<listVars, master, devices, BatchSize, StartValue, Index,
                 toStart, toEnd, partVars, statVars, failed, replaced, early,
                 crashed>>

DividesByZero ==
  /\ ~crashed /\ run = "pad" /\ BatchSize = 0
  /\ crashed' = TRUE
  /\ UNCHANGED <<listVars, master, devices, run, localVars, toStart, mine,
                 toEnd, partVars, statVars, failed, replaced, early>>

AfterMaster == BatchSize + Pad

RunLists ==
  /\ ~crashed /\ run = "list"
  /\ toStart' = Services_
  /\ StartValue' = AfterMaster /\ Index' = 1
  /\ run' = "starts"
  /\ UNCHANGED <<listVars, master, devices, BatchSize, Pad, mine, toEnd,
                 partVars, statVars, failed, replaced, early, crashed>>

(* std::min of the batch and an unsigned difference. *)
ThisBatchSize ==
  LET left == (devices - StartValue) % Word
  IN  IF left < BatchSize THEN left ELSE BatchSize

Request == [offset |-> StartValue, limit |-> ThisBatchSize, index |-> Index]

(* DoPost of a secondary: nothing may be zero, and the definition must be in *)
(* its database, which it may not be.                                       *)
Accepts(s, r) ==
  /\ r.offset # 0 /\ r.limit # 0 /\ r.index # 0
  /\ part' = [part EXCEPT ![s] = r]

Asks(s) ==
  /\ ~crashed /\ run = "starts" /\ First(s, toStart)
  /\ asked' = [asked EXCEPT ![s] = Request]
  /\ Index' = Index + 1

RunStarts(s) ==
  /\ Asks(s)
  /\ Accepts(s, Request) \/ UNCHANGED part
  /\ StartValue' = StartValue + BatchSize
  /\ toStart' = toStart \ {s}
  /\ UNCHANGED <<listVars, master, devices, run, BatchSize, Pad, mine, toEnd,
                 late, statVars, failed, replaced, early, crashed>>

(* Without an answer the response is null, and its use throws out of run().  *)
RunThrows(s) ==
  /\ Asks(s)
  /\ late' = late \cup {[op |-> "start", to |-> s]}
  /\ failed' = TRUE
  /\ toStart' = {}
  /\ run' = "ended"
  /\ UNCHANGED <<listVars, master, devices, BatchSize, Pad, StartValue, mine,
                 toEnd, part, statVars, replaced, early, crashed>>

RunEnds ==
  /\ ~crashed /\ run = "starts" /\ toStart = {}
  /\ run' = "ended"
  /\ UNCHANGED <<listVars, master, devices, localVars, toStart, mine, toEnd,
                 partVars, statVars, failed, replaced, early, crashed>>

(* The runner is destroyed with the run, under a run() that an early end did *)
(* not wait for.  It goes on with whatever it finds in the memory that was   *)
(* freed (one of DeviceCounts is the bound), it ends, or it crashes.         *)
Dangling == early /\ master \in {"stopped", "completed"}

RunDangles ==
  /\ ~crashed /\ Dangling /\ run # "ended"
  /\ \/ devices' \in DeviceCounts /\ UNCHANGED <<run, toStart, crashed>>
     \/ run' = "ended" /\ toStart' = {} /\ crashed' \in BOOLEAN /\ UNCHANGED devices
  /\ UNCHANGED <<listVars, master, localVars, mine, toEnd, partVars, statVars,
                 failed, replaced, early>>

-----------------------------------------------------------------------------
(* A secondary: its updates reach the slot of its index, and its own worker  *)
(* completes its part.                                                      *)
UpdateRemoteStatus(s) ==
  /\ ~crashed /\ part[s] # NoPart
  /\ part[s].index < slots
  /\ slot' = [slot EXCEPT ![part[s].index] = s]
  /\ UNCHANGED <<listVars, master, devices, run, localVars, toStart, mine,
                 toEnd, partVars, slots, failed, replaced, early, crashed>>

SecondaryCompletes(s) ==
  /\ part[s] # NoPart
  /\ part' = [part EXCEPT ![s] = NoPart]
  /\ UNCHANGED <<listVars, master, devices, run, localVars, toStart, mine,
                 toEnd, asked, late, statVars, failed, replaced, early,
                 crashed>>

(* A request the master gave up arrives, or is lost. *)
Arrives(s, op) ==
  /\ [op |-> op, to |-> s] \in late
  /\ late' = late \ {[op |-> op, to |-> s]}
  /\ \/ UNCHANGED part
     \/ op = "start" /\ Accepts(s, asked[s])
     \/ op = "end" /\ part' = [part EXCEPT ![s] = NoPart]
  /\ UNCHANGED <<listVars, master, devices, run, localVars, toStart, mine,
                 toEnd, asked, statVars, failed, replaced, early, crashed>>

-----------------------------------------------------------------------------
(* The end of the run on the master.  Runner.Stop waits for run(), which has *)
(* the runner's mutex, but not for a run() that has not taken it yet: it     *)
(* finds Running_ down, or nothing to stop.  StopSim and CancelSim then ask   *)
(* the secondaries on the list of that moment.                               *)
RunnerStops == run \in {"new", "ended"} /\ early' = (run = "new")

Ends(op) ==
  /\ ~crashed /\ master = "running" /\ RunnerStops
  /\ master' = op
  /\ toEnd' = Services_
  /\ mine' = 0
  /\ UNCHANGED <<listVars, devices, run, localVars, toStart, partVars, statVars,
                 failed, replaced, crashed>>

(* Stopped, or not running there: both are answers. *)
EndAnswered(s) ==
  /\ ~crashed /\ master \in {"stop", "cancel"} /\ First(s, toEnd)
  /\ part' = [part EXCEPT ![s] = NoPart]
  /\ toEnd' = toEnd \ {s}
  /\ UNCHANGED <<listVars, master, devices, run, localVars, toStart, mine,
                 asked, late, statVars, failed, replaced, early, crashed>>

(* A null response throws out of the loop. *)
EndThrows(s) ==
  /\ ~crashed /\ master \in {"stop", "cancel"} /\ First(s, toEnd)
  /\ late' = late \cup {[op |-> "end", to |-> s]}
  /\ failed' = TRUE
  /\ toEnd' = {}
  /\ UNCHANGED <<listVars, master, devices, run, localVars, toStart, mine,
                 asked, part, statVars, replaced, early, crashed>>

Erases ==
  /\ ~crashed /\ master \in {"stop", "cancel"} /\ toEnd = {}
  /\ slots' = 0
  /\ LookForServices_' = (LookForServices_ \/ master = "cancel")
  /\ master' = "stopped"
  /\ UNCHANGED <<Services_, worker, devices, run, localVars, toStart, mine,
                 toEnd, partVars, slot, failed, replaced, early, crashed>>

(* The worker completes the run without a word to the secondaries. *)
Completes ==
  /\ ~crashed /\ master = "running" /\ RunnerStops
  /\ slots' = 0 /\ mine' = 0
  /\ master' = "completed"
  /\ UNCHANGED <<listVars, devices, run, localVars, toStart, toEnd, partVars, slot,
                 failed, replaced, crashed>>

-----------------------------------------------------------------------------
Worker ==
  \/ WorkerReads
  \/ \E found \in SUBSET Secondaries : WorkerRefreshes(found)

Start == StartStats \/ \E d \in DeviceCounts : StartSim(d)

Run ==
  \/ RunAlone \/ RunShared \/ RunSplits \/ RunPads \/ DividesByZero \/ RunLists
  \/ RunEnds \/ RunDangles
  \/ \E s \in Secondaries : RunStarts(s) \/ RunThrows(s)

Secondary(s) ==
  \/ UpdateRemoteStatus(s) \/ SecondaryCompletes(s)
  \/ \E op \in {"start", "end"} : Arrives(s, op)

End ==
  \/ \E op \in {"stop", "cancel"} : Ends(op)
  \/ \E s \in Secondaries : EndAnswered(s) \/ EndThrows(s)
  \/ Erases \/ Completes

Next ==
  \/ \E flag \in BOOLEAN : OtherRuns(flag)
  \/ Worker \/ Start \/ Run \/ End
  \/ \E s \in Secondaries : Secondary(s)

Spec == Init /\ [][Next]_vars
-----------------------------------------------------------------------------
Part == [offset : Nat, limit : Nat, index : Nat]

(* The type of every variable. *)
TypeOK ==
  /\ LookForServices_ \in BOOLEAN /\ Services_ \subseteq Secondaries
  /\ worker \in {"sleep", "refresh"}
  /\ master \in {"none", "stats", "running", "stop", "cancel", "stopped", "completed"}
  /\ run \in {"none", "new", "split", "pad", "list", "starts", "ended"}
  /\ devices \in DeviceCounts \cup {0}
  /\ BatchSize \in Nat /\ Pad \in Nat /\ StartValue \in Nat /\ Index \in Nat
  /\ toStart \subseteq Secondaries /\ toEnd \subseteq Secondaries /\ mine \in Nat
  /\ asked \in [Secondaries -> Part] /\ part \in [Secondaries -> Part]
  /\ late \subseteq [op : {"start", "end"}, to : Secondaries]
  /\ slots \in Nat /\ slot \in [Secondaries -> Secondaries \cup {0}]
  /\ failed \in BOOLEAN /\ replaced \in BOOLEAN /\ early \in BOOLEAN
  /\ crashed \in BOOLEAN

Span(r) == r.offset .. r.offset + r.limit - 1
Mine == 0 .. mine - 1
Given == Mine \cup UNION {Span(asked[s]) : s \in Secondaries}

(* No device is simulated by two daemons, whatever happens to the list of    *)
(* secondaries, to the requests and to the order they arrive in.             *)
DisjointParts ==
  \A s \in Secondaries :
    /\ Span(part[s]) \cap Mine = {}
    /\ \A t \in Secondaries \ {s} : Span(part[s]) \cap Span(part[t]) = {}

(* A run() that reached its end with every request answered and the list     *)
(* unchanged has given out the devices of the definition, all of them and no *)
(* others, in parts that no secondary refuses for their numbers.             *)
Valid(r) == r.offset # 0 /\ r.limit # 0 /\ r.index # 0

DevicesCovered ==
  run = "ended" /\ master \in {"stats", "running"} /\ ~failed /\ ~replaced =>
    /\ \A s \in Services_ : Valid(asked[s])
    /\ Given = 0 .. devices - 1

(* While the list is unchanged, the statistics of each part have a place of  *)
(* their own among the statuses: none is dropped or written over another's.  *)
PartsCount ==
  /\ \A s, t \in Secondaries :
       part[s].index = part[t].index => s = t \/ part[s] = NoPart
  /\ slots # 0 /\ ~replaced =>
       \A s \in Secondaries : part[s] # NoPart => part[s].index \in 1 .. slots - 1

(* A run that was stopped or cancelled leaves no secondary simulating, unless *)
(* a request went unanswered, the list was replaced under the run, or the end *)
(* overtook the run() whose starts it should undo.                            *)
StopReachesAll ==
  master = "stopped" /\ ~failed /\ ~replaced /\ ~early =>
    \A s \in Secondaries : part[s] = NoPart

(* The split brings the master down only when there are more daemons than    *)
(* devices, or in a run() whose runner is gone.                              *)
CrashesOnFewDevices ==
  crashed /\ ~replaced => devices <= Cardinality(Services_) \/ Dangling

Asked(s) == asked[s] # NoPart

(* What was asked: consecutive parts behind the master's. *)
AskInv ==
  /\ \A s \in Secondaries : part[s] = NoPart \/ part[s] = asked[s]
  /\ \A m \in late : m.op = "start" => Asked(m.to)
  /\ run # "starts" => toStart = {}
  /\ run \notin {"starts", "ended"} => \A s \in Secondaries : ~Asked(s)
  /\ run = "starts" =>
       /\ Index # 0 /\ BatchSize + Pad <= StartValue
       /\ \A s \in toStart : ~Asked(s)
       /\ \A s \in Secondaries : Asked(s) =>
            asked[s].offset + asked[s].limit <= StartValue /\ asked[s].index < Index
  /\ run \in {"none", "new", "split", "pad"} => mine = 0
  /\ \A s \in Secondaries : Asked(s) =>
       /\ mine <= asked[s].offset /\ asked[s].index # 0
       /\ \A t \in Secondaries \ {s} : Asked(t) =>
            /\ asked[s].index # asked[t].index
            /\ \/ asked[s].offset + asked[s].limit <= asked[t].offset
               \/ asked[t].offset + asked[t].limit <= asked[s].offset
  /\ run \in {"list", "starts"} => mine \in {0, BatchSize + Pad}

(* The thread of the request and the thread of the runner. *)
OrderInv ==
  /\ run = "none" <=> master = "none"
  /\ master \notin {"none", "stats", "running"} => run = "ended" \/ early
  /\ early => master \in {"stop", "cancel", "stopped", "completed"}
  /\ slots # 0 => master \in {"running", "stop", "cancel"}
  /\ master # "none" => devices \in DeviceCounts
  /\ ~failed => late = {}
  /\ failed => run = "ended" \/ early

(* With an unchanged list: how the split adds up, and whom a stop must reach. *)
SplitInv ==
  ~replaced /\ ~Dangling =>
    /\ slots # 0 => slots = Cardinality(Services_) + 1
    /\ \A s \in Secondaries : Asked(s) =>
         s \in Services_ /\ asked[s].index <= Cardinality(Services_)
    /\ run = "pad" => BatchSize = devices \div (Cardinality(Services_) + 1)
    /\ run = "list" =>
         BatchSize # 0 /\ mine = BatchSize + Pad
           /\ mine + Cardinality(Services_) * BatchSize = devices
    /\ run = "starts" =>
         /\ BatchSize # 0 /\ mine # 0 /\ mine = BatchSize + Pad
         /\ StartValue + Cardinality(toStart) * BatchSize = devices
         /\ Index + Cardinality(toStart) = Cardinality(Services_) + 1
         /\ toStart \subseteq Services_
         /\ \A s \in Services_ : s \in toStart \/ Valid(asked[s])
         /\ Given = 0 .. StartValue - 1
    /\ master \in {"stop", "cancel"} /\ ~failed /\ ~early =>
         \A s \in Secondaries \ toEnd : part[s] = NoPart

(* The inductive invariant: the shares, the list and the statuses in step. *)
IInv ==
  /\ TypeOK /\ AskInv /\ OrderInv /\ SplitInv
  /\ DevicesCovered /\ StopReachesAll /\ CrashesOnFewDevices
=============================================================================
