---------------------------- MODULE MicroService ----------------------------
(***************************************************************************)
(* The registry of the services that a process knows, MicroService's         *)
(* Services_, fed by the process's consumer (KafkaManager) and read by the   *)
(* coordinator and by every outgoing request.                                *)
(*                                                                         *)
(* A service is known by its private endpoint.  The id here counts its       *)
(* starts: it stands for what the service announces from that start on, its  *)
(* version and addresses (the id in its messages is kept on disk).  The clock *)
(* is kept as the age of each entry, Now() - LastUpdate, whose unsigned      *)
(* difference is beyond every bound when it is negative.                     *)
(***************************************************************************)
EXTENDS ServiceBus, Integers

CONSTANTS
  Peers,        \* the other services, by their private endpoints
  MaxId,        \* bound on how often a service is started
  MaxAge,       \* 60 seconds, in steps of the clock
  MaxSteps      \* bound on how often the clock is set back

Message(p, i, e) == [from |-> p, id |-> i, event |-> e]
OwnBeat == Message(Self, 0, "keep-alive")

ASSUME PeersAssumption == Self \notin Peers
ASSUME RegistryBoundsAssumption ==
  MaxTopic \in Nat \ {0} /\ MaxId \in Nat \ {0} /\ MaxAge \in Nat /\ MaxSteps \in Nat

VARIABLES
  open,         \* whether the consumer still hands messages on
  Services_,    \* endpoint -> the id it was registered with, 0 if it is not known
  age,          \* endpoint -> Now() - LastUpdate of its entry
  up, id,       \* whether each service runs, and its present id
  lost,         \* whether the JOIN of that id never reached the broker
  steps         \* how often the clock was set back

entryVars == <<Services_, age>>
peerVars == <<up, id, lost>>
registryVars == <<topic, open, entryVars, peerVars, steps>>

Known(p) == Services_[p] # 0

(* When this process starts, a service may be running already, and messages  *)
(* of it may wait that were sent before.                                     *)
RegistryInit ==
  /\ open = TRUE
  /\ Services_ = [p \in Peers |-> 0] /\ age = [p \in Peers |-> 0]
  /\ id = [p \in Peers |-> 1] /\ up \in [Peers -> BOOLEAN]
  /\ topic \in {<<>>} \cup {<<Message(p, 1, e)>> : p \in Peers, e \in SystemEvents}
  /\ lost = [p \in Peers |-> FALSE]
  /\ steps = 0
-----------------------------------------------------------------------------
(* Mutated forms of definitions below, one slip in the code each. *)

JoinRefreshes(m, p) ==                    \* a known endpoint is only refreshed
  IF m.from # p THEN Services_[p]
  ELSE CASE m.event = "leave" -> 0 [] Known(p) -> Services_[p] [] OTHER -> m.id

KeepAliveIgnored(m, p) ==                 \* inserted by a JOIN alone
  IF m.from # p THEN Services_[p]
  ELSE CASE m.event = "leave" -> 0
         [] m.event = "keep-alive" -> Services_[p]
         [] OTHER -> m.id
-----------------------------------------------------------------------------
(* The registered id of p after message m, before the entries are aged: a    *)
(* keep-alive of a known endpoint refreshes it and leaves the rest of it.    *)
Entry(m, p) ==
  IF m.from # p THEN Services_[p]
  ELSE CASE m.event = "leave" -> 0
         [] m.event = "keep-alive" /\ Known(p) -> Services_[p]
         [] OTHER -> m.id

Seen(m, p) == IF m.from = p THEN 0 ELSE age[p]

(* (now - LastUpdate) > 60, of unsigned numbers. *)
Expired(a) == a < 0 \/ a > MaxAge

(* A mutated form of the next definition. *)
SkipsOwn(m) ==                            \* a return at ID == ID_
  IF m.from = Self THEN UNCHANGED entryVars ELSE
  /\ Services_' = [p \in Peers |-> IF Expired(Seen(m, p)) THEN 0 ELSE Entry(m, p)]
  /\ age' = [p \in Peers |-> IF Services_'[p] = 0 THEN 0 ELSE Seen(m, p)]

(* Its own messages change nothing, but like any other they age the rest. *)
BusMessageReceived(m) ==
  /\ Services_' = [p \in Peers |-> IF Expired(Seen(m, p)) THEN 0 ELSE Entry(m, p)]
  /\ age' = [p \in Peers |-> IF Services_'[p] = 0 THEN 0 ELSE Seen(m, p)]

Handles ==
  /\ open /\ topic # <<>>
  /\ BusMessageReceived(Head(topic))
  /\ topic' = Tail(topic)
  /\ UNCHANGED <<open, peerVars, steps>>

(* What the coordinator and the requests are given: no age is looked at. *)
GetServices == {p \in Peers : Known(p)}

(* The clock, and the clock set back; entries far too old are all alike. *)
Aged(d) == [p \in Peers |-> IF ~Known(p) THEN 0
                             ELSE IF age[p] + d > MaxAge + 1 THEN age[p] ELSE age[p] + d]
Tick ==
  /\ age' = Aged(1)
  /\ UNCHANGED <<topic, open, Services_, peerVars, steps>>

SetBack ==
  /\ steps < MaxSteps /\ steps' = steps + 1
  /\ age' = Aged(-1)
  /\ UNCHANGED <<topic, open, Services_, peerVars>>
-----------------------------------------------------------------------------
(* KafkaManager: the keep-alives of this process, which it hears as well, and *)
(* the end of the consumer, by a stop or by a commit that fails.              *)
Sends(m) ==
  /\ Len(topic) < MaxTopic
  /\ topic' = Append(topic, m)

OwnBeats ==
  /\ open
  /\ Sends(OwnBeat)
  /\ UNCHANGED <<open, entryVars, peerVars, steps>>

Closes ==
  /\ open /\ open' = FALSE
  /\ UNCHANGED <<topic, entryVars, peerVars, steps>>

(* The other services, whose sends may fail.                                 *)
Starts(p) ==
  /\ ~up[p] /\ id[p] < MaxId
  /\ up' = [up EXCEPT ![p] = TRUE]
  /\ id' = [id EXCEPT ![p] = @ + 1]
  /\ \/ Sends(Message(p, id[p] + 1, "join")) /\ lost' = [lost EXCEPT ![p] = FALSE]
     \/ UNCHANGED topic /\ lost' = [lost EXCEPT ![p] = TRUE]
  /\ UNCHANGED <<open, entryVars, steps>>

Beats(p) ==
  /\ up[p]
  /\ Sends(Message(p, id[p], "keep-alive"))
  /\ UNCHANGED <<open, peerVars, entryVars, steps>>

Leaves(p) ==
  /\ up[p]
  /\ up' = [up EXCEPT ![p] = FALSE]
  /\ Sends(Message(p, id[p], "leave"))
  /\ UNCHANGED <<open, id, lost, entryVars, steps>>

(* A crash, or an end whose LEAVE is lost. *)
Crashes(p) ==
  /\ up[p]
  /\ up' = [up EXCEPT ![p] = FALSE]
  /\ UNCHANGED <<topic, open, id, lost, entryVars, steps>>

(* The same from the outside: p lives, as LifeStep has it, one life for each id. *)
LivesOn(p) ==
  \E event \in SystemEvents \cup {Silence}, after \in {"up", "gone"} :
    /\ LifeStep(IF up[p] THEN "up" ELSE "unborn", event, after)
    /\ up' = [up EXCEPT ![p] = (after = "up")]
    /\ IF up[p]
         THEN UNCHANGED <<id, lost>>
         ELSE /\ id[p] < MaxId /\ id' = [id EXCEPT ![p] = @ + 1]
              /\ lost' = [lost EXCEPT ![p] = (event = Silence)]
    /\ IF event = Silence THEN UNCHANGED topic ELSE Sends(Message(p, id'[p], event))
    /\ UNCHANGED <<open, entryVars, steps>>
-----------------------------------------------------------------------------
RegistryNext ==
  \/ Handles \/ OwnBeats \/ Closes \/ Tick \/ SetBack
  \/ \E p \in Peers : Starts(p) \/ Beats(p) \/ Leaves(p) \/ Crashes(p)

RegistrySpec == RegistryInit /\ [][RegistryNext]_registryVars

(* Time passes and the consumer runs; it hears this process again and again   *)
(* (KafkaManager's OwnBeatsAreHeard), and a service that beats again and       *)
(* again is heard at last.  Whether a service starts or ends is up to others.  *)
FairRegistrySpec ==
  /\ RegistrySpec
  /\ WF_registryVars(Tick) /\ WF_registryVars(Handles) /\ SF_registryVars(OwnBeats)
  /\ \A p \in Peers : SF_registryVars(Beats(p))
-----------------------------------------------------------------------------
(* A service that died without a word, or whose LEAVE was lost, is forgotten. *)
DeadPeersVanish ==
  \A p \in Peers : ~up[p] /\ p \in GetServices ~> p \notin GetServices \/ up[p] \/ ~open

(* A service that lives on is listed again and again, whatever was lost, aged *)
(* or set back, for as long as the consumer hands messages on.                *)
LivePeersAreListed ==
  \A p \in Peers : up[p] ~> p \in GetServices \/ ~up[p] \/ ~open

(* What is registered of a service that lives is what it announced when it   *)
(* started last, unless that announcement was lost.                          *)
StaleOnlyIfJoinLost ==
  \A p \in Peers :
    up[p] /\ Known(p) /\ Services_[p] # id[p] =>
      \/ lost[p]
      \/ \E i \in DOMAIN topic : topic[i] = Message(p, id[p], "join")
(* The safety half of DeadPeersVanish: once a service has gone and nothing of  *)
(* it waits, no step refreshes its entry or makes it another one; it ages but   *)
(* for a clock set back, and the next message that finds it too old, whoever   *)
(* sent it, takes it away.                                                    *)
Waits(p) == \E n \in DOMAIN topic : topic[n].from = p

DepartedFade ==
  [][\A p \in Peers : ~up[p] /\ Known(p) /\ ~Waits(p) =>
       /\ Waits(p)' => up'[p]
       /\ Known(p)' => Services_'[p] = Services_[p] /\ (age'[p] >= age[p] \/ SetBack)
       /\ Handles /\ Expired(age[p]) => ~Known(p)']_registryVars
-----------------------------------------------------------------------------
(* The inductive invariant behind StaleOnlyIfJoinLost.                       *)
SystemMessages == [from : Peers \cup {Self}, id : Nat, event : SystemEvents]

RegistryTypeOK ==
  /\ topic \in Seq(SystemMessages)
  /\ open \in BOOLEAN /\ steps \in Nat
  /\ Services_ \in [Peers -> Nat] /\ age \in [Peers -> Int]
  /\ up \in [Peers -> BOOLEAN] /\ id \in [Peers -> Nat \ {0}] /\ lost \in [Peers -> BOOLEAN]

(* The JOIN of p's present id waits, behind the first n messages. *)
JoinWaits(p, n) ==
  \E k \in DOMAIN topic : k > n /\ topic[k] = Message(p, id[p], "join")

(* An entry of a former id is there only until the JOIN of the present one,   *)
EntryGivesWay ==
  \A p \in Peers : ~lost[p] /\ Services_[p] \notin {0, id[p]} => JoinWaits(p, 0)

(* and no message of a former id comes after that JOIN.                      *)
OldMessagesFirst ==
  \A p \in Peers : \A n \in DOMAIN topic :
    ~lost[p] /\ topic[n].from = p /\ topic[n].id # id[p] => JoinWaits(p, n)

RegistryInv == RegistryTypeOK /\ EntryGivesWay /\ OldMessagesFirst
=============================================================================
