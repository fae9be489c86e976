---------------------------- MODULE LoadBalancer ----------------------------
(***************************************************************************)
(* projects/04-load-balancer: class LoadBalancer, its three routing        *)
(* strategies over the healthy backends, and the health checks, whose pings*)
(* are asynchronous and may overlap with requests and with one another.    *)
(*                                                                         *)
(* A backend is its index in the array given to the constructor.           *)
(***************************************************************************)
EXTENDS Integers, Sequences, FiniteSetsExt, SequencesExt, Selections

CONSTANTS
  NumBackends,
  weight,                \* of each backend, at least 1
  Hashes,                \* sums of character codes of client addresses
  MaxIndex,              \* bound: rrIndex grows no further
  Checks                 \* bound: health checks, as numbers in order

ConstantsFit ==
  /\ {NumBackends, MaxIndex} \subseteq Nat
  /\ weight \in [1..NumBackends -> Nat \ {0}]
  /\ Hashes \subseteq Nat

VARIABLES
  strategy,
  healthy,
  rrIndex, currentWeights,
  pings,                 \* <<check, backend>> whose answer is awaited
  started,               \* history: checks that have begun
  overlapped,            \* history: a check began before the last had settled
  newest,                \* history: what the last check was told, until an overlap
  recent,                \* history: the latest choices since the health changed
  changed                \* history: the health changed at all

checkVars == <<pings, started, overlapped, newest>>
vars == <<strategy, healthy, rrIndex, currentWeights, checkVars, recent, changed>>
-----------------------------------------------------------------------------
Backends == 1..NumBackends
Total(B) == MapThenSumSet(LAMBDA b : weight[b], B)

Init ==
  /\ strategy \in {"ROUND_ROBIN", "WEIGHTED_ROUND_ROBIN", "IP_HASH"}
  /\ healthy \in [Backends -> BOOLEAN]
  /\ rrIndex = 0
  /\ currentWeights = [b \in Backends |-> 0]
  /\ pings = {}
  /\ started = 0
  /\ overlapped = FALSE
  /\ newest = healthy
  /\ recent = <<>>
  /\ changed = FALSE
-----------------------------------------------------------------------------
ActiveSet == {b \in Backends : healthy[b]}
Active == Kept([b \in Backends |-> b], ActiveSet)

(* history: the last n choices, of the weighted strategy so many           *)
Patience == 2 * NumBackends * Total(Backends)
Chosen(b, n) ==
  LET r == Append(recent, b) IN
  recent' = SubSeq(r, IF Len(r) > n THEN 2 ELSE 1, Len(r))

RoundRobinPlace == (rrIndex % Len(Active)) + 1

RoundRobin ==
  /\ strategy = "ROUND_ROBIN"
  /\ rrIndex < MaxIndex
  /\ Chosen(Active[RoundRobinPlace], NumBackends)
  /\ rrIndex' = rrIndex + 1
  /\ UNCHANGED currentWeights

(* Smooth weighted round robin: every healthy backend gains its weight; the*)
(* first with the most pays the total, which goes by the healthy ones only.*)
Gained(b) == IF healthy[b] THEN currentWeights[b] + weight[b] ELSE currentWeights[b]
FirstWithMost(b) ==
  \A c \in ActiveSet : Gained(c) < Gained(b) \/ (Gained(c) = Gained(b) /\ b <= c)
EverybodysTotal == Total(Backends)   \* mutant
TotalWeight == Total(ActiveSet)

WeightedRoundRobin ==
  /\ strategy = "WEIGHTED_ROUND_ROBIN"
  /\ \E b \in ActiveSet :
       /\ FirstWithMost(b)
       /\ Chosen(b, Patience)
       /\ currentWeights' = [c \in Backends |->
                               IF c = b THEN Gained(c) - TotalWeight ELSE Gained(c)]
  /\ UNCHANGED rrIndex

IpHash(h) ==
  /\ strategy = "IP_HASH"
  /\ Chosen(Active[(h % Len(Active)) + 1], 1)
  /\ UNCHANGED <<rrIndex, currentWeights>>

(* getNextServer(): throws, and changes nothing, when no backend is healthy*)
GetNextServer(h) ==
  /\ ActiveSet # {}
  /\ RoundRobin \/ WeightedRoundRobin \/ IpHash(h)
  /\ UNCHANGED <<strategy, healthy, checkVars, changed>>

(* performHealthCheck(): pings every backend at once.                      *)
PerformHealthCheck ==
  /\ started + 1 \in Checks
  /\ started' = started + 1
  /\ pings' = pings \cup {<<started + 1, b>> : b \in Backends}
  /\ overlapped' = (overlapped \/ pings # {})
  /\ UNCHANGED <<strategy, healthy, rrIndex, currentWeights, newest, recent, changed>>

LeftAsItWas(b, answer) == IF answer = "rejected" THEN healthy[b] ELSE answer = "up"   \* mutant
HealthAfter(b, answer) == answer = "up"

NoAnswers == [b \in Backends |-> FALSE]

(* A ping is answered, or rejects, which counts as unhealthy.              *)
PingSettles(c, b, answer) ==
  /\ <<c, b>> \in pings
  /\ pings' = pings \ {<<c, b>>}
  /\ healthy' = [healthy EXCEPT ![b] = HealthAfter(b, answer)]
  /\ newest' = IF overlapped THEN NoAnswers ELSE [newest EXCEPT ![b] = (answer = "up")]
  /\ changed' = (changed \/ healthy' # healthy)
  /\ recent' = IF healthy' = healthy THEN recent ELSE <<>>
  /\ UNCHANGED <<strategy, rrIndex, currentWeights, started, overlapped>>

Next ==
  \/ \E h \in Hashes : GetNextServer(h)
  \/ PerformHealthCheck
  \/ \E c \in Checks, b \in Backends, answer \in {"up", "down", "rejected"} :
       PingSettles(c, b, answer)

Spec == Init /\ [][Next]_vars
-----------------------------------------------------------------------------
(* Every variable has its type.                                            *)
TypeOK ==
  /\ healthy \in [Backends -> BOOLEAN]
  /\ rrIndex \in 0..MaxIndex
  /\ currentWeights \in [Backends -> Int]
  /\ pings \subseteq Checks \X Backends
  /\ recent \in Seq(Backends)

(* While the health stays as it is, round robin serves every healthy       *)
(* backend once in as many requests as there are, wherever the index was   *)
(* when the number of healthy backends changed.                            *)
Latest(n) == SubSeq(recent, Len(recent) - n + 1, Len(recent))
RoundRobinFair ==
  strategy = "ROUND_ROBIN" /\ Len(recent) >= Len(Active) /\ ActiveSet # {} =>
    ToSet(Latest(Len(Active))) = ActiveSet

(* From a fresh start, as many requests in a row as the healthy weights add*)
(* up to give every healthy backend exactly its weight, wherever the row   *)
(* begins.                                                                 *)
Share(b, n) == Cardinality({i \in DOMAIN Latest(n) : Latest(n)[i] = b})
WeightedExact ==
  strategy = "WEIGHTED_ROUND_ROBIN" /\ ~changed /\ Len(recent) >= TotalWeight =>
    \A b \in ActiveSet : Share(b, TotalWeight) = weight[b]

(* Backends that leave and come back keep the weights they had. Those of   *)
(* all backends add up to nothing all the same, and none strays from zero  *)
(* by more than all the weights for each of the other backends, whoever was*)
(* healthy when ...                                                        *)
WeightsBalanced == MapThenSumSet(LAMBDA b : currentWeights[b], Backends) = 0
WeightsBounded ==
  \A b \in Backends :
    currentWeights[b] \in -(NumBackends - 1) * Total(Backends)..(NumBackends - 1) * Total(Backends)

(* ... so a healthy backend may be left out for a round of all weights and *)
(* more, but not for ever.                                                 *)
NobodyStarves ==
  strategy = "WEIGHTED_ROUND_ROBIN" /\ Len(recent) = Patience => ActiveSet \subseteq ToSet(recent)

(* The shares of the strategies, whatever came and went before.            *)
FairShares ==
  RoundRobinFair /\ WeightedExact /\ WeightsBalanced /\ WeightsBounded /\ NobodyStarves

(* Once the checks have settled, each backend's health is what the last    *)
(* check was told of it, unless checks overlapped: then an older check's   *)
(* answer may have come last.                                              *)
HealthIsNewest == pings = {} /\ ~overlapped => healthy = newest
=============================================================================
