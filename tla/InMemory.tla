------------------------------ MODULE InMemory ------------------------------
(* The components that work in memory, one call after the other: the task  *)
(* heap, the log aggregator, the cache, its RESP parser, the rate limiters,*)
(* the load balancer and the URL shortener.  They do not interact; which   *)
(* one runs is chosen at the start, so that their state spaces add up      *)
(* instead of multiplying.                                                 *)
EXTENDS TaskMinHeap, Sequences

CONSTANTS
  Timestamps, Severities, OtherSeverities, LogCapacity, Sockets, MaxEntries,
  Keys, EmptyKey, Values, TTLs, CacheCapacity, MaxTime,
  LineTexts, MaxValues, MaxLines,
  Clients, MaxRequests, capacity, refillEvery, depth, leakEvery, limit, windowSize, MaxSpan,
  NumBackends, weight, Hashes, MaxIndex, Checks,
  Base, URLs, EmptyURL, FirstId, MaxId, Preloaded, Requested

VARIABLES
  subject,               \* the component that runs
  buffer, writePointer, count, udpSocket, socket, accepted, replaced,
  cache, lruList, now, answer, unlisted,
  sent, lines, lineIdx, parsed,
  time, asked, clientBuckets, clientQueues, clientWindows, clientLogs, passed,
  strategy, healthy, rrIndex, currentWeights, pings, started, overlapped, newest,
  recent, changed,
  db, urlCache, reverseDb, nextId, response, published, given, reissued

logVars == <<buffer, writePointer, count, udpSocket, socket, accepted, replaced>>
cacheVars == <<cache, lruList, now, answer, unlisted>>
parserVars == <<sent, lines, lineIdx, parsed>>
limiterVars == <<time, asked, clientBuckets, clientQueues, clientWindows, clientLogs, passed>>
balancerVars == <<strategy, healthy, rrIndex, currentWeights, pings, started, overlapped, newest,
                  recent, changed>>
urlVars == <<db, urlCache, reverseDb, nextId, response, published, given, reissued>>
allVars == <<subject, vars, logVars, cacheVars, parserVars, limiterVars, balancerVars, urlVars>>

Aggregator == INSTANCE LogAggregator WITH Capacity <- LogCapacity
LRU == INSTANCE LRUCache WITH Capacity <- CacheCapacity
Parser == INSTANCE RESPParser
Limiters == INSTANCE RateLimiters WITH now <- time, MaxTime <- MaxSpan
Balancer == INSTANCE LoadBalancer
Shortener == INSTANCE URLShortener WITH cache <- urlCache

ASSUME AggregatorAssumption == Aggregator!CapacityFits
ASSUME CacheAssumption == LRU!ConstantsFit
ASSUME LimiterAssumption == Limiters!ConstantsFit
ASSUME BalancerAssumption == Balancer!ConstantsFit
ASSUME ShortenerAssumption == Shortener!ConstantsFit

InMemoryInit ==
  /\ subject \in {"heap", "log", "cache", "parser", "limiters", "balancer", "shortener"}
  /\ Init
  /\ Aggregator!Init
  /\ LRU!Init
  /\ IF subject = "parser" THEN Parser!Init
     ELSE sent = <<>> /\ lines = <<>> /\ lineIdx = 0 /\ parsed = <<>>
  /\ Limiters!Init
  /\ Balancer!Init
  /\ subject # "balancer" => strategy = "IP_HASH" /\ healthy = [b \in 1..NumBackends |-> TRUE]
  /\ Shortener!Init
  /\ subject # "shortener" => db = <<>>

InMemoryNext ==
  /\ UNCHANGED subject
  /\ \/ /\ subject = "heap" /\ Next
        /\ UNCHANGED <<logVars, cacheVars, parserVars, limiterVars, balancerVars, urlVars>>
     \/ /\ subject = "log" /\ Aggregator!Next
        /\ UNCHANGED <<vars, cacheVars, parserVars, limiterVars, balancerVars, urlVars>>
     \/ /\ subject = "cache" /\ LRU!Next
        /\ UNCHANGED <<vars, logVars, parserVars, limiterVars, balancerVars, urlVars>>
     \/ /\ subject = "parser" /\ Parser!Round
        /\ UNCHANGED <<vars, logVars, cacheVars, limiterVars, balancerVars, urlVars>>
     \/ /\ subject = "limiters" /\ Limiters!Next
        /\ UNCHANGED <<vars, logVars, cacheVars, parserVars, balancerVars, urlVars>>
     \/ /\ subject = "balancer" /\ Balancer!Next
        /\ UNCHANGED <<vars, logVars, cacheVars, parserVars, limiterVars, urlVars>>
     \/ /\ subject = "shortener" /\ Shortener!Next
        /\ UNCHANGED <<vars, logVars, cacheVars, parserVars, limiterVars, balancerVars>>

InMemorySpec == InMemoryInit /\ [][InMemoryNext]_allVars
-----------------------------------------------------------------------------
(* What holds in every state of each component, the log's answers and the  *)
(* limiters' bounds; the parts are stated and explained in their modules.  *)
Consistent ==
  /\ subject = "heap" => TypeOK /\ HeapOrder /\ MinFirst
  /\ subject = "log" => Aggregator!TypeOK /\ Aggregator!QueryExact /\ Aggregator!OpenOnlyOnRecord
  /\ subject = "cache" => LRU!TypeOK /\ LRU!ListMatchesMap /\ LRU!WithinCapacity
  /\ subject = "limiters" => Limiters!TypeOK /\ Limiters!WithinBounds
  /\ subject = "balancer" => Balancer!TypeOK
  /\ subject = "shortener" => Shortener!TypeOK

(* The properties of the instances, stated and explained in their modules. *)
IsBoundedLog == Aggregator!IsBoundedLog
IsLRU == LRU!IsLRU
RoundTrip == subject = "parser" => Parser!RoundTrip
RefusesOnlyAtLimit == Limiters!RefusesOnlyAtLimit
FairShares == subject = "balancer" => Balancer!FairShares
HealthIsNewest == subject = "balancer" => Balancer!HealthIsNewest
PromisesKept == subject = "shortener" => Shortener!PromisesKept
=============================================================================
