------------------------------ MODULE LRUCache ------------------------------
(***************************************************************************)
(* projects/06-distributed-cache: class LRUDistributedCache, a map of      *)
(* entries with lazy expiry and the list of its keys in the order of their *)
(* last use.  The methods are synchronous, so each is one step.            *)
(*                                                                         *)
(* EmptyKey is the empty string, a key like any other to the map but false *)
(* to the test that guards an eviction.  Time counts in seconds.           *)
(***************************************************************************)
EXTENDS Integers, Sequences, FiniteSets, Selections

CONSTANTS
  Keys, EmptyKey, Values,
  TTLs,                  \* in seconds; absent is {}
  Capacity,
  MaxTime                \* bound: the clock stops here

VARIABLES
  cache,                 \* the map: key -> [value, expiresAt]
  lruList,               \* keys, least recently used first
  now,
  answer,                \* history: what the last get returned, {} for null
  unlisted               \* history: an eviction took EmptyKey off the list only

vars == <<cache, lruList, now, answer, unlisted>>

ConstantsFit == Capacity \in Nat \ {0} /\ TTLs \subseteq Int
-----------------------------------------------------------------------------
NoTime == {}
TTLArguments == {NoTime} \cup {{s} : s \in TTLs}
ExpiresAt(ttl) == {now + s : s \in ttl}

ExpiredAtOnce(k) == \E t \in cache[k].expiresAt : now >= t   \* mutant
Expired(k) == \E t \in cache[k].expiresAt : now > t

Unlisted(k) == Kept(lruList, Keys \ {k})
ToTheEndTwice(k) == Append(lruList, k)   \* mutant
ToTheEnd(k) == Append(Unlisted(k), k)

Init ==
  /\ cache = [k \in {} |-> 0]
  /\ lruList = <<>>
  /\ now = 0
  /\ answer = {}
  /\ unlisted = FALSE
-----------------------------------------------------------------------------
(* delete(): from the map, and from the list if it was in the map.         *)
DropKey(k) ==
  /\ cache' = [j \in DOMAIN cache \ {k} |-> cache[j]]
  /\ lruList' = IF k \in DOMAIN cache THEN Unlisted(k) ELSE lruList

Delete(k) == DropKey(k) /\ UNCHANGED <<now, answer, unlisted>>

(* get(): an expired entry is deleted, a live one becomes the latest.      *)
Get(k) ==
  /\ IF k \notin DOMAIN cache
     THEN answer' = {} /\ UNCHANGED <<cache, lruList>>
     ELSE IF Expired(k)
     THEN answer' = {} /\ DropKey(k)
     ELSE /\ answer' = {cache[k].value}
          /\ lruList' = ToTheEnd(k)
          /\ UNCHANGED cache
  /\ UNCHANGED <<now, unlisted>>

Full == Cardinality(DOMAIN cache) >= Capacity

(* set(): a new key makes the first of the list leave when the map is full;*)
(* nothing leaves the map when that first is the empty string or the list  *)
(* is empty.                                                               *)
Set(k, v, ttl) ==
  LET entry == [value |-> v, expiresAt |-> ExpiresAt(ttl)]
      evicts == k \notin DOMAIN cache /\ Full /\ lruList # <<>>
      gone == IF evicts THEN {Head(lruList)} \ {EmptyKey} ELSE {}
  IN
  /\ cache' = [j \in (DOMAIN cache \ gone) \cup {k} |-> IF j = k THEN entry ELSE cache[j]]
  /\ lruList' = IF k \in DOMAIN cache THEN ToTheEnd(k)
                ELSE Append(IF evicts THEN Tail(lruList) ELSE lruList, k)
  /\ unlisted' = (unlisted \/ (evicts /\ Head(lruList) = EmptyKey))
  /\ UNCHANGED <<now, answer>>

(* expire(): a new time for a live entry, which keeps its place.           *)
Expire(k, s) ==
  /\ k \in DOMAIN cache
  /\ IF Expired(k)
     THEN DropKey(k)
     ELSE cache' = [cache EXCEPT ![k].expiresAt = ExpiresAt({s})] /\ UNCHANGED lruList
  /\ UNCHANGED <<now, answer, unlisted>>

Tick == now < MaxTime /\ now' = now + 1 /\ UNCHANGED <<cache, lruList, answer, unlisted>>

Next ==
  \/ \E k \in Keys : Get(k) \/ Delete(k)
  \/ \E k \in Keys, v \in Values, ttl \in TTLArguments : Set(k, v, ttl)
  \/ \E k \in Keys, s \in TTLs : Expire(k, s)
  \/ Tick

Spec == Init /\ [][Next]_vars
-----------------------------------------------------------------------------
(* Every variable has its type.                                            *)
TypeOK ==
  /\ DOMAIN cache \subseteq Keys
  /\ \A k \in DOMAIN cache : cache[k].value \in Values
  /\ lruList \in Seq(Keys)
  /\ answer \subseteq Values

(* The list and the map agree through every order of get, set, delete,     *)
(* expire and expiry: each key of the map is listed once, and the list has *)
(* no other.  Only the empty string, once evicted, may be unlisted.        *)
Listed == {lruList[i] : i \in DOMAIN lruList}
ListMatchesMap ==
  /\ Len(lruList) = Cardinality(Listed)
  /\ Listed \subseteq DOMAIN cache
  /\ DOMAIN cache \ Listed \subseteq IF unlisted THEN {EmptyKey} ELSE {}

(* The map never outgrows the capacity before an eviction met the empty    *)
(* string.                                                                 *)
WithinCapacity == unlisted \/ Cardinality(DOMAIN cache) <= Capacity

(* Until then every operation does what an abstract cache does: the key    *)
(* that leaves is the least recently used one, expire is not a use, and no *)
(* get answers with an expired value.                                      *)
InOrder == {<<lruList[p[1]], lruList[p[2]]>> :
              p \in {q \in (1..Len(lruList)) \X (1..Len(lruList)) : q[1] < q[2]}}
Abstract == INSTANCE LeastRecentlyUsed WITH entries <- cache, before <- InOrder
IsLRU == Abstract!Init /\ [][unlisted' \/ Abstract!Next]_vars
=============================================================================
