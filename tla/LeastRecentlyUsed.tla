------------------------- MODULE LeastRecentlyUsed --------------------------
(* What a cache with expiry promises, without a list: the entries it holds,*)
(* and which of two keys was used before the other.                        *)
EXTENDS Integers, FiniteSets

CONSTANTS Keys, Values, Capacity
VARIABLES
  entries,               \* what is held: key -> [value, expiresAt]
  before,                \* <<j, k>>: j was last used before k
  answer,                \* what the last get returned: {} or {value}
  now

vars == <<entries, before, answer, now>>
Without(k) == [j \in DOMAIN entries \ {k} |-> entries[j]]
With(held, k, e) == [j \in DOMAIN held \cup {k} |-> IF j = k THEN e ELSE held[j]]
Forget(k) == {p \in before : p[1] # k /\ p[2] # k}
Latest(k, older) == {p \in before : p[1] \in older /\ p[2] \in older}
                      \cup {<<j, k>> : j \in older}
Live(k) == k \in DOMAIN entries /\ \A t \in entries[k].expiresAt : now <= t

Init ==
  /\ entries = [k \in {} |-> 0]
  /\ before = {}
  /\ answer = {}
  /\ now = 0

(* A read answers with a live entry's value and makes the key the latest;  *)
(* an expired entry is gone.                                               *)
Read(k) ==
  /\ IF Live(k)
     THEN /\ answer' = {entries[k].value}
          /\ before' = Latest(k, DOMAIN entries \ {k})
          /\ UNCHANGED entries
     ELSE /\ answer' = {}
          /\ entries' = Without(k)
          /\ before' = Forget(k)
  /\ UNCHANGED now

(* A write makes room, if the key is new and the cache full, by dropping   *)
(* the key that was used before all others.                                *)
Write(k, e) ==
  \E dropped \in SUBSET (DOMAIN entries \ {k}) :
    /\ IF k \in DOMAIN entries \/ Cardinality(DOMAIN entries) < Capacity
       THEN dropped = {}
       ELSE \E j \in DOMAIN entries :
              /\ dropped = {j}
              /\ \A i \in DOMAIN entries \ {j} : <<j, i>> \in before
    /\ LET kept == DOMAIN entries \ (dropped \cup {k}) IN
       /\ entries' = With([j \in kept |-> entries[j]], k, e)
       /\ before' = Latest(k, kept)
    /\ UNCHANGED <<answer, now>>

Remove(k) ==
  /\ entries' = Without(k)
  /\ before' = Forget(k)
  /\ UNCHANGED <<answer, now>>

(* A live key may be given a new time; that is not a use of it.            *)
Touch(k, t) ==
  /\ Live(k)
  /\ entries' = [entries EXCEPT ![k].expiresAt = {t}]
  /\ UNCHANGED <<before, answer, now>>

Pass == now' > now /\ UNCHANGED <<entries, before, answer>>

Next ==
  \/ \E k \in Keys : Read(k) \/ Remove(k)
  \/ \E k \in Keys : k \in DOMAIN entries' /\ Write(k, entries'[k])
  \/ \E k \in Keys : k \in DOMAIN entries' /\ \E t \in entries'[k].expiresAt : Touch(k, t)
  \/ Pass
=============================================================================
