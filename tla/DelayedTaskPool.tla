-------------------------- MODULE DelayedTaskPool --------------------------
(***************************************************************************)
(* What the task scheduler promises its callers, without heap, timer,      *)
(* counter or call stack: a queued task is begun at most once per queueing,*)
(* only while the pool is open, not before it is due and never on more     *)
(* than `Workers' workers at a time; a task that ends may be queued again, *)
(* for later.                                                              *)
(***************************************************************************)
EXTENDS Integers, FiniteSets

CONSTANTS Tasks, Workers

VARIABLES queued, due, busy, open, now

vars == <<queued, due, busy, open, now>>

Init ==
  /\ queued = {}
  /\ due \in [Tasks -> Nat]
  /\ busy = {}
  /\ open = FALSE
  /\ now = 0

(* The task enters the queue, due at any time not before `least'.          *)
QueueFrom(t, least) ==
  /\ queued' = queued \cup {t}
  /\ due'[t] \in Nat /\ due'[t] >= least
  /\ due' = [due EXCEPT ![t] = due'[t]]

Submit(t) ==
  /\ t \notin queued \cup busy
  /\ QueueFrom(t, 0)
  /\ UNCHANGED <<busy, open, now>>

Begin(t) ==
  /\ open
  /\ t \in queued
  /\ due[t] <= now
  /\ Cardinality(busy) < Workers
  /\ queued' = queued \ {t}
  /\ busy' = busy \cup {t}
  /\ UNCHANGED <<due, open, now>>

End(t) ==
  /\ t \in busy
  /\ busy' = busy \ {t}
  /\ UNCHANGED <<queued, due, open, now>>

EndAndRequeue(t) ==
  /\ t \in busy
  /\ busy' = busy \ {t}
  /\ QueueFrom(t, now)
  /\ UNCHANGED <<open, now>>

Switch ==
  /\ open' \in BOOLEAN
  /\ UNCHANGED <<queued, due, busy, now>>

Pass ==
  /\ now' = now + 1
  /\ UNCHANGED <<queued, due, busy, open>>

Next ==
  \/ Switch
  \/ Pass
  \/ \E t \in Tasks : Submit(t) \/ Begin(t) \/ End(t) \/ EndAndRequeue(t)

Spec == Init /\ [][Next]_vars
=============================================================================
