------------------------- MODULE EarliestFirstQueue -------------------------
(***************************************************************************)
(* What the scheduler expects of its heap: a bag of tasks from which a     *)
(* task with the least runAt is taken.                                     *)
(***************************************************************************)
EXTENDS Integers

CONSTANTS Tasks, runAt

VARIABLES
  count,                 \* how many times each task is in the queue
  result                 \* the tasks the last extraction may have returned

vars == <<count, result>>

Init ==
  /\ count = [t \in Tasks |-> 0]
  /\ result = {}

Insert(t) ==
  /\ count' = [count EXCEPT ![t] = @ + 1]
  /\ UNCHANGED result

Earliest(t) == count[t] > 0 /\ \A s \in Tasks : count[s] > 0 => runAt[t] <= runAt[s]

Extract(t) ==
  /\ Earliest(t)
  /\ count' = [count EXCEPT ![t] = @ - 1]
  /\ result' = {t}

Next == \E t \in Tasks : Insert(t) \/ Extract(t)

Spec == Init /\ [][Next]_vars
=============================================================================
