---------------------------- MODULE TaskMinHeap -----------------------------
(***************************************************************************)
(* projects/08-task-scheduler: class TaskMinHeap, the binary heap in an    *)
(* array that holds the scheduler's queued tasks.  A step is one operation *)
(* up to its loop, or one round of bubbleUp's or bubbleDown's loop.        *)
(*                                                                         *)
(* The array is a function on 0 .. length - 1, indexed as in the code.     *)
(***************************************************************************)
EXTENDS Integers, FiniteSets

CONSTANTS
  Tasks,                 \* task objects; one may be inserted again
  runAt,
  MaxLength              \* bound: the heap grows no further

ASSUME HeapAssumption ==
  /\ runAt \in [Tasks -> Int]
  /\ MaxLength \in Nat

VARIABLES
  heap, length,
  at,                    \* between operations, or in one of the loops
  index,                 \* the loop's local variable
  result                 \* history: what the last extractMin returned

vars == <<heap, length, at, index, result>>
-----------------------------------------------------------------------------
Indices == 0..(length - 1)
Parent(i) == (i - 1) \div 2
LeftChild(i) == 2 * i + 1
RightChild(i) == 2 * i + 2

Before(i, j) == runAt[heap[i]] < runAt[heap[j]]
Swap(i, j) == [heap EXCEPT ![i] = heap[j], ![j] = heap[i]]

Init ==
  /\ heap = [i \in {} |-> 0]
  /\ length = 0
  /\ at = "idle"
  /\ index = 0
  /\ result = {}
-----------------------------------------------------------------------------
(* insert(): at the end of the array, then up.                             *)
Insert(t) ==
  /\ at = "idle"
  /\ length < MaxLength
  /\ heap' = [i \in 0..length |-> IF i = length THEN t ELSE heap[i]]
  /\ length' = length + 1
  /\ at' = "bubbleUp"
  /\ index' = length
  /\ UNCHANGED result

Rises(i) == i > 0 /\ Before(i, Parent(i))

(* bubbleUp(): past the parent, or done.                                   *)
BubbleUp ==
  /\ at = "bubbleUp"
  /\ IF Rises(index)
     THEN /\ heap' = Swap(index, Parent(index))
          /\ index' = Parent(index)
          /\ UNCHANGED at
     ELSE /\ at' = "idle"
          /\ UNCHANGED <<heap, index>>
  /\ UNCHANGED <<length, result>>

AllKept(n) == n   \* mutant
AfterPop(n) == n - 1

(* extractMin(): the last element takes the place of the first, then down. *)
ExtractMin ==
  /\ at = "idle"
  /\ length > 0
  /\ result' = {heap[0]}
  /\ length' = AfterPop(length)
  /\ heap' = [i \in 0..(length' - 1) |-> IF i = 0 THEN heap[length - 1] ELSE heap[i]]
  /\ at' = IF length' > 0 THEN "bubbleDown" ELSE "idle"
  /\ index' = 0

(* the earliest of an element and its children                             *)
Smallest(i) ==
  LET s == IF LeftChild(i) < length /\ Before(LeftChild(i), i) THEN LeftChild(i) ELSE i
  IN  IF RightChild(i) < length /\ Before(RightChild(i), s) THEN RightChild(i) ELSE s

MovesTo(i) == Smallest(i)

(* bubbleDown(): past the earlier child, or done.                          *)
BubbleDown ==
  /\ at = "bubbleDown"
  /\ IF Smallest(index) # index
     THEN /\ heap' = Swap(index, Smallest(index))
          /\ index' = MovesTo(index)
          /\ UNCHANGED at
     ELSE /\ at' = "idle"
          /\ UNCHANGED <<heap, index>>
  /\ UNCHANGED <<length, result>>

Next ==
  \/ \E t \in Tasks : Insert(t)
  \/ BubbleUp
  \/ ExtractMin
  \/ BubbleDown

Spec == Init /\ [][Next]_vars
-----------------------------------------------------------------------------
(* Every variable has its type; a loop's index is in the array.            *)
TypeOK ==
  /\ length \in 0..MaxLength
  /\ heap \in [Indices -> Tasks]
  /\ at \in {"idle", "bubbleUp", "bubbleDown"}
  /\ index \in Nat
  /\ at # "idle" => index \in Indices
  /\ result \subseteq Tasks

Ordered(i, j) == runAt[heap[i]] <= runAt[heap[j]]

(* Between operations every element is no earlier than its parent.  In     *)
(* bubbleUp only the element at index may be earlier than its parent, in   *)
(* bubbleDown only the children of index may be, and the children of index *)
(* are no earlier than its parent.                                         *)
HeapOrder ==
  /\ \A i \in Indices \ {0} :
       \/ Ordered(Parent(i), i)
       \/ at = "bubbleUp" /\ i = index
       \/ at = "bubbleDown" /\ Parent(i) = index
  /\ at # "idle" /\ index > 0 =>
       \A i \in Indices \ {0} : Parent(i) = index => Ordered(Parent(index), i)

(* Between operations the first element, which peekMin shows and           *)
(* extractMin returns, is the earliest of all.                             *)
MinFirst == at = "idle" => \A i \in Indices : Ordered(0, i)

(* The heap is a queue that takes the earliest task out, and neither loses *)
(* nor doubles a task while it moves them about.                           *)
Queue == INSTANCE EarliestFirstQueue
  WITH count <- [t \in Tasks |-> Cardinality({i \in Indices : heap[i] = t})]
IsQueue == Queue!Spec
=============================================================================
