------------------------ MODULE TaskSchedulerProofs ------------------------
(***************************************************************************)
(* Proofs about TaskScheduler for any set of tasks, any limit, any delays, *)
(* and any nesting of callers' calls inside actions.                       *)
(*                                                                         *)
(* ShapeInv says what the call stack looks like and that a task is in one  *)
(* place, which makes the counter equal to the number of workers in use.   *)
(* TimerInv says that an armed timer covers every queued task.  WakeInv    *)
(* says who will look at the heap next: either the timer, or a tick that   *)
(* is still on the stack.  BudgetInv counts retries against failures, and  *)
(* BackoffInv keeps the due time of a retry.  Last, the steps that         *)
(* DelayedTaskPool knows are shown to be its steps, the others none.       *)
(***************************************************************************)
EXTENDS TaskScheduler, FiniteSetTheorems, TLAPS

(* One frame of the stack: a loop read the clock in the past, but no longer*)
(* ago than actions have blocked the thread; an action is a worker's and   *)
(* was called by a loop.                                                   *)
FrameOK(i) ==
  /\ stack[i].op = "loop" =>
       /\ stack[i].now <= clock
       /\ clock <= stack[i].now + blocked
  /\ stack[i].op = "action" =>
       /\ stack[i].task \in executing
       /\ i < Len(stack)
       /\ stack[i + 1].op = "loop"
FramesOK == \A i \in 1..Len(stack) : FrameOK(i)

(* No task's action is on the stack twice.                                 *)
ActionsDistinct ==
  \A i, j \in 1..Len(stack) :
    /\ stack[i].op = "action"
    /\ stack[j].op = "action"
    /\ stack[i].task = stack[j].task
    => i = j

ShapeInv == TypeOK /\ OnePlace /\ WorkerCount /\ FramesOK /\ ActionsDistinct

(* An armed timer is due no later than any queued task.                    *)
TimerCovers == \A t \in heap : tickTimeout <= runAt[t] + blocked
TimerInv == NoTimerWhenStopped /\ TimerCovers

(* A tick on the stack will look at the heap again before the thread idles.*)
TickPending == \E i \in 1..Len(stack) : stack[i].op \in {"enter", "loop"}
WakeInv ==
  abandoned = {} /\ running /\ heap # {} /\ activeWorkers < MaxConcurrency
    => tickTimeout # NoTimer \/ TickPending
-----------------------------------------------------------------------------
(* Facts about pushing and popping a frame, cited for every stack update.  *)
LEMMA PushFrame ==
  ASSUME NEW S, NEW s \in Seq(S), NEW f \in S
  PROVE  /\ <<f>> \o s \in Seq(S)
         /\ Len(<<f>> \o s) = Len(s) + 1
         /\ (<<f>> \o s)[1] = f
         /\ \A i \in 2..(Len(s) + 1) : (<<f>> \o s)[i] = s[i - 1]
  OBVIOUS

LEMMA PopFrame ==
  ASSUME NEW S, NEW s \in Seq(S), s # <<>>
  PROVE  /\ Tail(s) \in Seq(S)
         /\ Len(Tail(s)) = Len(s) - 1
         /\ Len(s) > 0
         /\ s[1] \in S
         /\ \A i \in 1..(Len(s) - 1) : Tail(s)[i] = s[i + 1]
  OBVIOUS

LEMMA FrameTypes ==
  /\ EnterFrame \in Frame /\ EnterFrame.op = "enter"
  /\ \A n \in Nat : LoopFrame(n) \in Frame /\ LoopFrame(n).op = "loop" /\ LoopFrame(n).now = n
  /\ \A t \in Tasks : ActionFrame(t) \in Frame /\ ActionFrame(t).op = "action"
                      /\ ActionFrame(t).task = t
  BY DEF EnterFrame, LoopFrame, ActionFrame, Frame

(* A retry within the budget is rescheduled after a natural delay.         *)
LEMMA BackoffType ==
  ASSUME TypeOK, NEW t \in Tasks, retryCount[t] < MaxRetries[t]
  PROVE  Backoff(retryCount[t] + 1) \in Nat
<1>1. retryCount[t] \in Nat /\ MaxRetries[t] \in Nat
  BY TasksAssumption DEF TypeOK
<1>2. retryCount[t] + 1 \in 1..(MaxRetries[t] + 1)
  BY <1>1
<1> DEFINE p == 2^(retryCount[t] + 1)
<1>3. p \in Nat
  BY <1>2, PowerAssumption
<1>4. Backoff(retryCount[t] + 1) = p * BackoffUnit
  BY DEF Backoff
<1> HIDE DEF p
<1>5. p * BackoffUnit \in Nat
  BY <1>3, TimeAssumption
<1> QED
  BY <1>4, <1>5
-----------------------------------------------------------------------------
LEMMA InitShape == Init => ShapeInv
<1> SUFFICES ASSUME Init PROVE ShapeInv
  OBVIOUS
<1>1. executing \cup abandoned = {} /\ Cardinality(executing \cup abandoned) = 0
  BY FS_EmptySet DEF Init
<1>2. TypeOK
  <2>1. <<>> \in Seq(Frame)
    OBVIOUS
  <2> QED
    BY <2>1 DEF Init, TypeOK
<1>3. OnePlace /\ FramesOK /\ ActionsDistinct
  BY DEF Init, OnePlace, FramesOK, ActionsDistinct
<1>4. WorkerCount
  BY <1>1, PoolAssumption DEF Init, WorkerCount
<1> QED
  BY <1>2, <1>3, <1>4 DEF ShapeInv

(* What a step does to the stack alone, three ways.                        *)
StackShape == stack \in Seq(Frame) /\ FramesOK /\ ActionsDistinct

LEMMA PushEnterShape ==
  ASSUME ShapeInv, clock' = clock, blocked' = blocked, executing' = executing,
         stack' = <<EnterFrame>> \o stack
  PROVE  StackShape'
<1>1. stack \in Seq(Frame) /\ FramesOK /\ ActionsDistinct
  BY DEF ShapeInv, TypeOK
<1>2. /\ stack' \in Seq(Frame)
      /\ Len(stack') = Len(stack) + 1
      /\ stack'[1].op = "enter"
      /\ \A i \in 2..(Len(stack) + 1) : stack'[i] = stack[i - 1]
  BY <1>1, PushFrame, FrameTypes
<1>3. FramesOK'
  <2> SUFFICES ASSUME NEW i \in 1..Len(stack') PROVE FrameOK(i)'
    BY DEF FramesOK
  <2>1. CASE i = 1
    BY <2>1, <1>2 DEF FrameOK
  <2>2. CASE i # 1
    <3>1. i - 1 \in 1..Len(stack) /\ i \in 2..(Len(stack) + 1) /\ Len(stack) \in Nat
      BY <2>2, <1>1, <1>2
    <3>2. FrameOK(i - 1) /\ stack'[i] = stack[i - 1]
      BY <3>1, <1>1, <1>2 DEF FramesOK
    <3>3. i - 1 < Len(stack) => i < Len(stack') /\ stack'[i + 1] = stack[(i - 1) + 1]
      BY <3>1, <1>2
    <3> QED
      BY <3>2, <3>3 DEF FrameOK
  <2> QED
    BY <2>1, <2>2
<1>4. ActionsDistinct'
  <2> SUFFICES ASSUME NEW i \in 1..Len(stack'), NEW j \in 1..Len(stack'),
                      stack'[i].op = "action", stack'[j].op = "action",
                      stack'[i].task = stack'[j].task
               PROVE  i = j
    BY DEF ActionsDistinct
  <2>1. i # 1 /\ j # 1 /\ Len(stack) \in Nat
    BY <1>1, <1>2
  <2>2. /\ i - 1 \in 1..Len(stack) /\ stack'[i] = stack[i - 1]
        /\ j - 1 \in 1..Len(stack) /\ stack'[j] = stack[j - 1]
    BY <2>1, <1>2
  <2>3. i - 1 = j - 1
    BY <2>2, <1>1 DEF ActionsDistinct
  <2> QED
    BY <2>3
<1> QED
  BY <1>2, <1>3, <1>4 DEF StackShape

LEMMA PopShape ==
  ASSUME ShapeInv, clock' = clock, blocked' = blocked, executing' = executing,
         stack # <<>>, stack' = Tail(stack)
  PROVE  StackShape'
<1>1. stack \in Seq(Frame) /\ FramesOK /\ ActionsDistinct
  BY DEF ShapeInv, TypeOK
<1>2. /\ stack' \in Seq(Frame)
      /\ Len(stack') = Len(stack) - 1 /\ Len(stack) \in Nat
      /\ \A i \in 1..Len(stack') : stack'[i] = stack[i + 1]
  BY <1>1, PopFrame
<1>3. FramesOK'
  <2> SUFFICES ASSUME NEW i \in 1..Len(stack') PROVE FrameOK(i)'
    BY DEF FramesOK
  <2>1. FrameOK(i + 1) /\ stack'[i] = stack[i + 1]
    BY <1>1, <1>2 DEF FramesOK
  <2>2. i + 1 < Len(stack) => i < Len(stack') /\ stack'[i + 1] = stack[(i + 1) + 1]
    BY <1>2
  <2> QED
    BY <2>1, <2>2 DEF FrameOK
<1>4. ActionsDistinct'
  <2> SUFFICES ASSUME NEW i \in 1..Len(stack'), NEW j \in 1..Len(stack'),
                      stack'[i].op = "action", stack'[j].op = "action",
                      stack'[i].task = stack'[j].task
               PROVE  i = j
    BY DEF ActionsDistinct
  <2>1. i + 1 = j + 1
    BY <1>1, <1>2 DEF ActionsDistinct
  <2> QED
    BY <2>1
<1> QED
  BY <1>2, <1>3, <1>4 DEF StackShape

LEMMA SameStackShape ==
  ASSUME ShapeInv, clock' = clock, blocked' = blocked, executing' = executing, stack' = stack
  PROVE  StackShape'
  BY DEF ShapeInv, TypeOK, StackShape, FramesOK, FrameOK, ActionsDistinct
-----------------------------------------------------------------------------
(* The counter: a dispatched task is a new worker, a settled one a lost    *)
(* worker, because a task is in one place.                                 *)
LEMMA WorkersFinite ==
  ASSUME ShapeInv
  PROVE  /\ IsFiniteSet(executing \cup abandoned)
         /\ Cardinality(executing \cup abandoned) \in Nat
<1>1. executing \cup abandoned \subseteq Tasks
  BY DEF ShapeInv, TypeOK
<1>2. IsFiniteSet(executing \cup abandoned)
  BY <1>1, FS_Subset, TasksAssumption
<1> QED
  BY <1>2, FS_CardinalityType

LEMMA CountUp ==
  ASSUME ShapeInv, NEW t \in heap,
         activeWorkers < MaxConcurrency, activeWorkers' = activeWorkers + 1,
         executing' = executing \cup {t}, abandoned' = abandoned
  PROVE  WorkerCount'
<1>1. t \notin executing \cup abandoned
  BY DEF ShapeInv, OnePlace
<1>2. executing' \cup abandoned' = (executing \cup abandoned) \cup {t}
  OBVIOUS
<1>3. Cardinality(executing' \cup abandoned') = Cardinality(executing \cup abandoned) + 1
  BY <1>1, <1>2, WorkersFinite, FS_AddElement
<1> QED
  BY <1>3, PoolAssumption DEF ShapeInv, TypeOK, WorkerCount

LEMMA CountDown ==
  ASSUME ShapeInv, NEW t \in executing, activeWorkers' = activeWorkers - 1,
         executing' = executing \ {t}, abandoned' = abandoned
  PROVE  WorkerCount' /\ activeWorkers' \in Nat
<1>1. t \in executing \cup abandoned /\ t \notin abandoned
  BY DEF ShapeInv, OnePlace
<1>2. executing' \cup abandoned' = (executing \cup abandoned) \ {t}
  BY <1>1
<1>3. Cardinality(executing' \cup abandoned') = Cardinality(executing \cup abandoned) - 1
  BY <1>1, <1>2, WorkersFinite, FS_RemoveElement
<1>4. Cardinality(executing' \cup abandoned') \in Nat
  BY <1>1, <1>2, WorkersFinite, FS_RemoveElement, FS_CardinalityType
<1> QED
  BY <1>3, <1>4, PoolAssumption DEF ShapeInv, TypeOK, WorkerCount

(* A step that leaves the workers and the places of the tasks alone keeps  *)
(* everything but the parts about types and the stack.                     *)
LEMMA SamePlaces ==
  ASSUME ShapeInv, heap' = heap, fresh' = fresh, activeWorkers' = activeWorkers,
         executing' = executing, abandoned' = abandoned,
         TypeOK', StackShape'
  PROVE  ShapeInv'
  BY DEF ShapeInv, OnePlace, WorkerCount, StackShape
-----------------------------------------------------------------------------
(* ShapeInv, one lemma per action.                                         *)
LEMMA ShapeSchedule ==
  ASSUME ShapeInv, NEW t \in Tasks, NEW at \in RunAts, Schedule(t, at)
  PROVE  ShapeInv'
<1>1. StackShape'
  <2>1. CASE running
    BY <2>1, PushEnterShape DEF Schedule, Enqueue, ClearTimer, poolVars, histVars
  <2>2. CASE ~running
    BY <2>2, SameStackShape DEF Schedule, Enqueue, ClearTimer, poolVars, histVars
  <2> QED
    BY <2>1, <2>2
<1>2. TypeOK'
  BY <1>1, TimeAssumption
  DEF ShapeInv, TypeOK, Schedule, Enqueue, ClearTimer, poolVars, histVars, StackShape
<1>3. OnePlace' /\ WorkerCount'
  BY DEF ShapeInv, OnePlace, WorkerCount, Schedule, Enqueue, ClearTimer, poolVars
<1> QED
  BY <1>1, <1>2, <1>3 DEF ShapeInv, StackShape

LEMMA ShapeStart == ASSUME ShapeInv, Start PROVE ShapeInv'
<1>1. StackShape'
  BY PushEnterShape DEF Start, poolVars, histVars
<1>2. TypeOK'
  BY <1>1 DEF ShapeInv, TypeOK, Start, poolVars, histVars, StackShape
<1> QED
  BY <1>1, <1>2, SamePlaces DEF Start, poolVars

LEMMA ShapeStop == ASSUME ShapeInv, Stop PROVE ShapeInv'
<1>1. StackShape'
  BY SameStackShape DEF Stop, poolVars, histVars
<1>2. TypeOK'
  BY <1>1 DEF ShapeInv, TypeOK, Stop, poolVars, histVars, StackShape
<1> QED
  BY <1>1, <1>2, SamePlaces DEF Stop, poolVars

LEMMA ShapeTickEnter == ASSUME ShapeInv, TickEnter PROVE ShapeInv'
<1>1. StackShape'
  <2>1. CASE ~running
    BY <2>1, PopShape DEF TickEnter, In, poolVars, histVars
  <2>2. CASE running
    <3>1. /\ stack \in Seq(Frame) /\ FramesOK /\ ActionsDistinct /\ clock \in Nat
          /\ stack # <<>> /\ stack[1].op = "enter"
      BY DEF ShapeInv, TypeOK, TickEnter, In
    <3>2. stack' = <<LoopFrame(clock)>> \o Tail(stack) /\ clock' = clock /\ blocked' = blocked /\ executing' = executing
      BY <2>2 DEF TickEnter, poolVars, histVars
    <3>3. /\ stack' \in Seq(Frame)
          /\ Len(stack') = Len(stack) /\ Len(stack) \in Nat
          /\ stack'[1].op = "loop" /\ stack'[1].now = clock
          /\ \A i \in 2..Len(stack) : stack'[i] = stack[i]
      <4>1. /\ Tail(stack) \in Seq(Frame) /\ Len(Tail(stack)) = Len(stack) - 1
            /\ \A i \in 1..(Len(stack) - 1) : Tail(stack)[i] = stack[i + 1]
        BY <3>1, PopFrame
      <4>2. LoopFrame(clock) \in Frame /\ LoopFrame(clock).op = "loop" /\ LoopFrame(clock).now = clock
        BY <3>1, FrameTypes
      <4>3. /\ stack' \in Seq(Frame) /\ Len(stack') = Len(Tail(stack)) + 1
            /\ stack'[1] = LoopFrame(clock)
            /\ \A i \in 2..(Len(Tail(stack)) + 1) : stack'[i] = Tail(stack)[i - 1]
        BY <3>2, <4>1, <4>2, PushFrame
      <4>4. Len(stack) \in Nat
        BY <3>1
      <4>5. ASSUME NEW i \in 2..Len(stack) PROVE stack'[i] = stack[i]
        BY <4>1, <4>3, <4>4
      <4> QED
        BY <4>1, <4>2, <4>3, <4>4, <4>5
    <3>4. FramesOK'
      <4> SUFFICES ASSUME NEW i \in 1..Len(stack') PROVE FrameOK(i)'
        BY DEF FramesOK
      <4>1. CASE i = 1
        <5>1. stack'[1].op = "loop" /\ stack'[1].now = clock /\ clock \in Nat /\ blocked \in Nat
          BY <3>1, <3>3 DEF ShapeInv, TypeOK
        <5> QED
          BY <3>2, <4>1, <5>1 DEF FrameOK
      <4>2. CASE i # 1
        <5>1. FrameOK(i) /\ stack'[i] = stack[i] /\ (i < Len(stack) => stack'[i + 1] = stack[i + 1])
          BY <3>1, <3>3, <4>2 DEF FramesOK
        <5> QED
          BY <3>2, <3>3, <5>1 DEF FrameOK
      <4> QED
        BY <4>1, <4>2
    <3>5. ActionsDistinct'
      <4> SUFFICES ASSUME NEW i \in 1..Len(stack'), NEW j \in 1..Len(stack'),
                          stack'[i].op = "action", stack'[j].op = "action",
                          stack'[i].task = stack'[j].task
                   PROVE  i = j
        BY DEF ActionsDistinct
      <4>1. i # 1 /\ j # 1
        BY <3>3
      <4>2. stack'[i] = stack[i] /\ stack'[j] = stack[j]
        BY <4>1, <3>3
      <4> QED
        BY <4>2, <3>1, <3>3 DEF ActionsDistinct
    <3> QED
      BY <3>3, <3>4, <3>5 DEF StackShape
  <2> QED
    BY <2>1, <2>2
<1>2. TypeOK'
  BY <1>1 DEF ShapeInv, TypeOK, TickEnter, codeVars, poolVars, histVars, StackShape
<1> QED
  BY <1>1, <1>2, SamePlaces DEF TickEnter, codeVars, poolVars

LEMMA ShapeTickDone == ASSUME ShapeInv, TickDone PROVE ShapeInv'
<1>1. StackShape'
  BY PopShape DEF TickDone, In, poolVars, histVars
<1>2. TypeOK'
  BY <1>1 DEF ShapeInv, TypeOK, TickDone, codeVars, poolVars, histVars, StackShape
<1> QED
  BY <1>1, <1>2, SamePlaces DEF TickDone, codeVars, poolVars

(* The frame on top of a non-empty stack.                                  *)
LEMMA TopFrame ==
  ASSUME ShapeInv, stack # <<>>
  PROVE  1 \in 1..Len(stack) /\ stack[1] \in Frame /\ FrameOK(1)
<1>1. stack \in Seq(Frame) /\ FramesOK
  BY DEF ShapeInv, TypeOK
<1>2. 1 \in 1..Len(stack)
  BY <1>1
<1> QED
  BY <1>1, <1>2 DEF FramesOK

(* setTimeout's delay is natural, positive and not longer than asked for.  *)
LEMMA TimerDelayBounds ==
  ASSUME NEW d \in Nat, d > 0
  PROVE  TimerDelay(d) \in Nat /\ 0 < TimerDelay(d) /\ TimerDelay(d) <= d
  BY TimeAssumption DEF TimerDelay

LEMMA ShapeTickSleep == ASSUME ShapeInv, TickSleep PROVE ShapeInv'
<1>1. StackShape'
  BY PopShape DEF TickSleep, Early, In, poolVars, histVars
<1>2. tickTimeout' \in Nat \cup {NoTimer}
  <2>1. PICK t \in Tasks :
          /\ runAt[t] > stack[1].now
          /\ tickTimeout' = IF tickTimeout = NoTimer
                            THEN clock + TimerDelay(runAt[t] - stack[1].now)
                            ELSE tickTimeout
    BY DEF TickSleep, Early
  <2>2. stack[1].now \in Nat /\ runAt[t] \in Nat /\ clock \in Nat
    BY TopFrame DEF TickSleep, Early, In, Frame, ShapeInv, TypeOK
  <2>3. TimerDelay(runAt[t] - stack[1].now) \in Nat
    BY <2>1, <2>2, TimerDelayBounds
  <2> QED
    BY <2>1, <2>2, <2>3 DEF ShapeInv, TypeOK
<1>3. TypeOK'
  BY <1>1, <1>2 DEF ShapeInv, TypeOK, TickSleep, Early, poolVars, histVars, StackShape
<1> QED
  BY <1>1, <1>3, SamePlaces DEF TickSleep, Early, poolVars

LEMMA ShapeActionReturns == ASSUME ShapeInv, ActionReturns PROVE ShapeInv'
<1>1. StackShape'
  BY PopShape DEF ActionReturns, In, poolVars, histVars
<1>2. TypeOK'
  BY <1>1 DEF ShapeInv, TypeOK, ActionReturns, codeVars, poolVars, histVars, StackShape
<1> QED
  BY <1>1, <1>2, SamePlaces DEF ActionReturns, codeVars, poolVars

LEMMA ShapeDispatch ==
  ASSUME ShapeInv, NEW t \in Tasks, Dispatch(t)
  PROVE  ShapeInv'
<1>1. /\ stack \in Seq(Frame) /\ FramesOK /\ ActionsDistinct
      /\ stack # <<>> /\ stack[1].op = "loop"
      /\ t \in heap /\ t \notin executing
  BY DEF ShapeInv, TypeOK, OnePlace, Dispatch, Early, In, IsMin
<1>2. /\ stack' = <<ActionFrame(t)>> \o stack /\ clock' = clock /\ blocked' = blocked
      /\ executing' = executing \cup {t} /\ abandoned' = abandoned
      /\ activeWorkers < MaxConcurrency /\ activeWorkers' = activeWorkers + 1
  BY DEF Dispatch, Early, LoopGuard, histVars
<1>3. /\ stack' \in Seq(Frame)
      /\ Len(stack') = Len(stack) + 1 /\ Len(stack) \in Nat /\ 0 < Len(stack)
      /\ stack'[1].op = "action" /\ stack'[1].task = t
      /\ \A i \in 2..(Len(stack) + 1) : stack'[i] = stack[i - 1]
  BY <1>1, <1>2, PushFrame, FrameTypes
<1>4. FramesOK'
  <2> SUFFICES ASSUME NEW i \in 1..Len(stack') PROVE FrameOK(i)'
    BY DEF FramesOK
  <2>1. CASE i = 1
    <3>1. stack'[1 + 1] = stack[1]
      BY <1>3
    <3> QED
      BY <2>1, <3>1, <1>1, <1>2, <1>3 DEF FrameOK
  <2>2. CASE i # 1
    <3>1. i - 1 \in 1..Len(stack) /\ i \in 2..(Len(stack) + 1)
      BY <2>2, <1>3
    <3>2. FrameOK(i - 1) /\ stack'[i] = stack[i - 1]
      BY <3>1, <1>1, <1>3 DEF FramesOK
    <3>3. i - 1 < Len(stack) => i < Len(stack') /\ stack'[i + 1] = stack[(i - 1) + 1]
      BY <3>1, <1>3
    <3> QED
      BY <3>2, <3>3, <1>2 DEF FrameOK
  <2> QED
    BY <2>1, <2>2
<1>5. ActionsDistinct'
  <2> SUFFICES ASSUME NEW i \in 1..Len(stack'), NEW j \in 1..Len(stack'),
                      stack'[i].op = "action", stack'[j].op = "action",
                      stack'[i].task = stack'[j].task
               PROVE  i = j
    BY DEF ActionsDistinct
  <2>1. \A k \in 2..Len(stack') :
          /\ k - 1 \in 1..Len(stack) /\ stack'[k] = stack[k - 1]
          /\ stack[k - 1].op = "action" => stack[k - 1].task # t
    BY <1>1, <1>3 DEF FramesOK, FrameOK
  <2>2. CASE i = 1 \/ j = 1
    BY <2>1, <2>2, <1>3
  <2>3. CASE i # 1 /\ j # 1
    <3>1. i \in 2..Len(stack') /\ j \in 2..Len(stack')
      BY <2>3
    <3>2. /\ i - 1 \in 1..Len(stack) /\ j - 1 \in 1..Len(stack)
          /\ stack[i - 1].op = "action" /\ stack[j - 1].op = "action"
          /\ stack[i - 1].task = stack[j - 1].task
      BY <2>1, <3>1
    <3>3. \A k, l \in 1..Len(stack) :
            /\ stack[k].op = "action"
            /\ stack[l].op = "action"
            /\ stack[k].task = stack[l].task
            => k = l
      BY <1>1 DEF ActionsDistinct
    <3>4. i - 1 = j - 1
      BY <3>2, <3>3
    <3> QED
      BY <3>4
  <2> QED
    BY <2>2, <2>3
<1>6. WorkerCount'
  BY <1>1, <1>2, CountUp
<1>7. TypeOK'
  BY <1>2, <1>3 DEF ShapeInv, TypeOK, Dispatch, Early, histVars
<1>8. OnePlace'
  BY <1>1 DEF ShapeInv, OnePlace, Dispatch, Early
<1> QED
  BY <1>4, <1>5, <1>6, <1>7, <1>8 DEF ShapeInv

(* Two frames go: the action's, and the loop's that called it.             *)
LEMMA ShapeActionThrows == ASSUME ShapeInv, ActionThrows PROVE ShapeInv'
<1>1. /\ stack \in Seq(Frame) /\ FramesOK /\ ActionsDistinct
      /\ stack # <<>> /\ stack[1].op = "action"
      /\ executing \subseteq Tasks
  BY DEF ShapeInv, TypeOK, ActionThrows, In
<1>2. /\ stack[1].task \in executing
      /\ 1 < Len(stack)
  BY <1>1, TopFrame DEF FrameOK
<1> DEFINE t == stack[1].task
<1>3. /\ stack' = Tail(Tail(stack)) /\ clock' = clock /\ blocked' = blocked
      /\ executing' = executing \ {t} /\ abandoned' = abandoned \cup {t}
  BY DEF ActionThrows, histVars
<1>4. /\ stack' \in Seq(Frame)
      /\ Len(stack') = Len(stack) - 2 /\ Len(stack) \in Nat
      /\ \A i \in 1..Len(stack') : stack'[i] = stack[i + 2]
  <2>1. /\ Tail(stack) \in Seq(Frame) /\ Len(Tail(stack)) = Len(stack) - 1
        /\ \A i \in 1..(Len(stack) - 1) : Tail(stack)[i] = stack[i + 1]
    BY <1>1, PopFrame
  <2>2. Len(stack) \in Nat /\ Tail(stack) # <<>>
    BY <1>1, <1>2, <2>1
  <2>3. /\ stack' \in Seq(Frame) /\ Len(stack') = Len(Tail(stack)) - 1
        /\ \A i \in 1..(Len(Tail(stack)) - 1) : stack'[i] = Tail(stack)[i + 1]
    BY <1>3, <2>1, <2>2, PopFrame
  <2>4. ASSUME NEW i \in 1..Len(stack') PROVE stack'[i] = stack[i + 2]
    BY <2>1, <2>2, <2>3
  <2> QED
    BY <2>1, <2>2, <2>3, <2>4
<1>5. FramesOK'
  <2> SUFFICES ASSUME NEW i \in 1..Len(stack') PROVE FrameOK(i)'
    BY DEF FramesOK
  <2>1. FrameOK(i + 2) /\ stack'[i] = stack[i + 2] /\ i + 2 \in 1..Len(stack)
    BY <1>1, <1>4 DEF FramesOK
  <2>2. i + 2 < Len(stack) => i < Len(stack') /\ stack'[i + 1] = stack[(i + 2) + 1]
    BY <1>4
  <2>3. stack[i + 2].op = "action" => stack[i + 2].task # t
    BY <1>1, <1>2, <2>1 DEF ActionsDistinct
  <2> QED
    BY <1>3, <2>1, <2>2, <2>3 DEF FrameOK
<1>6. ActionsDistinct'
  <2> SUFFICES ASSUME NEW i \in 1..Len(stack'), NEW j \in 1..Len(stack'),
                      stack'[i].op = "action", stack'[j].op = "action",
                      stack'[i].task = stack'[j].task
               PROVE  i = j
    BY DEF ActionsDistinct
  <2>1. i + 2 = j + 2
    BY <1>1, <1>4 DEF ActionsDistinct
  <2> QED
    BY <2>1
<1>7. executing' \cup abandoned' = executing \cup abandoned
  BY <1>2, <1>3
<1>8. TypeOK'
  BY <1>1, <1>2, <1>3, <1>4 DEF ShapeInv, TypeOK, ActionThrows, codeVars, histVars
<1>9. OnePlace' /\ WorkerCount'
  BY <1>2, <1>3, <1>7
  DEF ShapeInv, OnePlace, WorkerCount, ActionThrows, codeVars
<1> QED
  BY <1>5, <1>6, <1>8, <1>9 DEF ShapeInv
-----------------------------------------------------------------------------
(* On an idle thread a reaction leaves one or two calls of tick behind.    *)
LEMMA IdleShape ==
  ASSUME ShapeInv, Idle, stack' \in {<<EnterFrame>>, <<EnterFrame>> \o <<EnterFrame>>}
  PROVE  StackShape'
<1>1. EnterFrame \in Frame /\ EnterFrame.op = "enter"
  BY FrameTypes
<1> DEFINE e == EnterFrame
<1>2. e \in Frame /\ stack' \in {<<e>>, <<e>> \o <<e>>}
  BY <1>1
<1> HIDE DEF e
<1>3. /\ stack' \in Seq(Frame)
      /\ \A i \in 1..Len(stack') : stack'[i] = e
  <2>1. CASE stack' = <<e>>
    BY <1>2, <2>1
  <2>2. CASE stack' = <<e>> \o <<e>>
    <3>1. <<e>> \in Seq(Frame) /\ Len(<<e>>) = 1 /\ <<e>>[1] = e
      BY <1>2
    <3>2. /\ stack' \in Seq(Frame) /\ Len(stack') = 2
          /\ stack'[1] = e /\ stack'[2] = e
      BY <1>2, <2>2, <3>1, PushFrame
    <3> QED
      BY <3>2
  <2> QED
    BY <1>2, <2>1, <2>2
<1> USE DEF e
<1>4. \A i \in 1..Len(stack') : stack'[i].op = "enter"
  BY <1>1, <1>3
<1> QED
  BY <1>3, <1>4 DEF StackShape, FramesOK, FrameOK, ActionsDistinct

LEMMA EnqueueType ==
  ASSUME TypeOK, NEW t \in Tasks, NEW at \in Nat, NEW n \in Nat, NEW after,
         Enqueue(t, at, n, after)
  PROVE  /\ heap' \subseteq Tasks /\ runAt' \in [Tasks -> Nat]
         /\ retryCount' \in [Tasks -> Nat] /\ tickTimeout' \in Nat \cup {NoTimer}
  BY DEF TypeOK, Enqueue, ClearTimer

LEMMA ShapeResolved ==
  ASSUME ShapeInv, NEW t \in Tasks, Resolved(t)
  PROVE  ShapeInv'
<1>1. StackShape'
  BY IdleShape DEF Resolved, FreeWorker, TickAgain, Enqueue, ClearTimer
<1>2. WorkerCount' /\ activeWorkers' \in Nat
  BY CountDown DEF Resolved, FreeWorker, TickAgain
<1>3. TypeOK'
  <2>1. CASE Interval[t] # NoInterval
    <3>1. clock + Interval[t] \in Nat
      BY <2>1, TasksAssumption DEF ShapeInv, TypeOK
    <3>2. /\ heap' \subseteq Tasks /\ runAt' \in [Tasks -> Nat]
          /\ retryCount' \in [Tasks -> Nat] /\ tickTimeout' \in Nat \cup {NoTimer}
      BY <2>1, <3>1, EnqueueType DEF ShapeInv, TypeOK, Resolved, FreeWorker, TickAgain
    <3> QED
      BY <1>1, <1>2, <3>2 DEF ShapeInv, TypeOK, Resolved, FreeWorker, TickAgain, StackShape
  <2>2. CASE Interval[t] = NoInterval
    BY <1>1, <1>2, <2>2 DEF ShapeInv, TypeOK, Resolved, FreeWorker, TickAgain, StackShape
  <2> QED
    BY <2>1, <2>2
<1>4. OnePlace'
  BY DEF ShapeInv, OnePlace, Resolved, FreeWorker, TickAgain, Enqueue, ClearTimer
<1> QED
  BY <1>1, <1>2, <1>3, <1>4 DEF ShapeInv, StackShape

LEMMA ShapeRejected ==
  ASSUME ShapeInv, NEW t \in Tasks, Rejected(t)
  PROVE  ShapeInv'
<1>1. StackShape'
  BY IdleShape DEF Rejected, FreeWorker, TickAgain, MayRetry, RetryAt, Enqueue, ClearTimer
<1>2. WorkerCount' /\ activeWorkers' \in Nat
  BY CountDown DEF Rejected, FreeWorker, TickAgain, MayRetry, RetryAt
<1>3. TypeOK'
  <2>0. /\ running' \in BOOLEAN /\ clock' \in Nat /\ fresh' \subseteq Tasks
        /\ executing' \subseteq Tasks /\ abandoned' \subseteq Tasks
        /\ failures' \in [Tasks -> Nat] /\ failedAt' \in [Tasks -> Nat] /\ blocked' \in Nat
    BY DEF ShapeInv, TypeOK, Rejected, FreeWorker, TickAgain, MayRetry, RetryAt
  <2>1. CASE retryCount[t] < MaxRetries[t]
    <3>1. clock + Backoff(retryCount[t] + 1) \in Nat
      BY <2>1, BackoffType DEF ShapeInv, TypeOK
    <3>2. /\ heap' \subseteq Tasks /\ runAt' \in [Tasks -> Nat]
          /\ retryCount' \in [Tasks -> Nat] /\ tickTimeout' \in Nat \cup {NoTimer}
      BY <2>1, <3>1, EnqueueType DEF ShapeInv, TypeOK, Rejected, FreeWorker, TickAgain, MayRetry, RetryAt
    <3> QED
      BY <1>1, <1>2, <3>2, <2>0 DEF ShapeInv, TypeOK, StackShape
  <2>2. CASE ~(retryCount[t] < MaxRetries[t])
    BY <1>1, <1>2, <2>0, <2>2 DEF ShapeInv, TypeOK, Rejected, FreeWorker, TickAgain, MayRetry, RetryAt, StackShape
  <2> QED
    BY <2>1, <2>2
<1>4. OnePlace'
  BY DEF ShapeInv, OnePlace, Rejected, FreeWorker, TickAgain, MayRetry, RetryAt, Enqueue, ClearTimer
<1> QED
  BY <1>1, <1>2, <1>3, <1>4 DEF ShapeInv, StackShape

LEMMA ShapeTimerFires == ASSUME ShapeInv, TimerFires PROVE ShapeInv'
<1>1. StackShape'
  BY IdleShape DEF TimerFires
<1>2. TypeOK'
  BY <1>1 DEF ShapeInv, TypeOK, TimerFires, poolVars, histVars, StackShape
<1> QED
  BY <1>1, <1>2, SamePlaces DEF TimerFires, poolVars

(* Time makes a loop's `now' stale only while an action blocks.            *)
LEMMA ShapeAdvance == ASSUME ShapeInv, Advance PROVE ShapeInv'
<1>1. stack \in Seq(Frame) /\ FramesOK /\ ActionsDistinct /\ clock \in Nat
  BY DEF ShapeInv, TypeOK
<1>2. stack' = stack /\ clock' = clock + 1 /\ executing' = executing 
      /\ blocked \in Nat /\ (stack # <<>> => blocked' = blocked + 1)
  BY DEF Advance, Idle, poolVars, ShapeInv, TypeOK
<1>3. FramesOK'
  <2> SUFFICES ASSUME NEW i \in 1..Len(stack') PROVE FrameOK(i)'
    BY DEF FramesOK
  <2>1. blocked' = blocked + 1
    BY <1>1, <1>2
  <2>2. FrameOK(i) /\ stack[i] \in Frame
    BY <1>1, <1>2 DEF FramesOK
  <2>3. stack[i].now \in Nat
    BY <2>2 DEF Frame
  <2> QED
    BY <1>1, <1>2, <2>1, <2>2, <2>3 DEF FrameOK
<1>4. StackShape'
  BY <1>1, <1>2, <1>3 DEF StackShape, ActionsDistinct
<1>5. TypeOK'
  BY <1>1, <1>2 DEF ShapeInv, TypeOK, Advance, Idle, codeVars, poolVars
<1> QED
  BY <1>4, <1>5, SamePlaces DEF Advance, codeVars, poolVars
-----------------------------------------------------------------------------
LEMMA ShapeStep == ShapeInv /\ [Next]_vars => ShapeInv'
<1> SUFFICES ASSUME ShapeInv, [Next]_vars PROVE ShapeInv'
  OBVIOUS
<1>1. ASSUME NEW t \in Tasks, NEW at \in RunAts, Schedule(t, at) PROVE ShapeInv'
  BY <1>1, ShapeSchedule
<1>2. ASSUME NEW t \in Tasks, Dispatch(t) PROVE ShapeInv'
  BY <1>2, ShapeDispatch
<1>3. ASSUME NEW t \in Tasks, Resolved(t) \/ Rejected(t) PROVE ShapeInv'
  BY <1>3, ShapeResolved, ShapeRejected
<1>4. CASE Start \/ Stop
  BY <1>4, ShapeStart, ShapeStop
<1>5. CASE TickEnter \/ TickDone \/ TickSleep
  BY <1>5, ShapeTickEnter, ShapeTickDone, ShapeTickSleep
<1>6. CASE ActionReturns \/ ActionThrows
  BY <1>6, ShapeActionReturns, ShapeActionThrows
<1>7. CASE TimerFires \/ Advance
  BY <1>7, ShapeTimerFires, ShapeAdvance
<1>8. CASE UNCHANGED vars
  <2>1. StackShape'
    BY <1>8, SameStackShape DEF vars, poolVars, histVars
  <2>2. TypeOK'
    BY <1>8 DEF ShapeInv, TypeOK, vars, codeVars, poolVars, histVars
  <2> QED
    BY <1>8, <2>1, <2>2, SamePlaces DEF vars, codeVars, poolVars
<1> QED
  BY <1>1, <1>2, <1>3, <1>4, <1>5, <1>6, <1>7, <1>8
  DEF Next, Callers, Thread, Reactions

(* ShapeInv holds in every reachable state.                                *)
THEOREM ShapeInvariant == Spec => []ShapeInv
<1> QED
  BY InitShape, ShapeStep, PTL DEF Spec

(* Type correctness of the scheduler's fields and of its call stack.       *)
THEOREM TypeCorrect == Spec => []TypeOK
<1>1. ShapeInv => TypeOK
  BY DEF ShapeInv
<1> QED
  BY <1>1, ShapeInvariant, PTL

(* activeWorkers is the number of workers in use and never passes the      *)
(* limit, for any limit, under any interleaving of nested calls.           *)
THEOREM WorkerLimit == Spec => []WorkerCount
<1>1. ShapeInv => WorkerCount
  BY DEF ShapeInv
<1> QED
  BY <1>1, ShapeInvariant, PTL
-----------------------------------------------------------------------------
(* The timer.  Inserting into the heap of a running scheduler clears it,   *)
(* stopping clears it, and it is only armed for the least runAt.           *)
LEMMA EnqueueTimer ==
  ASSUME ShapeInv, TimerInv, NEW t \in Tasks, NEW at \in Nat, NEW n, NEW after,
         Enqueue(t, at, n, after), running' = running, blocked' = blocked
  PROVE  TimerInv'
<1>1. CASE running
  <2>1. tickTimeout' = -1
    BY <1>1 DEF Enqueue, ClearTimer, NoTimer
  <2>2. heap' \subseteq Tasks /\ runAt' \in [Tasks -> Nat] /\ blocked' \in Nat
    BY DEF Enqueue, ClearTimer, ShapeInv, TypeOK
  <2>3. TimerCovers'
    BY <2>1, <2>2 DEF TimerCovers
  <2> QED
    BY <2>1, <2>3 DEF TimerInv, NoTimerWhenStopped, NoTimer
<1>2. CASE ~running
  <2>1. tickTimeout' = -1
    BY <1>2 DEF Enqueue, ClearTimer, NoTimer, TimerInv, NoTimerWhenStopped
  <2>2. heap' \subseteq Tasks /\ runAt' \in [Tasks -> Nat] /\ blocked' \in Nat
    BY DEF Enqueue, ClearTimer, ShapeInv, TypeOK
  <2>3. TimerCovers'
    BY <2>1, <2>2 DEF TimerCovers
  <2> QED
    BY <2>1, <2>3 DEF TimerInv, NoTimerWhenStopped, NoTimer
<1> QED
  BY <1>1, <1>2

(* A step that inserts nothing and either leaves the timer or clears it.   *)
LEMMA SameOrNoTimer ==
  ASSUME ShapeInv, TimerInv, heap' \subseteq heap, runAt' = runAt,
         blocked' \in Nat, blocked' >= blocked,
         \/ tickTimeout' = NoTimer
         \/ tickTimeout' = tickTimeout /\ (running => running')
  PROVE  TimerInv'
<1>1. CASE tickTimeout' = NoTimer
  <2>1. \A t \in heap' : tickTimeout' <= runAt'[t] + blocked'
    BY <1>1 DEF NoTimer, ShapeInv, TypeOK
  <2> QED
    BY <1>1, <2>1 DEF TimerInv, TimerCovers, NoTimerWhenStopped
<1>2. CASE tickTimeout' = tickTimeout /\ (running => running')
  BY <1>2 DEF TimerInv, TimerCovers, NoTimerWhenStopped, NoTimer, ShapeInv, TypeOK
<1> QED
  BY <1>1, <1>2

LEMMA TimerTickSleep ==
  ASSUME ShapeInv, TimerInv, TickSleep
  PROVE  TimerInv'
<1>1. PICK t \in Tasks :
        /\ IsMin(t)
        /\ runAt[t] > stack[1].now
        /\ tickTimeout' = IF tickTimeout = NoTimer
                          THEN clock + TimerDelay(runAt[t] - stack[1].now)
                          ELSE tickTimeout
  BY DEF TickSleep, Early
<1>2. /\ running /\ running' = running /\ heap' = heap /\ runAt' = runAt
  BY DEF TickSleep, Early, LoopGuard
<1>3. CASE tickTimeout # NoTimer
  BY <1>1, <1>2, <1>3, SameOrNoTimer DEF TickSleep, histVars, ShapeInv, TypeOK
<1>4. CASE tickTimeout = NoTimer
  <2>1. /\ stack[1].now \in Nat /\ clock \in Nat /\ runAt \in [Tasks -> Nat]
        /\ heap \subseteq Tasks
        /\ clock <= stack[1].now + blocked /\ blocked \in Nat /\ blocked' = blocked
    BY TopFrame DEF TickSleep, Early, In, Frame, FrameOK, ShapeInv, TypeOK, histVars
  <2> DEFINE d == runAt[t] - stack[1].now
  <2>2. d \in Nat /\ d > 0
    BY <1>1, <2>1
  <2>3. TimerDelay(d) \in Nat /\ TimerDelay(d) <= d
    BY <2>2, TimerDelayBounds
  <2>4. tickTimeout' = clock + TimerDelay(d)
    BY <1>1, <1>4
  <2>5. tickTimeout' <= runAt[t] + blocked /\ tickTimeout' \in Nat
    BY <2>1, <2>3, <2>4
  <2>6. \A u \in heap : runAt[t] <= runAt[u] /\ runAt[u] \in Nat /\ runAt[t] \in Nat
    BY <1>1, <2>1 DEF IsMin
  <2>7. TimerCovers'
    BY <1>2, <2>1, <2>5, <2>6 DEF TimerCovers
  <2> QED
    BY <1>2, <2>7 DEF TimerInv, NoTimerWhenStopped
<1> QED
  BY <1>3, <1>4

LEMMA TimerStep == ShapeInv /\ TimerInv /\ [Next]_vars => TimerInv'
<1> SUFFICES ASSUME ShapeInv, TimerInv, [Next]_vars PROVE TimerInv'
  OBVIOUS
<1>0. blocked \in Nat
  BY DEF ShapeInv, TypeOK
<1>1. ASSUME NEW t \in Tasks, NEW at \in RunAts, Schedule(t, at) PROVE TimerInv'
  BY <1>1, EnqueueTimer, TimeAssumption DEF Schedule, histVars
<1>2. ASSUME NEW t \in Tasks, Resolved(t) PROVE TimerInv'
  <2>1. CASE Interval[t] # NoInterval
    <3>1. clock + Interval[t] \in Nat
      BY <2>1, TasksAssumption DEF ShapeInv, TypeOK
    <3> QED
      BY <1>2, <2>1, <3>1, EnqueueTimer DEF Resolved, FreeWorker, TickAgain
  <2>2. CASE Interval[t] = NoInterval
    BY <1>0, <1>2, <2>2, SameOrNoTimer DEF Resolved, FreeWorker, TickAgain
  <2> QED
    BY <2>1, <2>2
<1>3. ASSUME NEW t \in Tasks, Rejected(t) PROVE TimerInv'
  <2>1. CASE retryCount[t] < MaxRetries[t]
    <3>1. clock + Backoff(retryCount[t] + 1) \in Nat
      BY <2>1, BackoffType DEF ShapeInv, TypeOK
    <3> QED
      BY <1>3, <2>1, <3>1, EnqueueTimer DEF Rejected, FreeWorker, TickAgain, MayRetry, RetryAt
  <2>2. CASE ~(retryCount[t] < MaxRetries[t])
    BY <1>0, <1>3, <2>2, SameOrNoTimer DEF Rejected, FreeWorker, TickAgain, MayRetry, RetryAt
  <2> QED
    BY <2>1, <2>2
<1>4. CASE TickSleep
  BY <1>4, TimerTickSleep
<1>5. CASE Start \/ Stop \/ TimerFires
  BY <1>0, <1>5, SameOrNoTimer DEF Start, Stop, TimerFires, histVars
<1>6. CASE TickEnter \/ TickDone \/ ActionReturns \/ ActionThrows \/ Advance \/ UNCHANGED vars
  <2>1. heap' = heap /\ runAt' = runAt /\ tickTimeout' = tickTimeout /\ running' = running
    BY <1>6 DEF TickEnter, TickDone, ActionReturns, ActionThrows, Advance, vars, codeVars
  <2>2. blocked' \in {blocked, blocked + 1}
    BY <1>6 DEF TickEnter, TickDone, ActionReturns, ActionThrows, Advance, vars, histVars
  <2> QED
    BY <1>0, <2>1, <2>2, SameOrNoTimer
<1>7. ASSUME NEW t \in Tasks, Dispatch(t) PROVE TimerInv'
  BY <1>0, <1>7, SameOrNoTimer DEF Dispatch, Early, histVars
<1> QED
  BY <1>1, <1>2, <1>3, <1>4, <1>5, <1>6, <1>7 DEF Next, Callers, Thread, Reactions

LEMMA TimerInvariant == Spec => []TimerInv
<1>1. Init => TimerInv
  BY DEF Init, TimerInv, NoTimerWhenStopped, TimerCovers
<1> QED
  BY <1>1, TimerStep, ShapeInvariant, PTL DEF Spec

(* A stopped scheduler has no timer armed: neither stop itself nor any     *)
(* completion that reaches a stopped scheduler leaves or arms one.         *)
THEOREM StoppedHasNoTimer == Spec => []NoTimerWhenStopped
<1>1. TimerInv => NoTimerWhenStopped
  BY DEF TimerInv
<1> QED
  BY <1>1, TimerInvariant, PTL

(* The timer is later than the earliest queued task by no more than the    *)
(* time for which actions have blocked the thread.                         *)
THEOREM TimerInTime == Spec => []TimerNotLate
<1>1. TimerInv => TimerNotLate
  BY DEF TimerInv, TimerCovers, TimerNotLate, Waiting
<1> QED
  BY <1>1, TimerInvariant, PTL
-----------------------------------------------------------------------------
(* Who looks at the heap next.  A step that puts a call of tick on top of  *)
(* the stack settles the matter.                                           *)
LEMMA EnterPending ==
  ASSUME NEW s \in Seq(Frame), stack' = <<EnterFrame>> \o s
  PROVE  TickPending'
<1>1. Len(stack') = Len(s) + 1 /\ Len(s) \in Nat /\ stack'[1].op = "enter"
  BY PushFrame, FrameTypes
<1>2. 1 \in 1..Len(stack')
  BY <1>1
<1> QED
  BY <1>1, <1>2 DEF TickPending

(* Popping an action leaves the loop that called it.                       *)
LEMMA ReturnPending ==
  ASSUME ShapeInv, In("action"), stack' = Tail(stack)
  PROVE  TickPending'
<1>1. stack \in Seq(Frame) /\ stack # <<>> /\ stack[1].op = "action"
  BY DEF ShapeInv, TypeOK, In
<1>2. 1 < Len(stack) /\ stack[1 + 1].op = "loop"
  BY <1>1, TopFrame DEF FrameOK
<1>3. Len(stack') = Len(stack) - 1 /\ Len(stack) \in Nat /\ stack'[1] = stack[1 + 1]
  BY <1>1, <1>2, PopFrame
<1>4. 1 \in 1..Len(stack') /\ stack'[1].op = "loop"
  BY <1>2, <1>3
<1> QED
  BY <1>4 DEF TickPending

LEMMA WakeEnqueue ==
  ASSUME ShapeInv, NEW t, NEW at, NEW n, NEW after \in Seq(Frame),
         Enqueue(t, at, n, after), running' = running
  PROVE  WakeInv'
<1>1. CASE running
  BY <1>1, EnterPending DEF Enqueue, ClearTimer, WakeInv
<1>2. CASE ~running
  BY <1>2 DEF WakeInv
<1> QED
  BY <1>1, <1>2

LEMMA WakeDispatch ==
  ASSUME ShapeInv, NEW t \in Tasks, Dispatch(t)
  PROVE  WakeInv'
<1>1. stack \in Seq(Frame) /\ stack # <<>> /\ stack[1].op = "loop" /\ ActionFrame(t) \in Frame
  BY FrameTypes DEF ShapeInv, TypeOK, Dispatch, Early, In
<1>2. Len(stack') = Len(stack) + 1 /\ Len(stack) \in Nat /\ Len(stack) > 0
  BY <1>1, PushFrame DEF Dispatch, Early
<1>3. 2 \in 1..Len(stack') /\ stack'[2] = stack[2 - 1]
  BY <1>1, <1>2, PushFrame DEF Dispatch, Early
<1>4. stack'[2].op = "loop"
  BY <1>1, <1>3
<1> QED
  BY <1>3, <1>4 DEF WakeInv, TickPending

LEMMA WakeTickSleep == ASSUME ShapeInv, TickSleep PROVE WakeInv'
<1>1. PICK t \in Tasks :
        /\ runAt[t] > stack[1].now
        /\ tickTimeout' = IF tickTimeout = NoTimer
                          THEN clock + TimerDelay(runAt[t] - stack[1].now)
                          ELSE tickTimeout
  BY DEF TickSleep, Early
<1>2. stack[1].now \in Nat /\ runAt[t] \in Nat /\ clock \in Nat
  BY TopFrame DEF TickSleep, Early, In, Frame, ShapeInv, TypeOK
<1>3. TimerDelay(runAt[t] - stack[1].now) \in Nat
  BY <1>1, <1>2, TimerDelayBounds
<1>4. tickTimeout' # NoTimer
  BY <1>1, <1>2, <1>3 DEF NoTimer
<1> QED
  BY <1>4 DEF WakeInv

LEMMA WakeStep == ShapeInv /\ WakeInv /\ [Next]_vars => WakeInv'
<1> SUFFICES ASSUME ShapeInv, WakeInv, [Next]_vars PROVE WakeInv'
  OBVIOUS
<1>0. stack \in Seq(Frame) /\ <<>> \in Seq(Frame) /\ EnterFrame \in Frame
      /\ <<EnterFrame>> \in Seq(Frame) /\ <<EnterFrame>> = <<EnterFrame>> \o <<>>
  <2>1. EnterFrame \in Frame
    BY FrameTypes
  <2> DEFINE e == EnterFrame
  <2>2. e \in Frame
    BY <2>1
  <2> HIDE DEF e
  <2>3. <<e>> \in Seq(Frame) /\ <<e>> = <<e>> \o <<>> /\ <<>> \in Seq(Frame)
    BY <2>2
  <2> QED
    BY <2>1, <2>3 DEF ShapeInv, TypeOK, e
<1>1. ASSUME NEW t \in Tasks, NEW at \in RunAts, Schedule(t, at) PROVE WakeInv'
  BY <1>0, <1>1, WakeEnqueue DEF Schedule
<1>2. ASSUME NEW t \in Tasks, Resolved(t) PROVE WakeInv'
  <2>1. CASE Interval[t] # NoInterval
    BY <1>0, <1>2, <2>1, WakeEnqueue DEF Resolved, FreeWorker, TickAgain
  <2>2. CASE Interval[t] = NoInterval
    <3>1. TickPending'
      BY <1>0, <1>2, <2>2, EnterPending DEF Resolved, FreeWorker, TickAgain
    <3> QED
      BY <3>1 DEF WakeInv
  <2> QED
    BY <2>1, <2>2
<1>3. ASSUME NEW t \in Tasks, Rejected(t) PROVE WakeInv'
  <2>1. CASE retryCount[t] < MaxRetries[t]
    BY <1>0, <1>3, <2>1, WakeEnqueue DEF Rejected, FreeWorker, TickAgain, MayRetry, RetryAt
  <2>2. CASE ~(retryCount[t] < MaxRetries[t])
    <3>1. TickPending'
      BY <1>0, <1>3, <2>2, EnterPending DEF Rejected, FreeWorker, TickAgain, MayRetry, RetryAt
    <3> QED
      BY <3>1 DEF WakeInv
  <2> QED
    BY <2>1, <2>2
<1>4. CASE Start \/ TimerFires
  <2>1. TickPending'
    BY <1>0, <1>4, EnterPending DEF Start, TimerFires
  <2> QED
    BY <2>1 DEF WakeInv
<1>5. CASE Stop
  BY <1>5 DEF Stop, WakeInv
<1>6. CASE TickEnter
  <2>1. CASE running
    <3>1. stack # <<>> /\ Tail(stack) \in Seq(Frame)
      BY <1>0, <1>6, PopFrame DEF TickEnter, In
    <3>2. LoopFrame(clock) \in Frame /\ LoopFrame(clock).op = "loop"
      BY FrameTypes DEF ShapeInv, TypeOK
    <3>3. Len(stack') = Len(Tail(stack)) + 1 /\ Len(Tail(stack)) \in Nat /\ stack'[1] = LoopFrame(clock)
      BY <1>6, <2>1, <3>1, <3>2, PushFrame DEF TickEnter
    <3>4. 1 \in 1..Len(stack') /\ stack'[1].op = "loop"
      BY <3>2, <3>3
    <3> QED
      BY <3>4 DEF WakeInv, TickPending
  <2>2. CASE ~running
    BY <1>6, <2>2 DEF TickEnter, codeVars, WakeInv
  <2> QED
    BY <2>1, <2>2
<1>7. CASE TickDone
  BY <1>7 DEF TickDone, LoopGuard, codeVars, WakeInv
<1>8. CASE TickSleep
  BY <1>8, WakeTickSleep
<1>9. CASE ActionReturns
  <2>1. TickPending'
    BY <1>9, ReturnPending DEF ActionReturns
  <2> QED
    BY <2>1 DEF WakeInv
<1>10. CASE ActionThrows
  BY <1>10 DEF ActionThrows, WakeInv
<1>11. CASE Advance \/ UNCHANGED vars
  BY <1>11 DEF Advance, vars, codeVars, poolVars, WakeInv, TickPending
<1>12. ASSUME NEW t \in Tasks, Dispatch(t) PROVE WakeInv'
  BY <1>12, WakeDispatch
<1> QED
  BY <1>1, <1>2, <1>3, <1>4, <1>5, <1>6, <1>7, <1>8, <1>9, <1>10, <1>11, <1>12
  DEF Next, Callers, Thread, Reactions

LEMMA WakeInvariant == Spec => []WakeInv
<1>1. Init => WakeInv
  BY DEF Init, WakeInv
<1> QED
  BY <1>1, WakeStep, ShapeInvariant, PTL DEF Spec

(* No lost wake-up: unless an action throws before it returns its promise, *)
(* an idle, running scheduler with a queued task and a free worker always  *)
(* has its timer armed, also when actions block.                           *)
THEOREM WakeupKept == Spec => []NoLostWakeup
<1>1. WakeInv => NoLostWakeup
  BY DEF WakeInv, NoLostWakeup, Waiting, Idle, TickPending
<1> QED
  BY <1>1, WakeInvariant, PTL
-----------------------------------------------------------------------------
(* In every state the fields have their types, activeWorkers counts the    *)
(* workers in use within the limit, and a stopped scheduler has no timer.  *)
THEOREM AlwaysConsistent == Spec => []Consistent
  BY TypeCorrect, WorkerLimit, StoppedHasNoTimer, PTL DEF Consistent

(* Only a dispatch starts an action.                                       *)
LEMMA OnlyDispatchStarts ==
  ASSUME [Next]_vars, ~(executing' \subseteq executing)
  PROVE  \E t \in Tasks : Dispatch(t)
<1>1. ASSUME NEW t \in Tasks, Resolved(t) \/ Rejected(t) PROVE executing' \subseteq executing
  BY <1>1 DEF Resolved, Rejected
<1>2. ASSUME NEW t \in Tasks, NEW at \in RunAts, Schedule(t, at) PROVE executing' \subseteq executing
  BY <1>2 DEF Schedule, poolVars
<1>3. CASE Start \/ Stop \/ TimerFires \/ Advance \/ UNCHANGED vars
  BY <1>3 DEF Start, Stop, TimerFires, Advance, vars, poolVars
<1>4. CASE TickEnter \/ TickDone \/ TickSleep \/ ActionReturns \/ ActionThrows
  BY <1>4 DEF TickEnter, TickDone, TickSleep, ActionReturns, ActionThrows, poolVars
<1> QED
  BY <1>1, <1>2, <1>3, <1>4 DEF Next, Callers, Thread, Reactions

(* Once stopped, a scheduler starts no action: only a round of the loop    *)
(* starts one, and it has just tested running.                             *)
THEOREM QuietWhenStopped == Spec => StopIsQuiet
<1>1. ASSUME NEW t \in Tasks, Dispatch(t) PROVE running
  BY <1>1 DEF Dispatch, LoopGuard
<1>2. [Next]_vars => [executing' \subseteq executing \/ running]_vars
  BY <1>1, OnlyDispatchStarts
<1> QED
  BY <1>2, PTL DEF Spec, StopIsQuiet
-----------------------------------------------------------------------------
(* The retry budget.  A task no caller has scheduled yet has not failed,   *)
(* which is why its first insertion may reset its retryCount.              *)
BudgetInv == RetryBudget /\ \A t \in fresh : failures[t] = 0

(* The step of a task that is queued with a count equal to its failures.   *)
LEMMA BudgetEnqueue ==
  ASSUME ShapeInv, BudgetInv, NEW t \in Tasks, NEW at, NEW n, NEW after,
         Enqueue(t, at, n, after), n = failures'[t], n <= MaxRetries[t],
         \A u \in Tasks \ {t} : failures'[u] = failures[u],
         executing' \subseteq executing, t \notin executing',
         executing \ executing' \subseteq {t}, abandoned' = abandoned,
         fresh' = fresh \ {t}
  PROVE  BudgetInv'
<1>1. /\ heap' = heap \cup {t} /\ retryCount \in [Tasks -> Nat]
      /\ retryCount' = [retryCount EXCEPT ![t] = n]
      /\ heap \subseteq Tasks /\ executing \subseteq Tasks /\ fresh \subseteq Tasks
  BY DEF Enqueue, ShapeInv, TypeOK
<1>2. retryCount'[t] = n /\ \A u \in Tasks \ {t} : retryCount'[u] = retryCount[u]
  BY <1>1
<1>3. ASSUME NEW u \in heap' \cup executing'
      PROVE  failures'[u] = retryCount'[u] /\ retryCount'[u] <= MaxRetries[u]
  <2>1. CASE u = t
    BY <1>2, <2>1
  <2>2. CASE u # t
    <3>1. u \in heap \cup executing /\ u \in Tasks \ {t}
      BY <1>1, <1>3, <2>2
    <3> QED
      BY <1>2, <3>1 DEF BudgetInv, RetryBudget
  <2> QED
    BY <2>1, <2>2
<1>4. ASSUME NEW u \in Dropped'
      PROVE  (failures'[u] = 0 /\ Interval[u] = NoInterval) \/ failures'[u] = MaxRetries[u] + 1
  <2>1. u \in Dropped /\ u \in Tasks \ {t}
    BY <1>1, <1>4 DEF Dropped
  <2> QED
    BY <2>1 DEF BudgetInv, RetryBudget
<1>5. \A u \in fresh' : failures'[u] = 0
  BY <1>1 DEF BudgetInv
<1> QED
  BY <1>3, <1>4, <1>5 DEF BudgetInv, RetryBudget

(* The step of a worker's task that is not queued again.                   *)
LEMMA BudgetDrop ==
  ASSUME ShapeInv, BudgetInv, NEW t \in executing, executing' = executing \ {t},
         UNCHANGED <<heap, retryCount, abandoned, fresh>>,
         \A u \in Tasks \ {t} : failures'[u] = failures[u],
         \/ failures'[t] = 0 /\ Interval[t] = NoInterval
         \/ failures'[t] = MaxRetries[t] + 1
  PROVE  BudgetInv'
<1>1. /\ t \notin heap /\ t \notin fresh
      /\ heap \subseteq Tasks /\ executing \subseteq Tasks /\ fresh \subseteq Tasks
  BY DEF ShapeInv, OnePlace, TypeOK
<1>2. Dropped' \subseteq Dropped \cup {t}
  BY DEF Dropped
<1>3. Dropped \subseteq Tasks
  BY DEF Dropped
<1> QED
  BY <1>1, <1>2, <1>3 DEF BudgetInv, RetryBudget

(* A step that settles nothing.                                            *)
LEMMA BudgetSame ==
  ASSUME BudgetInv, UNCHANGED <<retryCount, failures, fresh>>,
         heap' \cup executing' = heap \cup executing,
         heap' \cup executing' \cup abandoned' = heap \cup executing \cup abandoned
  PROVE  BudgetInv'
<1>1. Dropped' = Dropped
  BY DEF Dropped
<1> QED
  BY <1>1 DEF BudgetInv, RetryBudget

LEMMA BudgetThrow ==
  ASSUME ShapeInv, BudgetInv, ActionThrows
  PROVE  BudgetInv'
<1>1. In("action") /\ stack # <<>> /\ stack[1].op = "action"
  BY DEF ActionThrows, In
<1>2. stack[1].task \in executing
  BY <1>1, TopFrame DEF FrameOK
<1>3. Dropped' = Dropped /\ heap' \cup executing' \subseteq heap \cup executing
  BY <1>2 DEF ActionThrows, Dropped, codeVars
<1> QED
  BY <1>3 DEF ActionThrows, BudgetInv, RetryBudget, codeVars, histVars

LEMMA BudgetStep == ShapeInv /\ BudgetInv /\ [Next]_vars => BudgetInv'
<1> SUFFICES ASSUME ShapeInv, BudgetInv, [Next]_vars PROVE BudgetInv'
  OBVIOUS
<1>0. /\ heap \subseteq Tasks /\ executing \subseteq Tasks
      /\ failures \in [Tasks -> Nat] /\ retryCount \in [Tasks -> Nat]
      /\ heap \cap executing = {} /\ fresh \cap (heap \cup executing \cup abandoned) = {}
  BY DEF ShapeInv, TypeOK, OnePlace
<1>1. ASSUME NEW t \in Tasks, NEW at \in RunAts, Schedule(t, at) PROVE BudgetInv'
  <2>1. /\ Enqueue(t, at, 0, stack) /\ t \in fresh /\ fresh' = fresh \ {t}
        /\ failures' = failures /\ executing' = executing /\ abandoned' = abandoned
    BY <1>1 DEF Schedule, poolVars, histVars
  <2>2. failures'[t] = 0 /\ 0 <= MaxRetries[t] /\ t \notin executing'
    BY <1>0, <2>1, TasksAssumption DEF BudgetInv
  <2> QED
    BY <2>1, <2>2, BudgetEnqueue
<1>2. ASSUME NEW t \in Tasks, Resolved(t) PROVE BudgetInv'
  <2>1. /\ t \in executing /\ executing' = executing \ {t} /\ t \notin fresh
        /\ failures' = [failures EXCEPT ![t] = 0]
        /\ UNCHANGED <<abandoned, fresh>>
    BY <1>0, <1>2 DEF Resolved
  <2>2. failures'[t] = 0 /\ \A u \in Tasks \ {t} : failures'[u] = failures[u]
    BY <1>0, <2>1
  <2>3. CASE Interval[t] # NoInterval
    <3>1. Enqueue(t, clock + Interval[t], 0, TickAgain) /\ 0 <= MaxRetries[t]
      BY <1>2, <2>3, TasksAssumption DEF Resolved
    <3> QED
      BY <2>1, <2>2, <3>1, BudgetEnqueue
  <2>4. CASE Interval[t] = NoInterval
    <3>1. UNCHANGED <<heap, retryCount>>
      BY <1>2, <2>4 DEF Resolved
    <3> QED
      BY <2>1, <2>2, <2>4, <3>1, BudgetDrop
  <2> QED
    BY <2>3, <2>4
<1>3. ASSUME NEW t \in Tasks, Rejected(t) PROVE BudgetInv'
  <2>1. /\ t \in executing /\ executing' = executing \ {t} /\ t \notin fresh
        /\ failures' = [failures EXCEPT ![t] = failures[t] + 1]
        /\ UNCHANGED <<abandoned, fresh>>
    BY <1>0, <1>3 DEF Rejected
  <2>2. /\ failures'[t] = failures[t] + 1
        /\ \A u \in Tasks \ {t} : failures'[u] = failures[u]
    BY <1>0, <2>1
  <2>3. /\ failures[t] = retryCount[t] /\ retryCount[t] <= MaxRetries[t]
        /\ retryCount[t] \in Nat /\ MaxRetries[t] \in Nat
    BY <1>0, <2>1, TasksAssumption DEF BudgetInv, RetryBudget
  <2>4. CASE MayRetry(t)
    <3>1. /\ Enqueue(t, RetryAt(t), retryCount[t] + 1, TickAgain)
          /\ retryCount[t] + 1 <= MaxRetries[t]
      BY <1>3, <2>3, <2>4 DEF Rejected, MayRetry
    <3>2. retryCount[t] + 1 = failures'[t]
      BY <2>2, <2>3
    <3>3. fresh' = fresh \ {t} /\ t \notin executing'
      BY <2>1
    <3> DEFINE n == retryCount[t] + 1
               at == RetryAt(t)
    <3>4. Enqueue(t, at, n, TickAgain) /\ n <= MaxRetries[t] /\ n = failures'[t]
      BY <3>1, <3>2
    <3> HIDE DEF n, at
    <3> QED
      BY <2>1, <2>2, <3>3, <3>4, BudgetEnqueue
  <2>5. CASE ~MayRetry(t)
    <3>1. UNCHANGED <<heap, retryCount>> /\ failures'[t] = MaxRetries[t] + 1
      BY <1>3, <2>2, <2>3, <2>5 DEF Rejected, MayRetry
    <3> QED
      BY <2>1, <2>2, <3>1, BudgetDrop
  <2> QED
    BY <2>4, <2>5
<1>4. ASSUME NEW t \in Tasks, Dispatch(t) PROVE BudgetInv'
  BY <1>4, BudgetSame DEF Dispatch, IsMin, histVars
<1>5. CASE Start \/ Stop \/ TimerFires \/ Advance
  BY <1>5, BudgetSame DEF Start, Stop, TimerFires, Advance, codeVars, poolVars, histVars
<1>6. CASE TickEnter \/ TickDone \/ TickSleep \/ ActionReturns
  BY <1>6, BudgetSame DEF TickEnter, TickDone, TickSleep, ActionReturns, codeVars, poolVars, histVars
<1>7. CASE ActionThrows
  BY <1>7, BudgetThrow
<1>8. CASE UNCHANGED vars
  BY <1>8, BudgetSame DEF vars, codeVars, poolVars, histVars
<1> QED
  BY <1>1, <1>2, <1>3, <1>4, <1>5, <1>6, <1>7, <1>8 DEF Next, Callers, Thread, Reactions

LEMMA BudgetInvariant == Spec => []BudgetInv
<1>1. Init => BudgetInv
  BY TasksAssumption DEF Init, BudgetInv, RetryBudget, Dropped
<1> QED
  BY <1>1, BudgetStep, ShapeInvariant, PTL DEF Spec

(* No task is dropped early or retried too often: a queued or running task *)
(* has retried exactly as often as it failed in a row, and one that left   *)
(* the scheduler has succeeded or has used up every retry.                 *)
THEOREM BudgetKept == Spec => []RetryBudget
<1>1. BudgetInv => RetryBudget
  BY DEF BudgetInv
<1> QED
  BY <1>1, BudgetInvariant, PTL
-----------------------------------------------------------------------------
(* The backoff.  A queued task that has failed is due no earlier than its  *)
(* backoff after the failure: only the reaction that counts the failure    *)
(* inserts it, with the backoff of the count it has just raised.           *)
DueAfterBackoff(t) == failures[t] > 0 => runAt[t] >= failedAt[t] + Backoff(failures[t])
BackoffInv == \A t \in heap : DueAfterBackoff(t)

LEMMA BackoffRejected ==
  ASSUME ShapeInv, BudgetInv, BackoffInv, NEW t \in Tasks, Rejected(t)
  PROVE  BackoffInv'
<1>1. /\ heap \subseteq Tasks /\ runAt \in [Tasks -> Nat] /\ clock \in Nat
      /\ failures \in [Tasks -> Nat] /\ failedAt \in [Tasks -> Nat]
      /\ t \in executing /\ t \notin heap
  BY DEF ShapeInv, TypeOK, OnePlace, Rejected
<1>2. /\ failures' = [failures EXCEPT ![t] = failures[t] + 1]
      /\ failedAt' = [failedAt EXCEPT ![t] = clock]
  BY DEF Rejected
<1>3. ASSUME NEW u \in heap, runAt'[u] = runAt[u], u # t PROVE DueAfterBackoff(u)'
  <2>1. failures'[u] = failures[u] /\ failedAt'[u] = failedAt[u] /\ DueAfterBackoff(u)
    BY <1>1, <1>2, <1>3 DEF BackoffInv
  <2> QED
    BY <1>3, <2>1 DEF DueAfterBackoff, Backoff
<1>4. CASE MayRetry(t)
  <2>1. heap' = heap \cup {t} /\ runAt' = [runAt EXCEPT ![t] = RetryAt(t)]
    BY <1>4 DEF Rejected, Enqueue
  <2>2. failures[t] = retryCount[t]
    BY <1>1 DEF BudgetInv, RetryBudget
  <2>3. Backoff(retryCount[t] + 1) \in Nat
    BY <1>4, BackoffType DEF ShapeInv, MayRetry
  <2>4. runAt'[t] = clock + Backoff(retryCount[t] + 1)
    BY <1>1, <2>1 DEF RetryAt
  <2>5. failures'[t] = retryCount[t] + 1 /\ failedAt'[t] = clock
    BY <1>1, <1>2, <2>2
  <2>6. DueAfterBackoff(t)'
    <3> DEFINE b == Backoff(retryCount[t] + 1)
    <3>1. Backoff(failures'[t]) = b
      BY <2>5
    <3>2. b \in Nat /\ runAt'[t] = clock + b
      BY <2>3, <2>4
    <3> HIDE DEF b
    <3>3. runAt'[t] >= failedAt'[t] + b
      BY <1>1, <2>5, <3>2
    <3>4. Backoff(failures[t])' = Backoff(failures'[t])
      BY DEF Backoff
    <3> QED
      BY <3>1, <3>3, <3>4 DEF DueAfterBackoff
  <2>7. ASSUME NEW u \in heap' PROVE DueAfterBackoff(u)'
    <3>1. CASE u = t
      BY <2>6, <3>1
    <3>2. CASE u # t
      BY <1>1, <1>3, <2>1, <2>7, <3>2
    <3> QED
      BY <3>1, <3>2
  <2> QED
    BY <2>7 DEF BackoffInv
<1>5. CASE ~MayRetry(t)
  <2>1. heap' = heap /\ runAt' = runAt
    BY <1>5 DEF Rejected
  <2> QED
    BY <1>1, <1>3, <2>1 DEF BackoffInv
<1> QED
  BY <1>4, <1>5

(* A task that is queued without a failure in its history.                 *)
LEMMA BackoffEnqueue ==
  ASSUME ShapeInv, BackoffInv, NEW t \in Tasks, NEW at, NEW n, NEW after,
         Enqueue(t, at, n, after), failures'[t] = 0, failedAt' = failedAt,
         \A u \in Tasks \ {t} : failures'[u] = failures[u]
  PROVE  BackoffInv'
<1>1. heap' = heap \cup {t} /\ runAt' = [runAt EXCEPT ![t] = at] /\ heap \subseteq Tasks
      /\ runAt \in [Tasks -> Nat]
  BY DEF Enqueue, ShapeInv, TypeOK
<1>2. SUFFICES ASSUME NEW u \in heap' PROVE DueAfterBackoff(u)'
  BY DEF BackoffInv
<1>3. CASE u = t
  BY <1>3 DEF DueAfterBackoff
<1>4. CASE u # t
  <2>1. u \in heap /\ u \in Tasks /\ runAt'[u] = runAt[u] /\ failures'[u] = failures[u]
    BY <1>1, <1>2, <1>4
  <2> QED
    BY <2>1 DEF BackoffInv, DueAfterBackoff, Backoff
<1> QED
  BY <1>3, <1>4

LEMMA BackoffSame ==
  ASSUME BackoffInv, heap' \subseteq heap, UNCHANGED <<runAt, failedAt>>,
         \A u \in heap' : failures'[u] = failures[u]
  PROVE  BackoffInv'
  BY DEF BackoffInv, DueAfterBackoff, Backoff

LEMMA BackoffStep == ShapeInv /\ BudgetInv /\ BackoffInv /\ [Next]_vars => BackoffInv'
<1> SUFFICES ASSUME ShapeInv, BudgetInv, BackoffInv, [Next]_vars PROVE BackoffInv'
  OBVIOUS
<1>0. failures \in [Tasks -> Nat] /\ heap \subseteq Tasks /\ heap \cap executing = {}
  BY DEF ShapeInv, TypeOK, OnePlace
<1>1. ASSUME NEW t \in Tasks, NEW at \in RunAts, Schedule(t, at) PROVE BackoffInv'
  <2>1. Enqueue(t, at, 0, stack) /\ failures'[t] = 0 /\ UNCHANGED <<failures, failedAt>>
    BY <1>1 DEF Schedule, histVars, BudgetInv
  <2> QED
    BY <2>1, BackoffEnqueue
<1>2. ASSUME NEW t \in Tasks, Resolved(t) PROVE BackoffInv'
  <2>1. /\ t \notin heap /\ failedAt' = failedAt /\ failures'[t] = 0
        /\ \A u \in Tasks \ {t} : failures'[u] = failures[u]
    BY <1>0, <1>2 DEF Resolved
  <2>2. CASE Interval[t] # NoInterval
    BY <1>2, <2>1, <2>2, BackoffEnqueue DEF Resolved
  <2>3. CASE Interval[t] = NoInterval
    <3>1. UNCHANGED <<heap, runAt>>
      BY <1>2, <2>3 DEF Resolved
    <3>2. \A u \in heap' : failures'[u] = failures[u]
      BY <1>0, <2>1, <3>1
    <3> QED
      BY <2>1, <3>1, <3>2, BackoffSame
  <2> QED
    BY <2>2, <2>3
<1>3. ASSUME NEW t \in Tasks, Rejected(t) PROVE BackoffInv'
  BY <1>3, BackoffRejected
<1>4. ASSUME NEW t \in Tasks, Dispatch(t) PROVE BackoffInv'
  BY <1>4, BackoffSame DEF Dispatch, histVars
<1>5. CASE Start \/ Stop \/ TimerFires \/ Advance
  BY <1>5, BackoffSame DEF Start, Stop, TimerFires, Advance, codeVars, histVars
<1>6. CASE TickEnter \/ TickDone \/ TickSleep \/ ActionReturns \/ ActionThrows
  BY <1>6, BackoffSame DEF TickEnter, TickDone, TickSleep, ActionReturns, ActionThrows, codeVars, histVars
<1>7. CASE UNCHANGED vars
  BY <1>7, BackoffSame DEF vars, codeVars, histVars
<1> QED
  BY <1>1, <1>2, <1>3, <1>4, <1>5, <1>6, <1>7 DEF Next, Callers, Thread, Reactions

LEMMA BackoffInvariant == Spec => []BackoffInv
<1>1. Init => BackoffInv
  BY DEF Init, BackoffInv
<1> QED
  BY <1>1, BackoffStep, BudgetInvariant, ShapeInvariant, PTL DEF Spec

(* A loop calls an action only when the task was due at the `now' it read, *)
(* and that is never ahead of the clock.                                   *)
LEMMA DispatchIsDue ==
  ASSUME ShapeInv, NEW t \in Tasks, Dispatch(t)
  PROVE  t \in heap /\ runAt[t] <= clock
<1>1. /\ t \in heap /\ ~(runAt[t] > stack[1].now) /\ stack # <<>> /\ stack[1].op = "loop"
  BY DEF Dispatch, IsMin, Early, In
<1>2. stack[1] \in Frame /\ stack[1].now <= clock
  BY <1>1, TopFrame DEF FrameOK
<1>3. stack[1].now \in Nat /\ clock \in Nat /\ runAt[t] \in Nat
  BY <1>2 DEF Frame, ShapeInv, TypeOK
<1> QED
  BY <1>1, <1>2, <1>3

(* No retry starts before its backoff has passed since the failure, in     *)
(* whichever tick, timer or nested call finds the task.                    *)
THEOREM RetriesWait == Spec => BackoffRespected
<1> DEFINE Waited == \A t \in Tasks :
                       t \in executing' \ executing /\ failures[t] > 0
                         => clock >= failedAt[t] + Backoff(failures[t])
<1>1. ASSUME ShapeInv, BudgetInv, BackoffInv, [Next]_vars PROVE Waited
  <2> SUFFICES ASSUME NEW t \in Tasks, t \in executing' \ executing, failures[t] > 0
               PROVE  clock >= failedAt[t] + Backoff(failures[t])
    OBVIOUS
  <2>1. PICK u \in Tasks : Dispatch(u)
    BY <1>1, OnlyDispatchStarts
  <2>2. u = t
    BY <2>1 DEF Dispatch
  <2>3. t \in heap /\ runAt[t] <= clock
    BY <1>1, <2>1, <2>2, DispatchIsDue
  <2> DEFINE b == Backoff(failures[t])
  <2>4. runAt[t] >= failedAt[t] + b
    BY <1>1, <2>3 DEF BackoffInv, DueAfterBackoff
  <2>5. b \in Nat
    <3>1. failures[t] \in Nat /\ failures[t] <= MaxRetries[t] /\ MaxRetries[t] \in Nat
      BY <1>1, <2>3, TasksAssumption DEF BudgetInv, RetryBudget, ShapeInv, TypeOK
    <3>2. failures[t] \in 1..(MaxRetries[t] + 1)
      BY <3>1
    <3> DEFINE p == 2^failures[t]
    <3>3. p \in Nat /\ b = p * BackoffUnit
      BY <3>2, PowerAssumption DEF Backoff
    <3> HIDE DEF p, b
    <3> QED
      BY <3>3, TimeAssumption
  <2>6. runAt[t] \in Nat /\ clock \in Nat /\ failedAt[t] \in Nat
    BY <1>1 DEF ShapeInv, TypeOK
  <2> HIDE DEF b
  <2>7. clock >= failedAt[t] + b
    BY <2>3, <2>4, <2>5, <2>6
  <2> QED
    BY <2>7 DEF b
<1> QED
  BY <1>1, ShapeInvariant, BudgetInvariant, BackoffInvariant, PTL DEF Spec, BackoffRespected
-----------------------------------------------------------------------------
(* The scheduler implements the pool, one lemma for each of its steps that *)
(* is a step of the pool; every other step leaves the pool alone.          *)
LEMMA PoolQueues ==
  ASSUME ShapeInv, NEW t \in Tasks, NEW at \in Nat, NEW least \in Nat, at >= least,
         NEW n, NEW after, Enqueue(t, at, n, after)
  PROVE  Pool!QueueFrom(t, least)
<1>1. /\ runAt \in [Tasks -> Nat] /\ heap' = heap \cup {t}
      /\ runAt' = [runAt EXCEPT ![t] = at]
  BY DEF ShapeInv, TypeOK, Enqueue
<1>2. runAt'[t] = at
  BY <1>1
<1> QED
  BY <1>1, <1>2 DEF Pool!QueueFrom

LEMMA PoolSubmits ==
  ASSUME ShapeInv, NEW t \in Tasks, NEW at \in RunAts, Schedule(t, at)
  PROVE  Pool!Submit(t)
<1>1. Pool!QueueFrom(t, 0)
  BY PoolQueues, TimeAssumption DEF Schedule
<1>2. t \notin heap \cup (executing \cup abandoned)
  BY DEF Schedule, ShapeInv, OnePlace
<1> QED
  BY <1>1, <1>2 DEF Schedule, Pool!Submit, poolVars

LEMMA PoolBegins ==
  ASSUME ShapeInv, NEW t \in Tasks, Dispatch(t)
  PROVE  Pool!Begin(t)
<1>1. t \in heap /\ runAt[t] <= clock
  BY DispatchIsDue
<1>2. running /\ Cardinality(executing \cup abandoned) < MaxConcurrency
  BY DEF Dispatch, LoopGuard, ShapeInv, WorkerCount
<1>3. executing' \cup abandoned' = (executing \cup abandoned) \cup {t}
  BY DEF Dispatch
<1>4. Pool!Cardinality(executing \cup abandoned) = Cardinality(executing \cup abandoned)
  BY DEF Pool!Cardinality, Cardinality
<1> QED
  BY <1>1, <1>2, <1>3, <1>4 DEF Dispatch, Pool!Begin

LEMMA PoolEnds ==
  ASSUME ShapeInv, NEW t \in Tasks, Resolved(t) \/ Rejected(t)
  PROVE  Pool!End(t) \/ Pool!EndAndRequeue(t)
<1>1. /\ t \in executing \cup abandoned
      /\ executing' \cup abandoned' = (executing \cup abandoned) \ {t}
      /\ UNCHANGED <<running, clock>>
  BY DEF Resolved, Rejected, ShapeInv, OnePlace
<1>2. CASE UNCHANGED <<heap, runAt>>
  BY <1>1, <1>2 DEF Pool!End
<1>3. ASSUME NEW at \in Nat, at >= clock, NEW n, Enqueue(t, at, n, TickAgain)
      PROVE  Pool!EndAndRequeue(t)
  <2>1. clock \in Nat
    BY DEF ShapeInv, TypeOK
  <2>2. Pool!QueueFrom(t, clock)
    BY <1>3, <2>1, PoolQueues
  <2> QED
    BY <1>1, <2>2 DEF Pool!EndAndRequeue
<1>4. CASE Resolved(t) /\ Interval[t] # NoInterval
  <2>1. clock + Interval[t] \in Nat /\ clock + Interval[t] >= clock
    BY <1>4, TasksAssumption DEF ShapeInv, TypeOK
  <2> QED
    BY <1>3, <1>4, <2>1 DEF Resolved
<1>5. CASE Rejected(t) /\ MayRetry(t)
  <2> DEFINE b == Backoff(retryCount[t] + 1)
  <2>1. b \in Nat
    BY <1>5, BackoffType DEF ShapeInv, MayRetry
  <2>2. RetryAt(t) = clock + b /\ clock \in Nat
    BY DEF RetryAt, ShapeInv, TypeOK
  <2> HIDE DEF b
  <2>3. RetryAt(t) \in Nat /\ RetryAt(t) >= clock
    BY <2>1, <2>2
  <2>4. Enqueue(t, RetryAt(t), retryCount[t] + 1, TickAgain)
    BY <1>5 DEF Rejected
  <2> QED
    BY <1>3, <2>3, <2>4
<1> QED
  BY <1>2, <1>4, <1>5 DEF Resolved, Rejected

LEMMA PoolStep == ShapeInv /\ [Next]_vars => [Pool!Next]_(Pool!vars)
<1> SUFFICES ASSUME ShapeInv, [Next]_vars PROVE Pool!Next \/ UNCHANGED Pool!vars
  OBVIOUS
<1>1. ASSUME NEW t \in Tasks, NEW at \in RunAts, Schedule(t, at) PROVE Pool!Next
  BY <1>1, PoolSubmits DEF Pool!Next
<1>2. ASSUME NEW t \in Tasks, Dispatch(t) PROVE Pool!Next
  BY <1>2, PoolBegins DEF Pool!Next
<1>3. ASSUME NEW t \in Tasks, Resolved(t) \/ Rejected(t) PROVE Pool!Next
  BY <1>3, PoolEnds DEF Pool!Next
<1>4. CASE Start \/ Stop
  <2>1. Pool!Switch
    BY <1>4 DEF Start, Stop, Pool!Switch, poolVars
  <2> QED
    BY <2>1 DEF Pool!Next
<1>5. CASE Advance
  <2>1. Pool!Pass
    BY <1>5 DEF Advance, Pool!Pass, codeVars, poolVars
  <2> QED
    BY <2>1 DEF Pool!Next
<1>6. CASE ActionThrows
  <2>1. In("action") /\ stack # <<>> /\ stack[1].op = "action"
    BY <1>6 DEF ActionThrows, In
  <2>2. stack[1].task \in executing
    BY <2>1, TopFrame DEF FrameOK
  <2>3. executing' \cup abandoned' = executing \cup abandoned
    BY <1>6, <2>2 DEF ActionThrows
  <2> QED
    BY <1>6, <2>3 DEF ActionThrows, codeVars, Pool!vars
<1>7. CASE TickEnter \/ TickDone \/ TickSleep \/ ActionReturns \/ TimerFires \/ UNCHANGED vars
  BY <1>7 DEF TickEnter, TickDone, TickSleep, ActionReturns, TimerFires, codeVars, poolVars,
              vars, Pool!vars
<1> QED
  BY <1>1, <1>2, <1>3, <1>4, <1>5, <1>6, <1>7 DEF Next, Callers, Thread, Reactions

(* Whatever the stack of nested ticks, the timer and the counter do, the   *)
(* scheduler only takes the steps of DelayedTaskPool: a queued task begins *)
(* once per queueing, when it is due, while open, on a free worker.        *)
THEOREM SchedulerImplementsPool == Spec => ImplementsPool
<1>1. Init => Pool!Init
  BY DEF Init, Pool!Init
<1> QED
  BY <1>1, PoolStep, ShapeInvariant, PTL DEF Spec, ImplementsPool, Pool!Spec
=============================================================================
