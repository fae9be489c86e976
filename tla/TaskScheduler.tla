--------------------------- MODULE TaskScheduler ---------------------------
(***************************************************************************)
(* projects/08-task-scheduler: class TaskScheduler, an in-process job      *)
(* scheduler with a bounded worker pool, one wake-up timer, periodic tasks *)
(* and retries with exponential backoff.                                   *)
(*                                                                         *)
(* The program runs on one JavaScript thread.  The calls that are running  *)
(* on it are the frames of `stack'; the thread is idle when it is empty.   *)
(* A frame is a call of tick that has not read the clock yet ("enter"), a  *)
(* call of tick in its while loop ("loop", with the `now' it read), or the *)
(* synchronous prefix of a user's action ("action"), which may itself call *)
(* schedule, start and stop: those calls nest inside the loop.  Promise    *)
(* reactions and the timer callback only run on an idle thread.            *)
(*                                                                         *)
(* The binary heap of the class is abstracted here to the set of its tasks *)
(* (module TaskMinHeap models the array); extractMin returns any task with *)
(* the least runAt, because the array heap is not stable.                  *)
(*                                                                         *)
(* A definition marked "mutant" is no part of the model: it is the         *)
(* definition that follows it with a plausible bug, and shows that a       *)
(* property notices that bug.                                              *)
(***************************************************************************)
EXTENDS Integers, Sequences, FiniteSets

CONSTANTS
  Tasks,            \* the task objects callers may schedule
  Interval,         \* Task.interval, NoInterval when it is undefined
  MaxRetries,       \* Task.maxRetries
  MaxConcurrency,   \* the constructor's argument
  BackoffUnit,      \* the 100 ms of the backoff, in clock units
  TimerMax,         \* longest delay setTimeout honours (2^31 - 1 ms in Node)
  RunAts,           \* the runAt values callers choose
  MaxTime,          \* bound: the clock stops here
  MaxBlocked,       \* bound: how long actions may block the thread in all
  NoTask

NoTimer == -1       \* tickTimeout is null
NoInterval == -1

ASSUME TasksAssumption ==
  /\ IsFiniteSet(Tasks)
  /\ NoTask \notin Tasks
  /\ Interval \in [Tasks -> Nat \cup {NoInterval}]
  /\ MaxRetries \in [Tasks -> Nat]
ASSUME PoolAssumption == MaxConcurrency \in Nat \ {0}
ASSUME TimeAssumption ==
  /\ BackoffUnit \in Nat
  /\ TimerMax \in Nat \ {0}
  /\ RunAts \subseteq Nat
  /\ MaxTime \in Nat
  /\ MaxBlocked \in Nat
(* Arithmetic the provers have no rule for: powers of two are naturals.    *)
ASSUME PowerAssumption ==
  \A t \in Tasks : \A n \in 1..(MaxRetries[t] + 1) : 2^n \in Nat

VARIABLES
  heap,             \* tasks in TaskMinHeap
  runAt,            \* Task.runAt of the task object last inserted
  retryCount,       \* Task.retryCount of the same object
  activeWorkers,
  running,
  tickTimeout,      \* deadline of the armed timer, or NoTimer
  stack,            \* frames of the JavaScript thread, innermost first
  clock,            \* Date.now()
  executing,        \* tasks whose action was called and has not settled
  abandoned,        \* tasks whose action threw instead of returning
  fresh,            \* tasks no caller has scheduled yet
  failures,         \* history: consecutive failures of each task
  failedAt,         \* history: when each task last failed
  blocked           \* history: how long actions have blocked the thread

codeVars == <<heap, runAt, retryCount, activeWorkers, running, tickTimeout>>
poolVars == <<executing, abandoned>>
histVars == <<failures, failedAt, blocked>>
vars == <<codeVars, stack, clock, poolVars, fresh, histVars>>
-----------------------------------------------------------------------------
Frame == [op : {"enter", "loop", "action"}, now : Nat, task : Tasks \cup {NoTask}]

EnterFrame == [op |-> "enter", now |-> 0, task |-> NoTask]
LoopFrame(n) == [op |-> "loop", now |-> n, task |-> NoTask]
ActionFrame(t) == [op |-> "action", now |-> 0, task |-> t]

Idle == stack = <<>>
In(op) == stack # <<>> /\ stack[1].op = op

(* Where callers' code runs: on an idle thread, or inside an action.       *)
CallersTurn == Idle \/ In("action")

(* setTimeout turns a delay it cannot represent into the shortest one.     *)
TimerDelay(delay) == IF delay > TimerMax THEN 1 ELSE delay

Backoff(n) == 2^n * BackoffUnit

FreeWorker == activeWorkers' = activeWorkers - 1

(* The call of tick that ends both reactions.                              *)
NoTickAgain == <<>>   \* mutant
TickAgain == <<EnterFrame>>

MayRetryOnceMore(t) == retryCount[t] <= MaxRetries[t]   \* mutant
MayRetry(t) == retryCount[t] < MaxRetries[t]

RetryAtOldBackoff(t) == clock + Backoff(retryCount[t])   \* mutant
RetryAt(t) == clock + Backoff(retryCount[t] + 1)

(* TaskMinHeap.peekMin: a task that no other task precedes.                *)
IsMin(t) == t \in heap /\ \A u \in heap : runAt[t] <= runAt[u]

Init ==
  /\ heap = {}
  /\ runAt = [t \in Tasks |-> 0]
  /\ retryCount = [t \in Tasks |-> 0]
  /\ activeWorkers = 0
  /\ running = FALSE
  /\ tickTimeout = NoTimer
  /\ stack = <<>>
  /\ clock = 0
  /\ executing = {}
  /\ abandoned = {}
  /\ fresh = Tasks
  /\ failures = [t \in Tasks |-> 0]
  /\ failedAt = [t \in Tasks |-> 0]
  /\ blocked = 0
-----------------------------------------------------------------------------
KeepTimer == tickTimeout   \* mutant
ClearTimer == IF running THEN NoTimer ELSE tickTimeout

(* schedule(): insert, and when running replace the timer by a tick.  The  *)
(* frames in `after' are what the caller of schedule does next.            *)
Enqueue(t, at, retries, after) ==
  /\ heap' = heap \cup {t}
  /\ runAt' = [runAt EXCEPT ![t] = at]
  /\ retryCount' = [retryCount EXCEPT ![t] = retries]
  /\ tickTimeout' = ClearTimer
  /\ stack' = IF running THEN <<EnterFrame>> \o after ELSE after

(* A caller schedules a task it has not scheduled before.                  *)
Schedule(t, at) ==
  /\ CallersTurn
  /\ t \in fresh
  /\ fresh' = fresh \ {t}
  /\ Enqueue(t, at, 0, stack)
  /\ UNCHANGED <<activeWorkers, running, clock, poolVars, histVars>>

Start ==
  /\ CallersTurn
  /\ running' = TRUE
  /\ stack' = <<EnterFrame>> \o stack
  /\ UNCHANGED <<heap, runAt, retryCount, activeWorkers, tickTimeout, clock,
                 poolVars, fresh, histVars>>

Stop ==
  /\ CallersTurn
  /\ running' = FALSE
  /\ tickTimeout' = NoTimer
  /\ UNCHANGED <<heap, runAt, retryCount, activeWorkers, stack, clock,
                 poolVars, fresh, histVars>>
-----------------------------------------------------------------------------
(* tick(): the early return, or the one read of the clock.                 *)
TickEnter ==
  /\ In("enter")
  /\ stack' = IF running THEN <<LoopFrame(clock)>> \o Tail(stack) ELSE Tail(stack)
  /\ UNCHANGED <<codeVars, clock, poolVars, fresh, histVars>>

LoopGuardNoLimit == running   \* mutant
LoopGuardNoStop == activeWorkers < MaxConcurrency   \* mutant
LoopGuard == running /\ activeWorkers < MaxConcurrency

(* The comparison of the peeked task with the `now' of this tick.          *)
EarlyNever(t) == FALSE   \* mutant
Early(t) == runAt[t] > stack[1].now

(* The while condition fails or the heap is empty: tick returns.           *)
TickDone ==
  /\ In("loop")
  /\ ~LoopGuard \/ heap = {}
  /\ stack' = Tail(stack)
  /\ UNCHANGED <<codeVars, clock, poolVars, fresh, histVars>>

(* The earliest task is not due at `now': arm the timer unless one is      *)
(* armed, with the delay computed from `now', and return.                  *)
TickSleep ==
  /\ In("loop")
  /\ LoopGuard
  /\ \E t \in Tasks :
       /\ IsMin(t)
       /\ Early(t)
       /\ tickTimeout' = IF tickTimeout = NoTimer
                         THEN clock + TimerDelay(runAt[t] - stack[1].now)
                         ELSE tickTimeout
  /\ stack' = Tail(stack)
  /\ UNCHANGED <<heap, runAt, retryCount, activeWorkers, running, clock,
                 poolVars, fresh, histVars>>

(* The earliest task is due: take it out and call its action.              *)
Dispatch(t) ==
  /\ In("loop")
  /\ LoopGuard
  /\ IsMin(t)
  /\ ~Early(t)
  /\ heap' = heap \ {t}
  /\ activeWorkers' = activeWorkers + 1
  /\ executing' = executing \cup {t}
  /\ stack' = <<ActionFrame(t)>> \o stack
  /\ UNCHANGED <<runAt, retryCount, running, tickTimeout, clock, abandoned,
                 fresh, histVars>>

(* The action returns its promise to the loop that called it.              *)
ActionReturns ==
  /\ In("action")
  /\ stack' = Tail(stack)
  /\ UNCHANGED <<codeVars, clock, poolVars, fresh, histVars>>

(* The action throws before it returns a promise: no reaction is attached  *)
(* and the exception ends the tick that called it, too.                    *)
ActionThrows ==
  /\ In("action")
  /\ executing' = executing \ {stack[1].task}
  /\ abandoned' = abandoned \cup {stack[1].task}
  /\ stack' = Tail(Tail(stack))
  /\ UNCHANGED <<codeVars, clock, fresh, histVars>>
-----------------------------------------------------------------------------
(* The .then reaction: free the worker, reschedule a periodic task, tick.  *)
Resolved(t) ==
  /\ Idle
  /\ t \in executing
  /\ executing' = executing \ {t}
  /\ FreeWorker
  /\ failures' = [failures EXCEPT ![t] = 0]
  /\ IF Interval[t] # NoInterval
     THEN Enqueue(t, clock + Interval[t], 0, TickAgain)
     ELSE /\ stack' = TickAgain
          /\ UNCHANGED <<heap, runAt, retryCount, tickTimeout>>
  /\ UNCHANGED <<running, clock, abandoned, fresh, failedAt, blocked>>

(* The .catch reaction: free the worker, retry within the budget, tick.    *)
Rejected(t) ==
  /\ Idle
  /\ t \in executing
  /\ executing' = executing \ {t}
  /\ FreeWorker
  /\ failures' = [failures EXCEPT ![t] = @ + 1]
  /\ failedAt' = [failedAt EXCEPT ![t] = clock]
  /\ IF MayRetry(t)
     THEN Enqueue(t, RetryAt(t), retryCount[t] + 1, TickAgain)
     ELSE /\ stack' = TickAgain
          /\ UNCHANGED <<heap, runAt, retryCount, tickTimeout>>
  /\ UNCHANGED <<running, clock, abandoned, fresh, blocked>>

(* The timer callback.  It may run late, never before its deadline.        *)
TimerFires ==
  /\ Idle
  /\ tickTimeout # NoTimer
  /\ clock >= tickTimeout
  /\ tickTimeout' = NoTimer
  /\ stack' = <<EnterFrame>>
  /\ UNCHANGED <<heap, runAt, retryCount, activeWorkers, running, clock,
                 poolVars, fresh, histVars>>

(* Time passes while the thread is idle, and inside an action that works   *)
(* for a while before it returns its promise and so blocks the thread.     *)
Advance ==
  /\ Idle \/ (In("action") /\ blocked < MaxBlocked)
  /\ clock < MaxTime
  /\ clock' = clock + 1
  /\ blocked' = IF Idle THEN blocked ELSE blocked + 1
  /\ UNCHANGED <<codeVars, stack, poolVars, fresh, failures, failedAt>>
-----------------------------------------------------------------------------
Callers == Start \/ Stop \/ \E t \in Tasks, at \in RunAts : Schedule(t, at)
Thread == \/ TickEnter \/ TickDone \/ TickSleep \/ ActionReturns \/ ActionThrows
          \/ \E t \in Tasks : Dispatch(t)
Reactions == \E t \in Tasks : Resolved(t) \/ Rejected(t)

Next == Callers \/ Thread \/ Reactions \/ TimerFires \/ Advance

Spec == Init /\ [][Next]_vars

(* The thread runs its frames to completion, and an action does not call   *)
(* the scheduler for ever before it returns its promise; the event loop    *)
(* gives a ready timer and every settled promise its turn; actions settle; *)
(* time passes.  SF, because calls of start disable these steps again and  *)
(* again without ever taking their turn away.                              *)
Fairness ==
  /\ WF_vars(Thread)
  /\ SF_vars(ActionReturns)
  /\ SF_vars(TimerFires)
  /\ SF_vars(Advance)
  /\ \A t \in Tasks : SF_vars(Resolved(t) \/ Rejected(t))

FairSpec == Spec /\ Fairness
-----------------------------------------------------------------------------
TypeOK ==
  /\ heap \subseteq Tasks
  /\ runAt \in [Tasks -> Nat]
  /\ retryCount \in [Tasks -> Nat]
  /\ activeWorkers \in Nat
  /\ running \in BOOLEAN
  /\ tickTimeout \in Nat \cup {NoTimer}
  /\ stack \in Seq(Frame)
  /\ clock \in Nat
  /\ executing \subseteq Tasks
  /\ abandoned \subseteq Tasks
  /\ fresh \subseteq Tasks
  /\ failures \in [Tasks -> Nat]
  /\ failedAt \in [Tasks -> Nat]
  /\ blocked \in Nat

(* The counter getActiveWorkersCount returns counts the actions in flight  *)
(* and never passes the limit, whatever callers do inside an action: each  *)
(* nested loop tests the counter the outer loops have already raised.      *)
WorkerCount ==
  /\ activeWorkers = Cardinality(executing \cup abandoned)
  /\ activeWorkers <= MaxConcurrency

(* A task is in one place: the heap, a worker, or nowhere any more.        *)
OnePlace ==
  /\ heap \cap executing = {}
  /\ heap \cap abandoned = {}
  /\ executing \cap abandoned = {}
  /\ fresh \cap (heap \cup executing \cup abandoned) = {}

(* No lost wake-up: an idle, running scheduler with a queued task and a    *)
(* free worker has a timer armed.  No call may consume the timer or free a *)
(* worker without another tick looking at the heap.  The one exception is  *)
(* an action that threw instead of returning a promise: it ended its tick. *)
Waiting ==
  Idle /\ running /\ heap # {} /\ activeWorkers < MaxConcurrency /\ abandoned = {}
NoLostWakeup == Waiting => tickTimeout # NoTimer

(* README 139: the wake-up timer is set for the earliest queued task.  It  *)
(* is later by no more than actions have blocked the thread, because the   *)
(* delay is counted from a `now' read before they ran.                     *)
TimerNotLate == Waiting => \A t \in heap : tickTimeout <= runAt[t] + blocked

(* A timer belongs to a running scheduler: stop leaves none behind, and    *)
(* nothing that happens after stop arms one.                               *)
NoTimerWhenStopped == ~running => tickTimeout = NoTimer

(* The parts that hold in every state, in the middle of a call too.        *)
Consistent == TypeOK /\ WorkerCount /\ NoTimerWhenStopped

(* A task that is in neither the heap nor a worker has succeeded (and is   *)
(* not periodic) or has failed exactly once more than it may be retried:   *)
(* no task is dropped early, forgotten by stop, or retried too often.      *)
Dropped == Tasks \ (fresh \cup heap \cup executing \cup abandoned)
RetryBudget ==
  /\ \A t \in heap \cup executing :
       failures[t] = retryCount[t] /\ retryCount[t] <= MaxRetries[t]
  /\ \A t \in Dropped :
       \/ failures[t] = 0 /\ Interval[t] = NoInterval
       \/ failures[t] = MaxRetries[t] + 1

(* The n-th retry does not start before its backoff has passed since the   *)
(* failure, whichever tick, timer or reentrant call finds it.              *)
BackoffRespected ==
  [][\A t \in Tasks :
       t \in executing' \ executing /\ failures[t] > 0
         => clock >= failedAt[t] + Backoff(failures[t])]_vars

(* After stop no action starts, also when stop was called by an action the *)
(* loop is in the middle of dispatching.                                   *)
StopIsQuiet == [][executing' \subseteq executing \/ running]_vars

(* The scheduler implements the pool of DelayedTaskPool: its stack of      *)
(* nested ticks, its timer and its counter only ever take the pool's steps.*)
Pool == INSTANCE DelayedTaskPool WITH
          Workers <- MaxConcurrency, queued <- heap, due <- runAt,
          busy <- executing \cup abandoned, open <- running, now <- clock
ImplementsPool == Pool!Spec

(* A queued task is started once it is due, unless the scheduler stops, or *)
(* an action threw, or the timer is due after the end of the model's time. *)
QueuedTaskStarts ==
  \A t \in Tasks :
    (running /\ t \in heap)
      ~> (~running \/ t \in executing \/ abandoned # {} \/ tickTimeout > MaxTime)
=============================================================================
