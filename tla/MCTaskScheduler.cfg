SPECIFICATION FairSpec
CONSTANTS
  t1 = t1
  t2 = t2
  t3 = t3
  Tasks <- MCTasks
  Interval <- MCInterval
  MaxRetries <- MCMaxRetries
  MaxConcurrency = 2
  BackoffUnit = 1
  TimerMax = 9
  RunAts = {1, 3}
  MaxTime = 3
  MaxBlocked = 1
  NoTask = NoTask
INVARIANTS Consistent NoLostWakeup TimerNotLate RetryBudget
PROPERTIES QueuedTaskStarts BackoffRespected ImplementsPool 
