SPECIFICATION Spec
CONSTANTS
  a = a
  b = b
  x = x
  y = y
  Topics <- TwoTopics
  Consumers <- TwoWorkers
  visibilityTimeout = 1
  maxRetries = 2
  MaxMessages <- TwoAndOne
  MaxTime = 2
SYMMETRY WorkerSymmetry
CHECK_DEADLOCK FALSE
INVARIANTS Consistent ExclusiveLock  DeadLetterExact
