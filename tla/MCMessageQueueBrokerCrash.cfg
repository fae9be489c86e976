SPECIFICATION Spec
CONSTANTS
  a = a
  b = b
  x = x
  y = y
  Topics <- TwoTopics
  Consumers <- OneWorker
  visibilityTimeout = 1
  maxRetries = 2
  MaxMessages <- TwoAndOne
  MaxTime = 2
CHECK_DEADLOCK FALSE
INVARIANTS NothingLost
