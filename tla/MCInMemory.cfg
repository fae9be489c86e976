SPECIFICATION InMemorySpec
CONSTANTS
  t1 = t1
  t2 = t2
  t3 = t3
  t4 = t4
  Tasks <- FourTasks
  runAt <- Times
  MaxLength = 7
  Timestamps = {1, 2}
  Severities = {"INFO", "ERROR"}
  OtherSeverities = {"DEBUG"}
  LogCapacity = 2
  Sockets = {1, 2}
  MaxEntries = 4
  Keys = {"", "x", "y"}
  EmptyKey = ""
  Values = {1, 2}
  TTLs = {1}
  CacheCapacity = 2
  MaxTime = 2
  LineTexts <- MCLineTexts
  MaxValues = 2
  MaxLines = 2
  Clients = {"p", "q"}
  MaxRequests <- MCMaxRequests
  capacity = 2
  refillEvery = 2
  depth = 2
  leakEvery = 3
  limit = 2
  windowSize = 3
  MaxSpan = 6
  NumBackends = 3
  weight <- MCWeight
  Hashes <- MCHashes
  MaxIndex = 7
  Checks = {1, 2}
  Base = 3
  URLs = {"", "u", "v"}
  EmptyURL = ""
  FirstId = 2
  MaxId = 4
  Preloaded <- MCPreloaded
  Requested <- MCRequested
INVARIANTS Consistent  FairShares  PromisesKept
PROPERTIES IsQueue IsBoundedLog IsLRU 
CHECK_DEADLOCK FALSE
