SPECIFICATION FairSpec
CONSTANTS
  Calls <- MCCalls
  Version <- MCVersion
  NoVersion = "none"
  FirstVersion = "v1"
  BadVersions = {"v3bad"}
  Retries = 2
  MaxRunning = 2
CHECK_DEADLOCK FALSE
INVARIANTS Consistent TrafficServed RolledBack
PROPERTIES SuccessIsLive CallsSettle
