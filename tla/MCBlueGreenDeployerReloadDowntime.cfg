SPECIFICATION Spec
CONSTANTS
  Calls <- MCTwoCalls
  Version <- MCVersion
  NoVersion = "none"
  FirstVersion = "v1"
  BadVersions = {"v3bad"}
  Retries = 2
  MaxRunning = 1
CHECK_DEADLOCK FALSE
INVARIANTS NoDowntime
