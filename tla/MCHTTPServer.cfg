SPECIFICATION Spec
CONSTANTS
  Paths = {"a", "b"}
  Throwing = {"b"}
  NoPath = "none"
  Streams <- MCStreams
  Servers = {1, 2}
  Sockets = {1, 2}
INVARIANTS Consistent AnsweredInOrder
PROPERTIES KeepAlive Settles
CHECK_DEADLOCK FALSE
