SPECIFICATION Spec
CONSTANTS
  Servers = {1, 2}
  Sockets = {1, 2}
  Sends = {1}
INVARIANTS Consistent OnRecord
PROPERTIES Settles
CHECK_DEADLOCK FALSE
