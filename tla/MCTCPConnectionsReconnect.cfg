SPECIFICATION Spec
CONSTANTS
  Servers = {1, 2}
  Sockets = {1, 2}
  Sends = {1}
INVARIANT ReconnectKept
CHECK_DEADLOCK FALSE
