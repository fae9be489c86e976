-------------------------- MODULE MCTCPConnections --------------------------
(* Two servers one after the other or at once, two connections, one send.  *)
EXTENDS TCPConnections
=============================================================================
