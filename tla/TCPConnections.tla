--------------------------- MODULE TCPConnections ---------------------------
(***************************************************************************)
(* projects/00-implement-tcp: class TCPServer and class TCPClient, one     *)
(* object of each, and the connections between them.  A step is one call,  *)
(* one event that Node.js delivers to one of the listeners, or a change of *)
(* a net.Server or net.Socket that the listeners wait for.                 *)
(*                                                                         *)
(* net.Server: none, binding, listening, failed, closing, closed.          *)
(* A client's net.Socket: none, connecting, connected, ending (end() was   *)
(* called), finished (all was written), failing (destroyed), closed.       *)
(* A server's net.Socket: none, backlog (not yet accepted), open,          *)
(* destroyed, closed.  A socket is closed once its close event was         *)
(* delivered.                                                              *)
(***************************************************************************)
EXTENDS Integers, FiniteSets

CONSTANTS
  Servers,               \* bound: net.Server objects ever created, 1..n
  Sockets,               \* bound: connections ever attempted, 1..n
  Sends                  \* bound: calls of send

ASSUME ObjectsAssumption == IsFiniteSet(Servers) /\ IsFiniteSet(Sockets)

VARIABLES
  server,                \* TCPServer.server: the one on record, or none: {}
  netServer,
  activeSockets,
  serverEnd, servedBy,
  socket,                \* TCPClient.socket: the one on record, or none: {}
  clientEnd,
  leaving,               \* sockets whose end callback disconnect waits for
  send,                  \* each call of send: its promise and its socket
  replaced,              \* history: start was called with a server on record
  crowded,               \* history: connect was called before a socket had closed
  hasty                  \* history: ... before one had failed, or disconnect ended

serverVars == <<server, netServer, activeSockets, replaced>>
clientVars == <<socket, leaving, send, crowded, hasty>>
vars == <<serverVars, clientVars, serverEnd, servedBy, clientEnd>>
-----------------------------------------------------------------------------
Init ==
  /\ server = {}
  /\ netServer = [n \in Servers |-> "none"]
  /\ activeSockets = {}
  /\ serverEnd = [s \in Sockets |-> "none"]
  /\ servedBy = [s \in Sockets |-> {}]
  /\ socket = {}
  /\ clientEnd = [s \in Sockets |-> "none"]
  /\ leaving = {}
  /\ send = [i \in Sends |-> [promise |-> "none", on |-> {}]]
  /\ replaced = FALSE
  /\ crowded = FALSE
  /\ hasty = FALSE

(* Objects are named in the order they are made.                           *)
NextToMake(state, x) == x = Cardinality({y \in DOMAIN state : state[y] # "none"}) + 1
Listening(N) == \E n \in N : netServer[n] = "listening"
-----------------------------------------------------------------------------
(* TCPServer.start(): on record before it listens, and if it never does.   *)
Start(n) ==
  /\ NextToMake(netServer, n)
  /\ netServer' = [netServer EXCEPT ![n] = "binding"]
  /\ server' = {n}
  /\ replaced' = (replaced \/ server # {})
  /\ UNCHANGED <<activeSockets, serverEnd, servedBy, clientEnd, clientVars>>

(* listening resolves start's promise, an error rejects it.                *)
Bind(n) ==
  /\ netServer[n] = "binding"
  /\ \E outcome \in {"listening", "failed"} : netServer' = [netServer EXCEPT ![n] = outcome]
  /\ UNCHANGED <<server, activeSockets, replaced, serverEnd, servedBy, clientEnd, clientVars>>

TrackedWith(s) == activeSockets \cup {s}

(* connection event: the socket is tracked.                                *)
Accept(s) ==
  /\ serverEnd[s] = "backlog"
  /\ Listening(servedBy[s])
  /\ serverEnd' = [serverEnd EXCEPT ![s] = "open"]
  /\ activeSockets' = TrackedWith(s)
  /\ UNCHANGED <<server, netServer, replaced, servedBy, clientEnd, clientVars>>

(* The end of the client's side, or the error of its failure, ends the     *)
(* server's socket.                                                        *)
ServerSocketEnds(s) ==
  /\ serverEnd[s] = "open"
  /\ clientEnd[s] \in {"finished", "failing", "closed"}
  /\ serverEnd' = [serverEnd EXCEPT ![s] = "destroyed"]
  /\ UNCHANGED <<serverVars, servedBy, clientEnd, clientVars>>

TrackedWithout(s) == activeSockets \ {s}

(* close event of the server's socket, also long after stop.               *)
ServerSocketClose(s) ==
  /\ serverEnd[s] = "destroyed"
  /\ serverEnd' = [serverEnd EXCEPT ![s] = "closed"]
  /\ activeSockets' = TrackedWithout(s)
  /\ UNCHANGED <<server, netServer, replaced, servedBy, clientEnd, clientVars>>

ActiveDestroyed ==
  [s \in Sockets |-> IF s \in activeSockets /\ serverEnd[s] = "open" THEN "destroyed" ELSE serverEnd[s]]

ForgottenAtOnce == {}   \* mutant
RecordAfterStop == server

(* TCPServer.stop(): destroys what is tracked and closes the server, which *)
(* rejects unless it is listening; without a server it resolves at once.   *)
Stop ==
  /\ server # {}
  /\ serverEnd' = ActiveDestroyed
  /\ activeSockets' = {}
  /\ netServer' = [n \in Servers |-> IF n \in server /\ netServer[n] = "listening"
                                     THEN "closing" ELSE netServer[n]]
  /\ server' = RecordAfterStop
  /\ UNCHANGED <<replaced, servedBy, clientEnd, clientVars>>

(* close callback: no connection is left; stop resolves and whatever server*)
(* is on record is forgotten.                                              *)
ServerClosed(n) ==
  /\ netServer[n] = "closing"
  /\ \A s \in Sockets : n \in servedBy[s] => serverEnd[s] # "open"
  /\ netServer' = [netServer EXCEPT ![n] = "closed"]
  /\ server' = {}
  /\ UNCHANGED <<activeSockets, replaced, serverEnd, servedBy, clientEnd, clientVars>>
-----------------------------------------------------------------------------
(* TCPClient.connect(): a new socket, whatever became of the last one.     *)
Connect(s) ==
  /\ NextToMake(clientEnd, s)
  /\ clientEnd' = [clientEnd EXCEPT ![s] = "connecting"]
  /\ crowded' = (crowded \/ \E r \in Sockets : clientEnd[r] \notin {"none", "closed"})
  /\ hasty' = (hasty \/ leaving # {} \/ \E r \in Sockets :
                 clientEnd[r] \notin {"none", "finished", "closed"})
  /\ UNCHANGED <<socket, leaving, send, serverVars, serverEnd, servedBy>>

RecordAfterConnect(s) == {s}

(* connect event: on record, connect resolves.                             *)
Connected(s) ==
  /\ clientEnd[s] = "connecting"
  /\ \E n \in Servers :
       /\ netServer[n] = "listening"
       /\ servedBy' = [servedBy EXCEPT ![s] = {n}]
  /\ serverEnd' = [serverEnd EXCEPT ![s] = "backlog"]
  /\ clientEnd' = [clientEnd EXCEPT ![s] = "connected"]
  /\ socket' = RecordAfterConnect(s)
  /\ UNCHANGED <<leaving, send, crowded, hasty, serverVars>>

(* error event: rejects connect before the connection, is ignored after it.*)
ClientError(s) ==
  /\ clientEnd[s] \in {"connecting", "connected", "ending"}
  /\ clientEnd' = [clientEnd EXCEPT ![s] = "failing"]
  /\ UNCHANGED <<serverVars, clientVars, serverEnd, servedBy>>

Refused(s) == clientEnd[s] = "connecting" /\ ~Listening(Servers) /\ ClientError(s)

(* The connection is over on the other side, or its backlog was dropped.   *)
PeerGone(s) ==
  \/ serverEnd[s] \in {"destroyed", "closed"}
  \/ serverEnd[s] = "backlog" /\ ~Listening(servedBy[s])
KeptOnRecord(s) == socket   \* mutant
RecordAfterClose(s) == {}
Settled(outcome) == [promise |-> outcome, on |-> {}]

(* close event of the client's socket, after its end callbacks: none is on *)
(* record, whichever was.  A send that still waits for its drain may be    *)
(* rejected by its write, or be left alone.                                *)
ClientClose(s) ==
  /\ \/ clientEnd[s] = "failing"
     \/ clientEnd[s] \in {"connected", "ending", "finished"} /\ PeerGone(s)
  /\ s \notin leaving
  /\ clientEnd' = [clientEnd EXCEPT ![s] = "closed"]
  /\ socket' = RecordAfterClose(s)
  /\ \E rejected \in SUBSET {i \in Sends : send[i] = [promise |-> "waiting", on |-> {s}]} :
       send' = [i \in Sends |-> IF i \in rejected THEN Settled("rejected") ELSE send[i]]
  /\ UNCHANGED <<leaving, crowded, hasty, serverVars, serverEnd, servedBy>>

Settle(i, outcome) == send' = [send EXCEPT ![i] = Settled(outcome)]

(* TCPClient.send(): resolves if the write has room, waits for the drain   *)
(* event if not; a write to a socket past its end rejects and destroys it. *)
Send(i) ==
  /\ send[i].promise = "none"
  /\ \/ /\ socket = {}
        /\ Settle(i, "rejected")
        /\ UNCHANGED clientEnd
     \/ /\ \E s \in socket : clientEnd[s] = "connected"
        /\ \/ Settle(i, "resolved")
           \/ send' = [send EXCEPT ![i] = [promise |-> "waiting", on |-> socket]]
        /\ UNCHANGED clientEnd
     \/ /\ \E s \in socket : clientEnd[s] # "connected"
        /\ Settle(i, "rejected")
        /\ clientEnd' = [s \in Sockets |-> IF s \in socket /\ clientEnd[s] \in {"ending", "finished"}
                                           THEN "failing" ELSE clientEnd[s]]
  /\ UNCHANGED <<socket, leaving, crowded, hasty, serverVars, serverEnd, servedBy>>

WaitingOnRecord(s) ==   \* mutant
  {i \in Sends : s \in socket /\ send[i] = [promise |-> "waiting", on |-> {s}]}
Waiting(s) == {i \in Sends : send[i] = [promise |-> "waiting", on |-> {s}]}

(* drain event: every send that waits on the socket resolves.  The event   *)
(* does not come any more once end() was called.                           *)
Drain(s) ==
  /\ clientEnd[s] = "connected"
  /\ Waiting(s) # {}
  /\ send' = [i \in Sends |-> IF i \in Waiting(s) THEN Settled("resolved") ELSE send[i]]
  /\ UNCHANGED <<socket, leaving, crowded, hasty, serverVars, serverEnd, servedBy, clientEnd>>

(* TCPClient.disconnect(): ends the socket on record; without one it       *)
(* resolves at once.                                                       *)
Disconnect ==
  /\ socket # {}
  /\ leaving' = leaving \cup socket
  /\ clientEnd' = [s \in Sockets |-> IF s \in socket /\ clientEnd[s] = "connected"
                                     THEN "ending" ELSE clientEnd[s]]
  /\ UNCHANGED <<socket, send, crowded, hasty, serverVars, serverEnd, servedBy>>

(* end callback, on success or on error: none is on record, disconnect     *)
(* resolves.                                                               *)
Finish(s) ==
  /\ s \in leaving
  /\ leaving' = leaving \ {s}
  /\ clientEnd' = [clientEnd EXCEPT ![s] = IF @ = "ending" THEN "finished" ELSE @]
  /\ socket' = {}
  /\ UNCHANGED <<send, crowded, hasty, serverVars, serverEnd, servedBy>>

Next ==
  \/ \E n \in Servers : Start(n) \/ Bind(n) \/ ServerClosed(n)
  \/ Stop
  \/ \E s \in Sockets :
       \/ Accept(s) \/ ServerSocketEnds(s) \/ ServerSocketClose(s)
       \/ Connect(s) \/ Connected(s) \/ ClientError(s) \/ ClientClose(s)
       \/ Drain(s) \/ Finish(s)
  \/ \E i \in Sends : Send(i)
  \/ Disconnect

(* Node.js delivers every event that is due, a connection attempt ends, and*)
(* a server that reads lets its clients' buffers drain.  Nobody has to call*)
(* a method, and nothing has to fail.                                      *)
Fairness ==
  /\ \A n \in Servers : WF_vars(Bind(n)) /\ WF_vars(ServerClosed(n))
  /\ \A s \in Sockets :
       /\ WF_vars(Accept(s)) /\ WF_vars(ServerSocketEnds(s)) /\ WF_vars(ServerSocketClose(s))
       /\ WF_vars(Connected(s) \/ Refused(s)) /\ WF_vars(ClientClose(s))
       /\ WF_vars(serverEnd[s] = "open" /\ Drain(s)) /\ WF_vars(Finish(s))

Spec == Init /\ [][Next]_vars /\ Fairness
-----------------------------------------------------------------------------
(* Every variable has its type; at most one server and one socket are on   *)
(* record.                                                                 *)
TypeOK ==
  /\ server \subseteq Servers /\ Cardinality(server) <= 1
  /\ socket \subseteq Sockets /\ Cardinality(socket) <= 1
  /\ netServer \in [Servers -> {"none", "binding", "listening", "failed", "closing", "closed"}]
  /\ activeSockets \subseteq Sockets
  /\ serverEnd \in [Sockets -> {"none", "backlog", "open", "destroyed", "closed"}]
  /\ clientEnd \in [Sockets -> {"none", "connecting", "connected", "ending", "finished",
                                 "failing", "closed"}]
  /\ leaving \subseteq Sockets
  /\ \A i \in Sends : send[i].promise \in {"none", "waiting", "resolved", "rejected"}

(* Every open socket of the server is tracked, so that stop can destroy it,*)
(* and nothing is tracked whose close event was delivered, also when close *)
(* events of one life of the server arrive in the next.                    *)
ActiveTracked ==
  /\ {s \in Sockets : serverEnd[s] = "open"} \subseteq activeSockets
  /\ \A s \in activeSockets : serverEnd[s] \in {"open", "destroyed"}

(* With no server on record nothing listens, nothing is being closed and no*)
(* connection is open, unless start was called over a server on record.    *)
StoppedIsGone ==
  server = {} /\ ~replaced =>
    /\ \A n \in Servers : netServer[n] \in {"none", "closed"}
    /\ \A s \in Sockets : serverEnd[s] # "open"

(* The server's records agree with its sockets in every state.             *)
Consistent == TypeOK /\ ActiveTracked /\ StoppedIsGone

(* The client never has a closed socket on record, and has the connected   *)
(* one on record if it only ever connects after the last socket's close    *)
(* event.                                                                  *)
OnRecord ==
  /\ \A s \in socket : clientEnd[s] \in {"connected", "ending", "finished", "failing"}
  /\ ~crowded => \A s \in Sockets : clientEnd[s] = "connected" => s \in socket

(* What the lab's README says of the client, that it handles reconnects: a *)
(* connection made after disconnect resolved, or after the last one failed,*)
(* is on record while it lasts.                                            *)
ReconnectKept == ~hasty => \A s \in Sockets : clientEnd[s] = "connected" => s \in socket

(* A send that waits is settled by the drain, whoever waits with it, unless*)
(* the socket is ended or fails first.                                     *)
SendSettles ==
  \A i \in Sends :
    send[i].promise = "waiting" ~>
      \/ send[i].promise # "waiting"
      \/ \A s \in send[i].on : clientEnd[s] # "connected"

(* Once a client disconnects, the server counts its connection no more.    *)
DisconnectFreesServer ==
  \A s \in Sockets : s \in leaving ~> s \notin leaving /\ s \notin activeSockets

(* A stop that has begun to close the server ends.                         *)
StopSettles == \A n \in Servers : netServer[n] = "closing" ~> netServer[n] = "closed"

(* What waits for the other side or for Node.js ends.                      *)
Settles == SendSettles /\ DisconnectFreesServer /\ StopSettles
=============================================================================
