------------------------------ MODULE HTTPServer ------------------------------
(***************************************************************************)
(* projects/01-http-server: class HTTPServer, one object, its connections  *)
(* and the framing of requests in the bytes that arrive on them.           *)
(*                                                                         *)
(* The bytes are tokens: CRLF, the request line of a path, the header lines*)
(* that matter, and text.  A chunk is any number of them, so that a request*)
(* and the boundary behind its headers may come in pieces.                 *)
(*                                                                         *)
(* net.Server: none, binding, listening, failed, closing, closed.          *)
(* net.Socket: none, open, destroyed, closed (its close event was          *)
(* delivered).                                                             *)
(***************************************************************************)
EXTENDS Integers, Sequences, FiniteSetsExt, SequencesExt, HeaderBlocks

CONSTANTS
  Paths,
  Throwing,              \* the paths whose handlers throw
  NoPath,                \* in place of a path: a request line of too few parts
  Servers,               \* bound: net.Server objects ever created, 1..n
  Sockets,               \* bound: connections ever accepted, 1..n
  Streams                \* per connection: what its client sends, sequences of requests

VARIABLES
  server,                \* HTTPServer.server: the one on record, or none: {}
  netServer,
  routes,
  activeSockets,
  socket, servedBy,
  stream, arrived,       \* what a client sends, how many tokens have arrived
  buffer,                \* per connection, in characters
  writes,                \* per connection: replies whose callbacks are due
  replies,               \* history: per connection, all that was written
  gone,                  \* history: connections that clients ended or that failed
  unruly                 \* history: start over a server on record, stop before listening

(* A request is a record of its path, whether its connection is to close,  *)
(* and its body: lines of text, which may hold a boundary.                 *)
Requests ==
  [path : Paths \cup {NoPath}, close : BOOLEAN,
   body : Seq({CRLF} \cup ({"text"} \X STRING))]
ASSUME StreamsAssumption == \A s \in Sockets : Streams[s] \subseteq Seq(Requests)
ASSUME ObjectsAssumption == IsFiniteSet(Sockets)

serverVars == <<server, netServer, unruly>>
streamVars == <<stream, arrived, buffer, replies>>
vars == <<serverVars, routes, activeSockets, socket, servedBy, streamVars, writes, gone>>
-----------------------------------------------------------------------------
(* A client's request [path, close, body] on the wire.                     *)
Wire(request) ==
  <<<<"request", request.path>>, CRLF>>
    \o (IF request.body = <<>> THEN <<>> ELSE <<<<"length", Len(request.body)>>, CRLF>>)
    \o (IF request.close THEN <<<<"connection", "close">>, CRLF>> ELSE <<>>)
    \o <<CRLF>> \o request.body
WireAll(requests) == FlattenSeq([i \in DOMAIN requests |-> Wire(requests[i])])

(* A character of two bytes, whole and cut in two.                         *)
TwoBytes == <<<<"text", "first">>, <<"text", "second">>>>
Character == <<"text", "both">>
Replacement == <<"text", "?">>

(* chunk.toString(): a character that the chunk does not hold whole is     *)
(* replaced, each of its bytes.                                            *)
Decoded(chunk) ==
  LET Whole(i) == i \in 1..Len(chunk) - 1 /\ SubSeq(chunk, i, i + 1) = TwoBytes
      Text(i) == IF Whole(i) THEN <<Character>>
                 ELSE IF Whole(i - 1) THEN <<>>
                 ELSE IF chunk[i] \in {TwoBytes[1], TwoBytes[2]} THEN <<Replacement>>
                 ELSE <<chunk[i]>>
  IN FlattenSeq([i \in DOMAIN chunk |-> Text(i)])
-----------------------------------------------------------------------------
(* The places of a kind of token in the first line, or in those behind it. *)
FirstLine(block) == {i \in DOMAIN block : \A j \in 1..i : block[j] # CRLF}
InFirstLine(block, kind) == {i \in FirstLine(block) : block[i][1] = kind}
InHeaders(block, kind) == {i \in DOMAIN block \ FirstLine(block) : block[i][1] = kind}

(* Without the header the length is 0; of several headers the last counts. *)
ContentLength(block) ==
  IF InHeaders(block, "length") = {} THEN 0 ELSE block[Max(InHeaders(block, "length"))][2]

RequiredLength(b) ==
  Len(HeadersBlock(b)) + 2 + ContentLength(HeadersBlock(b))

(* parseRequest(): the path, or none if it throws.                         *)
RequestPath(block) ==
  IF InFirstLine(block, "request") = {} THEN NoPath
  ELSE block[Min(InFirstLine(block, "request"))][2]

(* The reply to a request: the route's, 404, or 400 if anything threw.  The*)
(* handler's reply is told by the request it was given.                    *)
Reply(b) ==
  LET block == HeadersBlock(b)
      path == RequestPath(block)
      status == IF path = NoPath \/ path \in routes \cap Throwing THEN 400
                ELSE IF path \in routes THEN 200 ELSE 404
  IN [status |-> status, path |-> path,
      body |-> SubSeq(BehindHeaders(b), 1, ContentLength(block)),
      close |-> status # 400 /\ InHeaders(block, "connection") # {}]

Complete(b) == Boundary(b) # {} /\ Len(b) >= RequiredLength(b)

(* The while loop of the data listener, n rounds of it.                    *)
Loop(text) ==
  LET After[n \in 0..Len(text)] ==
        IF n = 0 THEN [buffer |-> text, replies |-> <<>>]
        ELSE LET before == After[n - 1] IN
             IF ~Complete(before.buffer) THEN before
             ELSE [buffer |-> SubSeq(before.buffer, RequiredLength(before.buffer) + 1,
                                     Len(before.buffer)),
                   replies |-> Append(before.replies, Reply(before.buffer))]
  IN After[Len(text)]
-----------------------------------------------------------------------------
Init ==
  /\ server = {}
  /\ netServer = [n \in Servers |-> "none"]
  /\ routes = {}
  /\ activeSockets = {}
  /\ socket = [s \in Sockets |-> "none"]
  /\ servedBy = [s \in Sockets |-> {}]
  /\ stream = [s \in Sockets |-> <<>>]
  /\ arrived = [s \in Sockets |-> 0]
  /\ buffer = [s \in Sockets |-> <<>>]
  /\ writes = [s \in Sockets |-> <<>>]
  /\ replies = [s \in Sockets |-> <<>>]
  /\ gone = {}
  /\ unruly = FALSE

(* registerRoute(), at any time.                                           *)
RegisterRoute(p) ==
  /\ routes' = routes \cup {p}
  /\ UNCHANGED <<serverVars, activeSockets, socket, servedBy, streamVars, writes, gone>>

(* Objects are named in the order they are made.                           *)
NextToMake(state, x) == x = Cardinality({y \in DOMAIN state : state[y] # "none"}) + 1

RecordAfterStart(n) == {n}

(* start(): on record before it listens, and if it never does.             *)
Start(n) ==
  /\ NextToMake(netServer, n)
  /\ netServer' = [netServer EXCEPT ![n] = "binding"]
  /\ server' = RecordAfterStart(n)
  /\ unruly' = (unruly \/ server # {})
  /\ UNCHANGED <<routes, activeSockets, socket, servedBy, streamVars, writes, gone>>

(* listening resolves start's promise, an error rejects it.                *)
Bind(n) ==
  /\ netServer[n] = "binding"
  /\ \E outcome \in {"listening", "failed"} : netServer' = [netServer EXCEPT ![n] = outcome]
  /\ UNCHANGED <<server, unruly, routes, activeSockets, socket, servedBy, streamVars, writes, gone>>

ClearedFirst == socket   \* mutant
ActiveDestroyed ==
  [s \in Sockets |-> IF s \in activeSockets /\ socket[s] = "open" THEN "destroyed" ELSE socket[s]]

(* stop(): closes the server, destroys what is active and forgets both at  *)
(* once.  A server that does not listen yet is told that it is closed, and *)
(* goes on to listen.  Without a server stop resolves at once.             *)
Stop ==
  /\ server # {}
  /\ netServer' = [n \in Servers |-> IF n \in server /\ netServer[n] = "listening"
                                     THEN "closing" ELSE netServer[n]]
  /\ unruly' = (unruly \/ \E n \in server : netServer[n] = "binding")
  /\ socket' = ActiveDestroyed
  /\ activeSockets' = {}
  /\ server' = {}
  /\ UNCHANGED <<routes, servedBy, streamVars, writes, gone>>

(* close callback: no connection is left, stop resolves.                   *)
ServerClosed(n) ==
  /\ netServer[n] = "closing"
  /\ \A s \in Sockets : n \in servedBy[s] => socket[s] # "open"
  /\ netServer' = [netServer EXCEPT ![n] = "closed"]
  /\ UNCHANGED <<server, unruly, routes, activeSockets, socket, servedBy, streamVars, writes, gone>>
-----------------------------------------------------------------------------
(* connection event: active, with a buffer of its own.                     *)
Accept(s) ==
  /\ NextToMake(socket, s)
  /\ \E n \in Servers : netServer[n] = "listening" /\ servedBy' = [servedBy EXCEPT ![s] = {n}]
  /\ \E requests \in Streams[s] : stream' = [stream EXCEPT ![s] = requests]
  /\ socket' = [socket EXCEPT ![s] = "open"]
  /\ activeSockets' = activeSockets \cup {s}
  /\ UNCHANGED <<serverVars, routes, arrived, buffer, replies, writes, gone>>

WithoutRest(s, chunk) == Decoded(chunk)   \* mutant
Accumulated(s, chunk) == buffer[s] \o Decoded(chunk)

(* data event: every request that is complete is handled and its reply is  *)
(* written, those behind one that closes the connection too.               *)
Data(s) ==
  /\ socket[s] = "open"
  /\ \E last \in arrived[s] + 1 .. Len(WireAll(stream[s])) :
       LET loop == Loop(Accumulated(s, SubSeq(WireAll(stream[s]), arrived[s] + 1, last))) IN
       /\ arrived' = [arrived EXCEPT ![s] = last]
       /\ buffer' = [buffer EXCEPT ![s] = loop.buffer]
       /\ replies' = [replies EXCEPT ![s] = @ \o loop.replies]
       /\ writes' = [writes EXCEPT ![s] = @ \o loop.replies]
  /\ UNCHANGED <<serverVars, routes, activeSockets, socket, servedBy, stream, gone>>

AlwaysCloses(reply) == TRUE         \* mutant
Closes(reply) == reply.close \/ reply.status = 400

(* A write's callback, in the order of the writes.                         *)
Written(s) ==
  /\ socket[s] = "open"
  /\ writes[s] # <<>>
  /\ writes' = [writes EXCEPT ![s] = Tail(@)]
  /\ socket' = [socket EXCEPT ![s] = IF Closes(Head(writes[s])) THEN "destroyed" ELSE "open"]
  /\ UNCHANGED <<serverVars, routes, activeSockets, servedBy, streamVars, gone>>

(* The client ends the connection; or it fails, whose error event and whose*)
(* failed writes destroy it.                                               *)
ClientGone(s) ==
  /\ socket[s] = "open"
  /\ socket' = [socket EXCEPT ![s] = "destroyed"]
  /\ gone' = gone \cup {s}
  /\ UNCHANGED <<serverVars, routes, activeSockets, servedBy, streamVars, writes>>

ActiveWithout(s) == activeSockets \ {s}

(* close event, also long after stop.  What was to be written is dropped.  *)
SocketClose(s) ==
  /\ socket[s] = "destroyed"
  /\ socket' = [socket EXCEPT ![s] = "closed"]
  /\ activeSockets' = ActiveWithout(s)
  /\ writes' = [writes EXCEPT ![s] = <<>>]
  /\ UNCHANGED <<serverVars, routes, servedBy, streamVars, gone>>

Next ==
  \/ \E p \in Paths : RegisterRoute(p)
  \/ \E n \in Servers : Start(n) \/ Bind(n) \/ ServerClosed(n)
  \/ Stop
  \/ \E s \in Sockets : Accept(s) \/ Data(s) \/ Written(s) \/ ClientGone(s) \/ SocketClose(s)

(* Node.js delivers every event and calls every callback that is due.      *)
(* Nobody has to call a method or to send, and nothing has to fail.        *)
Fairness ==
  /\ \A n \in Servers : WF_vars(Bind(n)) /\ WF_vars(ServerClosed(n))
  /\ \A s \in Sockets : WF_vars(Written(s)) /\ WF_vars(SocketClose(s))

Spec == Init /\ [][Next]_vars /\ Fairness
-----------------------------------------------------------------------------
(* Every variable has its type; at most one server is on record.           *)
TypeOK ==
  /\ server \subseteq Servers /\ Cardinality(server) <= 1
  /\ netServer \in [Servers -> {"none", "binding", "listening", "failed", "closing", "closed"}]
  /\ routes \subseteq Paths
  /\ activeSockets \subseteq Sockets /\ gone \subseteq Sockets
  /\ socket \in [Sockets -> {"none", "open", "destroyed", "closed"}]
  /\ \A s \in Sockets : stream[s] \in Streams[s] \cup {<<>>}
  /\ \A s \in Sockets : \A i \in DOMAIN replies[s] : replies[s][i].status \in {200, 400, 404}

(* The requests of a connection that have arrived whole.                   *)
Whole(s) ==
  LET k == Max({j \in 0..Len(stream[s]) :
                  Len(WireAll(SubSeq(stream[s], 1, j))) <= arrived[s]})
  IN SubSeq(stream[s], 1, k)

Answers(reply, request) ==
  /\ reply.path = request.path
  /\ reply.body = request.body
  /\ reply.path = NoPath => reply.status = 400
  /\ reply.status = 400 => reply.path \in {NoPath} \cup (Throwing \cap routes)
  /\ reply.status = 200 => reply.path \in routes

AllAnswered(s) ==
  /\ Len(replies[s]) = Len(Whole(s))
  /\ \A i \in DOMAIN replies[s] : Answers(replies[s][i], Whole(s)[i])
IsASCII(s) == \A i \in DOMAIN stream[s] : ToSet(stream[s][i].body) \cap ToSet(TwoBytes) = {}

(* However the bytes of a connection are cut into chunks, every request    *)
(* that has arrived whole has been answered, once, in order, and with its  *)
(* own body, and no other has: if the bodies are ASCII.                    *)
AnsweredInOrder == \A s \in Sockets : IsASCII(s) => AllAnswered(s)

(* Once a stop has forgotten the server, none listens and no connection is *)
(* open, unless a start or a stop came before the last start had ended.    *)
StoppedIsGone ==
  server = {} /\ ~unruly =>
    /\ \A n \in Servers : netServer[n] \notin {"binding", "listening"}
    /\ \A s \in Sockets : socket[s] # "open"

(* Types and a stop that is complete, in every state.                      *)
Consistent == TypeOK /\ StoppedIsGone

(* The connection is kept alive: the server destroys it only when it stops,*)
(* when the client is gone, or after a reply that closes.                  *)
KeepAlive ==
  [][\A s \in Sockets :
       socket[s] = "open" /\ socket'[s] = "destroyed" /\ server' # {} /\ s \notin gone' =>
         \E i \in DOMAIN replies[s] : replies[s][i].status = 400 \/ replies[s][i].close]_vars

(* A connection whose client asked for it to be closed, or sent a request  *)
(* that is malformed, is closed and is active no more.                     *)
CloseHonoured ==
  \A s \in Sockets :
    (\E i \in DOMAIN replies[s] : replies[s][i].status = 400 \/ replies[s][i].close) ~>
      (socket[s] = "closed" /\ s \notin activeSockets)

(* A stop that has begun to close the server ends.                         *)
StopSettles == \A n \in Servers : netServer[n] = "closing" ~> netServer[n] = "closed"

(* What is to be closed, connection or server, ends.                       *)
Settles == CloseHonoured /\ StopSettles
=============================================================================
