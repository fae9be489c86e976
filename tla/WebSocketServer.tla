--------------------------- MODULE WebSocketServer ---------------------------
(***************************************************************************)
(* projects/02-websocket-chat: class WebSocketServer, one object, its      *)
(* connections, the upgrade, the frames and the broadcast.                 *)
(*                                                                         *)
(* A connection's bytes are tokens: those of the upgrade's headers, and    *)
(* <<"byte", n>>.  A chunk is any number of them.                          *)
(*                                                                         *)
(* net.Server: none, binding, listening, failed, closing, closed.          *)
(* net.Socket: none, open, destroyed, closed (its close event was          *)
(* delivered).                                                             *)
(***************************************************************************)
EXTENDS Integers, Sequences, FiniteSetsExt, SequencesExt, HeaderBlocks, Selections

CONSTANTS
  Servers,               \* bound: net.Server objects ever created, 1..n
  Sockets,               \* bound: connections ever accepted, 1..n
  MaxObjects,            \* bound: how many of both
  Upgrades,              \* per connection: the headers its client may send, as tokens
  Frames,                \* per connection: the sequences of frames its client sends
  Cuts,                  \* bound: per connection, where a chunk may end
  Refused,               \* the messages on which the onMessage callback throws
  Announcements,         \* bound: messages the program broadcasts itself, each once
  Lengths                \* the payload lengths for which encoding is checked

Octets == 0..255
Payloads == Seq(Octets)
MaxLength == 2147483647  \* a string of Node.js is shorter

(* A frame that a client sends: its length takes no, 2 or 8 bytes of its   *)
(* own, and its key may be absent.                                         *)
ClientFrames ==
  {f \in [opcode : 0..15, extended : {0, 2, 8}, key : Seq(Octets), payload : Payloads] :
     /\ Len(f.key) \in {0, 4}
     /\ Len(f.payload) <= IF f.extended = 0 THEN 125 ELSE IF f.extended = 2 THEN 65535 ELSE MaxLength}

(* The headers end with their only empty line.                             *)
HeaderLines == {CRLF, <<"upgrade">>, <<"key">>}
ClientHeaders == {h \in Seq(HeaderLines) : Boundary(h) = {Len(h) - 1}}

ASSUME ObjectsAssumption == IsFiniteSet(Servers) /\ IsFiniteSet(Sockets) /\ 0 \notin Sockets
ASSUME ClientsAssumption ==
  \A s \in Sockets : Upgrades[s] \subseteq ClientHeaders /\ Frames[s] \subseteq Seq(ClientFrames)
ASSUME MessagesAssumption == Announcements \subseteq Payloads /\ Lengths \subseteq 0..MaxLength

VARIABLES
  server,                \* WebSocketServer.server: the one on record, or none: {}
  netServer,
  clients,
  listener,              \* an onMessage callback is registered
  socket, servedBy,
  headers, frames,       \* what a client sends
  arrived,               \* how many tokens of it have arrived
  isUpgraded, rawBuffer,
  writes,                \* per connection: writes whose callbacks are due and destroy it
  sent,                  \* history: per connection, all that was written
  chat,                  \* history: what was broadcast, with its sender
  joined,                \* history: per client, how much chat it was too late for
  failed,                \* history: connections whose message made the callback throw
  stranded,              \* history: connections open at a stop that were no clients
  unruly                 \* history: start over a server on record, stop before listening

serverVars == <<server, netServer, unruly, stranded>>
inputVars == <<headers, frames, arrived, isUpgraded, rawBuffer, failed>>
vars == <<serverVars, clients, listener, socket, servedBy, inputVars, writes, sent, chat, joined>>
-----------------------------------------------------------------------------
Byte(n) == <<"byte", n>>
Bytes(s) == [i \in DOMAIN s |-> Byte(s[i])]

(* Bytes in network order.                                                 *)
BigEndian(s) ==
  LET Read[i \in 0..Len(s)] == IF i = 0 THEN 0 ELSE 256 * Read[i - 1] + s[i] IN Read[Len(s)]
Digits(n, k) ==
  [i \in 1..k |-> IF k - i > 3 THEN 0 ELSE (n \div <<1, 256, 65536, 16777216>>[k - i + 1]) % 256]
Xor(x, y) ==
  LET Bit(d) == d * ((x \div d + y \div d) % 2)
  IN Bit(1) + Bit(2) + Bit(4) + Bit(8) + Bit(16) + Bit(32) + Bit(64) + Bit(128)
Numbers(tokens) == [i \in DOMAIN tokens |-> tokens[i][2]]

LengthBytes(len) ==
  IF len < 126 THEN <<len>>
  ELSE IF len <= 65535 THEN <<126>> \o Digits(len, 2)
  ELSE <<127>> \o Digits(len, 8)

(* encodeFrame(): a text frame, not masked.                                *)
encodeFrame(payload) == Bytes(<<129>> \o LengthBytes(Len(payload)) \o payload)

(* The header of a frame, as far as it can be read: where the extended     *)
(* length ends, the mask, the length.                                      *)
Code(b) == b[2][2] % 128
Offset(b) == IF Code(b) = 126 THEN 4 ELSE IF Code(b) = 127 THEN 10 ELSE 2
IsMasked(b) == b[2][2] >= 128
PayloadLen(b) ==
  IF Offset(b) = 2 THEN Code(b) ELSE BigEndian(Numbers(SubSeq(b, 3, Offset(b))))
PayloadAt(b) == Offset(b) + (IF IsMasked(b) THEN 4 ELSE 0)
RequiredLength(b) == PayloadAt(b) + PayloadLen(b)

Complete(b) == Len(b) >= 2 /\ Len(b) >= Offset(b) /\ Len(b) >= RequiredLength(b)

(* decodeFrame(): the opcode, and the payload of a text, unmasked.         *)
decodeFrame(b) ==
  LET opcode == b[1][2] % 16
      payload == Numbers(SubSeq(b, PayloadAt(b) + 1, RequiredLength(b)))
      key == Numbers(SubSeq(b, Offset(b) + 1, Offset(b) + 4))
  IN [opcode |-> opcode,
      payload |-> IF opcode # 1 THEN <<>>
                  ELSE IF ~IsMasked(b) THEN payload
                  ELSE [i \in DOMAIN payload |-> Xor(payload[i], key[((i - 1) % 4) + 1])]]

(* What is written to a connection, and the texts below, which also tell   *)
(* their sender.                                                           *)
Message(kind) == <<kind>>
Text(sender, payload) == <<"text", sender, payload>>

(* What the frame's sender is written.                                     *)
Answer(frame) ==
  IF frame.opcode = 8 THEN <<Message("close")>> ELSE IF frame.opcode = 9 THEN <<Message("pong")>> ELSE <<>>

(* The while loop of the data listener, n rounds of it: the texts to be    *)
(* broadcast, what the sender is written, and whether the callback threw.  *)
Loop(buffer) ==
  LET Step(before) ==
        LET frame == decodeFrame(SubSeq(before.rest, 1, RequiredLength(before.rest)))
            throws == frame.opcode = 1 /\ listener /\ frame.payload \in Refused
        IN [rest |-> SubSeq(before.rest, RequiredLength(before.rest) + 1, Len(before.rest)),
            texts |-> IF frame.opcode = 1 /\ ~throws THEN Append(before.texts, frame.payload)
                      ELSE before.texts,
            answers |-> before.answers \o Answer(frame),
            threw |-> before.threw \/ throws]
      After[n \in 0..Len(buffer)] ==
        IF n = 0 THEN [rest |-> buffer, texts |-> <<>>, answers |-> <<>>, threw |-> FALSE]
        ELSE LET before == After[n - 1] IN
             IF Complete(before.rest) THEN Step(before) ELSE before
  IN After[Len(buffer)]

(* The upgrade is asked for, and with a key.                               *)
IsUpgrade(block) == Contains(block, <<"upgrade">>) /\ Contains(block, <<"key">>)
-----------------------------------------------------------------------------
Init ==
  /\ server = {}
  /\ netServer = [n \in Servers |-> "none"]
  /\ clients = {}
  /\ listener = FALSE
  /\ socket = [s \in Sockets |-> "none"]
  /\ servedBy = [s \in Sockets |-> {}]
  /\ headers = [s \in Sockets |-> <<>>]
  /\ frames = [s \in Sockets |-> <<>>]
  /\ arrived = [s \in Sockets |-> 0]
  /\ isUpgraded = [s \in Sockets |-> FALSE]
  /\ rawBuffer = [s \in Sockets |-> <<>>]
  /\ writes = [s \in Sockets |-> <<>>]
  /\ sent = [s \in Sockets |-> <<>>]
  /\ chat = <<>>
  /\ joined = [s \in Sockets |-> 0]
  /\ failed = {}
  /\ stranded = {}
  /\ unruly = FALSE

(* Objects are named in the order they are made.                           *)
Made(state) == Cardinality({y \in DOMAIN state : state[y] # "none"})
NextToMake(state, x) == x = Made(state) + 1 /\ Made(netServer) + Made(socket) < MaxObjects

(* onMessage().                                                            *)
OnMessage ==
  /\ ~listener
  /\ listener' = TRUE
  /\ UNCHANGED <<serverVars, clients, socket, servedBy, inputVars, writes, sent, chat, joined>>

RecordAfterStart(n) == {n}

(* start(): on record before it listens, and if it never does.             *)
Start(n) ==
  /\ NextToMake(netServer, n)
  /\ netServer' = [netServer EXCEPT ![n] = "binding"]
  /\ server' = RecordAfterStart(n)
  /\ unruly' = (unruly \/ server # {})
  /\ UNCHANGED <<stranded, clients, listener, socket, servedBy, inputVars, writes, sent, chat, joined>>

(* listening resolves start's promise, an error rejects it.                *)
Bind(n) ==
  /\ netServer[n] = "binding"
  /\ \E outcome \in {"listening", "failed"} : netServer' = [netServer EXCEPT ![n] = outcome]
  /\ UNCHANGED <<server, unruly, stranded, clients, listener, socket, servedBy, inputVars,
                 writes, sent, chat, joined>>

Destroying == {Message("400"), Message("close"), Message("goodbye")}

(* Writing to some connections: a sequence of messages to each.            *)
Write(more) ==
  /\ sent' = [s \in Sockets |-> sent[s] \o more[s]]
  /\ writes' = [s \in Sockets |-> writes[s] \o Kept(more[s], Destroying)]

ClearedFirst == {}   \* mutant
ToldGoodbye == clients
ClientsAfterStop == {}

(* stop(): a close frame to every client; clients and server are forgotten *)
(* at once, the server waits for every connection.  A server that does not *)
(* listen yet is told that it is closed, and goes on to listen.            *)
Stop ==
  /\ server # {} \/ clients # {}
  /\ Write([s \in Sockets |-> IF s \in ToldGoodbye THEN <<Message("goodbye")>> ELSE <<>>])
  /\ clients' = ClientsAfterStop
  /\ stranded' = stranded \cup {s \in Sockets \ clients : socket[s] = "open"}
  /\ netServer' = [n \in Servers |-> IF n \in server /\ netServer[n] = "listening"
                                     THEN "closing" ELSE netServer[n]]
  /\ unruly' = (unruly \/ \E n \in server : netServer[n] = "binding")
  /\ server' = {}
  /\ UNCHANGED <<listener, socket, servedBy, inputVars, chat, joined>>

(* close callback: no connection is left, stop resolves.                   *)
ServerClosed(n) ==
  /\ netServer[n] = "closing"
  /\ \A s \in Sockets : n \in servedBy[s] => socket[s] # "open"
  /\ netServer' = [netServer EXCEPT ![n] = "closed"]
  /\ UNCHANGED <<server, unruly, stranded, clients, listener, socket, servedBy, inputVars,
                 writes, sent, chat, joined>>
-----------------------------------------------------------------------------
(* connection event: no client before its upgrade.                         *)
Accept(s) ==
  /\ NextToMake(socket, s)
  /\ \E n \in Servers : netServer[n] = "listening" /\ servedBy' = [servedBy EXCEPT ![s] = {n}]
  /\ \E h \in Upgrades[s], f \in Frames[s] :
       headers' = [headers EXCEPT ![s] = h] /\ frames' = [frames EXCEPT ![s] = f]
  /\ socket' = [socket EXCEPT ![s] = "open"]
  /\ UNCHANGED <<serverVars, clients, listener, arrived, isUpgraded, rawBuffer, failed,
                 writes, sent, chat, joined>>

EchoesTexts(s, members) == members   \* mutant
(* broadcast(): to everyone but the sender.                                *)
Audience(s, members) == members \ {s}

(* broadcast() by the program itself.                                      *)
Announce(m) ==
  /\ ~Contains(chat, Text(0, m))
  /\ chat' = Append(chat, Text(0, m))
  /\ Write([s \in Sockets |-> IF s \in Audience(0, clients) THEN <<Text(0, m)>> ELSE <<>>])
  /\ UNCHANGED <<serverVars, clients, listener, socket, servedBy, inputVars, joined>>

RestDropped(buffer) == <<>>   \* mutant
BehindUpgrade(buffer) == BehindHeaders(buffer)

(* What a client puts on the wire for a frame.                             *)
Wire(f) ==
  LET code == IF f.extended = 2 THEN 126 ELSE IF f.extended = 8 THEN 127 ELSE Len(f.payload)
      masked == [i \in DOMAIN f.payload |->
                  IF f.key = <<>> THEN f.payload[i] ELSE Xor(f.payload[i], f.key[((i - 1) % 4) + 1])]
  IN Bytes(<<128 + f.opcode, IF f.key = <<>> THEN code ELSE 128 + code>>
             \o Digits(Len(f.payload), f.extended) \o f.key \o masked)
WireAll(fs) == FlattenSeq([i \in DOMAIN fs |-> Wire(fs[i])])
Input(s) == headers[s] \o WireAll(frames[s])

(* data event before the upgrade: wait for the headers; or refuse them, and*)
(* again at every chunk until the callback; or accept them.                *)
Headers(s, buffer) ==
  \/ /\ Boundary(buffer) = {}
     /\ rawBuffer' = [rawBuffer EXCEPT ![s] = buffer]
     /\ UNCHANGED <<clients, socket, isUpgraded, failed, writes, sent, chat, joined>>
  \/ /\ Boundary(buffer) # {} /\ ~IsUpgrade(HeadersBlock(buffer))
     /\ rawBuffer' = [rawBuffer EXCEPT ![s] = buffer]
     /\ Write([r \in Sockets |-> IF r = s THEN <<Message("400")>> ELSE <<>>])
     /\ UNCHANGED <<clients, socket, isUpgraded, failed, chat, joined>>

(* data event: every frame that is complete is handled, those behind a     *)
(* close frame, or behind one whose message made the callback throw, too.  *)
Handle(s, buffer, members, greeting) ==
  LET loop == Loop(buffer)
      messages == [i \in DOMAIN loop.texts |-> Text(s, loop.texts[i])]
  IN /\ rawBuffer' = [rawBuffer EXCEPT ![s] = loop.rest]
     /\ chat' = chat \o messages
     /\ Write([r \in Sockets |->
                 (IF r = s THEN greeting ELSE <<>>)
                   \o (IF r \in Audience(s, members) THEN messages ELSE <<>>)
                   \o (IF r = s THEN loop.answers ELSE <<>>)])
     /\ clients' = IF loop.threw THEN members \ {s} ELSE members
     /\ socket' = [socket EXCEPT ![s] = IF loop.threw THEN "destroyed" ELSE @]
     /\ failed' = IF loop.threw THEN failed \cup {s} ELSE failed

Data(s) ==
  /\ socket[s] = "open"
  /\ \E last \in Cuts[s] \cap (arrived[s] + 1 .. Len(Input(s))) :
       LET buffer == rawBuffer[s] \o SubSeq(Input(s), arrived[s] + 1, last) IN
       /\ arrived' = [arrived EXCEPT ![s] = last]
       /\ \/ ~isUpgraded[s] /\ Headers(s, buffer)
          \/ /\ ~isUpgraded[s] /\ Boundary(buffer) # {} /\ IsUpgrade(HeadersBlock(buffer))
             /\ isUpgraded' = [isUpgraded EXCEPT ![s] = TRUE]
             /\ joined' = [joined EXCEPT ![s] = Len(chat)]
             /\ Handle(s, BehindUpgrade(buffer), clients \cup {s}, <<Message("101")>>)
          \/ /\ isUpgraded[s]
             /\ Handle(s, buffer, clients, <<>>)
             /\ UNCHANGED <<isUpgraded, joined>>
  /\ UNCHANGED <<serverVars, listener, servedBy, headers, frames>>

(* The callback of such a write, in the order of the writes; that of the   *)
(* answer to a close frame forgets the client, too.                        *)
Written(s) ==
  /\ socket[s] = "open"
  /\ writes[s] # <<>>
  /\ writes' = [writes EXCEPT ![s] = Tail(@)]
  /\ socket' = [socket EXCEPT ![s] = "destroyed"]
  /\ clients' = IF Head(writes[s]) = Message("close") THEN clients \ {s} ELSE clients
  /\ UNCHANGED <<serverVars, listener, servedBy, inputVars, sent, chat, joined>>

(* The callback of a broadcast or of that answer when the write failed,    *)
(* before the close event.                                                 *)
WriteFails(s) ==
  /\ socket[s] = "destroyed"
  /\ \E i \in DOMAIN sent[s] : sent[s][i][1] \in {"text", "close"}
  /\ clients' = clients \ {s}
  /\ UNCHANGED <<serverVars, listener, socket, servedBy, inputVars, writes, sent, chat, joined>>

(* The client ends the connection.                                         *)
ClientEnds(s) ==
  /\ socket[s] = "open"
  /\ socket' = [socket EXCEPT ![s] = "destroyed"]
  /\ UNCHANGED <<serverVars, clients, listener, servedBy, inputVars, writes, sent, chat, joined>>

(* error event.                                                            *)
SocketError(s) ==
  /\ socket[s] = "open"
  /\ socket' = [socket EXCEPT ![s] = "destroyed"]
  /\ clients' = clients \ {s}
  /\ UNCHANGED <<serverVars, listener, servedBy, inputVars, writes, sent, chat, joined>>

StillClients(s) == clients   \* mutant
ClientsWithout(s) == clients \ {s}

(* close event, also long after stop.                                      *)
SocketClose(s) ==
  /\ socket[s] = "destroyed"
  /\ socket' = [socket EXCEPT ![s] = "closed"]
  /\ clients' = ClientsWithout(s)
  /\ writes' = [writes EXCEPT ![s] = <<>>]
  /\ UNCHANGED <<serverVars, listener, servedBy, inputVars, sent, chat, joined>>

Next ==
  \/ OnMessage
  \/ \E m \in Announcements : Announce(m)
  \/ \E n \in Servers : Start(n) \/ Bind(n) \/ ServerClosed(n)
  \/ Stop
  \/ \E s \in Sockets : \/ Accept(s) \/ Data(s) \/ Written(s) \/ WriteFails(s)
                        \/ ClientEnds(s) \/ SocketError(s) \/ SocketClose(s)

(* Node.js delivers every event and calls every callback that is due.      *)
(* Nobody has to call a method or to send, and nothing has to fail.        *)
Fairness ==
  /\ \A n \in Servers : WF_vars(Bind(n)) /\ WF_vars(ServerClosed(n))
  /\ \A s \in Sockets : WF_vars(Written(s)) /\ WF_vars(SocketClose(s))

Spec == Init /\ [][Next]_vars /\ Fairness
-----------------------------------------------------------------------------
(* Every variable has its type; at most one server is on record.           *)
TypeOK ==
  /\ server \subseteq Servers /\ Cardinality(server) <= 1
  /\ netServer \in [Servers -> {"none", "binding", "listening", "failed", "closing", "closed"}]
  /\ clients \cup failed \cup stranded \subseteq Sockets
  /\ socket \in [Sockets -> {"none", "open", "destroyed", "closed"}]
  /\ isUpgraded \in [Sockets -> BOOLEAN] /\ listener \in BOOLEAN
  /\ \A s \in Sockets : joined[s] \in 0..Len(chat)

(* encodeFrame is read back by the listener's loop and by decodeFrame, for *)
(* lengths around the places where the header grows.                       *)
EncodedIsRead ==
  \A n \in Lengths :
    LET payload == [i \in 1..n |-> 1]
        frame == encodeFrame(payload)
    IN Complete(frame) /\ RequiredLength(frame) = Len(frame)
         /\ decodeFrame(frame) = [opcode |-> 1, payload |-> payload]

(* The frames of a connection that have arrived whole.                     *)
Whole(s) ==
  LET k == Max({j \in 0..Len(frames[s]) :
                  Len(headers[s]) + Len(WireAll(SubSeq(frames[s], 1, j))) <= arrived[s]})
  IN SubSeq(frames[s], 1, k)

Texts(senders) == {"text"} \X senders \X Payloads
OthersThan(s) == (Sockets \cup {0}) \ {s}
TextsOf(s) == Kept(chat, Texts({s}))
TextsTo(s) == Kept(sent[s], Texts(Sockets \cup {0}))

(* However the bytes of a client are cut into chunks, and whatever of them *)
(* came with the upgrade, every text that has arrived whole has been       *)
(* broadcast, once and in order, with its own payload, and every ping and  *)
(* close has been answered in order.  The exception is a client on whose   *)
(* message the callback threw.                                             *)
FramesHandled ==
  \A s \in Sockets : isUpgraded[s] /\ s \notin failed =>
    LET texts == Kept(Whole(s), {f \in ClientFrames : f.opcode = 1})
        asked == Kept(Whole(s), {f \in ClientFrames : f.opcode \in {8, 9}})
    IN /\ TextsOf(s) = [i \in DOMAIN texts |-> Text(s, texts[i].payload)]
       /\ Kept(sent[s], {Message("pong"), Message("close")})
            = [i \in DOMAIN asked |-> Message(IF asked[i].opcode = 8 THEN "close" ELSE "pong")]

(* A client has been written all that was broadcast since its upgrade, once*)
(* and in the same order as everyone else, but for its own messages; a     *)
(* connection that is a client no more, a beginning of that.               *)
EveryoneHears ==
  \A s \in Sockets :
    LET others == Kept(SubSeq(chat, joined[s] + 1, Len(chat)), Texts(OthersThan(s))) IN
    /\ s \in clients => TextsTo(s) = others
    /\ IsPrefix(TextsTo(s), others)

(* A client is upgraded and its close event is still to come; an upgraded  *)
(* connection that is open and no client has been written a close frame.   *)
ClientsConnected ==
  /\ \A s \in clients : isUpgraded[s] /\ socket[s] \in {"open", "destroyed"}
  /\ \A s \in Sockets : socket[s] = "open" /\ isUpgraded[s] /\ s \notin clients =>
       \E i \in DOMAIN sent[s] : sent[s][i] \in {Message("close"), Message("goodbye")}

(* Once a stop has forgotten the server, none listens, and the only clients*)
(* are those that were not upgraded yet when it came; unless a start or a  *)
(* stop came before the last start had ended.                              *)
StoppedIsGone ==
  server = {} /\ ~unruly =>
    /\ \A n \in Servers : netServer[n] \notin {"binding", "listening"}
    /\ clients \subseteq stranded

(* Encoding, clients and a stop that is complete, in every state.          *)
Consistent == TypeOK /\ EncodedIsRead /\ ClientsConnected /\ StoppedIsGone

(* A client whose close frame was answered, or that was sent one by stop,  *)
(* and whoever was refused the upgrade, is disconnected and no client.     *)
CloseHonoured ==
  \A s \in Sockets :
    writes[s] # <<>> ~> (socket[s] = "closed" /\ s \notin clients)

(* A stop that has begun to close the server ends, unless a connection that*)
(* was no client when it came stays open.                                  *)
StopSettles ==
  \A n \in Servers :
    netServer[n] = "closing" ~>
      \/ netServer[n] = "closed"
      \/ \E s \in stranded : n \in servedBy[s] /\ socket[s] = "open"

(* What is to be closed, connection or server, ends.                       *)
Settles == CloseHonoured /\ StopSettles
=============================================================================
