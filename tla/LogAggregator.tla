--------------------------- MODULE LogAggregator ----------------------------
(***************************************************************************)
(* projects/07-log-aggregator: class LogRingBuffer, the array the log is   *)
(* kept in, and class LogAggregatorServer, which fills it from a UDP       *)
(* socket and answers queries.                                             *)
(*                                                                         *)
(* A line is the record of its fields; one whose severity is not a known   *)
(* one stands for every line parseLogLine refuses.  A socket is none,      *)
(* binding, bound (start has resolved), failed (the error handler swallowed*)
(* the bind's error and start stays pending) or closed.                    *)
(***************************************************************************)
EXTENDS Integers, Sequences, Selections

CONSTANTS
  Timestamps, Severities, OtherSeverities,
  Capacity,
  Sockets,               \* bound: sockets ever created
  MaxEntries             \* bound: entries ever accepted

VARIABLES
  buffer, writePointer, count,       \* the ring
  udpSocket,                         \* the socket on record, or none: {}
  socket,                            \* the state of every socket
  accepted,                          \* history: every entry ingested
  replaced                           \* history: sockets start() put another in place of

ringVars == <<buffer, writePointer, count, accepted>>
socketVars == <<udpSocket, socket, replaced>>
vars == <<ringVars, socketVars>>

CapacityFits == Capacity \in Nat \ {0}
-----------------------------------------------------------------------------
Entries == [timestamp : Timestamps, severity : Severities]
Lines == [timestamp : Timestamps, severity : Severities \cup OtherSeverities]

Init ==
  /\ buffer = <<>>
  /\ writePointer = 0
  /\ count = 0
  /\ udpSocket = {}
  /\ socket = [s \in Sockets |-> "none"]
  /\ accepted = <<>>
  /\ replaced = {}
-----------------------------------------------------------------------------
CountAfterPush(n) == IF n < Capacity THEN n + 1 ELSE n

(* push(): over the oldest entry once the ring is full.                    *)
Push(entry) ==
  /\ buffer' = [i \in DOMAIN buffer \cup {writePointer} |->
                  IF i = writePointer THEN entry ELSE buffer[i]]
  /\ writePointer' = (writePointer + 1) % Capacity
  /\ count' = CountAfterPush(count)

(* getAll(): from the oldest entry around to the newest.                   *)
StartAtZero == 0   \* mutant
Start == IF count = Capacity THEN writePointer ELSE 0
GetAll == [i \in 1..count |-> buffer[(Start + i - 1) % Capacity]]

ParseLogLine(line) == line.severity \in Severities

(* ingestLogString(): a line that does not parse is dropped.               *)
IngestLogString(line) ==
  /\ Len(accepted) < MaxEntries
  /\ IF ParseLogLine(line)
     THEN Push(line) /\ accepted' = Append(accepted, line)
     ELSE UNCHANGED ringVars
  /\ UNCHANGED socketVars

(* queryLogs(): one filter after the other; {} is an absent filter.        *)
NotBefore(logs, from) == Kept(logs, {l \in Entries : \A t \in from : l.timestamp >= t})
QueryLogs(severity, from, to) ==
  LET bySeverity == Kept(GetAll, {l \in Entries : \A s \in severity : l.severity = s})
  IN  Kept(NotBefore(bySeverity, from), {l \in Entries : \A t \in to : l.timestamp <= t})
-----------------------------------------------------------------------------
(* start(): a new socket, even if there is one already, which stays open.  *)
StartServer(s) ==
  /\ socket[s] = "none"
  /\ socket' = [socket EXCEPT ![s] = "binding"]
  /\ udpSocket' = {s}
  /\ replaced' = replaced \cup udpSocket
  /\ UNCHANGED ringVars

Bind(s) ==
  /\ socket[s] = "binding"
  /\ \E outcome \in {"bound", "failed"} : socket' = [socket EXCEPT ![s] = outcome]
  /\ UNCHANGED <<udpSocket, replaced, ringVars>>

Closing(sockets) == [s \in Sockets |-> IF s \in sockets THEN "closed" ELSE socket[s]]

(* stop(): closes the socket on record and always resolves.                *)
Stop ==
  /\ socket' = Closing(udpSocket)
  /\ udpSocket' = {}
  /\ UNCHANGED <<replaced, ringVars>>

(* A datagram arrives at a bound socket, whoever still knows of it.        *)
Receive(s, line) ==
  /\ socket[s] = "bound"
  /\ IngestLogString(line)

Next ==
  \/ \E s \in Sockets : StartServer(s) \/ Bind(s)
  \/ Stop
  \/ \E s \in Sockets, line \in Lines : Receive(s, line)
  \/ \E line \in Lines : IngestLogString(line)

Spec == Init /\ [][Next]_vars
-----------------------------------------------------------------------------
(* Every variable has its type; the ring is filled without gaps.           *)
TypeOK ==
  /\ count \in 0..Capacity
  /\ writePointer \in 0..(Capacity - 1)
  /\ DOMAIN buffer \in {0..(n - 1) : n \in 0..Capacity}
  /\ \A i \in DOMAIN buffer : buffer[i] \in Entries
  /\ udpSocket \subseteq Sockets
  /\ socket \in [Sockets -> {"none", "binding", "bound", "failed", "closed"}]

(* The array, its pointer and its counter are the last Capacity entries    *)
(* ingested, oldest first, before and after the ring has wrapped around.   *)
Ring == INSTANCE BoundedLog WITH recent <- GetAll
IsBoundedLog == Ring!Spec

(* A query finds the entries among the last Capacity ingested that satisfy *)
(* every given filter, both ends of the time range included, in the order  *)
(* they were ingested.                                                     *)
Found(severity, from, to) ==
  Kept(Ring!Last(accepted),
       {l \in Entries : /\ severity # {} => l.severity \in severity
                        /\ \A t \in from : t <= l.timestamp
                        /\ \A t \in to : l.timestamp <= t})
Optional(S) == {{}} \cup {{x} : x \in S}
QueryExact ==
  \A severity \in Optional(Severities), from, to \in Optional(Timestamps) :
    QueryLogs(severity, from, to) = Found(severity, from, to)

(* A line is ingested from the network only by the socket on record, which *)
(* stop closes: other sockets are open only where start replaced them.     *)
OpenOnlyOnRecord ==
  \A s \in Sockets : socket[s] \in {"binding", "bound", "failed"} => s \in udpSocket \cup replaced
=============================================================================
