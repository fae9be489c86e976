------------------------ MODULE TCPConnectionsProofs ------------------------
(***************************************************************************)
(* Proofs about TCPConnections for any number of servers, connections and  *)
(* sends: the records of TCPServer and TCPClient agree with the sockets.   *)
(*                                                                         *)
(* OrderInv says that a new object is one nobody has used.  On it rest two *)
(* arguments that hardly meet: ClientInv for the client's record, and      *)
(* ServerInv for the server's, which needs of the client only that a       *)
(* connection exists on both sides or on none (PairInv).                   *)
(***************************************************************************)
EXTENDS TCPConnections, FiniteSetTheorems, TLAPS

FunctionTypes ==
  /\ servedBy \in [Sockets -> SUBSET Servers]
  /\ send \in [Sends -> [promise : {"none", "waiting", "resolved", "rejected"},
                         on : SUBSET Sockets]]
TypeInv == TypeOK /\ FunctionTypes

(* Objects are numbered in the order they are made.                        *)
Made(state) == {y \in DOMAIN state : state[y] # "none"}
Numbered(state) == \A y \in Made(state) : y \in 1..Cardinality(Made(state))
OrderInv == Numbered(netServer) /\ Numbered(clientEnd)

(* The server has no end of a connection that the client has not made.     *)
PairInv == \A s \in Sockets : clientEnd[s] \in {"none", "connecting"} => serverEnd[s] = "none"

(* A client that waits for each close event has one live socket at most.   *)
Live(s) == clientEnd[s] \notin {"none", "closed"}
ClientInv ==
  /\ \A s \in leaving : clientEnd[s] \in {"ending", "finished", "failing"}
  /\ ~crowded => \A r, s \in Sockets : Live(r) /\ Live(s) => r = s
  /\ OnRecord

(* Whoever has an open connection has not been closed, and only the server *)
(* on record is, unless it was replaced.                                   *)
Serving(n) == netServer[n] \in {"listening", "closing"}
ServerInv ==
  /\ ActiveTracked
  /\ ~replaced => \A n \in Servers \ server : netServer[n] \in {"none", "closed"}
  /\ \A s \in Sockets : serverEnd[s] = "open" => \E n \in servedBy[s] : Serving(n)

Inv == TypeInv /\ OrderInv /\ PairInv /\ ClientInv /\ ServerInv
-----------------------------------------------------------------------------
LEMMA AtMostOne == /\ Cardinality({}) = 0 /\ \A x : Cardinality({x}) = 1
  BY FS_EmptySet, FS_Singleton

LEMMA OnlyOne ==
  ASSUME NEW S, IsFiniteSet(S), NEW T \in SUBSET S, Cardinality(T) <= 1, NEW x \in T
  PROVE  T = {x}
<1>1. IsFiniteSet(T) /\ Cardinality(T) \in Nat
  BY FS_Subset, FS_CardinalityType
<1>2. Cardinality({x}) = 1
  BY AtMostOne
<1>3. {x} \in SUBSET T
  OBVIOUS
<1>4. Cardinality({x}) <= Cardinality(T) /\ (Cardinality(T) = Cardinality({x}) => T = {x})
  BY <1>1, <1>3, FS_Subset, Zenon
<1> QED
  BY <1>1, <1>2, <1>4

LEMMA NewIsUnused ==
  ASSUME NEW S, IsFiniteSet(S), NEW state, DOMAIN state = S, Numbered(state),
         NEW x, NextToMake(state, x), x \in S
  PROVE  state[x] = "none"
<1>1. IsFiniteSet(Made(state))
  BY FS_Subset DEF Made
<1>2. Cardinality(Made(state)) \in Nat
  BY <1>1, FS_CardinalityType
<1>3. x = Cardinality(Made(state)) + 1
  BY DEF NextToMake, Made
<1>4. x \notin Made(state)
  BY <1>2, <1>3 DEF Numbered
<1> QED
  BY <1>4 DEF Made

LEMMA StillNumbered ==
  ASSUME NEW S, IsFiniteSet(S), NEW state, DOMAIN state = S, Numbered(state),
         NEW x, NextToMake(state, x), NEW new, Made(new) = Made(state) \cup {x}, x \in S
  PROVE  Numbered(new)
<1>1. IsFiniteSet(Made(state))
  BY FS_Subset DEF Made
<1>2. Cardinality(Made(state)) \in Nat
  BY <1>1, FS_CardinalityType
<1>3. x = Cardinality(Made(state)) + 1
  BY DEF NextToMake, Made
<1>4. x \notin Made(state)
  BY <1>2, <1>3 DEF Numbered
<1>5. Cardinality(Made(new)) = Cardinality(Made(state)) + 1
  BY <1>1, <1>4, FS_AddElement
<1> QED
  BY <1>2, <1>3, <1>5 DEF Numbered

LEMMA InitInv == Init => Inv
<1> SUFFICES ASSUME Init PROVE Inv
  OBVIOUS
<1>1. TypeInv
  BY AtMostOne DEF Init, TypeInv, TypeOK, FunctionTypes
<1>2. OrderInv
  BY DEF Init, OrderInv, Numbered, Made
<1>3. PairInv /\ ClientInv /\ ServerInv
  BY DEF Init, PairInv, ClientInv, OnRecord, Live, ServerInv, ActiveTracked
<1> QED
  BY <1>1, <1>2, <1>3 DEF Inv

LEMMA StartUnused ==
  ASSUME TypeInv, OrderInv, NEW n \in Servers, Start(n)
  PROVE  netServer[n] = "none"
<1>1. DOMAIN netServer = Servers /\ Numbered(netServer) /\ NextToMake(netServer, n)
  BY DEF TypeInv, TypeOK, OrderInv, Start
<1> QED
  BY <1>1, NewIsUnused, ObjectsAssumption

LEMMA ConnectUnused ==
  ASSUME TypeInv, OrderInv, NEW s \in Sockets, Connect(s)
  PROVE  clientEnd[s] = "none"
<1>1. DOMAIN clientEnd = Sockets /\ Numbered(clientEnd) /\ NextToMake(clientEnd, s)
  BY DEF TypeInv, TypeOK, OrderInv, Connect
<1> QED
  BY <1>1, NewIsUnused, ObjectsAssumption
-----------------------------------------------------------------------------
LEMMA TypeStep == TypeInv /\ OrderInv /\ [Next]_vars => TypeInv'
<1> SUFFICES ASSUME TypeInv, OrderInv, [Next]_vars PROVE TypeInv'
  OBVIOUS
<1> USE AtMostOne DEF TypeInv, TypeOK, FunctionTypes, serverVars, clientVars
<1>1. ASSUME NEW n \in Servers, Start(n) PROVE TypeInv'
  <2>1. Cardinality({n}) = 1
    OBVIOUS
  <2> QED
    BY <1>1, <2>1 DEF Start
<1>2. ASSUME NEW n \in Servers, Bind(n) PROVE TypeInv'
  BY <1>2 DEF Bind
<1>3. ASSUME NEW n \in Servers, ServerClosed(n) PROVE TypeInv'
  BY <1>3 DEF ServerClosed
<1>4. CASE Stop
  BY <1>4 DEF Stop, ActiveDestroyed, RecordAfterStop
<1>5. ASSUME NEW s \in Sockets, Accept(s) PROVE TypeInv'
  BY <1>5 DEF Accept, TrackedWith
<1>6. ASSUME NEW s \in Sockets, ServerSocketEnds(s) \/ ServerSocketClose(s) PROVE TypeInv'
  BY <1>6 DEF ServerSocketEnds, ServerSocketClose, TrackedWithout
<1>7. ASSUME NEW s \in Sockets, Connect(s) PROVE TypeInv'
  BY <1>7 DEF Connect
<1>8. ASSUME NEW s \in Sockets, Connected(s) PROVE TypeInv'
  <2>1. Cardinality({s}) = 1
    OBVIOUS
  <2>2. socket' = {s} /\ servedBy' \in [Sockets -> SUBSET Servers]
    BY <1>8 DEF Connected, RecordAfterConnect
  <2> QED
    BY <1>8, <2>1, <2>2 DEF Connected
<1>9. ASSUME NEW s \in Sockets, ClientError(s) PROVE TypeInv'
  BY <1>9 DEF ClientError
<1>10. ASSUME NEW s \in Sockets, ClientClose(s) PROVE TypeInv'
  BY <1>10 DEF ClientClose, RecordAfterClose, Settled
<1>11. ASSUME NEW s \in Sockets, Drain(s) PROVE TypeInv'
  BY <1>11 DEF Drain, Settled
<1>12. ASSUME NEW s \in Sockets, Finish(s) PROVE TypeInv'
  BY <1>12 DEF Finish
<1>13. ASSUME NEW i \in Sends, Send(i) PROVE TypeInv'
  BY <1>13 DEF Send, Settle, Settled
<1>14. CASE Disconnect
  BY <1>14 DEF Disconnect
<1>15. CASE UNCHANGED vars
  BY <1>15 DEF vars
<1> QED
  BY <1>1, <1>2, <1>3, <1>4, <1>5, <1>6, <1>7, <1>8, <1>9, <1>10, <1>11, <1>12, <1>13,
     <1>14, <1>15 DEF Next

(* What a step does to the objects made so far.                            *)
LEMMA NoneIsMade ==
  ASSUME TypeInv, [Next]_vars,
         \A n \in Servers : ~Start(n), \A s \in Sockets : ~Connect(s)
  PROVE  Made(netServer') = Made(netServer) /\ Made(clientEnd') = Made(clientEnd)
<1> USE DEF TypeInv, TypeOK, Made, serverVars, clientVars
<1>1. ASSUME NEW n \in Servers, Bind(n) \/ ServerClosed(n)
      PROVE  Made(netServer') = Made(netServer) /\ Made(clientEnd') = Made(clientEnd)
  BY <1>1 DEF Bind, ServerClosed
<1>2. CASE Stop
  BY <1>2 DEF Stop
<1>3. ASSUME NEW s \in Sockets, Accept(s) \/ ServerSocketEnds(s) \/ ServerSocketClose(s) \/ Drain(s)
      PROVE  Made(netServer') = Made(netServer) /\ Made(clientEnd') = Made(clientEnd)
  BY <1>3 DEF Accept, ServerSocketEnds, ServerSocketClose, Drain
<1>4. ASSUME NEW s \in Sockets, Connected(s) \/ ClientError(s) \/ ClientClose(s) \/ Finish(s)
      PROVE  Made(netServer') = Made(netServer) /\ Made(clientEnd') = Made(clientEnd)
  BY <1>4 DEF Connected, ClientError, ClientClose, Finish
<1>5. ASSUME NEW i \in Sends, Send(i)
      PROVE  Made(netServer') = Made(netServer) /\ Made(clientEnd') = Made(clientEnd)
  BY <1>5 DEF Send
<1>6. CASE Disconnect
  BY <1>6 DEF Disconnect
<1>7. CASE UNCHANGED vars
  BY <1>7 DEF vars
<1> QED
  BY <1>1, <1>2, <1>3, <1>4, <1>5, <1>6, <1>7 DEF Next

LEMMA OrderStep == TypeInv /\ OrderInv /\ [Next]_vars => OrderInv'
<1> SUFFICES ASSUME TypeInv, OrderInv, [Next]_vars PROVE OrderInv'
  OBVIOUS
<1>0. DOMAIN netServer = Servers /\ DOMAIN clientEnd = Sockets
  BY DEF TypeInv, TypeOK
<1>1. ASSUME NEW n \in Servers, Start(n) PROVE OrderInv'
  <2>1. /\ Made(netServer') = Made(netServer) \cup {n} /\ clientEnd' = clientEnd
        /\ NextToMake(netServer, n)
    BY <1>0, <1>1 DEF Start, Made
  <2>2. Numbered(netServer')
    BY <2>1, <1>0, StillNumbered, ObjectsAssumption DEF OrderInv
  <2> QED
    BY <2>1, <2>2 DEF OrderInv, Numbered, Made
<1>2. ASSUME NEW s \in Sockets, Connect(s) PROVE OrderInv'
  <2>1. /\ Made(clientEnd') = Made(clientEnd) \cup {s} /\ netServer' = netServer
        /\ NextToMake(clientEnd, s)
    BY <1>0, <1>2 DEF Connect, Made, serverVars
  <2>2. Numbered(clientEnd')
    BY <2>1, <1>0, StillNumbered, ObjectsAssumption DEF OrderInv
  <2> QED
    BY <2>1, <2>2 DEF OrderInv, Numbered, Made
<1>3. CASE (\A n \in Servers : ~Start(n)) /\ (\A s \in Sockets : ~Connect(s))
  BY <1>3, NoneIsMade DEF OrderInv, Numbered
<1> QED
  BY <1>1, <1>2, <1>3
-----------------------------------------------------------------------------
(* A connection exists on both sides or on none.                           *)
LEMMA PairStep == TypeInv /\ OrderInv /\ PairInv /\ [Next]_vars => PairInv'
<1> SUFFICES ASSUME TypeInv, OrderInv, PairInv, [Next]_vars,
                    NEW s \in Sockets, clientEnd'[s] \in {"none", "connecting"}
             PROVE  serverEnd'[s] = "none"
  BY DEF PairInv
<1> USE DEF TypeInv, TypeOK, PairInv, serverVars, clientVars
<1>1. ASSUME NEW n \in Servers, Start(n) \/ Bind(n) \/ ServerClosed(n)
      PROVE  serverEnd'[s] = "none"
  BY <1>1 DEF Start, Bind, ServerClosed
<1>2. CASE Stop
  <2>1. serverEnd[s] = "none"
    BY <1>2 DEF Stop
  <2> QED
    BY <1>2, <2>1 DEF Stop, ActiveDestroyed
<1>3. ASSUME NEW r \in Sockets, Accept(r) \/ ServerSocketEnds(r) \/ ServerSocketClose(r) \/ Drain(r)
      PROVE  serverEnd'[s] = "none"
  BY <1>3 DEF Accept, ServerSocketEnds, ServerSocketClose, Drain
<1>4. ASSUME NEW r \in Sockets, Connect(r) PROVE serverEnd'[s] = "none"
  BY <1>4, ConnectUnused DEF Connect
<1>5. ASSUME NEW r \in Sockets, Connected(r) PROVE serverEnd'[s] = "none"
  BY <1>5 DEF Connected
<1>6. ASSUME NEW r \in Sockets, ClientError(r) \/ ClientClose(r) \/ Finish(r)
      PROVE  serverEnd'[s] = "none"
  BY <1>6 DEF ClientError, ClientClose, Finish
<1>7. ASSUME NEW i \in Sends, Send(i) PROVE serverEnd'[s] = "none"
  BY <1>7 DEF Send
<1>8. CASE Disconnect
  BY <1>8 DEF Disconnect
<1>9. CASE UNCHANGED vars
  BY <1>9 DEF vars
<1> QED
  BY <1>1, <1>2, <1>3, <1>4, <1>5, <1>6, <1>7, <1>8, <1>9 DEF Next
-----------------------------------------------------------------------------
(* The client.  A step of the server leaves it alone, and its own steps    *)
(* move one socket, or those on record.                                    *)
LEMMA ClientStep == TypeInv /\ OrderInv /\ ClientInv /\ [Next]_vars => ClientInv'
<1> SUFFICES ASSUME TypeInv, OrderInv, ClientInv, [Next]_vars PROVE ClientInv'
  OBVIOUS
<1> USE DEF TypeInv, TypeOK, ClientInv, OnRecord, Live, serverVars, clientVars
<1>1. ASSUME NEW n \in Servers, Start(n) \/ Bind(n) \/ ServerClosed(n) PROVE ClientInv'
  BY <1>1 DEF Start, Bind, ServerClosed
<1>2. CASE Stop
  BY <1>2 DEF Stop
<1>3. ASSUME NEW s \in Sockets, Accept(s) \/ ServerSocketEnds(s) \/ ServerSocketClose(s) \/ Drain(s)
      PROVE  ClientInv'
  BY <1>3 DEF Accept, ServerSocketEnds, ServerSocketClose, Drain
<1>4. ASSUME NEW s \in Sockets, Connect(s) PROVE ClientInv'
  <2>1. clientEnd[s] = "none" /\ s \notin socket /\ s \notin leaving
    BY <1>4, ConnectUnused
  <2>2. ~crowded' => ~crowded /\ \A r \in Sockets : clientEnd[r] \in {"none", "closed"}
    BY <1>4 DEF Connect
  <2> QED
    BY <1>4, <2>1, <2>2 DEF Connect
<1>5. ASSUME NEW s \in Sockets, Connected(s) PROVE ClientInv'
  <2>1. clientEnd[s] = "connecting" /\ s \notin leaving
    BY <1>5 DEF Connected
  <2>2. /\ clientEnd' = [clientEnd EXCEPT ![s] = "connected"]
        /\ socket' = {s} /\ leaving' = leaving /\ crowded' = crowded
    BY <1>5 DEF Connected, RecordAfterConnect
  <2> QED
    BY <2>1, <2>2
<1>6. ASSUME NEW s \in Sockets, ClientError(s) PROVE ClientInv'
  BY <1>6 DEF ClientError
<1>7. ASSUME NEW s \in Sockets, ClientClose(s) PROVE ClientInv'
  <2>1. Live(s) /\ s \notin leaving
    BY <1>7 DEF ClientClose
  <2>2. /\ clientEnd' = [clientEnd EXCEPT ![s] = "closed"]
        /\ socket' = {} /\ leaving' = leaving /\ crowded' = crowded
    BY <1>7 DEF ClientClose, RecordAfterClose
  <2> QED
    BY <2>1, <2>2
<1>8. ASSUME NEW s \in Sockets, Finish(s) PROVE ClientInv'
  <2>1. /\ clientEnd' = [clientEnd EXCEPT ![s] = IF @ = "ending" THEN "finished" ELSE @]
        /\ s \in leaving /\ socket' = {} /\ leaving' = leaving \ {s} /\ crowded' = crowded
    BY <1>8 DEF Finish
  <2> QED
    BY <2>1
<1>9. ASSUME NEW i \in Sends, Send(i) PROVE ClientInv'
  <2>1. UNCHANGED <<socket, leaving, crowded>>
    BY <1>9 DEF Send
  <2>2. \A s \in Sockets :
          \/ clientEnd'[s] = clientEnd[s]
          \/ clientEnd[s] \in {"ending", "finished"} /\ clientEnd'[s] = "failing"
    BY <1>9 DEF Send
  <2> QED
    BY <2>1, <2>2
<1>10. CASE Disconnect
  <2>1. /\ UNCHANGED <<socket, crowded>> /\ leaving' = leaving \cup socket
        /\ \A s \in Sockets : clientEnd'[s] =
             IF s \in socket /\ clientEnd[s] = "connected" THEN "ending" ELSE clientEnd[s]
    BY <1>10 DEF Disconnect
  <2> QED
    BY <2>1
<1>11. CASE UNCHANGED vars
  BY <1>11 DEF vars
<1> QED
  BY <1>1, <1>2, <1>3, <1>4, <1>5, <1>6, <1>7, <1>8, <1>9, <1>10, <1>11 DEF Next
-----------------------------------------------------------------------------
(* The server.                                                             *)
LEMMA ServerStep == TypeInv /\ OrderInv /\ PairInv /\ ServerInv /\ [Next]_vars => ServerInv'
<1> SUFFICES ASSUME TypeInv, OrderInv, PairInv, ServerInv, [Next]_vars PROVE ServerInv'
  OBVIOUS
<1> USE DEF TypeInv, TypeOK, FunctionTypes, ServerInv, ActiveTracked, Serving,
            serverVars, clientVars
<1>1. ASSUME NEW n \in Servers, Start(n) PROVE ServerInv'
  <2>1. netServer[n] = "none"
    BY <1>1, StartUnused
  <2>2. ~replaced' => ~replaced /\ server = {}
    BY <1>1 DEF Start
  <2> QED
    BY <1>1, <2>1, <2>2 DEF Start
<1>2. ASSUME NEW n \in Servers, Bind(n) PROVE ServerInv'
  <2>1. PICK outcome \in {"listening", "failed"} :
          netServer' = [netServer EXCEPT ![n] = outcome]
    BY <1>2 DEF Bind
  <2> QED
    BY <1>2, <2>1 DEF Bind
<1>3. ASSUME NEW n \in Servers, ServerClosed(n) PROVE ServerInv'
  <2>1. \A m \in Servers \ {n} : netServer'[m] = netServer[m]
    BY <1>3 DEF ServerClosed
  <2>2. /\ netServer[n] = "closing" /\ netServer'[n] = "closed"
        /\ UNCHANGED <<activeSockets, replaced, serverEnd, servedBy>>
    BY <1>3 DEF ServerClosed
  <2>3. ~replaced => n \in server
    BY <2>2
  <2>4. ~replaced => \A m \in Servers : netServer'[m] \in {"none", "closed"}
    <3> SUFFICES ASSUME ~replaced, NEW m \in Servers PROVE netServer'[m] \in {"none", "closed"}
      OBVIOUS
    <3>1. server = {n}
      BY <2>3, OnlyOne, ObjectsAssumption
    <3> QED
      BY <2>1, <2>2, <3>1
  <2>5. ASSUME NEW s \in Sockets, serverEnd'[s] = "open"
        PROVE  \E m \in servedBy'[s] : Serving(m)'
    BY <1>3, <2>1, <2>2, <2>5 DEF ServerClosed
  <2> QED
    BY <2>2, <2>4, <2>5
<1>4. CASE Stop
  BY <1>4 DEF Stop, ActiveDestroyed, RecordAfterStop
<1>5. ASSUME NEW s \in Sockets, Accept(s) PROVE ServerInv'
  BY <1>5 DEF Accept, TrackedWith, Listening
<1>6. ASSUME NEW s \in Sockets, ServerSocketEnds(s) PROVE ServerInv'
  BY <1>6 DEF ServerSocketEnds
<1>7. ASSUME NEW s \in Sockets, ServerSocketClose(s) PROVE ServerInv'
  BY <1>7 DEF ServerSocketClose, TrackedWithout
<1>8. ASSUME NEW s \in Sockets, Connected(s) PROVE ServerInv'
  <2>1. serverEnd[s] = "none" /\ serverEnd' = [serverEnd EXCEPT ![s] = "backlog"]
    BY <1>8 DEF Connected, PairInv
  <2>2. \A r \in Sockets \ {s} : servedBy'[r] = servedBy[r]
    BY <1>8 DEF Connected
  <2>3. UNCHANGED <<server, netServer, activeSockets, replaced>>
    BY <1>8 DEF Connected
  <2> QED
    BY <2>1, <2>2, <2>3
<1>9. ASSUME NEW s \in Sockets, Connect(s) \/ ClientError(s) \/ ClientClose(s) \/ Drain(s) \/ Finish(s)
      PROVE  ServerInv'
  BY <1>9 DEF Connect, ClientError, ClientClose, Drain, Finish
<1>10. ASSUME NEW i \in Sends, Send(i) PROVE ServerInv'
  BY <1>10 DEF Send
<1>11. CASE Disconnect
  BY <1>11 DEF Disconnect
<1>12. CASE UNCHANGED vars
  BY <1>12 DEF vars
<1> QED
  BY <1>1, <1>2, <1>3, <1>4, <1>5, <1>6, <1>7, <1>8, <1>9, <1>10, <1>11, <1>12 DEF Next
-----------------------------------------------------------------------------
(* The invariant holds for any number of objects and calls.                *)
THEOREM ConnectionsInvariant == Spec => []Inv
<1>1. Init => Inv
  BY InitInv
<1>2. Inv /\ [Next]_vars => Inv'
  BY TypeStep, OrderStep, PairStep, ClientStep, ServerStep DEF Inv
<1> QED
  BY <1>1, <1>2, PTL DEF Spec

(* What the server tracks are its open sockets, and a server that was      *)
(* stopped leaves nothing behind, in whatever order starts, stops, close   *)
(* events and connections come.                                            *)
THEOREM AlwaysConsistent == Spec => []Consistent
<1>1. Inv => Consistent
  <2> SUFFICES ASSUME Inv PROVE Consistent
    OBVIOUS
  <2>1. TypeOK /\ ActiveTracked
    BY DEF Inv, TypeInv, ServerInv
  <2>2. StoppedIsGone
    BY DEF Inv, TypeInv, TypeOK, FunctionTypes, ServerInv, Serving, StoppedIsGone
  <2> QED
    BY <2>1, <2>2 DEF Consistent
<1> QED
  BY <1>1, ConnectionsInvariant, PTL

(* The client's record is never a closed socket, and is the connected one  *)
(* if the client waits for close events before it connects again.          *)
THEOREM ClientOnRecord == Spec => []OnRecord
<1>1. Inv => OnRecord
  BY DEF Inv, ClientInv
<1> QED
  BY <1>1, ConnectionsInvariant, PTL
=============================================================================
