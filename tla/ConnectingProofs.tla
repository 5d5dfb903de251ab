-------------------------- MODULE ConnectingProofs --------------------------
(***************************************************************************)
(* The safety properties of Connecting, proved for any number of threads,  *)
(* workers and requests.                                                   *)
(*                                                                         *)
(* The argument has four parts:                                            *)
(*   Typed    types; the next worker is one of the workers                 *)
(*   Queue    the queue has a request for each time its event will fire    *)
(*   Work     a request is new, on the queue, with one thread or answered, *)
(*            and what it has left in the manager is known in each case    *)
(*   Rounds   the workers' loads differ by the round under way             *)
(* Each has a lemma per conjunct with one step per action.                 *)
(***************************************************************************)
EXTENDS Connecting, FiniteSetTheorems, TLAPS

-----------------------------------------------------------------------------
(* The queue as a sequence                                                 *)

\* A queue that grows by one request at its end.
LEMMA AppendAt ==
  ASSUME NEW q \in Seq(Requests), NEW r \in Requests
  PROVE  /\ Append(q, r) \in Seq(Requests)
         /\ Len(Append(q, r)) = Len(q) + 1
         /\ \A i \in 1 .. Len(q) : Append(q, r)[i] = q[i]
         /\ Append(q, r)[Len(q) + 1] = r
OBVIOUS

\* A queue that loses the request at its head.
LEMMA TailAt ==
  ASSUME NEW q \in Seq(Requests), q # <<>>
  PROVE  /\ Tail(q) \in Seq(Requests)
         /\ Len(q) \in Nat \ {0}
         /\ Head(q) = q[1] /\ Head(q) \in Requests
         /\ Len(Tail(q)) = Len(q) - 1
         /\ \A i \in 1 .. Len(q) - 1 : Tail(q)[i] = q[i + 1]
<1>1. Len(q) \in Nat \ {0}
  OBVIOUS
<1>2. Head(q) = q[1] /\ q[1] \in Requests
  BY <1>1
<1>3. /\ Tail(q) \in Seq(Requests)
      /\ Len(Tail(q)) = Len(q) - 1
      /\ \A i \in 1 .. Len(q) - 1 : Tail(q)[i] = q[i + 1]
  OBVIOUS
<1> QED BY <1>1, <1>2, <1>3

\* What connectCB does when the queue is not empty.
LEMMA PopTakes ==
  ASSUME TypeOK, Pop, connectionRequests # <<>>
  PROVE  /\ pc[Control] = "pop" /\ requestsMutex = NoOne
         /\ connectionRequests' \in Seq(Requests)
         /\ Len(connectionRequests') = Len(connectionRequests) - 1
         /\ Len(connectionRequests) \in Nat \ {0}
         /\ \A i \in 1 .. Len(connectionRequests') :
              /\ i + 1 \in 1 .. Len(connectionRequests)
              /\ connectionRequests'[i] = connectionRequests[i + 1]
         /\ connectionRequests[1] \in Requests
         /\ pc' = [pc EXCEPT ![Control] = "resolve"]
         /\ dialling' = [dialling EXCEPT ![Control] = connectionRequests[1]]
         /\ UNCHANGED <<requestsMutex, connectorEvent, nextThread, connections, closed, sockets,
                        identified, base, via, answer>>
<1>1. /\ pc[Control] = "pop" /\ requestsMutex = NoOne
      /\ connectionRequests' = Tail(connectionRequests)
      /\ pc' = [pc EXCEPT ![Control] = "resolve"]
      /\ dialling' = [dialling EXCEPT ![Control] = Head(connectionRequests)]
      /\ UNCHANGED <<requestsMutex, connectorEvent, nextThread, connections, closed, sockets,
                     identified, base, via, answer>>
  BY DEF Pop, Dial, made, known
<1>2. connectionRequests \in Seq(Requests)
  BY DEF TypeOK
<1>3. /\ Tail(connectionRequests) \in Seq(Requests)
      /\ Len(connectionRequests) \in Nat \ {0}
      /\ Head(connectionRequests) = connectionRequests[1]
      /\ Head(connectionRequests) \in Requests
      /\ Len(Tail(connectionRequests)) = Len(connectionRequests) - 1
      /\ \A i \in 1 .. Len(connectionRequests) - 1 :
           Tail(connectionRequests)[i] = connectionRequests[i + 1]
  BY <1>2, TailAt
<1> QED BY <1>1, <1>3

-----------------------------------------------------------------------------
(* Types                                                                   *)

\* The worker whose turn it is, is one of the workers; there may be none.
Turn == nextThread = 0 \/ nextThread \in Bases

\* Every step keeps the types, and getNextThread stays among the workers.
LEMMA TypeStep ==
  ASSUME TypeOK, Turn, [Next]_vars
  PROVE  TypeOK' /\ Turn'
<1> USE ConnectingAssumption DEF ConnectingAssumption, Threads, Bases, Nowhere, TypeOK, Turn,
     Labels, DialLabels, SocketLabels, Goto, Dial, Tell, queue, made, known
<1>1. ASSUME NEW t \in Threads, NEW r \in Requests, RequestConnectTo(t, r) PROVE TypeOK' /\ Turn'
  BY <1>1, AppendAt DEF RequestConnectTo
<1>2. ASSUME NEW t \in Threads, NEW r \in Requests, ConnectTo(t, r) PROVE TypeOK' /\ Turn'
  BY <1>2 DEF ConnectTo
<1>3. ASSUME NEW t \in Threads, AddConnectorEvent(t) PROVE TypeOK' /\ Turn'
  BY <1>3 DEF AddConnectorEvent
<1>4. ASSUME NEW t \in Threads, Dialler(t) PROVE TypeOK' /\ Turn'
  <2>1. CASE Resolve(t) \/ OpenSocket(t) \/ Connect(t)
    BY <2>1, SMTT(20) DEF Resolve, OpenSocket, Connect
  <2>2. CASE ChooseThread(t)
    BY <2>2 DEF ChooseThread
  <2>3. CASE CreateConnection(t) BY <2>3 DEF CreateConnection
  <2>4. CASE AddConnection(t) BY <2>4 DEF AddConnection
  <2>5. CASE TellConnected(t) BY <2>5 DEF TellConnected
  <2> QED BY <1>4, <2>1, <2>2, <2>3, <2>4, <2>5 DEF Dialler
<1>5. CASE DispatchConnector \/ DispatchOther \/ EndCallback
  <2>1. CASE DispatchConnector BY <2>1 DEF DispatchConnector
  <2>2. CASE DispatchOther BY <2>2 DEF DispatchOther
  <2>3. CASE EndCallback BY <2>3 DEF EndCallback
  <2> QED BY <1>5, <2>1, <2>2, <2>3
<1>6. CASE Pop
  <2>1. CASE connectionRequests = <<>>
    BY <1>6, <2>1 DEF Pop
  <2>2. CASE connectionRequests # <<>>
    BY <1>6, <2>2, PopTakes
  <2> QED BY <2>1, <2>2
<1>7. ASSUME NEW r \in Requests, Accept(r) PROVE TypeOK' /\ Turn'
  BY <1>7 DEF Accept
<1>8. ASSUME NEW r \in Requests, CloseConnection(r) PROVE TypeOK' /\ Turn'
  BY <1>8 DEF CloseConnection
<1>9. ASSUME NEW r \in Requests, DeleteConnection(r) PROVE TypeOK' /\ Turn'
  BY <1>9 DEF DeleteConnection
<1>10. CASE UNCHANGED vars BY <1>10 DEF vars
<1> QED BY <1>1, <1>2, <1>3, <1>4, <1>5, <1>6, <1>7, <1>8, <1>9, <1>10 DEF Next, Application

-----------------------------------------------------------------------------
(* The queue and its event                                                 *)

\* A thread between the push and the end of event_add holds the mutex.
Locked == \A t \in Threads : pc[t] = "addEvent" => requestsMutex = t

\* What a condition that holds counts for.
OneIf(b) == IF b THEN 1 ELSE 0

\* There is a request on the queue for the pending event, one for the callback
\* that is about to look, and one for the thread that is about to add the
\* event.
EventsCovered ==
  Len(connectionRequests) >=
    OneIf(connectorEvent) + OneIf(pc[Control] = "pop") + OneIf(requestsMutex # NoOne)

\* requestConnectTo takes _connectionRequestsMutex and gives it back.
LEMMA LockedStep ==
  ASSUME TypeOK, Locked, [Next]_vars
  PROVE  Locked'
<1> USE ConnectingAssumption DEF ConnectingAssumption, Threads, New, Goto, Dial, Tell, queue, made,
     known, DialLabels, SocketLabels, Locked, TypeOK
<1>1. ASSUME NEW t \in Threads, NEW r \in Requests, RequestConnectTo(t, r) PROVE Locked'
  BY <1>1 DEF RequestConnectTo
<1>2. ASSUME NEW t \in Threads, NEW r \in Requests, ConnectTo(t, r) PROVE Locked'
  BY <1>2 DEF ConnectTo
<1>3. ASSUME NEW t \in Threads, AddConnectorEvent(t) PROVE Locked'
  BY <1>3 DEF AddConnectorEvent
<1>4. ASSUME NEW t \in Threads, Dialler(t) PROVE Locked'
  <2>1. CASE Resolve(t) BY <2>1 DEF Resolve
  <2>2. CASE OpenSocket(t) BY <2>2 DEF OpenSocket
  <2>3. CASE Connect(t) BY <2>3 DEF Connect
  <2>4. CASE ChooseThread(t) BY <2>4 DEF ChooseThread
  <2>5. CASE CreateConnection(t) BY <2>5 DEF CreateConnection
  <2>6. CASE AddConnection(t) BY <2>6 DEF AddConnection
  <2>7. CASE TellConnected(t) BY <2>7 DEF TellConnected
  <2> QED BY <1>4, <2>1, <2>2, <2>3, <2>4, <2>5, <2>6, <2>7 DEF Dialler
<1>5. CASE DispatchConnector \/ DispatchOther \/ EndCallback
  BY <1>5 DEF DispatchConnector, DispatchOther, EndCallback
<1>6. CASE Pop
  <2>1. CASE connectionRequests = <<>>
    BY <1>6, <2>1 DEF Pop
  <2>2. CASE connectionRequests # <<>>
    BY <1>6, <2>2, PopTakes
  <2> QED BY <2>1, <2>2
<1>7. ASSUME NEW r \in Requests, Accept(r) PROVE Locked'
  BY <1>7 DEF Accept
<1>8. ASSUME NEW r \in Requests, CloseConnection(r) PROVE Locked'
  BY <1>8 DEF CloseConnection
<1>9. ASSUME NEW r \in Requests, DeleteConnection(r) PROVE Locked'
  BY <1>9 DEF DeleteConnection
<1>10. CASE UNCHANGED vars BY <1>10 DEF vars
<1> QED BY <1>1, <1>2, <1>3, <1>4, <1>5, <1>6, <1>7, <1>8, <1>9, <1>10 DEF Next, Application

\* A push comes with at most one event_add, and connectCB pops at most once for
\* each time the event fires.
LEMMA EventsCoveredStep ==
  ASSUME TypeOK, Locked, EventsCovered, [Next]_vars
  PROVE  EventsCovered'
<1> USE ConnectingAssumption DEF ConnectingAssumption, Threads, New, Goto, Dial, Tell, queue, made,
     known, DialLabels, SocketLabels, Locked, TypeOK, EventsCovered, OneIf
<1>1. ASSUME NEW t \in Threads, NEW r \in Requests, RequestConnectTo(t, r) PROVE EventsCovered'
  BY <1>1, AppendAt DEF RequestConnectTo
<1>2. ASSUME NEW t \in Threads, NEW r \in Requests, ConnectTo(t, r) PROVE EventsCovered'
  BY <1>2 DEF ConnectTo
<1>3. ASSUME NEW t \in Threads, AddConnectorEvent(t) PROVE EventsCovered'
  BY <1>3 DEF AddConnectorEvent
<1>4. ASSUME NEW t \in Threads, Dialler(t) PROVE EventsCovered'
  <2>1. CASE Resolve(t) BY <2>1 DEF Resolve
  <2>2. CASE OpenSocket(t) BY <2>2 DEF OpenSocket
  <2>3. CASE Connect(t) BY <2>3 DEF Connect
  <2>4. CASE ChooseThread(t) BY <2>4 DEF ChooseThread
  <2>5. CASE CreateConnection(t) BY <2>5 DEF CreateConnection
  <2>6. CASE AddConnection(t) BY <2>6 DEF AddConnection
  <2>7. CASE TellConnected(t) BY <2>7 DEF TellConnected
  <2> QED BY <1>4, <2>1, <2>2, <2>3, <2>4, <2>5, <2>6, <2>7 DEF Dialler
<1>5. CASE DispatchConnector \/ DispatchOther \/ EndCallback
  BY <1>5 DEF DispatchConnector, DispatchOther, EndCallback
<1>6. CASE Pop
  <2>1. CASE connectionRequests = <<>>
    BY <1>6, <2>1 DEF Pop
  <2>2. CASE connectionRequests # <<>>
    BY <1>6, <2>2, PopTakes
  <2> QED BY <2>1, <2>2
<1>7. ASSUME NEW r \in Requests, Accept(r) PROVE EventsCovered'
  BY <1>7 DEF Accept
<1>8. ASSUME NEW r \in Requests, CloseConnection(r) PROVE EventsCovered'
  BY <1>8 DEF CloseConnection
<1>9. ASSUME NEW r \in Requests, DeleteConnection(r) PROVE EventsCovered'
  BY <1>9 DEF DeleteConnection
<1>10. CASE UNCHANGED vars BY <1>10 DEF vars
<1> QED BY <1>1, <1>2, <1>3, <1>4, <1>5, <1>6, <1>7, <1>8, <1>9, <1>10 DEF Next, Application

-----------------------------------------------------------------------------
(* One request, one thread                                                 *)

\* A thread works on a request while it dials, and no two work on the same.
Separate ==
  /\ \A t \in Threads : dialling[t] # NoRequest => pc[t] \in DialLabels
  /\ \A t, u \in Threads : dialling[t] = dialling[u] => t = u \/ dialling[t] = NoRequest
\* The manager has done nothing for r and said nothing of it.
Untouched(r) ==
  /\ answer[r] = "none"
  /\ r \notin sockets \cup connections \cup closed \cup identified
  /\ base[r] = Nowhere
\* A request nobody has made yet is untouched.
NewUntouched == \A r \in Requests : New(r) => Untouched(r)
\* So is a request on the queue, and no thread works on it.
QueuedWaits ==
  \A i \in 1 .. Len(connectionRequests) :
    /\ ~New(connectionRequests[i])
    /\ Untouched(connectionRequests[i])
    /\ \A t \in Threads : dialling[t] # connectionRequests[i]
\* No request is on the queue twice.
QueuedOnce ==
  \A i, j \in 1 .. Len(connectionRequests) :
    connectionRequests[i] = connectionRequests[j] => i = j
\* What there is of a request while a thread dials it: the socket from the step
\* that opens it, the worker from getNextThread, the identifier before the entry
\* of the map, the answer last.  By then the connection may have been closed.
WorkTraced ==
  \A t \in Threads : pc[t] \in DialLabels =>
    /\ ~New(dialling[t])
    /\ answer[dialling[t]] = "none"
    /\ pc[t] # "tell" => /\ dialling[t] \in sockets <=> pc[t] \in SocketLabels
                         /\ dialling[t] \notin connections \cup closed
    /\ pc[t] = "tell" => \/ dialling[t] \in closed
                         \/ dialling[t] \in sockets \cap connections
    /\ pc[t] \in {"resolve", "socket", "connect", "choose"} => base[dialling[t]] = Nowhere
    /\ pc[t] \in {"add", "tell"} => via[dialling[t]] = "accepted" \/ dialling[t] \in identified

\* A connection that is closed has no socket.
ClosedDown == closed \cap sockets = {}

\* Each request has one thread that dials it: the one that made it, or the
\* control loop that popped it.
LEMMA SeparateStep ==
  ASSUME TypeOK, Separate, QueuedWaits, WorkTraced, [Next]_vars
  PROVE  Separate'
<1> USE ConnectingAssumption DEF ConnectingAssumption, Threads, New, Goto, Dial, Tell, queue, made,
     known, DialLabels, SocketLabels, Separate, WorkTraced, QueuedWaits, TypeOK
<1>1. ASSUME NEW t \in Threads, NEW r \in Requests, RequestConnectTo(t, r) PROVE Separate'
  BY <1>1 DEF RequestConnectTo
<1>2. ASSUME NEW t \in Threads, NEW r \in Requests, ConnectTo(t, r) PROVE Separate'
  BY <1>2 DEF ConnectTo
<1>3. ASSUME NEW t \in Threads, AddConnectorEvent(t) PROVE Separate'
  BY <1>3 DEF AddConnectorEvent
<1>4. ASSUME NEW t \in Threads, Dialler(t) PROVE Separate'
  <2>1. CASE Resolve(t)
    <3>1. CASE Goto(t, "socket") BY <2>1, <3>1 DEF Resolve
    <3>2. CASE Tell(t, "failed") BY <2>1, <3>2 DEF Resolve
    <3> QED BY <2>1, <3>1, <3>2 DEF Resolve
  <2>2. CASE OpenSocket(t)
    <3>1. CASE Goto(t, "connect") BY <2>2, <3>1 DEF OpenSocket
    <3>2. CASE Tell(t, "failed") BY <2>2, <3>2 DEF OpenSocket
    <3> QED BY <2>2, <3>1, <3>2 DEF OpenSocket
  <2>3. CASE Connect(t) BY <2>3 DEF Connect
  <2>4. CASE ChooseThread(t) BY <2>4 DEF ChooseThread
  <2>5. CASE CreateConnection(t) BY <2>5 DEF CreateConnection
  <2>6. CASE AddConnection(t) BY <2>6 DEF AddConnection
  <2>7. CASE TellConnected(t) BY <2>7 DEF TellConnected
  <2> QED BY <1>4, <2>1, <2>2, <2>3, <2>4, <2>5, <2>6, <2>7 DEF Dialler
<1>5. CASE DispatchConnector \/ DispatchOther \/ EndCallback
  BY <1>5 DEF DispatchConnector, DispatchOther, EndCallback
<1>6. CASE Pop
  <2>1. CASE connectionRequests = <<>>
    BY <1>6, <2>1 DEF Pop
  <2>2. CASE connectionRequests # <<>>
    <3>1. PICK r : r = connectionRequests[1]
      OBVIOUS
    <3>2. /\ 1 \in 1 .. Len(connectionRequests) /\ r \in Requests
          /\ pc' = [pc EXCEPT ![Control] = "resolve"]
          /\ dialling' = [dialling EXCEPT ![Control] = r]
      BY <1>6, <2>2, <3>1, PopTakes
    <3>3. \A t \in Threads : dialling[t] # r
      BY <3>1, <3>2
    <3>4. ASSUME NEW t \in Threads, pc'[t] \in DialLabels PROVE t = Control \/ pc[t] = pc'[t]
      BY <3>2
    <3> QED BY <3>2, <3>3, <3>4
  <2> QED BY <2>1, <2>2
<1>7. ASSUME NEW r \in Requests, Accept(r) PROVE Separate'
  BY <1>7 DEF Accept
<1>8. ASSUME NEW r \in Requests, CloseConnection(r) PROVE Separate'
  BY <1>8 DEF CloseConnection
<1>9. ASSUME NEW r \in Requests, DeleteConnection(r) PROVE Separate'
  BY <1>9 DEF DeleteConnection
<1>10. CASE UNCHANGED vars BY <1>10 DEF vars
<1> QED BY <1>1, <1>2, <1>3, <1>4, <1>5, <1>6, <1>7, <1>8, <1>9, <1>10 DEF Next, Application

\* Nothing is done for a request before it is made.
LEMMA NewUntouchedStep ==
  ASSUME TypeOK, Separate, NewUntouched, WorkTraced, [Next]_vars
  PROVE  NewUntouched'
<1> USE ConnectingAssumption DEF ConnectingAssumption, Threads, New, Goto, Dial, Tell, queue, made,
     known, DialLabels, SocketLabels, Separate, NewUntouched, Untouched, WorkTraced, TypeOK
<1>1. ASSUME NEW t \in Threads, NEW r \in Requests, RequestConnectTo(t, r) PROVE NewUntouched'
  BY <1>1 DEF RequestConnectTo
<1>2. ASSUME NEW t \in Threads, NEW r \in Requests, ConnectTo(t, r) PROVE NewUntouched'
  BY <1>2 DEF ConnectTo
<1>3. ASSUME NEW t \in Threads, AddConnectorEvent(t) PROVE NewUntouched'
  BY <1>3 DEF AddConnectorEvent
<1>4. ASSUME NEW t \in Threads, Dialler(t) PROVE NewUntouched'
  <2>1. CASE Resolve(t) BY <2>1 DEF Resolve
  <2>2. CASE OpenSocket(t) BY <2>2 DEF OpenSocket
  <2>3. CASE Connect(t) BY <2>3 DEF Connect
  <2>4. CASE ChooseThread(t) BY <2>4 DEF ChooseThread
  <2>5. CASE CreateConnection(t) BY <2>5 DEF CreateConnection
  <2>6. CASE AddConnection(t) BY <2>6 DEF AddConnection
  <2>7. CASE TellConnected(t) BY <2>7 DEF TellConnected
  <2> QED BY <1>4, <2>1, <2>2, <2>3, <2>4, <2>5, <2>6, <2>7 DEF Dialler
<1>5. CASE DispatchConnector \/ DispatchOther \/ EndCallback
  BY <1>5 DEF DispatchConnector, DispatchOther, EndCallback
<1>6. CASE Pop
  <2>1. CASE connectionRequests = <<>>
    BY <1>6, <2>1 DEF Pop
  <2>2. CASE connectionRequests # <<>>
    BY <1>6, <2>2, PopTakes
  <2> QED BY <2>1, <2>2
<1>7. ASSUME NEW r \in Requests, Accept(r) PROVE NewUntouched'
  BY <1>7 DEF Accept
<1>8. ASSUME NEW r \in Requests, CloseConnection(r) PROVE NewUntouched'
  BY <1>8 DEF CloseConnection
<1>9. ASSUME NEW r \in Requests, DeleteConnection(r) PROVE NewUntouched'
  BY <1>9 DEF DeleteConnection
<1>10. CASE UNCHANGED vars BY <1>10 DEF vars
<1> QED BY <1>1, <1>2, <1>3, <1>4, <1>5, <1>6, <1>7, <1>8, <1>9, <1>10 DEF Next, Application

\* A request is popped once, and only then dialled.
LEMMA QueuedWaitsStep ==
  ASSUME TypeOK, Separate, NewUntouched, QueuedWaits, QueuedOnce, WorkTraced, [Next]_vars
  PROVE  QueuedWaits'
<1> USE ConnectingAssumption DEF ConnectingAssumption, Threads, New, Goto, Dial, Tell, queue, made,
     known, DialLabels, SocketLabels, Separate, NewUntouched, Untouched, WorkTraced,
       QueuedWaits, QueuedOnce, TypeOK
<1>1. ASSUME NEW t \in Threads, NEW r \in Requests, RequestConnectTo(t, r) PROVE QueuedWaits'
  BY <1>1, AppendAt DEF RequestConnectTo
<1>2. ASSUME NEW t \in Threads, NEW r \in Requests, ConnectTo(t, r) PROVE QueuedWaits'
  BY <1>2 DEF ConnectTo
<1>3. ASSUME NEW t \in Threads, AddConnectorEvent(t) PROVE QueuedWaits'
  BY <1>3 DEF AddConnectorEvent
<1>4. ASSUME NEW t \in Threads, Dialler(t) PROVE QueuedWaits'
  <2>1. CASE Resolve(t) BY <2>1 DEF Resolve
  <2>2. CASE OpenSocket(t) BY <2>2 DEF OpenSocket
  <2>3. CASE Connect(t) BY <2>3 DEF Connect
  <2>4. CASE ChooseThread(t) BY <2>4 DEF ChooseThread
  <2>5. CASE CreateConnection(t) BY <2>5 DEF CreateConnection
  <2>6. CASE AddConnection(t) BY <2>6 DEF AddConnection
  <2>7. CASE TellConnected(t) BY <2>7 DEF TellConnected
  <2> QED BY <1>4, <2>1, <2>2, <2>3, <2>4, <2>5, <2>6, <2>7 DEF Dialler
<1>5. CASE DispatchConnector \/ DispatchOther \/ EndCallback
  BY <1>5 DEF DispatchConnector, DispatchOther, EndCallback
<1>6. CASE Pop
  <2>1. CASE connectionRequests = <<>>
    BY <1>6, <2>1 DEF Pop
  <2>2. CASE connectionRequests # <<>>
    <3>1. ASSUME NEW i \in 1 .. Len(connectionRequests')
          PROVE  /\ (~New(connectionRequests[i]) /\ Untouched(connectionRequests[i]))'
                 /\ \A t \in Threads : dialling'[t] # connectionRequests'[i]
      <4>1. /\ 1 \in 1 .. Len(connectionRequests)
            /\ i + 1 \in 1 .. Len(connectionRequests)
            /\ connectionRequests'[i] = connectionRequests[i + 1]
            /\ dialling' = [dialling EXCEPT ![Control] = connectionRequests[1]]
            /\ UNCHANGED <<connections, closed, sockets, identified, base, via, answer>>
        BY <1>6, <2>2, PopTakes
      <4>2. PICK r : r = connectionRequests[i + 1]
        OBVIOUS
      <4>3. ~New(r) /\ Untouched(r) /\ \A t \in Threads : dialling[t] # r
        BY <4>1, <4>2
      <4>4. connectionRequests[1] # r
        BY <4>1, <4>2
      <4> QED BY <4>1, <4>2, <4>3, <4>4
    <3> QED BY <3>1
  <2> QED BY <2>1, <2>2
<1>7. ASSUME NEW r \in Requests, Accept(r) PROVE QueuedWaits'
  BY <1>7 DEF Accept
<1>8. ASSUME NEW r \in Requests, CloseConnection(r) PROVE QueuedWaits'
  BY <1>8 DEF CloseConnection
<1>9. ASSUME NEW r \in Requests, DeleteConnection(r) PROVE QueuedWaits'
  BY <1>9 DEF DeleteConnection
<1>10. CASE UNCHANGED vars BY <1>10 DEF vars
<1> QED BY <1>1, <1>2, <1>3, <1>4, <1>5, <1>6, <1>7, <1>8, <1>9, <1>10 DEF Next, Application

\* requestConnectTo pushes a request once.
LEMMA QueuedOnceStep ==
  ASSUME TypeOK, QueuedWaits, QueuedOnce, [Next]_vars
  PROVE  QueuedOnce'
<1> USE ConnectingAssumption DEF ConnectingAssumption, Threads, New, Goto, Dial, Tell, queue, made,
     known, DialLabels, SocketLabels, QueuedWaits, QueuedOnce, TypeOK
<1>1. ASSUME NEW t \in Threads, NEW r \in Requests, RequestConnectTo(t, r) PROVE QueuedOnce'
  BY <1>1, AppendAt DEF RequestConnectTo
<1>2. ASSUME NEW t \in Threads, NEW r \in Requests, ConnectTo(t, r) PROVE QueuedOnce'
  BY <1>2 DEF ConnectTo
<1>3. ASSUME NEW t \in Threads, AddConnectorEvent(t) PROVE QueuedOnce'
  BY <1>3 DEF AddConnectorEvent
<1>4. ASSUME NEW t \in Threads, Dialler(t) PROVE QueuedOnce'
  <2>1. CASE Resolve(t) BY <2>1 DEF Resolve
  <2>2. CASE OpenSocket(t) BY <2>2 DEF OpenSocket
  <2>3. CASE Connect(t) BY <2>3 DEF Connect
  <2>4. CASE ChooseThread(t) BY <2>4 DEF ChooseThread
  <2>5. CASE CreateConnection(t) BY <2>5 DEF CreateConnection
  <2>6. CASE AddConnection(t) BY <2>6 DEF AddConnection
  <2>7. CASE TellConnected(t) BY <2>7 DEF TellConnected
  <2> QED BY <1>4, <2>1, <2>2, <2>3, <2>4, <2>5, <2>6, <2>7 DEF Dialler
<1>5. CASE DispatchConnector \/ DispatchOther \/ EndCallback
  BY <1>5 DEF DispatchConnector, DispatchOther, EndCallback
<1>6. CASE Pop
  <2>1. CASE connectionRequests = <<>>
    BY <1>6, <2>1 DEF Pop
  <2>2. CASE connectionRequests # <<>>
    BY <1>6, <2>2, PopTakes
  <2> QED BY <2>1, <2>2
<1>7. ASSUME NEW r \in Requests, Accept(r) PROVE QueuedOnce'
  BY <1>7 DEF Accept
<1>8. ASSUME NEW r \in Requests, CloseConnection(r) PROVE QueuedOnce'
  BY <1>8 DEF CloseConnection
<1>9. ASSUME NEW r \in Requests, DeleteConnection(r) PROVE QueuedOnce'
  BY <1>9 DEF DeleteConnection
<1>10. CASE UNCHANGED vars BY <1>10 DEF vars
<1> QED BY <1>1, <1>2, <1>3, <1>4, <1>5, <1>6, <1>7, <1>8, <1>9, <1>10 DEF Next, Application

\* Each step of dialling leaves what the next one starts from.
LEMMA WorkTracedStep ==
  ASSUME TypeOK, Separate, NewUntouched, QueuedWaits, WorkTraced, [Next]_vars
  PROVE  WorkTraced'
<1> USE ConnectingAssumption DEF ConnectingAssumption, Threads, New, Goto, Dial, Tell, queue, made,
     known, DialLabels, SocketLabels, Separate, NewUntouched, Untouched, WorkTraced,
       QueuedWaits, TypeOK
<1>1. ASSUME NEW t \in Threads, NEW r \in Requests, RequestConnectTo(t, r) PROVE WorkTraced'
  BY <1>1 DEF RequestConnectTo
<1>2. ASSUME NEW t \in Threads, NEW r \in Requests, ConnectTo(t, r) PROVE WorkTraced'
  BY <1>2 DEF ConnectTo
<1>3. ASSUME NEW t \in Threads, AddConnectorEvent(t) PROVE WorkTraced'
  BY <1>3 DEF AddConnectorEvent
<1>4. ASSUME NEW t \in Threads, Dialler(t) PROVE WorkTraced'
  <2>1. CASE Resolve(t) BY <2>1 DEF Resolve
  <2>2. CASE OpenSocket(t) BY <2>2 DEF OpenSocket
  <2>3. CASE Connect(t) BY <2>3 DEF Connect
  <2>4. CASE ChooseThread(t) BY <2>4 DEF ChooseThread
  <2>5. CASE CreateConnection(t) BY <2>5 DEF CreateConnection
  <2>6. CASE AddConnection(t) BY <2>6 DEF AddConnection
  <2>7. CASE TellConnected(t) BY <2>7 DEF TellConnected
  <2> QED BY <1>4, <2>1, <2>2, <2>3, <2>4, <2>5, <2>6, <2>7 DEF Dialler
<1>5. CASE DispatchConnector \/ DispatchOther \/ EndCallback
  BY <1>5 DEF DispatchConnector, DispatchOther, EndCallback
<1>6. CASE Pop
  <2>1. CASE connectionRequests = <<>>
    BY <1>6, <2>1 DEF Pop
  <2>2. CASE connectionRequests # <<>>
    <3>1. PICK r : r = connectionRequests[1]
      OBVIOUS
    <3>2. /\ 1 \in 1 .. Len(connectionRequests) /\ r \in Requests
          /\ pc' = [pc EXCEPT ![Control] = "resolve"]
          /\ dialling' = [dialling EXCEPT ![Control] = r]
          /\ UNCHANGED <<connections, closed, sockets, identified, base, via, answer>>
      BY <1>6, <2>2, <3>1, PopTakes
    <3>3. ~New(r) /\ Untouched(r)
      BY <3>1, <3>2
    <3>4. ASSUME NEW t \in Threads, pc'[t] \in DialLabels PROVE t = Control \/ pc[t] = pc'[t]
      BY <3>2
    <3> QED BY <3>2, <3>3
  <2> QED BY <2>1, <2>2
<1>7. ASSUME NEW r \in Requests, Accept(r) PROVE WorkTraced'
  BY <1>7 DEF Accept
<1>8. ASSUME NEW r \in Requests, CloseConnection(r) PROVE WorkTraced'
  BY <1>8 DEF CloseConnection
<1>9. ASSUME NEW r \in Requests, DeleteConnection(r) PROVE WorkTraced'
  BY <1>9 DEF DeleteConnection
<1>10. CASE UNCHANGED vars BY <1>10 DEF vars
<1> QED BY <1>1, <1>2, <1>3, <1>4, <1>5, <1>6, <1>7, <1>8, <1>9, <1>10 DEF Next, Application

\* The thread that opens a socket hands it to a connection or closes it.
LEMMA SocketsStep ==
  ASSUME TypeOK, Separate, WorkTraced, ClosedDown, SocketsAccounted, [Next]_vars
  PROVE  SocketsAccounted'
<1> USE ConnectingAssumption DEF ConnectingAssumption, Threads, New, Goto, Dial, Tell, queue, made,
     known, DialLabels, SocketLabels, Separate, WorkTraced, ClosedDown,
       SocketsAccounted, TypeOK
<1>1. ASSUME NEW t \in Threads, NEW r \in Requests, RequestConnectTo(t, r) PROVE SocketsAccounted'
  BY <1>1 DEF RequestConnectTo
<1>2. ASSUME NEW t \in Threads, NEW r \in Requests, ConnectTo(t, r) PROVE SocketsAccounted'
  BY <1>2 DEF ConnectTo
<1>3. ASSUME NEW t \in Threads, AddConnectorEvent(t) PROVE SocketsAccounted'
  BY <1>3 DEF AddConnectorEvent
<1>4. ASSUME NEW t \in Threads, Dialler(t) PROVE SocketsAccounted'
  <2>1. CASE Resolve(t) BY <2>1 DEF Resolve
  <2>2. CASE OpenSocket(t) BY <2>2 DEF OpenSocket
  <2>3. CASE Connect(t) BY <2>3 DEF Connect
  <2>4. CASE ChooseThread(t) BY <2>4 DEF ChooseThread
  <2>5. CASE CreateConnection(t) BY <2>5 DEF CreateConnection
  <2>6. CASE AddConnection(t) BY <2>6 DEF AddConnection
  <2>7. CASE TellConnected(t) BY <2>7 DEF TellConnected
  <2> QED BY <1>4, <2>1, <2>2, <2>3, <2>4, <2>5, <2>6, <2>7 DEF Dialler
<1>5. CASE DispatchConnector \/ DispatchOther \/ EndCallback
  BY <1>5 DEF DispatchConnector, DispatchOther, EndCallback
<1>6. CASE Pop
  <2>1. CASE connectionRequests = <<>>
    BY <1>6, <2>1 DEF Pop
  <2>2. CASE connectionRequests # <<>>
    <3>1. /\ pc[Control] \notin SocketLabels
          /\ \A t \in Threads \ {Control} : pc'[t] = pc[t] /\ dialling'[t] = dialling[t]
          /\ UNCHANGED <<sockets, connections>>
      BY <1>6, <2>2, PopTakes
    <3> QED BY <3>1
  <2> QED BY <2>1, <2>2
<1>7. ASSUME NEW r \in Requests, Accept(r) PROVE SocketsAccounted'
  BY <1>7 DEF Accept
<1>8. ASSUME NEW r \in Requests, CloseConnection(r) PROVE SocketsAccounted'
  BY <1>8 DEF CloseConnection
<1>9. ASSUME NEW r \in Requests, DeleteConnection(r) PROVE SocketsAccounted'
  BY <1>9 DEF DeleteConnection
<1>10. CASE UNCHANGED vars BY <1>10 DEF vars
<1> QED BY <1>1, <1>2, <1>3, <1>4, <1>5, <1>6, <1>7, <1>8, <1>9, <1>10 DEF Next, Application

\* Failure is reported after the socket is closed, a Handle after the connection is
\* in the map, a null one for a connection that has been closed.
LEMMA AnswersStep ==
  ASSUME TypeOK, Separate, WorkTraced, NewUntouched, AnswersTrue, [Next]_vars
  PROVE  AnswersTrue'
<1> USE ConnectingAssumption DEF ConnectingAssumption, Threads, New, Goto, Dial, Tell, queue, made,
     known, DialLabels, SocketLabels, Separate, WorkTraced, AnswersTrue, NewUntouched,
       Untouched, TypeOK
<1>1. ASSUME NEW t \in Threads, NEW r \in Requests, RequestConnectTo(t, r) PROVE AnswersTrue'
  BY <1>1 DEF RequestConnectTo
<1>2. ASSUME NEW t \in Threads, NEW r \in Requests, ConnectTo(t, r) PROVE AnswersTrue'
  BY <1>2 DEF ConnectTo
<1>3. ASSUME NEW t \in Threads, AddConnectorEvent(t) PROVE AnswersTrue'
  BY <1>3 DEF AddConnectorEvent
<1>4. ASSUME NEW t \in Threads, Dialler(t) PROVE AnswersTrue'
  <2>1. CASE Resolve(t) BY <2>1 DEF Resolve
  <2>2. CASE OpenSocket(t) BY <2>2 DEF OpenSocket
  <2>3. CASE Connect(t) BY <2>3 DEF Connect
  <2>4. CASE ChooseThread(t) BY <2>4 DEF ChooseThread
  <2>5. CASE CreateConnection(t) BY <2>5 DEF CreateConnection
  <2>6. CASE AddConnection(t) BY <2>6 DEF AddConnection
  <2>7. CASE TellConnected(t) BY <2>7 DEF TellConnected
  <2> QED BY <1>4, <2>1, <2>2, <2>3, <2>4, <2>5, <2>6, <2>7 DEF Dialler
<1>5. CASE DispatchConnector \/ DispatchOther \/ EndCallback
  BY <1>5 DEF DispatchConnector, DispatchOther, EndCallback
<1>6. CASE Pop
  <2>1. CASE connectionRequests = <<>>
    BY <1>6, <2>1 DEF Pop
  <2>2. CASE connectionRequests # <<>>
    BY <1>6, <2>2, PopTakes
  <2> QED BY <2>1, <2>2
<1>7. ASSUME NEW r \in Requests, Accept(r) PROVE AnswersTrue'
  BY <1>7 DEF Accept
<1>8. ASSUME NEW r \in Requests, CloseConnection(r) PROVE AnswersTrue'
  BY <1>8 DEF CloseConnection
<1>9. ASSUME NEW r \in Requests, DeleteConnection(r) PROVE AnswersTrue'
  BY <1>9 DEF DeleteConnection
<1>10. CASE UNCHANGED vars BY <1>10 DEF vars
<1> QED BY <1>1, <1>2, <1>3, <1>4, <1>5, <1>6, <1>7, <1>8, <1>9, <1>10 DEF Next, Application

\* Nothing is dialled for a connection that was in the map.
LEMMA ClosedDownStep ==
  ASSUME TypeOK, WorkTraced, NewUntouched, ClosedDown, [Next]_vars
  PROVE  ClosedDown'
<1> USE ConnectingAssumption DEF ConnectingAssumption, Threads, New, Goto, Dial, Tell, queue, made,
     known, DialLabels, SocketLabels, WorkTraced, ClosedDown, NewUntouched, Untouched, TypeOK
<1>1. ASSUME NEW t \in Threads, NEW r \in Requests, RequestConnectTo(t, r) PROVE ClosedDown'
  BY <1>1 DEF RequestConnectTo
<1>2. ASSUME NEW t \in Threads, NEW r \in Requests, ConnectTo(t, r) PROVE ClosedDown'
  BY <1>2 DEF ConnectTo
<1>3. ASSUME NEW t \in Threads, AddConnectorEvent(t) PROVE ClosedDown'
  BY <1>3 DEF AddConnectorEvent
<1>4. ASSUME NEW t \in Threads, Dialler(t) PROVE ClosedDown'
  <2>1. CASE Resolve(t) BY <2>1 DEF Resolve
  <2>2. CASE OpenSocket(t) BY <2>2 DEF OpenSocket
  <2>3. CASE Connect(t) BY <2>3 DEF Connect
  <2>4. CASE ChooseThread(t) BY <2>4 DEF ChooseThread
  <2>5. CASE CreateConnection(t) BY <2>5 DEF CreateConnection
  <2>6. CASE AddConnection(t) BY <2>6 DEF AddConnection
  <2>7. CASE TellConnected(t) BY <2>7 DEF TellConnected
  <2> QED BY <1>4, <2>1, <2>2, <2>3, <2>4, <2>5, <2>6, <2>7 DEF Dialler
<1>5. CASE DispatchConnector \/ DispatchOther \/ EndCallback
  BY <1>5 DEF DispatchConnector, DispatchOther, EndCallback
<1>6. CASE Pop
  <2>1. CASE connectionRequests = <<>>
    BY <1>6, <2>1 DEF Pop
  <2>2. CASE connectionRequests # <<>>
    BY <1>6, <2>2, PopTakes
  <2> QED BY <2>1, <2>2
<1>7. ASSUME NEW r \in Requests, Accept(r) PROVE ClosedDown'
  BY <1>7 DEF Accept
<1>8. ASSUME NEW r \in Requests, CloseConnection(r) PROVE ClosedDown'
  BY <1>8 DEF CloseConnection
<1>9. ASSUME NEW r \in Requests, DeleteConnection(r) PROVE ClosedDown'
  BY <1>9 DEF DeleteConnection
<1>10. CASE UNCHANGED vars BY <1>10 DEF vars
<1> QED BY <1>1, <1>2, <1>3, <1>4, <1>5, <1>6, <1>7, <1>8, <1>9, <1>10 DEF Next, Application

\* setIdentifier comes before addConnection.
LEMMA IdentifiedStep ==
  ASSUME TypeOK, WorkTraced, NewUntouched, IdentifiedFirst, [Next]_vars
  PROVE  IdentifiedFirst'
<1> USE ConnectingAssumption DEF ConnectingAssumption, Threads, New, Goto, Dial, Tell, queue, made,
     known, DialLabels, SocketLabels, WorkTraced, IdentifiedFirst, NewUntouched, Untouched, TypeOK
<1>1. ASSUME NEW t \in Threads, NEW r \in Requests, RequestConnectTo(t, r) PROVE IdentifiedFirst'
  BY <1>1 DEF RequestConnectTo
<1>2. ASSUME NEW t \in Threads, NEW r \in Requests, ConnectTo(t, r) PROVE IdentifiedFirst'
  BY <1>2 DEF ConnectTo
<1>3. ASSUME NEW t \in Threads, AddConnectorEvent(t) PROVE IdentifiedFirst'
  BY <1>3 DEF AddConnectorEvent
<1>4. ASSUME NEW t \in Threads, Dialler(t) PROVE IdentifiedFirst'
  <2>1. CASE Resolve(t) BY <2>1 DEF Resolve
  <2>2. CASE OpenSocket(t) BY <2>2 DEF OpenSocket
  <2>3. CASE Connect(t) BY <2>3 DEF Connect
  <2>4. CASE ChooseThread(t) BY <2>4 DEF ChooseThread
  <2>5. CASE CreateConnection(t) BY <2>5 DEF CreateConnection
  <2>6. CASE AddConnection(t) BY <2>6 DEF AddConnection
  <2>7. CASE TellConnected(t) BY <2>7 DEF TellConnected
  <2> QED BY <1>4, <2>1, <2>2, <2>3, <2>4, <2>5, <2>6, <2>7 DEF Dialler
<1>5. CASE DispatchConnector \/ DispatchOther \/ EndCallback
  BY <1>5 DEF DispatchConnector, DispatchOther, EndCallback
<1>6. CASE Pop
  <2>1. CASE connectionRequests = <<>>
    BY <1>6, <2>1 DEF Pop
  <2>2. CASE connectionRequests # <<>>
    BY <1>6, <2>2, PopTakes
  <2> QED BY <2>1, <2>2
<1>7. ASSUME NEW r \in Requests, Accept(r) PROVE IdentifiedFirst'
  BY <1>7 DEF Accept
<1>8. ASSUME NEW r \in Requests, CloseConnection(r) PROVE IdentifiedFirst'
  BY <1>8 DEF CloseConnection
<1>9. ASSUME NEW r \in Requests, DeleteConnection(r) PROVE IdentifiedFirst'
  BY <1>9 DEF DeleteConnection
<1>10. CASE UNCHANGED vars BY <1>10 DEF vars
<1> QED BY <1>1, <1>2, <1>3, <1>4, <1>5, <1>6, <1>7, <1>8, <1>9, <1>10 DEF Next, Application

-----------------------------------------------------------------------------
(* Turns                                                                   *)

\* A worker's load is a number: there are finitely many requests.
LEMMA LoadFinite ==
  ASSUME NEW b
  PROVE  /\ IsFiniteSet({r \in Requests : base[r] = b})
         /\ Load(b) \in Nat
<1>1. {r \in Requests : base[r] = b} \in SUBSET Requests
  OBVIOUS
<1>2. IsFiniteSet({r \in Requests : base[r] = b})
  BY <1>1, FS_Subset, ConnectingAssumption DEF ConnectingAssumption
<1> QED BY <1>2, FS_CardinalityType DEF Load

\* A connection that had no worker adds one to the load of the worker it is given.
LEMMA OneMoreLoad ==
  ASSUME TypeOK, NEW q \in Requests, NEW c \in Bases, base[q] = Nowhere,
         base' = [base EXCEPT ![q] = c]
  PROVE  \A b \in Bases : Load(b)' = Load(b) + OneIf(b = c)
<1> SUFFICES ASSUME NEW b \in Bases PROVE Load(b)' = Load(b) + OneIf(b = c)
  OBVIOUS
<1> DEFINE S == {r \in Requests : base[r] = b}
           T == {r \in Requests : base'[r] = b}
<1>1. Load(b) = Cardinality(S) /\ Load(b)' = Cardinality(T)
  BY DEF Load
<1>0. IsFiniteSet(S) /\ Load(b) \in Nat
  BY LoadFinite
<1>2. b # Nowhere
  BY ConnectingAssumption DEF ConnectingAssumption, Bases, Nowhere
<1>3. CASE b = c
  <2>1. T = S \cup {q} /\ q \notin S
    BY <1>2, <1>3 DEF TypeOK
  <2>2. Cardinality(T) = Cardinality(S) + 1
    <3> HIDE DEF S, T
    <3> QED BY <2>1, <1>0, FS_AddElement
  <2> QED BY <1>1, <1>3, <2>2 DEF OneIf
<1>4. CASE b # c
  <2>1. T = S
    BY <1>2, <1>4 DEF TypeOK
  <2>2. Load(b) + OneIf(b = c) = Load(b)
    BY <1>4, <1>0 DEF OneIf
  <2> QED BY <1>1, <2>1, <2>2
<1> QED BY <1>3, <1>4

\* Every worker has had k connections, and those before nextThread one more.
Rounds == \E k \in Nat : \A b \in Bases : Load(b) = k + OneIf(b < nextThread)

\* getNextThread adds one to the load of the worker whose turn it is, and the last
\* of them ends the round.
LEMMA RoundsStep ==
  ASSUME TypeOK, Turn, WorkTraced, Rounds, [Next]_vars
  PROVE  Rounds'
<1>1. ASSUME base' = base, nextThread' = nextThread PROVE Rounds'
  <2>1. \A b \in Bases : Load(b)' = Load(b)
    BY <1>1 DEF Load
  <2> QED BY <1>1, <2>1 DEF Rounds
<1>2. ASSUME NEW t \in Threads, ChooseThread(t) PROVE Rounds'
  <2>1. CASE NumThreads = 0
    BY <1>1, <1>2, <2>1 DEF ChooseThread
  <2>2. CASE NumThreads > 0
    <3>1. /\ dialling[t] \in Requests
          /\ base[dialling[t]] = Nowhere
      BY <1>2 DEF ChooseThread, TypeOK, WorkTraced, DialLabels
    <3>2. /\ nextThread \in Bases
          /\ base' = [base EXCEPT ![dialling[t]] = nextThread]
          /\ nextThread' = IF nextThread + 1 = NumThreads THEN 0 ELSE nextThread + 1
      BY <1>2, <2>2, ConnectingAssumption DEF ChooseThread, Turn, Bases, ConnectingAssumption
    <3>3. \A b \in Bases : Load(b)' = Load(b) + OneIf(b = nextThread)
      BY <3>1, <3>2, OneMoreLoad
    <3>4. PICK k \in Nat : \A b \in Bases : Load(b) = k + OneIf(b < nextThread)
      BY DEF Rounds
    <3>5. CASE nextThread + 1 = NumThreads
      <4>1. \A b \in Bases : Load(b)' = (k + 1) + OneIf(b < nextThread')
        BY <3>2, <3>3, <3>4, <3>5, ConnectingAssumption DEF Bases, OneIf, ConnectingAssumption
      <4> QED BY <4>1, k + 1 \in Nat DEF Rounds
    <3>6. CASE nextThread + 1 # NumThreads
      <4>1. \A b \in Bases : Load(b)' = k + OneIf(b < nextThread')
        BY <3>2, <3>3, <3>4, <3>6, ConnectingAssumption DEF Bases, OneIf, ConnectingAssumption
      <4> QED BY <4>1 DEF Rounds
    <3> QED BY <3>5, <3>6
  <2> QED BY <2>1, <2>2, ConnectingAssumption DEF ConnectingAssumption
<1>3. ASSUME NEW t \in Threads, \E r \in Requests : RequestConnectTo(t, r) \/ ConnectTo(t, r)
      PROVE  Rounds'
  BY <1>1, <1>3 DEF RequestConnectTo, ConnectTo
<1>4. ASSUME NEW t \in Threads, AddConnectorEvent(t) PROVE Rounds'
  BY <1>1, <1>4 DEF AddConnectorEvent
<1>5. ASSUME NEW t \in Threads,
             \/ Resolve(t) \/ OpenSocket(t) \/ Connect(t) \/ CreateConnection(t)
             \/ AddConnection(t) \/ TellConnected(t)
      PROVE  Rounds'
  BY <1>1, <1>5 DEF Resolve, OpenSocket, Connect, CreateConnection, AddConnection, TellConnected
<1>6. CASE DispatchConnector \/ Pop \/ DispatchOther \/ EndCallback
  BY <1>1, <1>6 DEF DispatchConnector, Pop, DispatchOther, EndCallback
<1>7. ASSUME NEW r \in Requests, Accept(r) PROVE Rounds'
  BY <1>1, <1>7 DEF Accept
<1>8. ASSUME NEW r \in Requests, CloseConnection(r) \/ DeleteConnection(r) PROVE Rounds'
  BY <1>1, <1>8 DEF CloseConnection, DeleteConnection
<1>9. CASE UNCHANGED vars BY <1>1, <1>9 DEF vars
<1> QED BY <1>2, <1>3, <1>4, <1>5, <1>6, <1>7, <1>8, <1>9 DEF Next, Application, Dialler

-----------------------------------------------------------------------------
(* The theorems                                                            *)

Typed == TypeOK /\ Turn
Queue == Locked /\ EventsCovered
Work  == Separate /\ NewUntouched /\ QueuedWaits /\ QueuedOnce /\ WorkTraced /\ ClosedDown

\* The initial state satisfies everything.
LEMMA InitHolds ==
  Init => /\ Typed /\ Queue /\ Work /\ Rounds
          /\ SocketsAccounted /\ AnswersTrue /\ IdentifiedFirst
<1> SUFFICES ASSUME Init
             PROVE  /\ Typed /\ Queue /\ Work /\ Rounds
                    /\ SocketsAccounted /\ AnswersTrue /\ IdentifiedFirst
  OBVIOUS
<1> USE ConnectingAssumption DEF ConnectingAssumption, Init, Threads
<1>1. Typed
  <2>1. connectionRequests \in Seq(Requests)
    OBVIOUS
  <2>2. pc \in [Threads -> Labels]
    BY DEF Labels, DialLabels
  <2>3. base \in [Requests -> Bases \cup {Nowhere}]
    BY DEF Nowhere
  <2> QED BY <2>1, <2>2, <2>3 DEF Typed, TypeOK, Turn, DialLabels
<1>2. Queue
  BY DEF Queue, Locked, EventsCovered, OneIf
<1>3. Work
  BY DEF Work, Separate, NewUntouched, Untouched, New, QueuedWaits, QueuedOnce, WorkTraced,
     ClosedDown, DialLabels, Nowhere
<1>4. Rounds
  <2>1. \A b \in Bases : Load(b) = 0
    <3> SUFFICES ASSUME NEW b \in Bases PROVE Load(b) = 0
      OBVIOUS
    <3>1. {r \in Requests : base[r] = b} = {}
      BY DEF Bases, Nowhere
    <3> QED BY <3>1, FS_EmptySet DEF Load
  <2>2. \A b \in Bases : Load(b) = 0 + OneIf(b < nextThread)
    BY <2>1 DEF Bases, OneIf
  <2> QED BY <2>2 DEF Rounds
<1>5. SocketsAccounted /\ AnswersTrue /\ IdentifiedFirst
  BY DEF SocketsAccounted, AnswersTrue, IdentifiedFirst
<1> QED BY <1>1, <1>2, <1>3, <1>4, <1>5

\* Every variable keeps its type, and getNextThread returns the index of a worker
\* whatever threads call it.
THEOREM TypedInvariant == Spec => []Typed
<1>1. Typed /\ [Next]_vars => Typed'
  BY TypeStep DEF Typed
<1> QED BY <1>1, InitHolds, PTL DEF Spec

\* The type invariant of the runs is part of it.
THEOREM ConnectingTypeCorrect == Spec => []TypeOK
<1>1. Typed => TypeOK
  BY DEF Typed
<1> QED BY <1>1, TypedInvariant, PTL

\* The inductive invariant of the queue: the event fires at most once for each
\* request on it.
THEOREM QueueInvariant == Spec => []Queue
<1>1. Typed /\ Queue /\ [Next]_vars => Queue'
  BY LockedStep, EventsCoveredStep DEF Typed, Queue
<1> QED BY <1>1, InitHolds, TypedInvariant, PTL DEF Spec

\* connectCB never looks at an empty queue, however many threads request
\* connections while the event is pending or has just fired.
THEOREM FireFindsRequest == Spec => []FireHasRequest
<1>1. Typed /\ Queue => FireHasRequest
  <2> SUFFICES ASSUME TypeOK, EventsCovered, pc[Control] = "pop"
               PROVE  connectionRequests # <<>>
    BY DEF Typed, Queue, FireHasRequest
  <2>1. Len(connectionRequests) >= 1
    BY DEF TypeOK, EventsCovered, OneIf
  <2> QED BY <2>1
<1> QED BY <1>1, TypedInvariant, QueueInvariant, PTL

\* The inductive invariant of the work: every request is in one place.
THEOREM WorkInvariant == Spec => []Work
<1>1. Typed /\ Work /\ [Next]_vars => Work'
  BY SeparateStep, NewUntouchedStep, QueuedWaitsStep, QueuedOnceStep, WorkTracedStep,
     ClosedDownStep
  DEF Typed, Work
<1> QED BY <1>1, InitHolds, TypedInvariant, PTL DEF Spec

\* No socket is lost on the way to a connection, in connectCB, in connectTo or in
\* listenerAcceptCB.
THEOREM NoSocketLost == Spec => []SocketsAccounted
<1>1. Typed /\ Work /\ SocketsAccounted /\ [Next]_vars => SocketsAccounted'
  BY SocketsStep DEF Typed, Work
<1> QED BY <1>1, InitHolds, TypedInvariant, WorkInvariant, PTL DEF Spec

\* What the application is told of a request is so when it is told, whether or not
\* the worker has closed or deleted the connection by then, and stays so until the
\* connection is closed.
THEOREM AnswersStayTrue == Spec => []AnswersTrue
<1>1. Typed /\ Work /\ AnswersTrue /\ [Next]_vars => AnswersTrue'
  BY AnswersStep DEF Typed, Work
<1> QED BY <1>1, InitHolds, TypedInvariant, WorkInvariant, PTL DEF Spec

\* A connection that is dialled has its identifier before its first event.
THEOREM IdentifiedBeforeEvents == Spec => []IdentifiedFirst
<1>1. Typed /\ Work /\ IdentifiedFirst /\ [Next]_vars => IdentifiedFirst'
  BY IdentifiedStep DEF Typed, Work
<1> QED BY <1>1, InitHolds, TypedInvariant, WorkInvariant, PTL DEF Spec

\* Connections are dealt out in turn: the loads of two workers never differ by
\* more than one, whatever threads make connections at the same time.
THEOREM LoadsBalanced == Spec => []Balanced
<1>1. Rounds => Balanced
  BY DEF Rounds, Balanced, OneIf
<1>2. Typed /\ Work /\ Rounds /\ [Next]_vars => Rounds'
  BY RoundsStep DEF Typed, Work
<1> QED BY <1>1, <1>2, InitHolds, TypedInvariant, WorkInvariant, PTL DEF Spec

=============================================================================
