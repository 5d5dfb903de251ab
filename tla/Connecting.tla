----------------------------- MODULE Connecting -----------------------------
(***************************************************************************)
(* How a manager comes by its connections (src/src/ManagerImpl.cpp and     *)
(* src/src/EventCallbacks.cpp).                                            *)
(*                                                                         *)
(* requestConnectTo queues a request and adds a timer event; connectCB, on *)
(* the control loop, takes one request off the queue and dials it.         *)
(* connectTo dials in the thread that calls it.  listenerAcceptCB is given *)
(* a socket by the listener.  All three pick a worker with getNextThread   *)
(* and put the new connection into the manager's map; from then on its     *)
(* worker may close and delete it, before the application hears of it too. *)
(*                                                                         *)
(* A request stands for its address, port and identifier, and for the      *)
(* socket and the connection that come of it.  The manager is running: the *)
(* connector event exists.  How closing and deleting go about it, and when *)
(* no Handle is left, is the subject of Connection: here each is one step. *)
(***************************************************************************)
EXTENDS Integers, Sequences, FiniteSets

CONSTANTS
  Users,         (* threads that run application code, the workers included *)
  Control,       (* the thread in ManagerImpl::run                          *)
  NoOne,         (* holder of a free mutex                                  *)
  Requests,      (* connections that may be asked for or accepted           *)
  NoRequest,     (* what a thread that dials nothing dials                  *)
  NumThreads     (* the size of _threads                                    *)

Threads == Users \cup {Control}
Bases   == 0 .. NumThreads - 1
Nowhere == -1    (* no worker chosen; the control loop when there is none   *)

ASSUME ConnectingAssumption ==
  /\ Control \notin Users
  /\ NoOne \notin Threads
  /\ NoRequest \notin Requests
  /\ IsFiniteSet(Requests)
  /\ NumThreads \in Nat

VARIABLES
  connectionRequests,  (* _connectionRequests                               *)
  requestsMutex,       (* holder of _connectionRequestsMutex                *)
  connectorEvent,      (* _connectorEvent is pending                        *)
  nextThread,          (* _nextThread                                       *)
  connections,         (* _connections: requests that became connections    *)
  closed,              (* connections that have been closed                 *)
  sockets,             (* requests whose socket is open                     *)
  identified,          (* connections whose identifier has been set         *)
  base,                (* the worker each connection was given to           *)
  via,                 (* how each request was made                         *)
  answer,              (* what the application was told of it               *)
  pc,                  (* where each thread is                              *)
  dialling             (* the request each thread is working on             *)

queue == <<connectionRequests, requestsMutex, connectorEvent>>
made  == <<connections, closed, sockets, identified>>
known == <<via, answer>>
vars  == <<queue, nextThread, made, base, known, pc, dialling>>

DialLabels == {"resolve", "socket", "connect", "choose", "identify", "add", "tell"}
Labels     == {"user", "loop", "addEvent", "pop"} \cup DialLabels
SocketLabels == {"connect", "choose", "identify", "add"}

New(r)     == via[r] = "none"
Goto(t, l) == pc' = [pc EXCEPT ![t] = l] /\ UNCHANGED dialling
Dial(t, r, l) ==
  /\ pc' = [pc EXCEPT ![t] = l]
  /\ dialling' = [dialling EXCEPT ![t] = r]

\* The application hears of the result in a callback (connectCB) or from its
\* call of connectTo: either way its code runs next.
Tell(t, what) ==
  /\ answer' = [answer EXCEPT ![dialling[t]] = what]
  /\ Dial(t, NoRequest, "user")
  /\ UNCHANGED via

Init ==
  /\ connectionRequests = <<>>
  /\ requestsMutex = NoOne
  /\ connectorEvent = FALSE
  /\ nextThread = 0
  /\ connections = {}
  /\ closed = {}
  /\ sockets = {}
  /\ identified = {}
  /\ base = [r \in Requests |-> Nowhere]
  /\ via = [r \in Requests |-> "none"]
  /\ answer = [r \in Requests |-> "none"]
  /\ pc = [t \in Threads |-> IF t = Control THEN "loop" ELSE "user"]
  /\ dialling = [t \in Threads |-> NoRequest]

-----------------------------------------------------------------------------
(* Faults: the action each is named after, with one mistake in it.         *)

\* No event_add after the push
PushOnly(t, r) ==
  /\ pc[t] = "user" /\ New(r)
  /\ requestsMutex = NoOne
  /\ connectionRequests' = Append(connectionRequests, r)
  /\ via' = [via EXCEPT ![r] = "requested"]
  /\ UNCHANGED <<requestsMutex, connectorEvent, nextThread, made, base, answer, pc, dialling>>

\* The connector event made with EV_PERSIST
DispatchPersistent ==
  /\ pc[Control] = "loop"
  /\ connectorEvent
  /\ Goto(Control, "pop")
  /\ UNCHANGED <<queue, nextThread, made, base, known>>

\* No EVUTIL_CLOSESOCKET
ConnectLeaks(t) ==
  /\ pc[t] = "connect"
  /\ \/ Goto(t, "choose") /\ UNCHANGED known
     \/ Tell(t, "failed")
  /\ UNCHANGED <<queue, nextThread, made, base>>

\* if ( _nextThread > _threads.size() )
NextThreadLate(t) ==
  /\ pc[t] = "choose"
  /\ base' = [base EXCEPT ![dialling[t]] = nextThread]
  /\ nextThread' = IF nextThread + 1 > NumThreads THEN 0 ELSE nextThread + 1
  /\ Goto(t, "identify")
  /\ UNCHANGED <<queue, made, known>>

\* _nextThread + 1 where it says _nextThread++
NextThreadKept(t) ==
  /\ pc[t] = "choose"
  /\ base' = [base EXCEPT ![dialling[t]] = nextThread]
  /\ Goto(t, "identify")
  /\ UNCHANGED <<queue, nextThread, made, known>>

\* No setIdentifier
CreateAnonymous(t) ==
  /\ pc[t] = "identify"
  /\ Goto(t, "add")
  /\ UNCHANGED <<queue, nextThread, made, base, known>>

\* No addConnection
CreateUnpublished(t) ==
  /\ pc[t] = "identify"
  /\ identified' = identified \cup {dialling[t]}
  /\ Goto(t, "tell")
  /\ UNCHANGED <<queue, nextThread, connections, closed, sockets, base, known>>

-----------------------------------------------------------------------------
(* requestConnectTo, and the loop that serves it                           *)

\* The lock is held from the push to the end of event_add.
RequestConnectTo(t, r) ==
  /\ pc[t] = "user" /\ New(r)
  /\ requestsMutex = NoOne
  /\ requestsMutex' = t
  /\ connectionRequests' = Append(connectionRequests, r)
  /\ via' = [via EXCEPT ![r] = "requested"]
  /\ Goto(t, "addEvent")
  /\ UNCHANGED <<connectorEvent, nextThread, made, base, answer>>

\* Adding a timer that is pending only sets its time again.
AddConnectorEvent(t) ==
  /\ pc[t] = "addEvent"
  /\ connectorEvent' = TRUE
  /\ requestsMutex' = NoOne
  /\ Goto(t, "user")
  /\ UNCHANGED <<connectionRequests, nextThread, made, base, known>>

DispatchConnector ==
  /\ pc[Control] = "loop"
  /\ connectorEvent
  /\ connectorEvent' = FALSE
  /\ Goto(Control, "pop")
  /\ UNCHANGED <<connectionRequests, requestsMutex, nextThread, made, base, known>>

\* connectCB takes one request; it does not add its event again.
Pop ==
  /\ pc[Control] = "pop"
  /\ requestsMutex = NoOne
  /\ \/ /\ connectionRequests = <<>>
        /\ Goto(Control, "loop")
        /\ UNCHANGED connectionRequests
     \/ /\ connectionRequests # <<>>
        /\ connectionRequests' = Tail(connectionRequests)
        /\ Dial(Control, Head(connectionRequests), "resolve")
  /\ UNCHANGED <<requestsMutex, connectorEvent, nextThread, made, base, known>>

\* onTick, onTimer and the other callbacks of the control loop
DispatchOther ==
  /\ pc[Control] = "loop"
  /\ Goto(Control, "user")
  /\ UNCHANGED <<queue, nextThread, made, base, known>>

EndCallback ==
  /\ pc[Control] = "user"
  /\ Goto(Control, "loop")
  /\ UNCHANGED <<queue, nextThread, made, base, known>>

-----------------------------------------------------------------------------
(* Dialling, in connectCB and in connectTo                                 *)

ConnectTo(t, r) ==
  /\ pc[t] = "user" /\ New(r)
  /\ via' = [via EXCEPT ![r] = "called"]
  /\ Dial(t, r, "resolve")
  /\ UNCHANGED <<queue, nextThread, made, base, answer>>

\* evutil_getaddrinfo
Resolve(t) ==
  /\ pc[t] = "resolve"
  /\ \/ Goto(t, "socket") /\ UNCHANGED known
     \/ Tell(t, "failed")
  /\ UNCHANGED <<queue, nextThread, made, base>>

OpenSocket(t) ==
  /\ pc[t] = "socket"
  /\ \/ /\ sockets' = sockets \cup {dialling[t]}
        /\ Goto(t, "connect")
        /\ UNCHANGED known
     \/ /\ Tell(t, "failed")
        /\ UNCHANGED sockets
  /\ UNCHANGED <<queue, nextThread, connections, closed, identified, base>>

\* connect() blocks; the socket of an attempt that fails is closed.
Connect(t) ==
  /\ pc[t] = "connect"
  /\ \/ /\ Goto(t, "choose")
        /\ UNCHANGED <<sockets, known>>
     \/ /\ sockets' = sockets \ {dialling[t]}
        /\ Tell(t, "failed")
  /\ UNCHANGED <<queue, nextThread, connections, closed, identified, base>>

\* The listener hands listenerAcceptCB a connected socket.
Accept(r) ==
  /\ pc[Control] = "loop" /\ New(r)
  /\ via' = [via EXCEPT ![r] = "accepted"]
  /\ sockets' = sockets \cup {r}
  /\ Dial(Control, r, "choose")
  /\ UNCHANGED <<queue, nextThread, connections, closed, identified, base, answer>>

-----------------------------------------------------------------------------
(* From the socket to the connection                                       *)

\* getNextThread, under _nextThreadMutex; not called without workers.
ChooseThread(t) ==
  /\ pc[t] = "choose"
  /\ \/ /\ NumThreads = 0
        /\ UNCHANGED <<base, nextThread>>
     \/ /\ NumThreads > 0
        /\ base' = [base EXCEPT ![dialling[t]] = nextThread]
        /\ nextThread' = IF nextThread + 1 = NumThreads THEN 0 ELSE nextThread + 1
  /\ Goto(t, "identify")
  /\ UNCHANGED <<queue, made, known>>

\* new Connection, then setIdentifier unless the listener accepted it.
CreateConnection(t) ==
  /\ pc[t] = "identify"
  /\ identified' = IF via[dialling[t]] = "accepted" THEN identified
                                                   ELSE identified \cup {dialling[t]}
  /\ Goto(t, "add")
  /\ UNCHANGED <<queue, nextThread, connections, closed, sockets, base, known>>

AddConnection(t) ==
  /\ pc[t] = "add"
  /\ connections' = connections \cup {dialling[t]}
  /\ Goto(t, "tell")
  /\ UNCHANGED <<queue, nextThread, closed, sockets, identified, base, known>>

\* The Connect event, or the return value of connectTo, with the outcome of
\* requestHandle: a Handle, or a null one if the connection has been closed.
\* If it has been deleted, requestHandle reads freed memory: either may come.
TellConnected(t) ==
  /\ pc[t] = "tell"
  /\ \/ /\ dialling[t] \in connections => dialling[t] \notin closed
        /\ Tell(t, "connected")
     \/ /\ dialling[t] \in closed
        /\ Tell(t, "null")
  /\ UNCHANGED <<queue, nextThread, made, base>>

-----------------------------------------------------------------------------
(* What the callbacks of its events, and the application, do to it next    *)

\* Without workers the control loop runs the events, and only between the
\* callbacks of its own.
LoopFree == NumThreads > 0 \/ pc[Control] \in {"loop", "user"}

\* Connection::close, in readCB when the other side hangs up, or called by an
\* application that has a Handle
CloseConnection(r) ==
  /\ r \in connections \ closed
  /\ LoopFree \/ answer[r] = "connected"
  /\ closed' = closed \cup {r}
  /\ sockets' = sockets \ {r}
  /\ UNCHANGED <<queue, nextThread, connections, identified, base, known, pc, dialling>>

\* destroyCB and closeConnection, when no Handle is left
DeleteConnection(r) ==
  /\ r \in connections \cap closed
  /\ LoopFree
  /\ connections' = connections \ {r}
  /\ UNCHANGED <<queue, nextThread, closed, sockets, identified, base, known, pc, dialling>>

-----------------------------------------------------------------------------
(* The system                                                              *)

Dialler(t) ==
  \/ Resolve(t)
  \/ OpenSocket(t)
  \/ Connect(t)
  \/ ChooseThread(t)
  \/ CreateConnection(t)
  \/ AddConnection(t)
  \/ TellConnected(t)

Application(t) == \E r \in Requests : RequestConnectTo(t, r) \/ ConnectTo(t, r)

Next ==
  \/ \E t \in Threads : Application(t) \/ AddConnectorEvent(t) \/ Dialler(t)
  \/ DispatchConnector \/ Pop \/ DispatchOther \/ EndCallback
  \/ \E r \in Requests : Accept(r) \/ CloseConnection(r) \/ DeleteConnection(r)

Spec == Init /\ [][Next]_vars

\* Every thread runs, connect() and the callbacks return, and the loop does
\* not pass over an event that has come due.
Fairness ==
  /\ \A t \in Threads : WF_vars(AddConnectorEvent(t)) /\ WF_vars(Dialler(t))
  /\ WF_vars(Pop)
  /\ SF_vars(EndCallback)
  /\ SF_vars(DispatchConnector)

FairSpec == Spec /\ Fairness

-----------------------------------------------------------------------------
(* Properties                                                              *)

\* Every variable has its type; a worker is chosen among those there are.
TypeOK ==
  /\ connectionRequests \in Seq(Requests)
  /\ requestsMutex \in Threads \cup {NoOne}
  /\ connectorEvent \in BOOLEAN
  /\ nextThread \in Nat
  /\ connections \subseteq Requests
  /\ closed \subseteq Requests
  /\ sockets \subseteq Requests
  /\ identified \subseteq Requests
  /\ base \in [Requests -> Bases \cup {Nowhere}]
  /\ via \in [Requests -> {"none", "requested", "called", "accepted"}]
  /\ answer \in [Requests -> {"none", "connected", "null", "failed"}]
  /\ pc \in [Threads -> Labels]
  /\ dialling \in [Threads -> Requests \cup {NoRequest}]
  /\ \A t \in Threads : pc[t] \in DialLabels => dialling[t] # NoRequest

\* No descriptor is lost: an open socket is that of a connection in the map,
\* or some thread is about to make it one or to close it.
SocketsAccounted ==
  \A r \in sockets :
    r \in connections \/ \E t \in Threads : pc[t] \in SocketLabels /\ dialling[t] = r

\* Nothing is or was made of a request the application was told had failed,
\* what it was told of is in the map, with its socket, until it is closed, and a
\* null Handle is that of a connection that is closed.  (To the caller of
\* connectTo a null Handle means failure, which it may not have been.)
AnswersTrue ==
  \A r \in Requests :
    /\ answer[r] = "failed" => r \notin sockets \cup connections \cup closed
    /\ answer[r] = "connected" => r \in closed \/ r \in sockets \cap connections
    /\ answer[r] = "null" => r \in closed

\* Events of a connection can come as soon as it is in the map: by then it
\* has the identifier the application gave with the request.
IdentifiedFirst ==
  \A r \in connections \cup closed : via[r] # "accepted" => r \in identified

\* Whatever threads choose at the same time, no worker is given two
\* connections more than another.
Load(b)  == Cardinality({r \in Requests : base[r] = b})
Balanced == \A b, c \in Bases : Load(b) <= Load(c) + 1

\* connectCB never finds the queue empty: its event is added at most once for
\* each request, and after the request is there.
FireHasRequest == pc[Control] = "pop" => connectionRequests # <<>>

\* Every connection that was requested is made, or reported as failed.
RequestsAnswered ==
  \A r \in Requests : via[r] = "requested" ~> answer[r] # "none"

\* The same for an application that requests no connection before the one it
\* requested last is answered.
Waiting        == {r \in Requests : via[r] = "requested" /\ answer[r] = "none"}
OneAtATime     == \A q, r \in Waiting : q = r
AnsweredInTurn == []OneAtATime => RequestsAnswered

=============================================================================
