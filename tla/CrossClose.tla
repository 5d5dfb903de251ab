----------------------------- MODULE CrossClose ------------------------------
(***************************************************************************)
(* Connections of several workers that close each other: what module       *)
(* Connection says of Connection::close (src/src/Connection.cpp) for one   *)
(* connection, with the loops of the others around it.  Each worker runs   *)
(* the events of one connection, which is named by its worker.             *)
(*                                                                         *)
(* event_del, on a thread other than that of the event's loop, waits for   *)
(* the callback of the event to end; on that thread it does not.           *)
(***************************************************************************)
CONSTANT Workers

VARIABLES
  closed,          (* _close of the connection                              *)
  readEvent,       (* its _readEvent is pending                             *)
  socketOpen,      (* its descriptor is open                                *)
  pc,              (* where the worker is                                   *)
  closing          (* the connection its close is for                       *)

vars == <<closed, readEvent, socketOpen, pc, closing>>

Init ==
  /\ closed = [w \in Workers |-> FALSE]
  /\ readEvent = [w \in Workers |-> TRUE]
  /\ socketOpen = [w \in Workers |-> TRUE]
  /\ pc = [w \in Workers |-> "loop"]
  /\ closing = [w \in Workers |-> w]

\* readCB, up to the application's callback
Dispatch(w) ==
  /\ pc[w] = "loop"
  /\ readEvent[w]
  /\ pc' = [pc EXCEPT ![w] = "user"]
  /\ UNCHANGED <<closed, readEvent, socketOpen, closing>>

\* Handle::close, for any connection: only the first to set _close goes on.
TestAndSetClose(w, c) ==
  /\ pc[w] = "user"
  /\ closed' = [closed EXCEPT ![c] = TRUE]
  /\ IF closed[c]
     THEN UNCHANGED <<pc, closing>>
     ELSE pc' = [pc EXCEPT ![w] = "del"] /\ closing' = [closing EXCEPT ![w] = c]
  /\ UNCHANGED <<readEvent, socketOpen>>

\* event_del
DelRead(w) ==
  LET c == closing[w]
  IN /\ pc[w] = "del"
     /\ c = w \/ pc[c] = "loop"
     /\ readEvent' = [readEvent EXCEPT ![c] = FALSE]
     /\ pc' = [pc EXCEPT ![w] = "close"]
     /\ UNCHANGED <<closed, socketOpen, closing>>

CloseSocket(w) ==
  /\ pc[w] = "close"
  /\ socketOpen' = [socketOpen EXCEPT ![closing[w]] = FALSE]
  /\ pc' = [pc EXCEPT ![w] = "user"]
  /\ UNCHANGED <<closed, readEvent, closing>>

EndUser(w) ==
  /\ pc[w] = "user"
  /\ pc' = [pc EXCEPT ![w] = "loop"]
  /\ UNCHANGED <<closed, readEvent, socketOpen, closing>>

Next ==
  \E w \in Workers :
    \/ Dispatch(w) \/ DelRead(w) \/ CloseSocket(w) \/ EndUser(w)
    \/ \E c \in Workers : TestAndSetClose(w, c)

\* Library code runs, application code returns.
FairSpec ==
  /\ Init /\ [][Next]_vars
  /\ \A w \in Workers :
       WF_vars(DelRead(w) \/ CloseSocket(w)) /\ SF_vars(DelRead(w)) /\ SF_vars(EndUser(w))

\* A connection that has been closed has its descriptor closed: close comes
\* back, whatever the callbacks of other connections do.
CloseReturns == \A c \in Workers : closed[c] ~> ~socketOpen[c]

=============================================================================
