----------------------------- MODULE Connection -----------------------------
(***************************************************************************)
(* One Stewardess connection and everybody who touches it.                 *)
(*                                                                         *)
(* The connection object (src/src/Connection.cpp) counts the Handles that  *)
(* refer to it (src/src/Handle.cpp) and carries a close flag, a socket and *)
(* three libevent events.  Its events run on one event loop, the Worker;   *)
(* the thread that accepted or dialled the socket, Control, publishes it;  *)
(* any number of Users own Handles and call it from other threads.  The    *)
(* callbacks of src/src/EventCallbacks.cpp run application code, which may *)
(* use every Handle its thread owns.                                       *)
(*                                                                         *)
(* Every read or write of an atomic, every critical section of _theMutex   *)
(* and every libevent call is a step of its own.  A thread that would      *)
(* touch the object after it was deleted stops: what a program does after  *)
(* its first use of freed memory is not defined, the properties are about  *)
(* reaching that point.                                                    *)
(***************************************************************************)
EXTENDS Integers, FiniteSets

CONSTANTS
  Users,           (* application threads other than the two below          *)
  Worker,          (* the event loop the connection's events belong to      *)
  Control,         (* the thread that accepts or dials, then publishes      *)
  NoOne,           (* owner of a dead Handle, holder of a free mutex        *)
  Handles,         (* Handle objects application code can create            *)
  ControlOnLoop,   (* numThreads = 0, and the connection is accepted, dialled
                      for a request or dialled by a callback: Control's code
                      runs on the Worker's loop.  FALSE when it does not, as
                      in connectTo of another thread, even if numThreads = 0 *)
  Releasers,       (* threads whose application code destroys Handles       *)
  SelfAssigns,     (* the ways the application assigns a Handle to itself   *)
  SerializeErrors, (* the serializer's serialize() may call pushError       *)
  EmptyChunks,     (* a queued buffer may hold a chunk of no bytes          *)
  MaxBuffers,      (* bound on the queue of serialized buffers              *)
  MaxItems         (* bound on the payloads and errors in one read          *)

LoopThreads == {Worker, Control}
Threads     == Users \cup LoopThreads

\* A loop thread's own Handle - temp_handle of readCB and writeCB, the
\* argument of the Connect event - is named after the thread.
HandleIds   == Handles \cup LoopThreads

ASSUME ConnectionAssumption ==
  /\ Worker # Control
  /\ Users \cap LoopThreads = {}
  /\ NoOne \notin Threads
  /\ Handles \cap Threads = {}
  /\ IsFiniteSet(Users) /\ IsFiniteSet(Handles)
  /\ ControlOnLoop \in BOOLEAN
  /\ SerializeErrors \in BOOLEAN
  /\ EmptyChunks \in BOOLEAN
  /\ Releasers \subseteq Threads
  /\ SelfAssigns \subseteq {"copy", "move"}
  /\ MaxBuffers \in Nat \ {0}
  /\ MaxItems \in Nat \ {0}

VARIABLES
  references,      (* _references                                           *)
  closed,          (* _close                                                *)
  owner,           (* which thread owns each Handle object                  *)
  freed,           (* closeConnection has deleted the object                *)
  socketOpen,      (* ::close( _socket ) has not been called                *)
  readEvent,       (* the libevent events that are pending                  *)
  writeEvent,
  destroyEvent,
  theMutex,        (* holder of _theMutex                                   *)
  buffers,         (* length of the serializer's buffer queue               *)
  errors,          (* the serializer's error queue is not empty             *)
  good,            (* the local variable good of the running callback       *)
  items,           (* payloads and errors the running readCB has to deliver *)
  current,         (* the event whose callback the Worker is running        *)
  pc,              (* where each thread is                                  *)
  ret,             (* where the member function it runs returns to          *)
  resume           (* where the callback it runs returns to                 *)

object  == <<references, closed, owner, freed>>
events  == <<socketOpen, readEvent, writeEvent, destroyEvent>>
queues  == <<theMutex, buffers, errors>>
locals  == <<good, items>>
control == <<current, pc, ret, resume>>
vars    == <<object, events, queues, locals, control>>

-----------------------------------------------------------------------------
(* Labels.  "user" is application code: always for Users, inside a         *)
(* callback for the loop threads.                                          *)

DecrementLabels == {"loadReferences", "testClose", "arm"}
CloseLabels     == {"close", "delRead", "delWrite", "closeSocket", "lastReference"}
MemberLabels    == DecrementLabels \cup CloseLabels \cup {"addWrite", "recount"}
CallbackLabels  == {"request", "acquire", "check", "readSocket", "hangup",
                    "deliver", "errors", "drain", "writeSocket", "writeFailed",
                    "announce", "finish"}
IdleLabels      == {"user", "loop", "done"}
Labels          == IdleLabels \cup MemberLabels \cup CallbackLabels
                     \cup {"publish", "destroy"}
\* Where a member function, or a callback of the application, can return to.
ReturnLabels    == {"user", "loop", "done", "hangup", "writeFailed", "recount"}
ResumeLabels    == {"user", "loop", "deliver", "errors", "finish"}

Live        == {h \in HandleIds : owner[h] # NoOne}
Owns(t)     == \E h \in HandleIds : owner[h] = t

\* Code that runs on the loop of the connection's event base.
InBase(t)   == t = Worker \/ (ControlOnLoop /\ t = Control)

Goto(t, l)      == /\ pc' = [pc EXCEPT ![t] = l]
                   /\ UNCHANGED <<ret, resume, current>>
Call(t, l, r)   == /\ pc' = [pc EXCEPT ![t] = l]
                   /\ ret' = [ret EXCEPT ![t] = r]
                   /\ UNCHANGED <<resume, current>>
Callback(t, r)  == /\ pc' = [pc EXCEPT ![t] = "user"]
                   /\ resume' = [resume EXCEPT ![t] = r]
                   /\ UNCHANGED <<ret, current>>
EndAt(t, l)     == /\ pc' = [pc EXCEPT ![t] = l]
                   /\ current' = IF l = "loop" THEN "none" ELSE current
Return(t)       == /\ EndAt(t, ret[t])
                   /\ ret' = [ret EXCEPT ![t] = "user"]
                   /\ UNCHANGED resume
Resume(t)       == /\ EndAt(t, resume[t])
                   /\ resume' = [resume EXCEPT ![t] = "user"]
                   /\ UNCHANGED ret

\* t is about to execute label l on an object that still exists.
At(t, l)        == pc[t] = l /\ ~freed

Init ==
  /\ references = 0
  /\ closed = FALSE
  /\ owner = [h \in HandleIds |-> NoOne]
  /\ freed = FALSE
  /\ socketOpen = TRUE
  /\ readEvent = FALSE
  /\ writeEvent = FALSE
  /\ destroyEvent = FALSE
  /\ theMutex = NoOne
  /\ buffers = 0
  /\ errors = FALSE
  /\ good = FALSE
  /\ items = 0
  /\ current = "none"
  /\ pc = [t \in Threads |-> CASE t = Worker  -> "loop"
                               [] t = Control -> "publish"
                               [] OTHER       -> "user"]
  /\ ret = [t \in Threads |-> "user"]
  /\ resume = [t \in Threads |-> "user"]

-----------------------------------------------------------------------------
(* Faults.  Each is the action it is named after with one mistake in it;    *)
(* the specification does not use them, they show that a property can fail. *)

\* _references-- == 0, the test made on the value before the decrement
LoadReferencesFirst(t) ==
  /\ At(t, "loadReferences")
  /\ \/ references + 1 = 0 /\ Goto(t, "testClose")
     \/ references + 1 # 0 /\ Return(t)
  /\ UNCHANGED <<object, events, queues, locals>>

\* _references <= 1
LoadReferencesLoose(t) ==
  /\ At(t, "loadReferences")
  /\ \/ references <= 1 /\ Goto(t, "testClose")
     \/ references > 1 /\ Return(t)
  /\ UNCHANGED <<object, events, queues, locals>>

\* A loop that event_add does not wake when another thread calls it
ArmInLoopOnly(t) ==
  /\ At(t, "arm")
  /\ destroyEvent' = (destroyEvent \/ InBase(t))
  /\ Return(t)
  /\ UNCHANGED <<object, socketOpen, readEvent, writeEvent, queues, locals>>

\* No if ( ! close ) in Connection::close
SetClose(t) ==
  /\ At(t, "close")
  /\ theMutex = NoOne
  /\ closed' = TRUE
  /\ Goto(t, "delRead")
  /\ UNCHANGED <<references, owner, freed, events, queues, locals>>

\* No event_del( _readEvent )
KeepRead(t) ==
  /\ At(t, "delRead")
  /\ Goto(t, "delWrite")
  /\ UNCHANGED <<object, events, queues, locals>>

\* evthread_use_pthreads was not called: event_del does not wait.
DelWriteAtOnce(t) ==
  /\ At(t, "delWrite")
  /\ writeEvent' = FALSE
  /\ Goto(t, "closeSocket")
  /\ UNCHANGED <<object, socketOpen, readEvent, destroyEvent, queues, locals>>

\* No if ( _references == 0 ) in Connection::close
LastReferenceUntested(t) ==
  /\ At(t, "lastReference")
  /\ Goto(t, "arm")
  /\ UNCHANGED <<object, events, queues, locals>>

\* The event is not added when writeCB is already running.
AddWriteUnlessRunning(t) ==
  /\ At(t, "addWrite")
  /\ writeEvent' = (writeEvent \/ current # "write")
  /\ theMutex' = NoOne
  /\ Return(t)
  /\ UNCHANGED <<object, socketOpen, readEvent, destroyEvent, buffers, errors, locals>>

\* A copy constructor that does not increment
CopyUncounted(t, h, copy, u) ==
  /\ At(t, "user")
  /\ owner[h] = t
  /\ owner[copy] = NoOne
  /\ owner' = [owner EXCEPT ![copy] = u]
  /\ UNCHANGED <<references, closed, freed, events, queues, locals, control>>

\* while ( true ) in readCB
CheckNothing ==
  /\ At(Worker, "check")
  /\ good' = TRUE
  /\ \/ current = "write" /\ Goto(Worker, "errors")
     \/ current = "read" /\ Goto(Worker, "readSocket")
  /\ UNCHANGED <<object, events, queues, items>>

\* getBuffer without bufferEmpty
DrainUnchecked ==
  /\ At(Worker, "drain")
  /\ \/ good /\ buffers' = buffers - 1 /\ Goto(Worker, "writeSocket")
     \/ ~good /\ buffers' = buffers /\ Goto(Worker, "finish")
  /\ UNCHANGED <<object, events, theMutex, errors, locals>>

-----------------------------------------------------------------------------
(* Handle: copy, move, destroy, close and write from application code      *)

\* Handle( const Handle& ): one atomic increment.  The copy may be left
\* where another thread u will use it.
Copy(t, h, copy, u) ==
  /\ At(t, "user")
  /\ owner[h] = t
  /\ owner[copy] = NoOne
  /\ owner' = [owner EXCEPT ![copy] = u]
  /\ references' = references + 1
  /\ UNCHANGED <<closed, freed, events, queues, locals, control>>

\* Handle( Handle&& ): the pointer changes hands, the count does not.
Move(t, h, u) ==
  /\ pc[t] = "user"
  /\ owner[h] = t
  /\ owner' = [owner EXCEPT ![h] = u]
  /\ UNCHANGED <<references, closed, freed, events, queues, locals, control>>

\* ~Handle, release, and the first half of operator=: the decrement itself.
\* What decrementReferences does next is LoadReferences and TestClose.  The
\* second half of operator= is Copy or Move, when it has another Handle to take.
Drop(t, h, r) ==
  /\ owner[h] = t
  /\ owner' = [owner EXCEPT ![h] = NoOne]
  /\ references' = references - 1
  /\ Call(t, "loadReferences", r)
  /\ UNCHANGED <<closed, freed, events>>

Release(t, h) ==
  /\ At(t, "user")
  /\ t \in Releasers
  /\ Drop(t, h, "user")
  /\ UNCHANGED <<queues, locals>>

\* operator= with the Handle itself on the right: it gives up its reference
\* and keeps its pointer.  The copy counts itself again when decrementReferences
\* has returned, the move does not.  (temp_handle of readCB and writeCB is out
\* of the application's reach, the argument of the Connect event is not.)
AssignToItself(t, h) ==
  /\ At(t, "user")
  /\ owner[h] = t
  /\ references' = references - 1
  /\ \/ "copy" \in SelfAssigns /\ Call(t, "loadReferences", "recount")
     \/ /\ "move" \in SelfAssigns
        /\ references > 0    \* bound: the counter does not wrap by itself
        /\ Call(t, "loadReferences", "user")
  /\ UNCHANGED <<closed, owner, freed, events, queues, locals>>

Recount(t) ==
  /\ At(t, "recount")
  /\ references' = references + 1
  /\ Goto(t, "user")
  /\ UNCHANGED <<closed, owner, freed, events, queues, locals>>

LoadReferences(t) ==
  /\ At(t, "loadReferences")
  /\ \/ references = 0 /\ Goto(t, "testClose")
     \/ references # 0 /\ Return(t)
  /\ UNCHANGED <<object, events, queues, locals>>

TestClose(t) ==
  /\ At(t, "testClose")
  /\ \/ closed /\ Goto(t, "arm")
     \/ ~closed /\ Return(t)
  /\ UNCHANGED <<object, events, queues, locals>>

\* event_add( _destroyEvent, &immediately )
Arm(t) ==
  /\ At(t, "arm")
  /\ destroyEvent' = TRUE
  /\ Return(t)
  /\ UNCHANGED <<object, socketOpen, readEvent, writeEvent, queues, locals>>

\* Handle::close
CloseHandle(t) ==
  /\ At(t, "user")
  /\ Owns(t)
  /\ Call(t, "close", "user")
  /\ UNCHANGED <<object, events, queues, locals>>

\* The critical section of Connection::close: only the first caller goes on.
TestAndSetClose(t) ==
  /\ At(t, "close")
  /\ theMutex = NoOne
  /\ closed' = TRUE
  /\ \/ closed /\ Return(t)
     \/ ~closed /\ Goto(t, "delRead")
  /\ UNCHANGED <<references, owner, freed, events, queues, locals>>

\* event_del waits while the event's callback runs in another thread.
DelRead(t) ==
  /\ At(t, "delRead")
  /\ InBase(t) \/ current # "read"
  /\ readEvent' = FALSE
  /\ Goto(t, "delWrite")
  /\ UNCHANGED <<object, socketOpen, writeEvent, destroyEvent, queues, locals>>

DelWrite(t) ==
  /\ At(t, "delWrite")
  /\ InBase(t) \/ current # "write"
  /\ writeEvent' = FALSE
  /\ Goto(t, "closeSocket")
  /\ UNCHANGED <<object, socketOpen, readEvent, destroyEvent, queues, locals>>

CloseSocket(t) ==
  /\ At(t, "closeSocket")
  /\ socketOpen' = FALSE
  /\ Goto(t, "lastReference")
  /\ UNCHANGED <<object, readEvent, writeEvent, destroyEvent, queues, locals>>

LastReference(t) ==
  /\ At(t, "lastReference")
  /\ \/ references = 0 /\ Goto(t, "arm")
     \/ references # 0 /\ Return(t)
  /\ UNCHANGED <<object, events, queues, locals>>

\* Handle::write up to serialize: holds _theMutex, tests no flag.
Write(t) ==
  /\ At(t, "user")
  /\ Owns(t)
  /\ theMutex = NoOne
  /\ theMutex' = t
  /\ \/ /\ buffers < MaxBuffers
        /\ buffers' = buffers + 1
        /\ UNCHANGED errors
     \/ /\ SerializeErrors
        /\ errors' = TRUE
        /\ UNCHANGED buffers
  /\ Call(t, "addWrite", "user")
  /\ UNCHANGED <<object, events, locals>>

\* event_add( _writeEvent, nullptr ) and the end of the critical section
AddWrite(t) ==
  /\ At(t, "addWrite")
  /\ writeEvent' = TRUE
  /\ theMutex' = NoOne
  /\ Return(t)
  /\ UNCHANGED <<object, socketOpen, readEvent, destroyEvent, buffers, errors, locals>>

\* A callback of the application returns to the library.
EndCallback(t) ==
  /\ t \in LoopThreads
  /\ pc[t] = "user"
  /\ resume[t] = "loop" \/ ~freed
  /\ Resume(t)
  /\ UNCHANGED <<object, events, queues, locals>>

-----------------------------------------------------------------------------
(* The Worker's loop and the event callbacks                               *)

LoopIdle == pc[Worker] = "loop" /\ (ControlOnLoop => pc[Control] = "done")

Dispatch(event, label) ==
  /\ LoopIdle
  /\ current' = event
  /\ pc' = [pc EXCEPT ![Worker] = label]
  /\ UNCHANGED <<ret, resume>>

\* EV_READ|EV_PERSIST: the event stays pending while readCB runs.
DispatchRead ==
  /\ readEvent /\ ~freed
  /\ Dispatch("read", "request")
  /\ UNCHANGED <<object, events, queues, locals>>

\* EV_WRITE without EV_PERSIST: no longer pending when writeCB starts.
DispatchWrite ==
  /\ writeEvent /\ ~freed
  /\ writeEvent' = FALSE
  /\ Dispatch("write", "request")
  /\ UNCHANGED <<object, socketOpen, readEvent, destroyEvent, queues, locals>>

DispatchDestroy ==
  /\ destroyEvent /\ ~freed
  /\ destroyEvent' = FALSE
  /\ Dispatch("destroy", "destroy")
  /\ UNCHANGED <<object, socketOpen, readEvent, writeEvent, queues, locals>>

\* Any other callback on the same loop: another connection's event, onTick,
\* onTimer.  Application code runs with the Handles it has stored.
DispatchOther ==
  /\ LoopIdle
  /\ current' = "other"
  /\ pc' = [pc EXCEPT ![Worker] = "user"]
  /\ resume' = [resume EXCEPT ![Worker] = "loop"]
  /\ UNCHANGED <<ret, object, events, queues, locals>>

\* requestHandle, first half: a null Handle when _close is set.
RequestHandle(t) ==
  /\ At(t, "request")
  /\ \/ ~closed /\ Goto(t, "acquire")
     \/ closed /\ Goto(t, IF t = Worker THEN "check" ELSE "announce")
  /\ UNCHANGED <<object, events, queues, locals>>

\* requestHandle, second half: Handle( this ) increments the count.
AcquireHandle(t) ==
  /\ At(t, "acquire")
  /\ owner' = [owner EXCEPT ![t] = t]
  /\ references' = references + 1
  /\ Goto(t, IF t = Worker THEN "check" ELSE "announce")
  /\ UNCHANGED <<closed, freed, events, queues, locals>>

\* good = connection->isOpen() && temp_handle
CheckOpen ==
  /\ At(Worker, "check")
  /\ LET open == ~closed /\ owner[Worker] = Worker
     IN /\ good' = open
        /\ \/ current = "write" /\ Goto(Worker, "errors")
           \/ current = "read" /\ open /\ Goto(Worker, "readSocket")
           \/ current = "read" /\ ~open /\ Goto(Worker, "deliver")
  /\ UNCHANGED <<object, events, queues, items>>

\* readCB reads until EAGAIN; all the data of one call is one step.
ReadData ==
  /\ At(Worker, "readSocket")
  /\ items = 0
  /\ items' \in 1 .. MaxItems
  /\ UNCHANGED <<object, events, queues, good, control>>

ReadAgain ==
  /\ At(Worker, "readSocket")
  /\ Goto(Worker, "deliver")
  /\ UNCHANGED <<object, events, queues, locals>>

\* End of file or a socket error: close(), then the Disconnect event.
ReadFails ==
  /\ At(Worker, "readSocket")
  /\ Call(Worker, "close", "hangup")
  /\ UNCHANGED <<object, events, queues, locals>>

ReportHangup ==
  /\ At(Worker, "hangup")
  /\ Callback(Worker, "deliver")
  /\ UNCHANGED <<object, events, queues, locals>>

\* deserialize, then onRead for every payload, then the errors.
Deliver ==
  /\ At(Worker, "deliver")
  /\ \/ /\ items > 0
        /\ items' = items - 1
        /\ Callback(Worker, "deliver")
        /\ UNCHANGED errors
     \/ /\ items = 0 /\ errors
        /\ errors' = FALSE
        /\ Callback(Worker, "deliver")
        /\ UNCHANGED items
     \/ /\ items = 0 /\ ~errors
        /\ Goto(Worker, "finish")
        /\ UNCHANGED <<errors, items>>
  /\ UNCHANGED <<object, events, theMutex, buffers, good>>

\* writeCB reports the serializer's errors before it writes.
ReportErrors ==
  /\ At(Worker, "errors")
  /\ \/ /\ errors
        /\ errors' = FALSE
        /\ Callback(Worker, "errors")
     \/ /\ ~errors
        /\ Goto(Worker, "drain")
        /\ UNCHANGED errors
  /\ UNCHANGED <<object, events, theMutex, buffers, locals>>

\* while ( ! serializer->bufferEmpty() && good ), and onWrite at the end
Drain ==
  /\ At(Worker, "drain")
  /\ \/ /\ buffers > 0 /\ good
        /\ buffers' = buffers - 1
        /\ Goto(Worker, "writeSocket")
     \/ /\ buffers = 0 /\ good
        /\ Callback(Worker, "finish")
        /\ UNCHANGED buffers
     \/ /\ ~good
        /\ Goto(Worker, "finish")
        /\ UNCHANGED buffers
  /\ UNCHANGED <<object, events, theMutex, errors, locals>>

WriteDone ==
  /\ At(Worker, "writeSocket")
  /\ Goto(Worker, "drain")
  /\ UNCHANGED <<object, events, queues, locals>>

\* write() of a chunk of no bytes returns 0, taken for an end of file.
WriteNothing ==
  /\ At(Worker, "writeSocket")
  /\ EmptyChunks
  /\ good' = FALSE
  /\ Goto(Worker, "drain")
  /\ UNCHANGED <<object, events, queues, items>>

\* EAGAIN or a socket error: close(), then the DisconnectError event.
WriteFails ==
  /\ At(Worker, "writeSocket")
  /\ good' = FALSE
  /\ Call(Worker, "close", "writeFailed")
  /\ UNCHANGED <<object, events, queues, items>>

ReportWriteFailure ==
  /\ At(Worker, "writeFailed")
  /\ Callback(Worker, "finish")
  /\ UNCHANGED <<object, events, queues, locals>>

\* touchAccess, then the locals go out of scope: the destructor of the
\* callback's own Handle is the last thing it does.
Finish(t) ==
  /\ At(t, "finish")
  /\ LET end == IF t = Worker THEN "loop" ELSE "done"
     IN \/ Drop(t, t, end)
        \/ /\ owner[t] # t
           /\ EndAt(t, end)
           /\ UNCHANGED <<object, events, ret, resume>>
  /\ good' = IF t = Worker THEN FALSE ELSE good
  /\ UNCHANGED <<queues, items>>

\* destroyCB, closeConnection and ~Connection
Destroy ==
  /\ At(Worker, "destroy")
  /\ freed' = TRUE
  /\ readEvent' = FALSE
  /\ writeEvent' = FALSE
  /\ destroyEvent' = FALSE
  /\ buffers' = 0
  /\ errors' = FALSE
  /\ EndAt(Worker, "loop")
  /\ UNCHANGED <<references, closed, owner, socketOpen, theMutex, locals, ret, resume>>

-----------------------------------------------------------------------------
(* Control: listenerAcceptCB, connectCB or connectTo                       *)

\* addConnection inserts the object in the map and opens it.
Publish ==
  /\ At(Control, "publish")
  /\ readEvent' = TRUE
  /\ Goto(Control, "request")
  /\ UNCHANGED <<object, socketOpen, writeEvent, destroyEvent, queues, locals>>

\* onConnectionEvent( connection->requestHandle(), Connect )
Announce ==
  /\ At(Control, "announce")
  /\ Callback(Control, "finish")
  /\ UNCHANGED <<object, events, queues, locals>>

-----------------------------------------------------------------------------
(* The system                                                              *)

\* What application code chooses to do: nothing obliges it to.
Application(t) ==
  \/ \E h \in HandleIds, copy \in Handles, u \in Threads : Copy(t, h, copy, u)
  \/ \E h \in Handles, u \in Threads : Move(t, h, u)
  \/ \E h \in Handles : Release(t, h)
  \/ \E h \in Handles \cup {Control} : AssignToItself(t, h)
  \/ CloseHandle(t)
  \/ Write(t)

\* Member functions of Handle and Connection that t has entered.
Member(t) ==
  \/ LoadReferences(t)
  \/ TestClose(t)
  \/ Arm(t)
  \/ TestAndSetClose(t)
  \/ DelRead(t)
  \/ DelWrite(t)
  \/ CloseSocket(t)
  \/ LastReference(t)
  \/ AddWrite(t)
  \/ Recount(t)

Common(t) == RequestHandle(t) \/ AcquireHandle(t) \/ Finish(t)

\* readCB, writeCB and destroyCB.
WorkerCallback ==
  \/ Common(Worker)
  \/ CheckOpen
  \/ ReadData \/ ReadAgain \/ ReadFails \/ ReportHangup \/ Deliver
  \/ ReportErrors \/ Drain
  \/ WriteDone \/ WriteNothing \/ WriteFails \/ ReportWriteFailure
  \/ Destroy

ControlCallback == Publish \/ Common(Control) \/ Announce

Dispatches == DispatchRead \/ DispatchWrite \/ DispatchDestroy \/ DispatchOther

Next ==
  \/ \E t \in Threads : Application(t) \/ Member(t)
  \/ \E t \in LoopThreads : EndCallback(t)
  \/ WorkerCallback
  \/ ControlCallback
  \/ Dispatches

Spec == Init /\ [][Next]_vars

\* The scheduler runs every thread.  The loop runs every event it found active
\* before it waits again, so none is passed over for ever, and callbacks of
\* the application return.  What the application does in them is its choice.
Fairness ==
  /\ \A t \in Threads : WF_vars(Member(t))
  /\ WF_vars(WorkerCallback)
  /\ WF_vars(ControlCallback)
  /\ SF_vars(DispatchWrite)
  /\ SF_vars(DispatchDestroy)
  /\ \A t \in LoopThreads : SF_vars(EndCallback(t))

FairSpec == Spec /\ Fairness

-----------------------------------------------------------------------------
(* Properties                                                              *)

\* Every variable has its type: the queue is never popped when it is empty.  A
\* count below zero stands for the large value it wraps to.
TypeOK ==
  /\ references \in Int
  /\ closed \in BOOLEAN
  /\ owner \in [HandleIds -> Threads \cup {NoOne}]
  /\ freed \in BOOLEAN
  /\ socketOpen \in BOOLEAN
  /\ readEvent \in BOOLEAN
  /\ writeEvent \in BOOLEAN
  /\ destroyEvent \in BOOLEAN
  /\ theMutex \in Threads \cup {NoOne}
  /\ buffers \in 0 .. MaxBuffers
  /\ errors \in BOOLEAN
  /\ good \in BOOLEAN
  /\ items \in 0 .. MaxItems
  /\ current \in {"none", "read", "write", "destroy", "other"}
  /\ pc \in [Threads -> Labels]
  /\ ret \in [Threads -> ReturnLabels]
  /\ resume \in [Threads -> ResumeLabels]

\* The count is the number of Handle objects that point at the connection,
\* but for those that are being assigned to themselves.
Reassigning    == {t \in Threads : pc[t] = "recount" \/ ret[t] = "recount"}
HandlesCounted == references + Cardinality(Reassigning) = Cardinality(Live)

\* A closed connection nobody refers to is never forgotten: its destruction
\* is pending, or some thread is on a path that decides to arm it.
AboutToArm == DecrementLabels \cup (CloseLabels \ {"close"})
NoLostDestroy ==
  closed /\ references = 0 /\ ~freed /\ ~destroyEvent
    => \/ \E t \in Threads : pc[t] \in AboutToArm
       \/ pc[Worker] = "destroy"

\* However many threads close at once, one of them takes the events down and
\* closes the descriptor, and the descriptor is still the connection's then.
Closing(t) == pc[t] \in {"delRead", "delWrite", "closeSocket"}
OneCloser ==
  \A t \in Threads : Closing(t) =>
    /\ closed /\ socketOpen
    /\ \A u \in Threads \ {t} : ~Closing(u)

\* Once the descriptor is closed its read event stays down: a descriptor the
\* system has given to another connection is not read for this one.
ClosedNotReading == ~socketOpen => ~readEvent

\* read() and write() are called on the descriptor only while it is open:
\* event_del waits for the callback, and the callback's flag good is fresh.
NoIOOnClosedSocket == pc[Worker] \in {"readSocket", "writeSocket"} => socketOpen

\* A queued buffer of an open connection has somebody to send it: the write
\* event is pending, or writeCB runs, or the writer is about to add the event.
NoLostWrite ==
  buffers > 0 /\ ~closed => writeEvent \/ current = "write" \/ theMutex # NoOne

\* The connection data is not deallocated before all Handles are destroyed.
NoDanglingHandle == freed => Live = {}

\* No thread is inside the library with a pointer to deleted data.
NoUseAfterFree == freed => \A t \in Threads : pc[t] \in IdleLabels

\* The destructor of a Handle is done with the object before the object goes,
\* even when every Handle has been destroyed.
NoLateDecrement == freed /\ Live = {} => \A t \in Threads : pc[t] \notin DecrementLabels

\* Application callbacks of a connection's events get a Handle of it.
CallbackHasHandle ==
  \A t \in LoopThreads :
    pc[t] = "user" /\ resume[t] # "loop" /\ resume[t] # "user" => owner[t] = t

\* A write to a closed connection fails: nothing is queued.
WriteFailsWhenClosed == [][closed => buffers' <= buffers]_vars

\* The code as an implementation of the promise it makes to Handles: the
\* Handles that refer to the connection, the close flag and the allocation
\* change the way HandleContract allows, and a due deallocation happens.
Contract == INSTANCE HandleContract
              WITH live <- Live, open <- ~closed, exists <- ~freed
HonoursContract == Contract!Spec

\* The same without the liveness of the contract.
ContractSafety  == Contract!Init /\ [][Contract!Next]_(Contract!vars)

\* A closed connection without Handles is deleted, unless a thread that was
\* already inside requestHandle obtains one after all.
ClosedIsDestroyed == closed /\ references = 0 ~> freed \/ references > 0

\* What was queued is sent, or the connection is closed - unless somebody
\* writes for ever: a mutex is not fair, and a thread in Connection::close may
\* lose it to the writer every time.
KeepsWriting == []<><<\E t \in Threads : Write(t)>>_vars
WritesLeave  == KeepsWriting \/ (buffers > 0 ~> buffers = 0 \/ closed)

=============================================================================
