----------------------------- MODULE Lifecycle ------------------------------
(***************************************************************************)
(* The life of a manager: ManagerImpl::run, shutdown, abort and _cleanup   *)
(* (src/src/ManagerImpl.cpp), the worker threads (src/src/WorkerThread.cpp)*)
(* and the callbacks of the control loop (src/src/EventCallbacks.cpp), with *)
(* the application's own timers.                                           *)
(*                                                                         *)
(* A connection is here only what the manager makes of it: an entry of the *)
(* map, whose events run on one loop.  Module Connection has its inside,   *)
(* module Connecting the way there.                                        *)
(*                                                                         *)
(* libevent, as the code uses it: event_base_loopbreak sets a flag of the  *)
(* base; a loop clears the flag when it is entered and looks at it before  *)
(* every callback; event_free, from another thread, waits for a running    *)
(* callback of that event, and of no other, to end.                        *)
(*                                                                         *)
(* The run ends in one of four ways: run returns; it throws on what it has *)
(* caught; an exception it does not catch leaves it as it is ("escaped");  *)
(* or the process is terminated, after which there is no step.             *)
(***************************************************************************)
EXTENDS Integers, FiniteSets

CONSTANTS
  Main,            (* the thread that calls run                             *)
  Workers,         (* numThreads worker threads                             *)
  NoOne,           (* holder of a free mutex                                *)
  Connections,     (* connections that can come about                       *)
  NoConnection,    (* what a loop works on between two callbacks            *)
  Stoppers,        (* threads whose application code calls abort, shutdown  *)
  Diallers,        (* threads whose application code calls connectTo,       *)
                   (* getNumberConnections                                  *)
  Closers,         (* threads whose application code closes connections     *)
  Keepers,         (* threads whose application code stores Handles for     *)
                   (* longer than a callback                                *)
  Timers,          (* identifiers of user timers                            *)
  NoTimer,         (* what a thread starts when it starts none              *)
  TimerUsers,      (* threads whose application code makes, starts timers   *)
  PromptWorkers    (* a worker is in its loop before Main's next step       *)

Threads == Workers \cup {Main}
Loops   == Threads   \* each has an event base of its own

ASSUME LifecycleAssumption ==
  /\ Main \notin Workers
  /\ NoOne \notin Threads
  /\ NoConnection \notin Connections
  /\ NoTimer \notin Timers
  /\ Stoppers \cup Diallers \cup Closers \cup Keepers \cup TimerUsers \subseteq Threads
  /\ PromptWorkers \in BOOLEAN

VARIABLES
  abort,             (* _abort                                              *)
  loopBreak,         (* event_break of each base                            *)
  deathEvent,        (* events of the control loop that are pending         *)
  signalEvent,
  listener,          (* _listener accepts                                   *)
  threads,           (* _threads                                            *)
  userTimers,        (* _userTimers, the identifiers in it                  *)
  repeating,         (* those made with repeat = true                       *)
  started,           (* those that have been started                        *)
  timerEvents,       (* those whose event is pending                        *)
  userTimersMutex,   (* holder of _userTimersMutex                          *)
  starting,          (* the timer a thread is in startTimer... for          *)
  firing,            (* the timer the running userTimerCB is for            *)
  connections,       (* _connections                                        *)
  connectionsMutex,  (* holder of _connectionsMutex                         *)
  base,              (* the loop a connection's events belong to            *)
  doomed,            (* connections whose destroy event is pending          *)
  deleted,           (* connections that have been deleted                  *)
  freeing,           (* the connection _cleanup is deleting                 *)
  held,              (* connections each thread's application code has a    *)
                     (* Handle of                                           *)
  thrown,            (* run is on its way to rethrow an exception           *)
  pc,                (* where each thread is                                *)
  ret,               (* where its call of abort returns to                  *)
  resume,            (* where application code returns to                   *)
  serving,           (* the connection whose event callback it runs         *)
  callback,          (* and which: readCB or writeCB (destroyCB is a label) *)
  dialling,          (* the connection it is making                         *)
  toBreak            (* workers its call of abort has yet to break          *)

flags  == <<abort, loopBreak, thrown>>
events == <<deathEvent, signalEvent, listener>>
clocks == <<userTimers, repeating, started, timerEvents, userTimersMutex, starting, firing>>
map    == <<connections, connectionsMutex, base, doomed, deleted, freeing, held>>
calls  == <<serving, callback, dialling>>
stack  == <<ret, resume, calls, toBreak>>
vars   == <<flags, events, threads, clocks, map, pc, stack>>

AbortLabels  == {"abort", "break"}
LoopLabels   == {"loop", "user", "dial", "request", "count", "destroy", "timer", "addTimer"}
FreeLabels   == {"freeRead", "freeWrite", "freeDestroy"}
RunLabels    == {"configure", "spawn", "test", "enter", "stop", "tickTime", "lock", "delete",
                 "join", "returned", "failed", "escaped", "terminated"} \cup FreeLabels
WorkerLabels == {"unborn", "starting", "exited", "joined"}
Labels       == AbortLabels \cup LoopLabels \cup RunLabels \cup WorkerLabels

Goto(t, l) == pc' = [pc EXCEPT ![t] = l] /\ UNCHANGED stack

\* t runs application code, and returns to r.
User(t, r) ==
  /\ pc' = [pc EXCEPT ![t] = "user"]
  /\ resume' = [resume EXCEPT ![t] = r]
  /\ UNCHANGED <<ret, calls, toBreak>>

\* t is between two callbacks of its loop.
InLoop(t) == pc[t] = "loop" /\ ~loopBreak[t]

\* t runs a callback for event e of c.
Runs(t, c, e) == serving[t] = c /\ callback[t] = e

\* The events of c that ~Connection has freed so far; it frees _readEvent,
\* _writeEvent and _destroyEvent in this order.
Freed(c) ==
  {e \in {"read", "write"} :
     /\ freeing = c
     /\ pc[Main] \in (IF e = "read" THEN {"freeWrite", "freeDestroy"} ELSE {"freeDestroy"})}

\* c is a connection yet to be made.
New(c) == base[c] = NoOne /\ \A t \in Threads : dialling[t] # c

CallAbort(t, r) ==
  /\ pc' = [pc EXCEPT ![t] = "abort"]
  /\ ret' = [ret EXCEPT ![t] = r]
  /\ UNCHANGED <<resume, calls, toBreak>>

Init ==
  /\ abort = FALSE
  /\ loopBreak = [t \in Loops |-> FALSE]
  /\ deathEvent = FALSE
  /\ signalEvent = FALSE
  /\ listener = FALSE
  /\ threads = {}
  /\ userTimers = {}
  /\ repeating = {}
  /\ started = {}
  /\ timerEvents = {}
  /\ userTimersMutex = NoOne
  /\ starting = [t \in Threads |-> NoTimer]
  /\ firing = NoTimer
  /\ connections = {}
  /\ connectionsMutex = NoOne
  /\ base = [c \in Connections |-> NoOne]
  /\ doomed = {}
  /\ deleted = {}
  /\ freeing = NoConnection
  /\ held = [t \in Threads |-> {}]
  /\ thrown = FALSE
  /\ pc = [t \in Threads |-> IF t = Main THEN "configure" ELSE "unborn"]
  /\ ret = [t \in Threads |-> "user"]
  /\ resume = [t \in Threads |-> "loop"]
  /\ serving = [t \in Threads |-> NoConnection]
  /\ callback = [t \in Threads |-> "none"]
  /\ dialling = [t \in Threads |-> NoConnection]
  /\ toBreak = [t \in Threads |-> {}]

-----------------------------------------------------------------------------
(* Faults: the action each is named after, with one mistake in it.         *)

\* The lock is not released when the connection is found.
CloseLocked(t) ==
  /\ pc[t] = "destroy"
  /\ connectionsMutex = NoOne
  /\ connectionsMutex' = t
  /\ deleted' = deleted \cup (connections \cap {serving[t]})
  /\ connections' = connections \ {serving[t]}
  /\ pc' = [pc EXCEPT ![t] = "loop"]
  /\ serving' = [serving EXCEPT ![t] = NoConnection]
  /\ UNCHANGED <<flags, events, threads, clocks, base, doomed, freeing, held, ret, resume, callback,
                 dialling, toBreak>>

\* No erase
CloseKeepsEntry(t) ==
  /\ pc[t] = "destroy"
  /\ connectionsMutex = NoOne
  /\ deleted' = deleted \cup (connections \cap {serving[t]})
  /\ pc' = [pc EXCEPT ![t] = "loop"]
  /\ serving' = [serving EXCEPT ![t] = NoConnection]
  /\ UNCHANGED <<flags, events, threads, clocks, connections, connectionsMutex, base, doomed, freeing,
                 held, ret, resume, callback, dialling, toBreak>>

\* _writeEvent is freed whatever its loop does (event_free_finalize,
\* evthread_use_pthreads not called).
FreeWriteAtOnce ==
  /\ pc[Main] = "freeWrite"
  /\ Goto(Main, "freeDestroy")
  /\ UNCHANGED <<flags, events, threads, clocks, map>>

\* _destroyEvent is freed whatever its loop does.
FreeDestroyAtOnce ==
  /\ pc[Main] = "freeDestroy"
  /\ deleted' = deleted \cup {freeing}
  /\ doomed' = doomed \ {freeing}
  /\ freeing' = NoConnection
  /\ Goto(Main, "delete")
  /\ UNCHANGED <<flags, events, threads, clocks, connections, connectionsMutex, base, held>>

\* _connections.clear() without the loop before it
ClearOnly ==
  /\ pc[Main] = "delete"
  /\ connections' = {}
  /\ connectionsMutex' = NoOne
  /\ Goto(Main, "join")
  /\ UNCHANGED <<flags, events, threads, clocks, base, doomed, deleted, freeing, held>>

\* abort forgets the workers.
SetAbortOnly(t) ==
  /\ pc[t] = "abort"
  /\ abort' = TRUE
  /\ listener' = FALSE
  /\ signalEvent' = FALSE
  /\ pc' = [pc EXCEPT ![t] = "break"]
  /\ UNCHANGED <<loopBreak, thrown, deathEvent, threads, clocks, map,
                 ret, resume, calls, toBreak>>

\* userTimerCB looks at nothing: every timer fires once.
ForgetRepeat ==
  /\ pc[Main] = "timer"
  /\ firing' = NoTimer
  /\ Goto(Main, "loop")
  /\ UNCHANGED <<flags, events, threads, userTimers, repeating, started, timerEvents,
                 userTimersMutex, starting, map>>

\* No event_add
SetTimeOnly(t) ==
  /\ pc[t] = "addTimer"
  /\ started' = started \cup {starting[t]}
  /\ userTimersMutex' = NoOne
  /\ starting' = [starting EXCEPT ![t] = NoTimer]
  /\ Goto(t, "user")
  /\ UNCHANGED <<flags, events, threads, userTimers, repeating, timerEvents, firing, map>>

\* The user timers are freed before the connections.
LockMapClearTimers ==
  /\ pc[Main] = "lock"
  /\ connectionsMutex = NoOne
  /\ connectionsMutex' = Main
  /\ userTimers' = {}
  /\ timerEvents' = {}
  /\ Goto(Main, "delete")
  /\ UNCHANGED <<flags, events, threads, repeating, started, userTimersMutex, starting, firing,
                 connections, base, doomed, deleted, freeing, held>>

\* killTimerCB asks for another shutdown where it aborts.
KillAgain ==
  /\ InLoop(Main)
  /\ deathEvent
  /\ listener' = FALSE
  /\ signalEvent' = FALSE
  /\ User(Main, "loop")
  /\ UNCHANGED <<flags, deathEvent, threads, clocks, map>>

-----------------------------------------------------------------------------
(* run(), up to the control loop                                           *)

\* A started worker may be held back before it enters its loop.
Settled == PromptWorkers => \A w \in threads : pc[w] # "starting"

\* The catch clause of run.
Throw ==
  /\ thrown' = TRUE
  /\ CallAbort(Main, "lock")
  /\ UNCHANGED <<abort, loopBreak, events, threads, clocks, map>>

\* The control base and its events; the signal and the listener on request.
Configure ==
  /\ pc[Main] = "configure"
  /\ signalEvent' \in BOOLEAN
  /\ listener' \in BOOLEAN
  /\ Goto(Main, "spawn")
  /\ UNCHANGED <<flags, deathEvent, threads, clocks, map>>

ConfigureFails == pc[Main] = "configure" /\ Throw

Spawn(w) ==
  /\ pc[Main] = "spawn"
  /\ Settled
  /\ w \notin threads
  /\ threads' = threads \cup {w}
  /\ pc' = [pc EXCEPT ![w] = "starting"]
  /\ UNCHANGED <<flags, events, clocks, map, stack>>

\* There is no event base for the worker.
SpawnFails == pc[Main] = "spawn" /\ Settled /\ threads # Workers /\ Throw

\* std::thread throws std::system_error, which is no Exception: it leaves run,
\* and nothing is aborted, joined or freed.
SpawnThrows ==
  /\ pc[Main] = "spawn"
  /\ Settled
  /\ threads # Workers
  /\ Goto(Main, "escaped")
  /\ UNCHANGED <<flags, events, threads, clocks, map>>

OnStart ==
  /\ pc[Main] = "spawn"
  /\ Settled
  /\ threads = Workers
  /\ User(Main, "test")
  /\ UNCHANGED <<flags, events, threads, clocks, map>>

TestAbort ==
  /\ pc[Main] = "test"
  /\ Goto(Main, IF abort THEN "stop" ELSE "enter")
  /\ UNCHANGED <<flags, events, threads, clocks, map>>

-----------------------------------------------------------------------------
(* The loops                                                               *)

\* event_base_dispatch, event_base_loop: the break flag is cleared first.
EnterLoop(t) ==
  /\ pc[t] = (IF t = Main THEN "enter" ELSE "starting")
  /\ loopBreak' = [loopBreak EXCEPT ![t] = FALSE]
  /\ Goto(t, "loop")
  /\ UNCHANGED <<abort, thrown, events, threads, clocks, map>>

LeaveLoop(t) ==
  /\ pc[t] = "loop"
  /\ loopBreak[t]
  /\ Goto(t, IF t = Main THEN "stop" ELSE "exited")
  /\ UNCHANGED <<flags, events, threads, clocks, map>>

\* readCB and writeCB, which hold a Handle for as long as they run.
DispatchIO(t, c) ==
  /\ InLoop(t)
  /\ c \in connections \ (deleted \cup doomed)
  /\ base[c] = t
  /\ \E e \in {"read", "write"} \ Freed(c) : callback' = [callback EXCEPT ![t] = e]
  /\ serving' = [serving EXCEPT ![t] = c]
  /\ held' = [held EXCEPT ![t] = @ \cup {c}]
  /\ pc' = [pc EXCEPT ![t] = "user"]
  /\ UNCHANGED <<flags, events, threads, clocks, connections, connectionsMutex, base, doomed, deleted,
                 freeing, ret, resume, dialling, toBreak>>

\* destroyCB, which waits for _connectionsMutex in closeConnection.
DispatchDestroy(t, c) ==
  /\ InLoop(t)
  /\ c \in doomed
  /\ base[c] = t
  /\ doomed' = doomed \ {c}
  /\ pc' = [pc EXCEPT ![t] = "destroy"]
  /\ serving' = [serving EXCEPT ![t] = c]
  /\ UNCHANGED <<flags, events, threads, clocks, connections, connectionsMutex, base, deleted, freeing,
                 held, ret, resume, callback, dialling, toBreak>>

CloseConnection(t) ==
  /\ pc[t] = "destroy"
  /\ connectionsMutex = NoOne
  /\ deleted' = deleted \cup (connections \cap {serving[t]})
  /\ connections' = connections \ {serving[t]}
  /\ pc' = [pc EXCEPT ![t] = "loop"]
  /\ serving' = [serving EXCEPT ![t] = NoConnection]
  /\ UNCHANGED <<flags, events, threads, clocks, connectionsMutex, base, doomed, freeing, held,
                 ret, resume, callback, dialling, toBreak>>

\* listenerAcceptCB
DispatchAccept(c) ==
  /\ InLoop(Main)
  /\ listener
  /\ New(c)
  /\ pc' = [pc EXCEPT ![Main] = "dial"]
  /\ resume' = [resume EXCEPT ![Main] = "loop"]
  /\ dialling' = [dialling EXCEPT ![Main] = c]
  /\ UNCHANGED <<flags, events, threads, clocks, map, ret, serving, callback, toBreak>>

\* listenerErrorCB
DispatchListenerError ==
  /\ InLoop(Main)
  /\ listener
  /\ User(Main, "loop")
  /\ UNCHANGED <<flags, events, threads, clocks, map>>

\* tickTimerCB: onTick, then getTickTime, which locks the map.
DispatchTick ==
  /\ InLoop(Main)
  /\ User(Main, "tickTime")
  /\ UNCHANGED <<flags, events, threads, clocks, map>>

TickTime ==
  /\ pc[Main] = "tickTime"
  /\ connectionsMutex = NoOne
  /\ Goto(Main, "loop")
  /\ UNCHANGED <<flags, events, threads, clocks, map>>

\* killTimerCB
DispatchKill ==
  /\ InLoop(Main)
  /\ deathEvent
  /\ deathEvent' = FALSE
  /\ CallAbort(Main, "loop")
  /\ UNCHANGED <<flags, signalEvent, listener, threads, clocks, map>>

\* interruptSignalCB: shutdown, whose onEvent runs application code.
DispatchSignal ==
  /\ InLoop(Main)
  /\ signalEvent
  /\ deathEvent' = TRUE
  /\ listener' = FALSE
  /\ signalEvent' = FALSE
  /\ User(Main, "loop")
  /\ UNCHANGED <<flags, threads, clocks, map>>

-----------------------------------------------------------------------------
(* Application code and what it calls                                      *)

\* A new connection, for the listener or for connectTo.
AddConnection(t) ==
  /\ pc[t] = "dial"
  /\ connectionsMutex = NoOne
  /\ connections' = connections \cup {dialling[t]}
  /\ \E l \in IF threads = {} THEN {Main} ELSE threads :
       base' = [base EXCEPT ![dialling[t]] = l]
  /\ Goto(t, "request")
  /\ UNCHANGED <<flags, events, threads, clocks, connectionsMutex, doomed, deleted, freeing, held>>

\* _close of a connection that has not been deleted
Closed(c) == c \in doomed \/ \E t \in Threads : pc[t] = "destroy" /\ serving[t] = c

\* requestHandle, for the Connect event or the caller of connectTo: a null Handle
\* if the connection has been closed by now.  It may have been deleted, and then
\* what is read of it is undefined.
RequestHandle(t) ==
  /\ pc[t] = "request"
  /\ \/ held' = held
     \/ ~Closed(dialling[t]) /\ held' = [held EXCEPT ![t] = @ \cup {dialling[t]}]
  /\ pc' = [pc EXCEPT ![t] = "user"]
  /\ dialling' = [dialling EXCEPT ![t] = NoConnection]
  /\ UNCHANGED <<flags, events, threads, clocks, connections, connectionsMutex, base, doomed, deleted,
                 freeing, ret, resume, serving, callback, toBreak>>

ConnectTo(t, c) ==
  /\ pc[t] = "user"
  /\ t \in Diallers
  /\ New(c)
  /\ pc' = [pc EXCEPT ![t] = "dial"]
  /\ dialling' = [dialling EXCEPT ![t] = c]
  /\ UNCHANGED <<flags, events, threads, clocks, map, ret, resume, serving, callback, toBreak>>

\* getNumberConnections
CallCount(t) ==
  /\ pc[t] = "user"
  /\ t \in Diallers
  /\ Goto(t, "count")
  /\ UNCHANGED <<flags, events, threads, clocks, map>>

Count(t) ==
  /\ pc[t] = "count"
  /\ connectionsMutex = NoOne
  /\ Goto(t, "user")
  /\ UNCHANGED <<flags, events, threads, clocks, map>>

\* The end of a Handle that is the application's own.
Release(t, c) ==
  /\ pc[t] = "user"
  /\ c \in held[t] \ {serving[t]}
  /\ held' = [held EXCEPT ![t] = @ \ {c}]
  /\ UNCHANGED <<flags, events, threads, clocks, connections, connectionsMutex, base, doomed, deleted,
                 freeing, pc, stack>>

\* Handle::close and the end of the last Handle: the destroy event is added.
\* That a Handle outlives its connection is HandlesOutlived's affair: it is not
\* closed here.
Close(t, c) ==
  /\ pc[t] = "user"
  /\ t \in Closers
  /\ c \in held[t] \ deleted
  /\ \A u \in Threads \ {t} : c \notin held[u]
  /\ doomed' = doomed \cup {c}
  /\ held' = [held EXCEPT ![t] = @ \ {c}]
  /\ UNCHANGED <<flags, events, threads, clocks, connections, connectionsMutex, base, deleted, freeing,
                 pc, stack>>

\* shutdown: from the application its onEvent is more application code.
Shutdown(t) ==
  /\ pc[t] = "user"
  /\ t \in Stoppers
  /\ deathEvent' = TRUE
  /\ listener' = FALSE
  /\ signalEvent' = FALSE
  /\ UNCHANGED <<flags, threads, clocks, map, pc, stack>>

Abort(t) ==
  /\ pc[t] = "user"
  /\ t \in Stoppers
  /\ CallAbort(t, "user")
  /\ UNCHANGED <<flags, events, threads, clocks, map>>

\* The Handles of t end with the callback, but for those that are stored.
KeepHandles(t) ==
  \E kept \in SUBSET held[t] :
    /\ t \notin Keepers => kept = {}
    /\ held' = [held EXCEPT ![t] = kept]

EndUser(t) ==
  /\ pc[t] = "user"
  /\ KeepHandles(t)
  /\ pc' = [pc EXCEPT ![t] = resume[t]]
  /\ resume' = [resume EXCEPT ![t] = "loop"]
  /\ serving' = [serving EXCEPT ![t] = NoConnection]
  /\ callback' = [callback EXCEPT ![t] = "none"]
  /\ UNCHANGED <<flags, events, threads, clocks, connections, connectionsMutex, base, doomed, deleted,
                 freeing, ret, dialling, toBreak>>

-----------------------------------------------------------------------------
(* User timers                                                             *)

\* createTimer
CreateTimer(t, u) ==
  /\ pc[t] = "user"
  /\ t \in TimerUsers
  /\ userTimersMutex = NoOne
  /\ u \notin userTimers
  /\ userTimers' = userTimers \cup {u}
  /\ \E repeat \in BOOLEAN : repeating' = IF repeat THEN repeating \cup {u} ELSE repeating
  /\ UNCHANGED <<flags, events, threads, started, timerEvents, userTimersMutex, starting, firing,
                 map, pc, stack>>

\* createTimer throws, because the identifier is in use or there is no event; all
\* that has changed is the memory of a TimerData, which nobody frees.  The
\* application does not catch it.  On the main thread run does: onStop, if that is
\* yet to come, is passed over.
CreateTimerThrows ==
  /\ pc[Main] = "user"
  /\ Main \in TimerUsers
  /\ thrown' = TRUE
  /\ KeepHandles(Main)
  /\ firing' = NoTimer
  /\ pc' = [pc EXCEPT ![Main] = "abort"]
  /\ ret' = [ret EXCEPT ![Main] = "lock"]
  /\ resume' = [resume EXCEPT ![Main] = "loop"]
  /\ serving' = [serving EXCEPT ![Main] = NoConnection]
  /\ callback' = [callback EXCEPT ![Main] = "none"]
  /\ UNCHANGED <<abort, loopBreak, events, threads, userTimers, repeating, started, timerEvents,
                 userTimersMutex, starting, connections, connectionsMutex, base, doomed, deleted,
                 freeing, dialling, toBreak>>

\* Nothing catches it on a worker; nor on the main thread in a callback, if the
\* event library was built without tables to unwind it.
Terminate(t) ==
  /\ pc[t] = "user"
  /\ t \in TimerUsers
  /\ t = Main => resume[Main] \notin {"test", "lock"}
  /\ pc' = [u \in Threads |-> "terminated"]
  /\ connectionsMutex' = NoOne
  /\ userTimersMutex' = NoOne
  /\ starting' = [u \in Threads |-> NoTimer]
  /\ firing' = NoTimer
  /\ freeing' = NoConnection
  /\ held' = [u \in Threads |-> {}]
  /\ ret' = [u \in Threads |-> "user"]
  /\ resume' = [u \in Threads |-> "loop"]
  /\ serving' = [u \in Threads |-> NoConnection]
  /\ callback' = [u \in Threads |-> "none"]
  /\ dialling' = [u \in Threads |-> NoConnection]
  /\ toBreak' = [u \in Threads |-> {}]
  /\ UNCHANGED <<flags, events, threads, userTimers, repeating, started, timerEvents, connections, base,
                 doomed, deleted>>

\* startTimerClock and startTimerCountdown: under the lock the timer is looked
\* up and its time is set, then its event is added.  An unknown timer is passed
\* over.
FindTimer(t, u) ==
  /\ pc[t] = "user"
  /\ t \in TimerUsers
  /\ userTimersMutex = NoOne
  /\ u \in userTimers
  /\ userTimersMutex' = t
  /\ starting' = [starting EXCEPT ![t] = u]
  /\ Goto(t, "addTimer")
  /\ UNCHANGED <<flags, events, threads, userTimers, repeating, started, timerEvents, firing, map>>

\* event_add: a timer that is pending is put off.
AddTimer(t) ==
  /\ pc[t] = "addTimer"
  /\ timerEvents' = timerEvents \cup {starting[t]}
  /\ started' = started \cup {starting[t]}
  /\ userTimersMutex' = NoOne
  /\ starting' = [starting EXCEPT ![t] = NoTimer]
  /\ Goto(t, "user")
  /\ UNCHANGED <<flags, events, threads, userTimers, repeating, firing, map>>

\* userTimerCB: onTimer, then the event once more if the timer repeats.
DispatchTimer(u) ==
  /\ InLoop(Main)
  /\ u \in timerEvents
  /\ timerEvents' = timerEvents \ {u}
  /\ firing' = u
  /\ User(Main, "timer")
  /\ UNCHANGED <<flags, events, threads, userTimers, repeating, started, userTimersMutex, starting,
                 map>>

RepeatTimer ==
  /\ pc[Main] = "timer"
  /\ timerEvents' = timerEvents \cup ({firing} \cap repeating)
  /\ firing' = NoTimer
  /\ Goto(Main, "loop")
  /\ UNCHANGED <<flags, events, threads, userTimers, repeating, started, userTimersMutex, starting,
                 map>>

-----------------------------------------------------------------------------
(* abort                                                                   *)

SetAbort(t) ==
  /\ pc[t] = "abort"
  /\ abort' = TRUE
  /\ listener' = FALSE
  /\ signalEvent' = FALSE
  /\ pc' = [pc EXCEPT ![t] = "break"]
  /\ toBreak' = [toBreak EXCEPT ![t] = threads]
  /\ UNCHANGED <<loopBreak, thrown, deathEvent, threads, clocks, map, ret, resume, calls>>

BreakWorker(t, w) ==
  /\ pc[t] = "break"
  /\ w \in toBreak[t]
  /\ loopBreak' = [loopBreak EXCEPT ![w] = TRUE]
  /\ toBreak' = [toBreak EXCEPT ![t] = @ \ {w}]
  /\ UNCHANGED <<abort, thrown, events, threads, clocks, map, pc, ret, resume, calls>>

BreakMain(t) ==
  /\ pc[t] = "break"
  /\ toBreak[t] = {}
  /\ loopBreak' = [loopBreak EXCEPT ![Main] = TRUE]
  /\ pc' = [pc EXCEPT ![t] = ret[t]]
  /\ ret' = [ret EXCEPT ![t] = "user"]
  /\ UNCHANGED <<abort, thrown, events, threads, clocks, map, resume, calls, toBreak>>

-----------------------------------------------------------------------------
(* onStop and _cleanup                                                     *)

OnStop ==
  /\ pc[Main] = "stop"
  /\ User(Main, "lock")
  /\ UNCHANGED <<flags, events, threads, clocks, map>>

LockMap ==
  /\ pc[Main] = "lock"
  /\ connectionsMutex = NoOne
  /\ connectionsMutex' = Main
  /\ Goto(Main, "delete")
  /\ UNCHANGED <<flags, events, threads, clocks, connections, base, doomed, deleted, freeing, held>>

\* delete of one connection: ~Connection frees its events one by one, and waits
\* each time for the callback of that event alone.
DeleteConnection(c) ==
  /\ pc[Main] = "delete"
  /\ c \in connections \ deleted
  /\ freeing' = c
  /\ Goto(Main, "freeRead")
  /\ UNCHANGED <<flags, events, threads, clocks, connections, connectionsMutex, base, doomed, deleted,
                 held>>

FreeRead ==
  /\ pc[Main] = "freeRead"
  /\ \A w \in Workers : ~Runs(w, freeing, "read")
  /\ Goto(Main, "freeWrite")
  /\ UNCHANGED <<flags, events, threads, clocks, map>>

FreeWrite ==
  /\ pc[Main] = "freeWrite"
  /\ \A w \in Workers : ~Runs(w, freeing, "write")
  /\ Goto(Main, "freeDestroy")
  /\ UNCHANGED <<flags, events, threads, clocks, map>>

FreeDestroy ==
  /\ pc[Main] = "freeDestroy"
  /\ \A w \in Workers : pc[w] = "destroy" => serving[w] # freeing
  /\ deleted' = deleted \cup {freeing}
  /\ doomed' = doomed \ {freeing}
  /\ freeing' = NoConnection
  /\ Goto(Main, "delete")
  /\ UNCHANGED <<flags, events, threads, clocks, connections, connectionsMutex, base, held>>

ClearMap ==
  /\ pc[Main] = "delete"
  /\ connections \subseteq deleted
  /\ connections' = {}
  /\ connectionsMutex' = NoOne
  /\ Goto(Main, "join")
  /\ UNCHANGED <<flags, events, threads, clocks, base, doomed, deleted, freeing, held>>

\* join, event_base_free and delete, one worker after the other; the pointers
\* stay in _threads until all are done.
Join(w) ==
  /\ pc[Main] = "join"
  /\ w \in threads
  /\ pc[w] = "exited"
  /\ pc' = [pc EXCEPT ![w] = "joined"]
  /\ UNCHANGED <<flags, events, threads, clocks, map, stack>>

\* The events of the control loop, the user timers and the base; run returns or
\* rethrows.
Free ==
  /\ pc[Main] = "join"
  /\ \A w \in threads : pc[w] = "joined"
  /\ threads' = {}
  /\ userTimers' = {}
  /\ timerEvents' = {}
  /\ deathEvent' = FALSE
  /\ Goto(Main, IF thrown THEN "failed" ELSE "returned")
  /\ UNCHANGED <<flags, signalEvent, listener, repeating, started, userTimersMutex, starting,
                 firing, map>>

-----------------------------------------------------------------------------
(* The system                                                              *)

Application(t) ==
  \/ \E c \in Connections : ConnectTo(t, c) \/ Release(t, c) \/ Close(t, c)
  \/ \E u \in Timers : CreateTimer(t, u) \/ FindTimer(t, u)
  \/ CallCount(t) \/ Shutdown(t) \/ Abort(t)

\* Library code t has entered.
Library(t) ==
  \/ EnterLoop(t) \/ LeaveLoop(t)
  \/ AddConnection(t) \/ RequestHandle(t) \/ Count(t) \/ CloseConnection(t) \/ AddTimer(t)
  \/ SetAbort(t) \/ (\E w \in Workers : BreakWorker(t, w)) \/ BreakMain(t)

Run ==
  \/ Configure \/ ConfigureFails
  \/ (\E w \in Workers : Spawn(w)) \/ SpawnFails \/ SpawnThrows
  \/ OnStart \/ TestAbort \/ TickTime \/ RepeatTimer \/ OnStop
  \/ LockMap \/ (\E c \in Connections : DeleteConnection(c))
  \/ FreeRead \/ FreeWrite \/ FreeDestroy \/ ClearMap
  \/ (\E w \in Workers : Join(w)) \/ Free

Dispatch(t) == \E c \in Connections : DispatchIO(t, c) \/ DispatchDestroy(t, c)

ControlDispatch ==
  \/ \E c \in Connections : DispatchAccept(c)
  \/ \E u \in Timers : DispatchTimer(u)
  \/ DispatchListenerError \/ DispatchTick \/ DispatchKill \/ DispatchSignal

Next ==
  \/ \E t \in Threads : Application(t) \/ EndUser(t) \/ Library(t) \/ Dispatch(t) \/ Terminate(t)
  \/ Run
  \/ CreateTimerThrows
  \/ ControlDispatch

Spec == Init /\ [][Next]_vars

\* Starting a timer, and calling shutdown, again and again: each time the timer
\* that is pending is put off, so that it need never expire.
KeepsStarting(u) == []<><<\E t \in Threads : starting[t] = u /\ AddTimer(t)>>_vars
KeepsShuttingDown == []<><<\E t \in Threads : Shutdown(t)>>_vars

\* Threads run, application code returns, and a timer that is not put off for ever
\* expires and is not passed over for ever.
Fairness ==
  /\ \A t \in Threads : WF_vars(Library(t)) /\ SF_vars(EndUser(t))
  /\ WF_vars(Run)
  /\ KeepsShuttingDown \/ SF_vars(DispatchKill)
  /\ \A u \in Timers : KeepsStarting(u) \/ SF_vars(DispatchTimer(u))

FairSpec == Spec /\ Fairness

-----------------------------------------------------------------------------
(* Properties                                                              *)

\* run is over: it has returned, or thrown on what it caught.
Ended == {"returned", "failed"}

\* Nothing more is to be expected of run.
Over == pc[Main] \in Ended \cup {"escaped", "terminated"}

\* Every variable has its type; only _cleanup keeps _connectionsMutex from one
\* step to the next, and it does so while it deletes.
TypeOK ==
  /\ {abort, deathEvent, signalEvent, listener, thrown} \subseteq BOOLEAN
  /\ loopBreak \in [Loops -> BOOLEAN]
  /\ threads \subseteq Workers
  /\ connectionsMutex = (IF pc[Main] \in {"delete"} \cup FreeLabels THEN Main ELSE NoOne)
  /\ freeing \in (IF pc[Main] \in FreeLabels THEN Connections ELSE {NoConnection})
  /\ started \cup timerEvents \cup repeating \cup userTimers \subseteq Timers
  /\ userTimersMutex \in {NoOne} \cup {t \in Threads : pc[t] = "addTimer"}
  /\ starting \in [Threads -> Timers \cup {NoTimer}]
  /\ firing \in Timers \cup {NoTimer}
  /\ base \in [Connections -> Loops \cup {NoOne}]
  /\ \A set \in {connections, doomed, deleted} : set \subseteq Connections
  /\ held \in [Threads -> SUBSET Connections]
  /\ pc \in [Threads -> Labels]
  /\ ret \in [Threads -> {"user", "loop", "lock"}]
  /\ resume \in [Threads -> {"loop", "test", "tickTime", "timer", "lock"}]
  /\ serving \in [Threads -> Connections \cup {NoConnection}]
  /\ callback \in [Threads -> {"none", "read", "write"}]
  /\ dialling \in [Threads -> Connections \cup {NoConnection}]
  /\ toBreak \in [Threads -> SUBSET Workers]

\* A connection is not deleted, by its own loop or by _cleanup, while an event
\* callback for it runs: between them the three event_frees of ~Connection have
\* waited for all of them.
CallbackObjectAlive == \A t \in Threads : serving[t] \notin deleted

\* destroyCB finds its connection in the map, and not deleted: closeConnection
\* deletes what it is called for, and never takes its else branch.
DestroyFindsEntry ==
  \A t \in Threads : pc[t] = "destroy" => serving[t] \in connections \ deleted

\* The map has no pointer to a deleted connection, save in the loop of
\* _cleanup that deletes what is left: nothing is deleted twice.
MapAlive ==
  pc[Main] \notin {"delete", "terminated"} \cup FreeLabels => connections \cap deleted = {}

\* When run returns, or throws on what it caught, every connection there has been
\* is deleted and every thread has been joined.  Of an exception that run does
\* not catch see EscapeLeavesNothing.
NothingLeft ==
  pc[Main] \in Ended =>
    /\ \A c \in Connections : base[c] # NoOne => c \in deleted
    /\ \A w \in Workers : pc[w] \in {"unborn", "joined"}

\* abort does not reach for the ThreadInfo of a worker that _cleanup has
\* joined and deleted.  It holds because ~Connection has waited for every
\* callback before the first join.
BreaksLiveWorkers ==
  \A t \in Threads : pc[t] = "break" => \A w \in toBreak[t] : pc[w] # "joined"

\* _cleanup frees no user timer that a thread is starting, which it does not
\* lock, nor the one whose callback runs.
TimerAlive == \A t \in Threads : {starting[t], firing} \subseteq userTimers \cup {NoTimer}

\* A repeating timer that has been started is pending, or its callback is
\* running and will add it again, as long as there is the timer, and unless
\* onTimer was left by an exception.
RepeatsOn ==
  ~thrown /\ pc[Main] # "terminated" =>
    started \cap repeating \cap userTimers \subseteq timerEvents \cup {firing}

\* A timer that is started fires, unless it is started again and again, or the
\* manager is stopped or throws.
TimerFires ==
  \A u \in Timers :
    \/ KeepsStarting(u)
    \/ (\E t \in Threads : starting[t] = u) ~> (firing = u \/ abort \/ Over)

\* abort makes run return.
AbortReturns == abort ~> Over

\* So does shutdown, by the death timer, unless it is called again and again.
ShutdownReturns == KeepsShuttingDown \/ (deathEvent ~> Over)

-----------------------------------------------------------------------------
(* Properties the code does not have, each with its counterexample in the  *)
(* README                                                                  *)

\* A connection is not deleted while the application has a Handle of it.
HandlesOutlived == \A t \in Threads : held[t] \cap deleted = {}

\* addConnection's caller asks a connection there is for a Handle.
RequestFindsConnection == \A t \in Threads : pc[t] = "request" => dialling[t] \notin deleted

\* close(), which deletes _readEvent and _writeEvent, finds them not yet freed.
CloseFindsEvents ==
  [][\A t \in Threads, c \in Connections : Close(t, c) => Freed(c) = {}]_vars

\* An exception that leaves run leaves no thread.
EscapeLeavesNothing == pc[Main] = "escaped" => threads = {}

=============================================================================
