--------------------------- MODULE LifecycleProofs ---------------------------
(***************************************************************************)
(* The safety properties of Lifecycle, proved for any number of workers,   *)
(* connections and timers, and whichever threads run application code that *)
(* stops, dials, closes and keeps Handles.                                 *)
(*                                                                         *)
(* The argument has three parts:                                            *)
(*   Alive    a worker in a callback serves a connection of the map, which *)
(*            is its own; _cleanup waits for it in one of the three        *)
(*            event_frees, so that when the map is empty no worker is in   *)
(*            library or application code                                  *)
(*   Breaks   abort therefore breaks only workers there are                *)
(*   Clocks   the same for the user timers that _cleanup frees unlocked    *)
(* Each has a lemma per conjunct with one step per group of actions.       *)
(***************************************************************************)
EXTENDS Lifecycle, TLAPS

-----------------------------------------------------------------------------
(* Alive                                                                   *)

\* Where a thread can be between the start and the end of an event callback.
UserLabels     == {"user", "dial", "request", "count", "addTimer", "abort", "break"}
CallbackLabels == UserLabels \cup {"destroy"}

\* A worker runs library and application code only in an event callback for a
\* connection; what a thread remembers it remembers for the call it is in.
Frames ==
  /\ \A w \in Workers :
       /\ pc[w] \in WorkerLabels \cup {"loop", "terminated"} \cup CallbackLabels
       /\ resume[w] = "loop" /\ ret[w] = "user"
       /\ pc[w] \in CallbackLabels => serving[w] # NoConnection
  /\ pc[Main] \notin WorkerLabels
  /\ \A t \in Threads :
       /\ ret[t] # "user" => pc[t] \in {"abort", "break"} /\ serving[t] = NoConnection
       /\ serving[t] # NoConnection => pc[t] \in CallbackLabels
       /\ pc[t] = "destroy" => serving[t] # NoConnection
       /\ pc[t] \in {"dial", "request"} <=> dialling[t] # NoConnection
       /\ pc[t] = "addTimer" <=> starting[t] # NoTimer

\* _threads has the workers that were started, until _cleanup has joined them.
Born ==
  /\ pc[Main] \notin Ended \cup {"terminated"} =>
       \A w \in Workers : w \in threads <=> pc[w] # "unborn"
  /\ \A w \in Workers : pc[w] = "joined" => pc[Main] \in {"join"} \cup Ended
  /\ pc[Main] \in Ended => \A w \in Workers : pc[w] \in {"unborn", "joined"}

\* A connection that was made is in the map or deleted, a new one is made by one
\* thread, and only what was made has a Handle.  A destroy event is pending only
\* for an entry of the map, and nobody has a Handle of what it is pending for, or
\* of what destroyCB is about to delete.
Entries ==
  /\ \A c \in Connections : base[c] # NoOne <=> c \in connections \cup deleted
  /\ \A t, u \in Threads : dialling[t] = dialling[u] => t = u \/ dialling[t] = NoConnection
  /\ \A t \in Threads : pc[t] = "dial" => base[dialling[t]] = NoOne
  /\ \A t \in Threads : pc[t] = "request" => base[dialling[t]] # NoOne
  /\ \A t \in Threads : \A c \in held[t] : base[c] # NoOne /\ ~Closed(c)
  /\ doomed \subseteq connections \ deleted

\* The connection of a callback is in the map and not deleted, and belongs to
\* the loop the callback runs on: no two threads serve the same.  So is the
\* connection that _cleanup deletes, and no callback runs of an event it has freed.
Serves ==
  /\ pc[Main] \in FreeLabels => freeing \in connections \ deleted
  /\ \A t \in Threads : serving[t] # NoConnection =>
       /\ serving[t] \in connections \ deleted
       /\ base[serving[t]] = t
       /\ pc[t] = "destroy" => serving[t] \notin doomed
       /\ pc[t] # "destroy" => callback[t] \in {"read", "write"} \ Freed(serving[t])

\* Once _cleanup has cleared the map nothing is added to it.
Cleared == pc[Main] \in {"join"} \cup Ended => connections = {}

Alive == TypeOK /\ Frames /\ Born /\ Entries /\ MapAlive /\ Serves /\ Cleared

\* TypeOK in two parts: the flags, which are Boolean, and the rest.
FlagTypes ==
  /\ abort \in BOOLEAN /\ thrown \in BOOLEAN
  /\ deathEvent \in BOOLEAN /\ signalEvent \in BOOLEAN /\ listener \in BOOLEAN
  /\ loopBreak \in [Loops -> BOOLEAN]

DataTypes ==
  /\ threads \subseteq Workers
  /\ connectionsMutex = (IF pc[Main] \in {"delete"} \cup FreeLabels THEN Main ELSE NoOne)
  /\ freeing \in (IF pc[Main] \in FreeLabels THEN Connections ELSE {NoConnection})
  /\ started \cup timerEvents \cup repeating \cup userTimers \subseteq Timers
  /\ userTimersMutex \in {NoOne} \cup {t \in Threads : pc[t] = "addTimer"}
  /\ starting \in [Threads -> Timers \cup {NoTimer}]
  /\ firing \in Timers \cup {NoTimer}
  /\ base \in [Connections -> Loops \cup {NoOne}]
  /\ \A set \in {connections, doomed, deleted} : set \subseteq Connections
  /\ held \in [Threads -> SUBSET Connections]
  /\ pc \in [Threads -> Labels]
  /\ ret \in [Threads -> {"user", "loop", "lock"}]
  /\ resume \in [Threads -> {"loop", "test", "tickTime", "timer", "lock"}]
  /\ serving \in [Threads -> Connections \cup {NoConnection}]
  /\ callback \in [Threads -> {"none", "read", "write"}]
  /\ dialling \in [Threads -> Connections \cup {NoConnection}]
  /\ toBreak \in [Threads -> SUBSET Workers]

\* The parts make the whole, before a step and after it.
LEMMA TypeParts ==
  /\ TypeOK <=> FlagTypes /\ DataTypes
  /\ TypeOK' <=> FlagTypes' /\ DataTypes'
BY DEF TypeOK, FlagTypes, DataTypes

\* The flags are assigned TRUE or FALSE.
LEMMA FlagsStep ==
  ASSUME FlagTypes, [Next]_vars
  PROVE  FlagTypes'
<1> USE LifecycleAssumption DEF LifecycleAssumption, Threads, Loops, Goto, User, CallAbort,
     InLoop, New, Throw, flags, events, clocks, map, calls, stack, KeepHandles, UserLabels, CallbackLabels,
     FlagTypes
<1>1. ASSUME NEW t \in Threads, NEW c \in Connections,
             ConnectTo(t, c) \/ Release(t, c) \/ Close(t, c)
      PROVE  FlagTypes'
  BY <1>1 DEF ConnectTo, Release, Close
<1>2. ASSUME NEW t \in Threads, NEW u \in Timers, CreateTimer(t, u) \/ FindTimer(t, u)
      PROVE  FlagTypes'
  BY <1>2 DEF CreateTimer, FindTimer
<1>3. ASSUME NEW t \in Threads, CallCount(t) \/ Shutdown(t) \/ Abort(t) PROVE FlagTypes'
  BY <1>3 DEF CallCount, Shutdown, Abort
<1>4. ASSUME NEW t \in Threads, EndUser(t) PROVE FlagTypes'
  BY <1>4 DEF EndUser
<1>5. ASSUME NEW t \in Threads, EnterLoop(t) \/ LeaveLoop(t) \/ Count(t) \/ AddTimer(t)
      PROVE  FlagTypes'
  BY <1>5 DEF EnterLoop, LeaveLoop, Count, AddTimer
<1>6. ASSUME NEW t \in Threads, AddConnection(t) \/ RequestHandle(t) PROVE FlagTypes'
  BY <1>6 DEF AddConnection, RequestHandle
<1>7. ASSUME NEW t \in Threads, CloseConnection(t) PROVE FlagTypes'
  BY <1>7 DEF CloseConnection
<1>8. ASSUME NEW t \in Threads,
             SetAbort(t) \/ (\E w \in Workers : BreakWorker(t, w)) \/ BreakMain(t)
      PROVE  FlagTypes'
  <2>1. CASE SetAbort(t) BY <2>1 DEF SetAbort
  <2>2. ASSUME NEW w \in Workers, BreakWorker(t, w) PROVE FlagTypes'
    BY <2>2 DEF BreakWorker
  <2>3. CASE BreakMain(t) BY <2>3 DEF BreakMain
  <2> QED BY <1>8, <2>1, <2>2, <2>3
<1>9. ASSUME NEW t \in Threads, NEW c \in Connections, DispatchIO(t, c) \/ DispatchDestroy(t, c)
      PROVE  FlagTypes'
  BY <1>9 DEF DispatchIO, DispatchDestroy
<1>10. CASE Configure \/ ConfigureFails \/ SpawnFails \/ SpawnThrows \/ OnStart \/ TestAbort
  BY <1>10 DEF Configure, ConfigureFails, SpawnFails, SpawnThrows, OnStart, TestAbort
<1>11. ASSUME NEW w \in Workers, Spawn(w) \/ Join(w) PROVE FlagTypes'
  BY <1>11 DEF Spawn, Join
<1>12. CASE TickTime \/ RepeatTimer \/ OnStop \/ LockMap
  BY <1>12 DEF TickTime, RepeatTimer, OnStop, LockMap
<1>13. ASSUME NEW c \in Connections, DeleteConnection(c) PROVE FlagTypes'
  BY <1>13 DEF DeleteConnection
<1>14. CASE FreeRead \/ FreeWrite
  BY <1>14 DEF FreeRead, FreeWrite
<1>15. CASE FreeDestroy
  BY <1>15 DEF FreeDestroy
<1>16. CASE ClearMap \/ Free
  BY <1>16 DEF ClearMap, Free
<1>17. ASSUME NEW c \in Connections, DispatchAccept(c) PROVE FlagTypes'
  BY <1>17 DEF DispatchAccept
<1>18. ASSUME NEW u \in Timers, DispatchTimer(u) PROVE FlagTypes'
  BY <1>18 DEF DispatchTimer
<1>19. CASE DispatchListenerError \/ DispatchTick \/ DispatchKill \/ DispatchSignal
  BY <1>19 DEF DispatchListenerError, DispatchTick, DispatchKill, DispatchSignal
<1>20. CASE CreateTimerThrows
  BY <1>20 DEF CreateTimerThrows
<1>21. ASSUME NEW t \in Threads, Terminate(t) PROVE FlagTypes'
  BY <1>21 DEF Terminate
<1>22. CASE UNCHANGED vars BY <1>22 DEF vars
<1>23. ASSUME NEW t \in Threads, Application(t) PROVE FlagTypes'
  BY ONLY <1>1, <1>2, <1>3, <1>23 DEF Application
<1>24. ASSUME NEW t \in Threads, Library(t) PROVE FlagTypes'
  BY ONLY <1>5, <1>6, <1>7, <1>8, <1>24 DEF Library
<1>25. CASE Run
  BY ONLY <1>10, <1>11, <1>12, <1>13, <1>14, <1>15, <1>16, <1>25 DEF Run
<1>26. CASE ControlDispatch
  BY ONLY <1>17, <1>18, <1>19, <1>26 DEF ControlDispatch
<1> QED BY ONLY <1>4, <1>9, <1>20, <1>21, <1>22, <1>23, <1>24, <1>25, <1>26, [Next]_vars
  DEF Next, Dispatch

\* Every step keeps the types; only _cleanup holds _connectionsMutex between two.
LEMMA DataStep ==
  ASSUME DataTypes, Frames, Born, [Next]_vars
  PROVE  DataTypes'
<1> USE LifecycleAssumption DEF LifecycleAssumption, Threads, Loops, Goto, User, CallAbort,
     InLoop, New, Throw, flags, events, clocks, map, calls, stack, KeepHandles, UserLabels, CallbackLabels,
     FreeLabels, Runs, Freed, DataTypes, Frames, Born, Labels, AbortLabels, LoopLabels, RunLabels, WorkerLabels, Ended
<1>1. ASSUME NEW t \in Threads, NEW c \in Connections,
             ConnectTo(t, c) \/ Release(t, c) \/ Close(t, c)
      PROVE  DataTypes'
  BY <1>1 DEF ConnectTo, Release, Close
<1>2. ASSUME NEW t \in Threads, NEW u \in Timers, CreateTimer(t, u) \/ FindTimer(t, u)
      PROVE  DataTypes'
  BY <1>2 DEF CreateTimer, FindTimer
<1>3. ASSUME NEW t \in Threads, CallCount(t) \/ Shutdown(t) \/ Abort(t) PROVE DataTypes'
  BY <1>3 DEF CallCount, Shutdown, Abort
<1>4. ASSUME NEW t \in Threads, EndUser(t) PROVE DataTypes'
  BY <1>4 DEF EndUser
<1>5. ASSUME NEW t \in Threads, EnterLoop(t) \/ LeaveLoop(t) \/ Count(t) \/ AddTimer(t)
      PROVE  DataTypes'
  BY <1>5 DEF EnterLoop, LeaveLoop, Count, AddTimer
<1>6. ASSUME NEW t \in Threads, AddConnection(t) \/ RequestHandle(t) PROVE DataTypes'
  BY <1>6 DEF AddConnection, RequestHandle
<1>7. ASSUME NEW t \in Threads, CloseConnection(t) PROVE DataTypes'
  BY <1>7 DEF CloseConnection
<1>8. ASSUME NEW t \in Threads,
             SetAbort(t) \/ (\E w \in Workers : BreakWorker(t, w)) \/ BreakMain(t)
      PROVE  DataTypes'
  BY <1>8 DEF SetAbort, BreakWorker, BreakMain
<1>9. ASSUME NEW t \in Threads, NEW c \in Connections, DispatchIO(t, c) \/ DispatchDestroy(t, c)
      PROVE  DataTypes'
  BY <1>9 DEF DispatchIO, DispatchDestroy
<1>10. CASE Configure \/ ConfigureFails \/ SpawnFails \/ SpawnThrows \/ OnStart \/ TestAbort
  BY <1>10 DEF Configure, ConfigureFails, SpawnFails, SpawnThrows, OnStart, TestAbort
<1>11. ASSUME NEW w \in Workers, Spawn(w) \/ Join(w) PROVE DataTypes'
  BY <1>11 DEF Spawn, Join
<1>12. CASE TickTime \/ RepeatTimer \/ OnStop \/ LockMap
  BY <1>12 DEF TickTime, RepeatTimer, OnStop, LockMap
<1>13. ASSUME NEW c \in Connections, DeleteConnection(c) PROVE DataTypes'
  BY <1>13 DEF DeleteConnection
<1>14. CASE FreeRead \/ FreeWrite
  BY <1>14 DEF FreeRead, FreeWrite
<1>15. CASE FreeDestroy
  BY <1>15 DEF FreeDestroy
<1>16. CASE ClearMap \/ Free
  BY <1>16 DEF ClearMap, Free
<1>17. ASSUME NEW c \in Connections, DispatchAccept(c) PROVE DataTypes'
  BY <1>17 DEF DispatchAccept
<1>18. ASSUME NEW u \in Timers, DispatchTimer(u) PROVE DataTypes'
  BY <1>18 DEF DispatchTimer
<1>19. CASE DispatchListenerError \/ DispatchTick \/ DispatchKill \/ DispatchSignal
  BY <1>19 DEF DispatchListenerError, DispatchTick, DispatchKill, DispatchSignal
<1>20. CASE CreateTimerThrows
  BY <1>20 DEF CreateTimerThrows
<1>21. ASSUME NEW t \in Threads, Terminate(t) PROVE DataTypes'
  BY <1>21 DEF Terminate
<1>22. CASE UNCHANGED vars BY <1>22 DEF vars
<1>23. ASSUME NEW t \in Threads, Application(t) PROVE DataTypes'
  BY ONLY <1>1, <1>2, <1>3, <1>23 DEF Application
<1>24. ASSUME NEW t \in Threads, Library(t) PROVE DataTypes'
  BY ONLY <1>5, <1>6, <1>7, <1>8, <1>24 DEF Library
<1>25. CASE Run
  BY ONLY <1>10, <1>11, <1>12, <1>13, <1>14, <1>15, <1>16, <1>25 DEF Run
<1>26. CASE ControlDispatch
  BY ONLY <1>17, <1>18, <1>19, <1>26 DEF ControlDispatch
<1> QED BY ONLY <1>4, <1>9, <1>20, <1>21, <1>22, <1>23, <1>24, <1>25, <1>26, [Next]_vars
  DEF Next, Dispatch

\* Calls return to their callers, and callbacks to their loops.
LEMMA FramesStep ==
  ASSUME TypeOK, Frames, Born, [Next]_vars
  PROVE  Frames'
<1> USE LifecycleAssumption DEF LifecycleAssumption, Threads, Loops, Goto, User, CallAbort,
     InLoop, New, Throw, KeepHandles, flags, events, clocks, map, calls, stack, UserLabels,
     CallbackLabels, TypeOK,
     FreeLabels, Runs, Freed, Closed, Frames, Born, Ended, WorkerLabels
<1>1. ASSUME NEW t \in Threads, NEW c \in Connections,
             ConnectTo(t, c) \/ Release(t, c) \/ Close(t, c)
      PROVE  Frames'
  BY <1>1 DEF ConnectTo, Release, Close
<1>2. ASSUME NEW t \in Threads, NEW u \in Timers, CreateTimer(t, u) \/ FindTimer(t, u)
      PROVE  Frames'
  BY <1>2 DEF CreateTimer, FindTimer
<1>3. ASSUME NEW t \in Threads, CallCount(t) \/ Shutdown(t) \/ Abort(t) PROVE Frames'
  BY <1>3 DEF CallCount, Shutdown, Abort
<1>4. ASSUME NEW t \in Threads, EndUser(t) PROVE Frames'
  BY <1>4 DEF EndUser
<1>5. ASSUME NEW t \in Threads, EnterLoop(t) \/ LeaveLoop(t) \/ Count(t) \/ AddTimer(t)
      PROVE  Frames'
  BY <1>5 DEF EnterLoop, LeaveLoop, Count, AddTimer
<1>6. ASSUME NEW t \in Threads, AddConnection(t) \/ RequestHandle(t) PROVE Frames'
  BY <1>6 DEF AddConnection, RequestHandle
<1>7. ASSUME NEW t \in Threads, CloseConnection(t) PROVE Frames'
  BY <1>7 DEF CloseConnection
<1>8. ASSUME NEW t \in Threads,
             SetAbort(t) \/ (\E w \in Workers : BreakWorker(t, w)) \/ BreakMain(t)
      PROVE  Frames'
  BY <1>8 DEF SetAbort, BreakWorker, BreakMain
<1>9. ASSUME NEW t \in Threads, NEW c \in Connections, DispatchIO(t, c) \/ DispatchDestroy(t, c)
      PROVE  Frames'
  BY <1>9 DEF DispatchIO, DispatchDestroy
<1>10. CASE Configure \/ ConfigureFails \/ SpawnFails \/ SpawnThrows \/ OnStart \/ TestAbort
  BY <1>10 DEF Configure, ConfigureFails, SpawnFails, SpawnThrows, OnStart, TestAbort
<1>11. ASSUME NEW w \in Workers, Spawn(w) \/ Join(w) PROVE Frames'
  BY <1>11 DEF Spawn, Join
<1>12. CASE TickTime \/ RepeatTimer \/ OnStop \/ LockMap
  BY <1>12 DEF TickTime, RepeatTimer, OnStop, LockMap
<1>13. ASSUME NEW c \in Connections, DeleteConnection(c) PROVE Frames'
  BY <1>13 DEF DeleteConnection
<1>14. CASE FreeRead \/ FreeWrite
  BY <1>14 DEF FreeRead, FreeWrite
<1>15. CASE FreeDestroy
  BY <1>15 DEF FreeDestroy
<1>16. CASE ClearMap \/ Free
  BY <1>16 DEF ClearMap, Free
<1>17. ASSUME NEW c \in Connections, DispatchAccept(c) PROVE Frames'
  BY <1>17 DEF DispatchAccept
<1>18. ASSUME NEW u \in Timers, DispatchTimer(u) PROVE Frames'
  BY <1>18 DEF DispatchTimer
<1>19. CASE DispatchListenerError \/ DispatchTick \/ DispatchKill \/ DispatchSignal
  BY <1>19 DEF DispatchListenerError, DispatchTick, DispatchKill, DispatchSignal
<1>20. CASE CreateTimerThrows
  BY <1>20 DEF CreateTimerThrows
<1>21. ASSUME NEW t \in Threads, Terminate(t) PROVE Frames'
  BY <1>21 DEF Terminate
<1>22. CASE UNCHANGED vars BY <1>22 DEF vars
<1>23. ASSUME NEW t \in Threads, Application(t) PROVE Frames'
  BY ONLY <1>1, <1>2, <1>3, <1>23 DEF Application
<1>24. ASSUME NEW t \in Threads, Library(t) PROVE Frames'
  BY ONLY <1>5, <1>6, <1>7, <1>8, <1>24 DEF Library
<1>25. CASE Run
  BY ONLY <1>10, <1>11, <1>12, <1>13, <1>14, <1>15, <1>16, <1>25 DEF Run
<1>26. CASE ControlDispatch
  BY ONLY <1>17, <1>18, <1>19, <1>26 DEF ControlDispatch
<1> QED BY ONLY <1>4, <1>9, <1>20, <1>21, <1>22, <1>23, <1>24, <1>25, <1>26, [Next]_vars
  DEF Next, Dispatch

\* Workers are started by run and joined by _cleanup.  At the end of the joins
\* there is none left.
LEMMA BornStep ==
  ASSUME TypeOK, Frames, Serves, Cleared, Born, [Next]_vars
  PROVE  Born'
<1> USE LifecycleAssumption DEF LifecycleAssumption, Threads, Loops, Goto, User, CallAbort,
     InLoop, New, Throw, KeepHandles, flags, events, clocks, map, calls, stack, UserLabels,
     CallbackLabels, TypeOK,
     FreeLabels, Runs, Freed, Closed, Frames, Serves, Cleared, Born, Ended, WorkerLabels
<1>1. ASSUME NEW t \in Threads, NEW c \in Connections,
             ConnectTo(t, c) \/ Release(t, c) \/ Close(t, c)
      PROVE  Born'
  BY <1>1 DEF ConnectTo, Release, Close
<1>2. ASSUME NEW t \in Threads, NEW u \in Timers, CreateTimer(t, u) \/ FindTimer(t, u)
      PROVE  Born'
  BY <1>2 DEF CreateTimer, FindTimer
<1>3. ASSUME NEW t \in Threads, CallCount(t) \/ Shutdown(t) \/ Abort(t) PROVE Born'
  BY <1>3 DEF CallCount, Shutdown, Abort
<1>4. ASSUME NEW t \in Threads, EndUser(t) PROVE Born'
  BY <1>4 DEF EndUser
<1>5. ASSUME NEW t \in Threads, EnterLoop(t) \/ LeaveLoop(t) \/ Count(t) \/ AddTimer(t)
      PROVE  Born'
  BY <1>5 DEF EnterLoop, LeaveLoop, Count, AddTimer
<1>6. ASSUME NEW t \in Threads, AddConnection(t) \/ RequestHandle(t) PROVE Born'
  BY <1>6 DEF AddConnection, RequestHandle
<1>7. ASSUME NEW t \in Threads, CloseConnection(t) PROVE Born'
  BY <1>7 DEF CloseConnection
<1>8. ASSUME NEW t \in Threads,
             SetAbort(t) \/ (\E w \in Workers : BreakWorker(t, w)) \/ BreakMain(t)
      PROVE  Born'
  BY <1>8 DEF SetAbort, BreakWorker, BreakMain
<1>9. ASSUME NEW t \in Threads, NEW c \in Connections, DispatchIO(t, c) \/ DispatchDestroy(t, c)
      PROVE  Born'
  BY <1>9 DEF DispatchIO, DispatchDestroy
<1>10. CASE Configure \/ ConfigureFails \/ SpawnFails \/ SpawnThrows \/ OnStart \/ TestAbort
  BY <1>10 DEF Configure, ConfigureFails, SpawnFails, SpawnThrows, OnStart, TestAbort
<1>11. ASSUME NEW w \in Workers, Spawn(w) \/ Join(w) PROVE Born'
  BY <1>11 DEF Spawn, Join
<1>12. CASE TickTime \/ RepeatTimer \/ OnStop \/ LockMap
  BY <1>12 DEF TickTime, RepeatTimer, OnStop, LockMap
<1>13. ASSUME NEW c \in Connections, DeleteConnection(c) PROVE Born'
  BY <1>13 DEF DeleteConnection
<1>14. CASE FreeRead \/ FreeWrite
  BY <1>14 DEF FreeRead, FreeWrite
<1>15. CASE FreeDestroy
  BY <1>15 DEF FreeDestroy
<1>16. CASE ClearMap \/ Free
  BY <1>16 DEF ClearMap, Free
<1>17. ASSUME NEW c \in Connections, DispatchAccept(c) PROVE Born'
  BY <1>17 DEF DispatchAccept
<1>18. ASSUME NEW u \in Timers, DispatchTimer(u) PROVE Born'
  BY <1>18 DEF DispatchTimer
<1>19. CASE DispatchListenerError \/ DispatchTick \/ DispatchKill \/ DispatchSignal
  BY <1>19 DEF DispatchListenerError, DispatchTick, DispatchKill, DispatchSignal
<1>20. CASE CreateTimerThrows
  BY <1>20 DEF CreateTimerThrows
<1>21. ASSUME NEW t \in Threads, Terminate(t) PROVE Born'
  BY <1>21 DEF Terminate
<1>22. CASE UNCHANGED vars BY <1>22 DEF vars
<1>23. ASSUME NEW t \in Threads, Application(t) PROVE Born'
  BY ONLY <1>1, <1>2, <1>3, <1>23 DEF Application
<1>24. ASSUME NEW t \in Threads, Library(t) PROVE Born'
  BY ONLY <1>5, <1>6, <1>7, <1>8, <1>24 DEF Library
<1>25. CASE Run
  BY ONLY <1>10, <1>11, <1>12, <1>13, <1>14, <1>15, <1>16, <1>25 DEF Run
<1>26. CASE ControlDispatch
  BY ONLY <1>17, <1>18, <1>19, <1>26 DEF ControlDispatch
<1> QED BY ONLY <1>4, <1>9, <1>20, <1>21, <1>22, <1>23, <1>24, <1>25, <1>26, [Next]_vars
  DEF Next, Dispatch

\* A connection is made once, and leaves the map when it is deleted, save while
\* _cleanup is deleting.
LEMMA EntriesStep ==
  ASSUME TypeOK, Frames, Entries, Serves, MapAlive, [Next]_vars
  PROVE  Entries' /\ MapAlive'
<1> USE LifecycleAssumption DEF LifecycleAssumption, Threads, Loops, Goto, User, CallAbort,
     InLoop, New, Throw, KeepHandles, flags, events, clocks, map, calls, stack, UserLabels,
     CallbackLabels, TypeOK,
     FreeLabels, Runs, Freed, Closed, Frames, Entries, Serves, MapAlive, WorkerLabels
<1>1. ASSUME NEW t \in Threads, NEW c \in Connections,
             ConnectTo(t, c) \/ Release(t, c) \/ Close(t, c)
      PROVE  Entries' /\ MapAlive'
  BY <1>1 DEF ConnectTo, Release, Close
<1>2. ASSUME NEW t \in Threads, NEW u \in Timers, CreateTimer(t, u) \/ FindTimer(t, u)
      PROVE  Entries' /\ MapAlive'
  BY <1>2 DEF CreateTimer, FindTimer
<1>3. ASSUME NEW t \in Threads, CallCount(t) \/ Shutdown(t) \/ Abort(t) PROVE Entries' /\ MapAlive'
  BY <1>3 DEF CallCount, Shutdown, Abort
<1>4. ASSUME NEW t \in Threads, EndUser(t) PROVE Entries' /\ MapAlive'
  BY <1>4 DEF EndUser
<1>5. ASSUME NEW t \in Threads, EnterLoop(t) \/ LeaveLoop(t) \/ Count(t) \/ AddTimer(t)
      PROVE  Entries' /\ MapAlive'
  BY <1>5 DEF EnterLoop, LeaveLoop, Count, AddTimer
<1>6. ASSUME NEW t \in Threads, AddConnection(t) \/ RequestHandle(t) PROVE Entries' /\ MapAlive'
  BY <1>6 DEF AddConnection, RequestHandle
<1>7. ASSUME NEW t \in Threads, CloseConnection(t) PROVE Entries' /\ MapAlive'
  BY <1>7 DEF CloseConnection
<1>8. ASSUME NEW t \in Threads,
             SetAbort(t) \/ (\E w \in Workers : BreakWorker(t, w)) \/ BreakMain(t)
      PROVE  Entries' /\ MapAlive'
  BY <1>8 DEF SetAbort, BreakWorker, BreakMain
<1>9. ASSUME NEW t \in Threads, NEW c \in Connections, DispatchIO(t, c) \/ DispatchDestroy(t, c)
      PROVE  Entries' /\ MapAlive'
  BY <1>9 DEF DispatchIO, DispatchDestroy
<1>10. CASE Configure \/ ConfigureFails \/ SpawnFails \/ SpawnThrows \/ OnStart \/ TestAbort
  BY <1>10 DEF Configure, ConfigureFails, SpawnFails, SpawnThrows, OnStart, TestAbort
<1>11. ASSUME NEW w \in Workers, Spawn(w) \/ Join(w) PROVE Entries' /\ MapAlive'
  BY <1>11 DEF Spawn, Join
<1>12. CASE TickTime \/ RepeatTimer \/ OnStop \/ LockMap
  BY <1>12 DEF TickTime, RepeatTimer, OnStop, LockMap
<1>13. ASSUME NEW c \in Connections, DeleteConnection(c) PROVE Entries' /\ MapAlive'
  BY <1>13 DEF DeleteConnection
<1>14. CASE FreeRead \/ FreeWrite
  BY <1>14 DEF FreeRead, FreeWrite
<1>15. CASE FreeDestroy
  BY <1>15 DEF FreeDestroy
<1>16. CASE ClearMap \/ Free
  BY <1>16 DEF ClearMap, Free
<1>17. ASSUME NEW c \in Connections, DispatchAccept(c) PROVE Entries' /\ MapAlive'
  BY <1>17 DEF DispatchAccept
<1>18. ASSUME NEW u \in Timers, DispatchTimer(u) PROVE Entries' /\ MapAlive'
  BY <1>18 DEF DispatchTimer
<1>19. CASE DispatchListenerError \/ DispatchTick \/ DispatchKill \/ DispatchSignal
  BY <1>19 DEF DispatchListenerError, DispatchTick, DispatchKill, DispatchSignal
<1>20. CASE CreateTimerThrows
  BY <1>20 DEF CreateTimerThrows
<1>21. ASSUME NEW t \in Threads, Terminate(t) PROVE Entries' /\ MapAlive'
  BY <1>21 DEF Terminate
<1>22. CASE UNCHANGED vars BY <1>22 DEF vars
<1>23. ASSUME NEW t \in Threads, Application(t) PROVE Entries' /\ MapAlive'
  BY ONLY <1>1, <1>2, <1>3, <1>23 DEF Application
<1>24. ASSUME NEW t \in Threads, Library(t) PROVE Entries' /\ MapAlive'
  BY ONLY <1>5, <1>6, <1>7, <1>8, <1>24 DEF Library
<1>25. CASE Run
  BY ONLY <1>10, <1>11, <1>12, <1>13, <1>14, <1>15, <1>16, <1>25 DEF Run
<1>26. CASE ControlDispatch
  BY ONLY <1>17, <1>18, <1>19, <1>26 DEF ControlDispatch
<1> QED BY ONLY <1>4, <1>9, <1>20, <1>21, <1>22, <1>23, <1>24, <1>25, <1>26, [Next]_vars
  DEF Next, Dispatch

\* A connection is deleted by the loop it belongs to, or by ~Connection in
\* _cleanup, which waits for its callback.
LEMMA ServesStep ==
  ASSUME TypeOK, Frames, Born, Entries, Serves, [Next]_vars
  PROVE  Serves'
<1> USE LifecycleAssumption DEF LifecycleAssumption, Threads, Loops, Goto, User, CallAbort,
     InLoop, New, Throw, KeepHandles, flags, events, clocks, map, calls, stack, UserLabels,
     CallbackLabels, TypeOK,
     FreeLabels, Runs, Freed, Closed, Frames, Entries, Serves, WorkerLabels
<1>1. ASSUME NEW t \in Threads, NEW c \in Connections,
             ConnectTo(t, c) \/ Release(t, c) \/ Close(t, c)
      PROVE  Serves'
  BY <1>1 DEF ConnectTo, Release, Close
<1>2. ASSUME NEW t \in Threads, NEW u \in Timers, CreateTimer(t, u) \/ FindTimer(t, u)
      PROVE  Serves'
  BY <1>2 DEF CreateTimer, FindTimer
<1>3. ASSUME NEW t \in Threads, CallCount(t) \/ Shutdown(t) \/ Abort(t) PROVE Serves'
  BY <1>3 DEF CallCount, Shutdown, Abort
<1>4. ASSUME NEW t \in Threads, EndUser(t) PROVE Serves'
  BY <1>4 DEF EndUser
<1>5. ASSUME NEW t \in Threads, EnterLoop(t) \/ LeaveLoop(t) \/ Count(t) \/ AddTimer(t)
      PROVE  Serves'
  BY <1>5 DEF EnterLoop, LeaveLoop, Count, AddTimer
<1>6. ASSUME NEW t \in Threads, AddConnection(t) \/ RequestHandle(t) PROVE Serves'
  BY <1>6 DEF AddConnection, RequestHandle
<1>7. ASSUME NEW t \in Threads, CloseConnection(t) PROVE Serves'
  BY <1>7 DEF CloseConnection
<1>8. ASSUME NEW t \in Threads,
             SetAbort(t) \/ (\E w \in Workers : BreakWorker(t, w)) \/ BreakMain(t)
      PROVE  Serves'
  BY <1>8 DEF SetAbort, BreakWorker, BreakMain
<1>9. ASSUME NEW t \in Threads, NEW c \in Connections, DispatchIO(t, c) \/ DispatchDestroy(t, c)
      PROVE  Serves'
  BY <1>9 DEF DispatchIO, DispatchDestroy
<1>10. CASE Configure \/ ConfigureFails \/ SpawnFails \/ SpawnThrows \/ OnStart \/ TestAbort
  BY <1>10 DEF Configure, ConfigureFails, SpawnFails, SpawnThrows, OnStart, TestAbort
<1>11. ASSUME NEW w \in Workers, Spawn(w) \/ Join(w) PROVE Serves'
  <2>1. /\ pc[w] \in {"unborn", "starting", "exited"} /\ pc'[w] \in {"starting", "joined"}
        /\ \A t \in Threads \ {w} : pc'[t] = pc[t]
        /\ serving[w] = NoConnection
    <3>1. CASE Spawn(w)
      <4>1. pc[w] = "unborn" /\ pc' = [pc EXCEPT ![w] = "starting"]
        BY <3>1 DEF Spawn, Born, Ended
      <4> QED BY <4>1
    <3>2. CASE Join(w)
      <4>1. pc[w] = "exited" /\ pc' = [pc EXCEPT ![w] = "joined"]
        BY <3>2 DEF Join
      <4> QED BY <4>1
    <3> QED BY <1>11, <3>1, <3>2
  <2>2. UNCHANGED <<serving, callback, freeing, connections, deleted, doomed, base>>
    BY <1>11 DEF Spawn, Join
  <2>3. pc'[Main] = pc[Main]
    BY <2>1
  <2> QED BY <2>1, <2>2, <2>3
<1>12. CASE TickTime \/ RepeatTimer \/ OnStop \/ LockMap
  BY <1>12 DEF TickTime, RepeatTimer, OnStop, LockMap
<1>13. ASSUME NEW c \in Connections, DeleteConnection(c) PROVE Serves'
  BY <1>13 DEF DeleteConnection
<1>14. CASE FreeRead \/ FreeWrite
  BY <1>14 DEF FreeRead, FreeWrite
<1>15. CASE FreeDestroy
  BY <1>15 DEF FreeDestroy
<1>16. CASE ClearMap \/ Free
  BY <1>16 DEF ClearMap, Free
<1>17. ASSUME NEW c \in Connections, DispatchAccept(c) PROVE Serves'
  BY <1>17 DEF DispatchAccept
<1>18. ASSUME NEW u \in Timers, DispatchTimer(u) PROVE Serves'
  BY <1>18 DEF DispatchTimer
<1>19. CASE DispatchListenerError \/ DispatchTick \/ DispatchKill \/ DispatchSignal
  BY <1>19 DEF DispatchListenerError, DispatchTick, DispatchKill, DispatchSignal
<1>20. CASE CreateTimerThrows
  BY <1>20 DEF CreateTimerThrows
<1>21. ASSUME NEW t \in Threads, Terminate(t) PROVE Serves'
  BY <1>21 DEF Terminate
<1>22. CASE UNCHANGED vars BY <1>22 DEF vars
<1>23. ASSUME NEW t \in Threads, Application(t) PROVE Serves'
  BY ONLY <1>1, <1>2, <1>3, <1>23 DEF Application
<1>24. ASSUME NEW t \in Threads, Library(t) PROVE Serves'
  BY ONLY <1>5, <1>6, <1>7, <1>8, <1>24 DEF Library
<1>25. CASE Run
  BY ONLY <1>10, <1>11, <1>12, <1>13, <1>14, <1>15, <1>16, <1>25 DEF Run
<1>26. CASE ControlDispatch
  BY ONLY <1>17, <1>18, <1>19, <1>26 DEF ControlDispatch
<1> QED BY ONLY <1>4, <1>9, <1>20, <1>21, <1>22, <1>23, <1>24, <1>25, <1>26, [Next]_vars
  DEF Next, Dispatch

\* A thread that could add a connection serves one, and the map has none.
LEMMA ClearedStep ==
  ASSUME TypeOK, Frames, Serves, Cleared, [Next]_vars
  PROVE  Cleared'
<1> USE LifecycleAssumption DEF LifecycleAssumption, Threads, Loops, Goto, User, CallAbort,
     InLoop, New, Throw, KeepHandles, flags, events, clocks, map, calls, stack, UserLabels,
     CallbackLabels, TypeOK,
     FreeLabels, Runs, Freed, Closed, Frames, Serves, Cleared, Ended, WorkerLabels
<1>1. ASSUME NEW t \in Threads, NEW c \in Connections,
             ConnectTo(t, c) \/ Release(t, c) \/ Close(t, c)
      PROVE  Cleared'
  BY <1>1 DEF ConnectTo, Release, Close
<1>2. ASSUME NEW t \in Threads, NEW u \in Timers, CreateTimer(t, u) \/ FindTimer(t, u)
      PROVE  Cleared'
  BY <1>2 DEF CreateTimer, FindTimer
<1>3. ASSUME NEW t \in Threads, CallCount(t) \/ Shutdown(t) \/ Abort(t) PROVE Cleared'
  BY <1>3 DEF CallCount, Shutdown, Abort
<1>4. ASSUME NEW t \in Threads, EndUser(t) PROVE Cleared'
  BY <1>4 DEF EndUser
<1>5. ASSUME NEW t \in Threads, EnterLoop(t) \/ LeaveLoop(t) \/ Count(t) \/ AddTimer(t)
      PROVE  Cleared'
  BY <1>5 DEF EnterLoop, LeaveLoop, Count, AddTimer
<1>6. ASSUME NEW t \in Threads, AddConnection(t) \/ RequestHandle(t) PROVE Cleared'
  BY <1>6 DEF AddConnection, RequestHandle
<1>7. ASSUME NEW t \in Threads, CloseConnection(t) PROVE Cleared'
  BY <1>7 DEF CloseConnection
<1>8. ASSUME NEW t \in Threads,
             SetAbort(t) \/ (\E w \in Workers : BreakWorker(t, w)) \/ BreakMain(t)
      PROVE  Cleared'
  BY <1>8 DEF SetAbort, BreakWorker, BreakMain
<1>9. ASSUME NEW t \in Threads, NEW c \in Connections, DispatchIO(t, c) \/ DispatchDestroy(t, c)
      PROVE  Cleared'
  BY <1>9 DEF DispatchIO, DispatchDestroy
<1>10. CASE Configure \/ ConfigureFails \/ SpawnFails \/ SpawnThrows \/ OnStart \/ TestAbort
  BY <1>10 DEF Configure, ConfigureFails, SpawnFails, SpawnThrows, OnStart, TestAbort
<1>11. ASSUME NEW w \in Workers, Spawn(w) \/ Join(w) PROVE Cleared'
  BY <1>11 DEF Spawn, Join
<1>12. CASE TickTime \/ RepeatTimer \/ OnStop \/ LockMap
  BY <1>12 DEF TickTime, RepeatTimer, OnStop, LockMap
<1>13. ASSUME NEW c \in Connections, DeleteConnection(c) PROVE Cleared'
  BY <1>13 DEF DeleteConnection
<1>14. CASE FreeRead \/ FreeWrite
  BY <1>14 DEF FreeRead, FreeWrite
<1>15. CASE FreeDestroy
  BY <1>15 DEF FreeDestroy
<1>16. CASE ClearMap \/ Free
  BY <1>16 DEF ClearMap, Free
<1>17. ASSUME NEW c \in Connections, DispatchAccept(c) PROVE Cleared'
  BY <1>17 DEF DispatchAccept
<1>18. ASSUME NEW u \in Timers, DispatchTimer(u) PROVE Cleared'
  BY <1>18 DEF DispatchTimer
<1>19. CASE DispatchListenerError \/ DispatchTick \/ DispatchKill \/ DispatchSignal
  BY <1>19 DEF DispatchListenerError, DispatchTick, DispatchKill, DispatchSignal
<1>20. CASE CreateTimerThrows
  BY <1>20 DEF CreateTimerThrows
<1>21. ASSUME NEW t \in Threads, Terminate(t) PROVE Cleared'
  BY <1>21 DEF Terminate
<1>22. CASE UNCHANGED vars BY <1>22 DEF vars
<1>23. ASSUME NEW t \in Threads, Application(t) PROVE Cleared'
  BY ONLY <1>1, <1>2, <1>3, <1>23 DEF Application
<1>24. ASSUME NEW t \in Threads, Library(t) PROVE Cleared'
  BY ONLY <1>5, <1>6, <1>7, <1>8, <1>24 DEF Library
<1>25. CASE Run
  BY ONLY <1>10, <1>11, <1>12, <1>13, <1>14, <1>15, <1>16, <1>25 DEF Run
<1>26. CASE ControlDispatch
  BY ONLY <1>17, <1>18, <1>19, <1>26 DEF ControlDispatch
<1> QED BY ONLY <1>4, <1>9, <1>20, <1>21, <1>22, <1>23, <1>24, <1>25, <1>26, [Next]_vars
  DEF Next, Dispatch

-----------------------------------------------------------------------------
(* Breaks                                                                  *)

\* While _cleanup joins no worker is in abort, for it would serve a connection.
LEMMA BreaksStep ==
  ASSUME TypeOK, Frames, Serves, Cleared, Born, BreaksLiveWorkers, [Next]_vars
  PROVE  BreaksLiveWorkers'
<1> USE LifecycleAssumption DEF LifecycleAssumption, Threads, Loops, Goto, User, CallAbort,
     InLoop, New, Throw, KeepHandles, flags, events, clocks, map, calls, stack, UserLabels,
     CallbackLabels, TypeOK,
     FreeLabels, Runs, Freed, Closed, Frames, Serves, Cleared, Born, BreaksLiveWorkers, Ended, WorkerLabels
<1>1. ASSUME NEW t \in Threads, NEW c \in Connections,
             ConnectTo(t, c) \/ Release(t, c) \/ Close(t, c)
      PROVE  BreaksLiveWorkers'
  BY <1>1 DEF ConnectTo, Release, Close
<1>2. ASSUME NEW t \in Threads, NEW u \in Timers, CreateTimer(t, u) \/ FindTimer(t, u)
      PROVE  BreaksLiveWorkers'
  BY <1>2 DEF CreateTimer, FindTimer
<1>3. ASSUME NEW t \in Threads, CallCount(t) \/ Shutdown(t) \/ Abort(t) PROVE BreaksLiveWorkers'
  BY <1>3 DEF CallCount, Shutdown, Abort
<1>4. ASSUME NEW t \in Threads, EndUser(t) PROVE BreaksLiveWorkers'
  BY <1>4 DEF EndUser
<1>5. ASSUME NEW t \in Threads, EnterLoop(t) \/ LeaveLoop(t) \/ Count(t) \/ AddTimer(t)
      PROVE  BreaksLiveWorkers'
  BY <1>5 DEF EnterLoop, LeaveLoop, Count, AddTimer
<1>6. ASSUME NEW t \in Threads, AddConnection(t) \/ RequestHandle(t) PROVE BreaksLiveWorkers'
  BY <1>6 DEF AddConnection, RequestHandle
<1>7. ASSUME NEW t \in Threads, CloseConnection(t) PROVE BreaksLiveWorkers'
  BY <1>7 DEF CloseConnection
<1>8. ASSUME NEW t \in Threads,
             SetAbort(t) \/ (\E w \in Workers : BreakWorker(t, w)) \/ BreakMain(t)
      PROVE  BreaksLiveWorkers'
  BY <1>8 DEF SetAbort, BreakWorker, BreakMain
<1>9. ASSUME NEW t \in Threads, NEW c \in Connections, DispatchIO(t, c) \/ DispatchDestroy(t, c)
      PROVE  BreaksLiveWorkers'
  BY <1>9 DEF DispatchIO, DispatchDestroy
<1>10. CASE Configure \/ ConfigureFails \/ SpawnFails \/ SpawnThrows \/ OnStart \/ TestAbort
  BY <1>10 DEF Configure, ConfigureFails, SpawnFails, SpawnThrows, OnStart, TestAbort
<1>11. ASSUME NEW w \in Workers, Spawn(w) \/ Join(w) PROVE BreaksLiveWorkers'
  BY <1>11 DEF Spawn, Join
<1>12. CASE TickTime \/ RepeatTimer \/ OnStop \/ LockMap
  BY <1>12 DEF TickTime, RepeatTimer, OnStop, LockMap
<1>13. ASSUME NEW c \in Connections, DeleteConnection(c) PROVE BreaksLiveWorkers'
  BY <1>13 DEF DeleteConnection
<1>14. CASE FreeRead \/ FreeWrite
  BY <1>14 DEF FreeRead, FreeWrite
<1>15. CASE FreeDestroy
  BY <1>15 DEF FreeDestroy
<1>16. CASE ClearMap \/ Free
  BY <1>16 DEF ClearMap, Free
<1>17. ASSUME NEW c \in Connections, DispatchAccept(c) PROVE BreaksLiveWorkers'
  BY <1>17 DEF DispatchAccept
<1>18. ASSUME NEW u \in Timers, DispatchTimer(u) PROVE BreaksLiveWorkers'
  BY <1>18 DEF DispatchTimer
<1>19. CASE DispatchListenerError \/ DispatchTick \/ DispatchKill \/ DispatchSignal
  BY <1>19 DEF DispatchListenerError, DispatchTick, DispatchKill, DispatchSignal
<1>20. CASE CreateTimerThrows
  BY <1>20 DEF CreateTimerThrows
<1>21. ASSUME NEW t \in Threads, Terminate(t) PROVE BreaksLiveWorkers'
  BY <1>21 DEF Terminate
<1>22. CASE UNCHANGED vars BY <1>22 DEF vars
<1>23. ASSUME NEW t \in Threads, Application(t) PROVE BreaksLiveWorkers'
  BY ONLY <1>1, <1>2, <1>3, <1>23 DEF Application
<1>24. ASSUME NEW t \in Threads, Library(t) PROVE BreaksLiveWorkers'
  BY ONLY <1>5, <1>6, <1>7, <1>8, <1>24 DEF Library
<1>25. CASE Run
  BY ONLY <1>10, <1>11, <1>12, <1>13, <1>14, <1>15, <1>16, <1>25 DEF Run
<1>26. CASE ControlDispatch
  BY ONLY <1>17, <1>18, <1>19, <1>26 DEF ControlDispatch
<1> QED BY ONLY <1>4, <1>9, <1>20, <1>21, <1>22, <1>23, <1>24, <1>25, <1>26, [Next]_vars
  DEF Next, Dispatch

-----------------------------------------------------------------------------
(* Clocks                                                                  *)

\* A timer is firing only in userTimerCB, and the events there are, are those of
\* timers there are.
Firing ==
  /\ firing # NoTimer =>
       \/ pc[Main] = "timer"
       \/ pc[Main] \in UserLabels /\ resume[Main] = "timer" /\ ret[Main] = "user"
  /\ timerEvents \subseteq userTimers
  /\ pc[Main] \notin Ended \cup {"terminated"} => started \cup repeating \subseteq userTimers

Clocks == Firing /\ TimerAlive /\ RepeatsOn

\* userTimerCB ends where its timer stops firing; only a timer that was found is
\* started.
LEMMA FiringStep ==
  ASSUME TypeOK, Frames, TimerAlive, Firing, [Next]_vars
  PROVE  Firing'
<1> USE LifecycleAssumption DEF LifecycleAssumption, Threads, Loops, Goto, User, CallAbort,
     InLoop, New, Throw, KeepHandles, flags, events, clocks, map, calls, stack, UserLabels,
     CallbackLabels, TypeOK,
     FreeLabels, Runs, Freed, Closed, Frames, TimerAlive, Firing, Ended, WorkerLabels
<1>1. ASSUME NEW t \in Threads, NEW c \in Connections,
             ConnectTo(t, c) \/ Release(t, c) \/ Close(t, c)
      PROVE  Firing'
  BY <1>1 DEF ConnectTo, Release, Close
<1>2. ASSUME NEW t \in Threads, NEW u \in Timers, CreateTimer(t, u) \/ FindTimer(t, u)
      PROVE  Firing'
  BY <1>2 DEF CreateTimer, FindTimer
<1>3. ASSUME NEW t \in Threads, CallCount(t) \/ Shutdown(t) \/ Abort(t) PROVE Firing'
  BY <1>3 DEF CallCount, Shutdown, Abort
<1>4. ASSUME NEW t \in Threads, EndUser(t) PROVE Firing'
  BY <1>4 DEF EndUser
<1>5. ASSUME NEW t \in Threads, EnterLoop(t) \/ LeaveLoop(t) \/ Count(t) \/ AddTimer(t)
      PROVE  Firing'
  BY <1>5 DEF EnterLoop, LeaveLoop, Count, AddTimer
<1>6. ASSUME NEW t \in Threads, AddConnection(t) \/ RequestHandle(t) PROVE Firing'
  BY <1>6 DEF AddConnection, RequestHandle
<1>7. ASSUME NEW t \in Threads, CloseConnection(t) PROVE Firing'
  BY <1>7 DEF CloseConnection
<1>8. ASSUME NEW t \in Threads,
             SetAbort(t) \/ (\E w \in Workers : BreakWorker(t, w)) \/ BreakMain(t)
      PROVE  Firing'
  BY <1>8 DEF SetAbort, BreakWorker, BreakMain
<1>9. ASSUME NEW t \in Threads, NEW c \in Connections, DispatchIO(t, c) \/ DispatchDestroy(t, c)
      PROVE  Firing'
  BY <1>9 DEF DispatchIO, DispatchDestroy
<1>10. CASE Configure \/ ConfigureFails \/ SpawnFails \/ SpawnThrows \/ OnStart \/ TestAbort
  BY <1>10 DEF Configure, ConfigureFails, SpawnFails, SpawnThrows, OnStart, TestAbort
<1>11. ASSUME NEW w \in Workers, Spawn(w) \/ Join(w) PROVE Firing'
  BY <1>11 DEF Spawn, Join
<1>12. CASE TickTime \/ RepeatTimer \/ OnStop \/ LockMap
  BY <1>12 DEF TickTime, RepeatTimer, OnStop, LockMap
<1>13. ASSUME NEW c \in Connections, DeleteConnection(c) PROVE Firing'
  BY <1>13 DEF DeleteConnection
<1>14. CASE FreeRead \/ FreeWrite
  BY <1>14 DEF FreeRead, FreeWrite
<1>15. CASE FreeDestroy
  BY <1>15 DEF FreeDestroy
<1>16. CASE ClearMap \/ Free
  BY <1>16 DEF ClearMap, Free
<1>17. ASSUME NEW c \in Connections, DispatchAccept(c) PROVE Firing'
  BY <1>17 DEF DispatchAccept
<1>18. ASSUME NEW u \in Timers, DispatchTimer(u) PROVE Firing'
  BY <1>18 DEF DispatchTimer
<1>19. CASE DispatchListenerError \/ DispatchTick \/ DispatchKill \/ DispatchSignal
  BY <1>19 DEF DispatchListenerError, DispatchTick, DispatchKill, DispatchSignal
<1>20. CASE CreateTimerThrows
  BY <1>20 DEF CreateTimerThrows
<1>21. ASSUME NEW t \in Threads, Terminate(t) PROVE Firing'
  BY <1>21 DEF Terminate
<1>22. CASE UNCHANGED vars BY <1>22 DEF vars
<1>23. ASSUME NEW t \in Threads, Application(t) PROVE Firing'
  BY ONLY <1>1, <1>2, <1>3, <1>23 DEF Application
<1>24. ASSUME NEW t \in Threads, Library(t) PROVE Firing'
  BY ONLY <1>5, <1>6, <1>7, <1>8, <1>24 DEF Library
<1>25. CASE Run
  BY ONLY <1>10, <1>11, <1>12, <1>13, <1>14, <1>15, <1>16, <1>25 DEF Run
<1>26. CASE ControlDispatch
  BY ONLY <1>17, <1>18, <1>19, <1>26 DEF ControlDispatch
<1> QED BY ONLY <1>4, <1>9, <1>20, <1>21, <1>22, <1>23, <1>24, <1>25, <1>26, [Next]_vars
  DEF Next, Dispatch

\* _cleanup frees the timers after it has cleared the map: no worker is starting
\* one.
LEMMA TimerAliveStep ==
  ASSUME TypeOK, Frames, Serves, Cleared, Firing, TimerAlive, [Next]_vars
  PROVE  TimerAlive'
<1> USE LifecycleAssumption DEF LifecycleAssumption, Threads, Loops, Goto, User, CallAbort,
     InLoop, New, Throw, KeepHandles, flags, events, clocks, map, calls, stack, UserLabels,
     CallbackLabels, TypeOK,
     FreeLabels, Runs, Freed, Closed, Frames, Serves, Cleared, Firing, TimerAlive, Ended, WorkerLabels
<1>1. ASSUME NEW t \in Threads, NEW c \in Connections,
             ConnectTo(t, c) \/ Release(t, c) \/ Close(t, c)
      PROVE  TimerAlive'
  BY <1>1 DEF ConnectTo, Release, Close
<1>2. ASSUME NEW t \in Threads, NEW u \in Timers, CreateTimer(t, u) \/ FindTimer(t, u)
      PROVE  TimerAlive'
  BY <1>2 DEF CreateTimer, FindTimer
<1>3. ASSUME NEW t \in Threads, CallCount(t) \/ Shutdown(t) \/ Abort(t) PROVE TimerAlive'
  BY <1>3 DEF CallCount, Shutdown, Abort
<1>4. ASSUME NEW t \in Threads, EndUser(t) PROVE TimerAlive'
  BY <1>4 DEF EndUser
<1>5. ASSUME NEW t \in Threads, EnterLoop(t) \/ LeaveLoop(t) \/ Count(t) \/ AddTimer(t)
      PROVE  TimerAlive'
  BY <1>5 DEF EnterLoop, LeaveLoop, Count, AddTimer
<1>6. ASSUME NEW t \in Threads, AddConnection(t) \/ RequestHandle(t) PROVE TimerAlive'
  BY <1>6 DEF AddConnection, RequestHandle
<1>7. ASSUME NEW t \in Threads, CloseConnection(t) PROVE TimerAlive'
  BY <1>7 DEF CloseConnection
<1>8. ASSUME NEW t \in Threads,
             SetAbort(t) \/ (\E w \in Workers : BreakWorker(t, w)) \/ BreakMain(t)
      PROVE  TimerAlive'
  BY <1>8 DEF SetAbort, BreakWorker, BreakMain
<1>9. ASSUME NEW t \in Threads, NEW c \in Connections, DispatchIO(t, c) \/ DispatchDestroy(t, c)
      PROVE  TimerAlive'
  BY <1>9 DEF DispatchIO, DispatchDestroy
<1>10. CASE Configure \/ ConfigureFails \/ SpawnFails \/ SpawnThrows \/ OnStart \/ TestAbort
  BY <1>10 DEF Configure, ConfigureFails, SpawnFails, SpawnThrows, OnStart, TestAbort
<1>11. ASSUME NEW w \in Workers, Spawn(w) \/ Join(w) PROVE TimerAlive'
  BY <1>11 DEF Spawn, Join
<1>12. CASE TickTime \/ RepeatTimer \/ OnStop \/ LockMap
  BY <1>12 DEF TickTime, RepeatTimer, OnStop, LockMap
<1>13. ASSUME NEW c \in Connections, DeleteConnection(c) PROVE TimerAlive'
  BY <1>13 DEF DeleteConnection
<1>14. CASE FreeRead \/ FreeWrite
  BY <1>14 DEF FreeRead, FreeWrite
<1>15. CASE FreeDestroy
  BY <1>15 DEF FreeDestroy
<1>16. CASE ClearMap \/ Free
  BY <1>16 DEF ClearMap, Free
<1>17. ASSUME NEW c \in Connections, DispatchAccept(c) PROVE TimerAlive'
  BY <1>17 DEF DispatchAccept
<1>18. ASSUME NEW u \in Timers, DispatchTimer(u) PROVE TimerAlive'
  BY <1>18 DEF DispatchTimer
<1>19. CASE DispatchListenerError \/ DispatchTick \/ DispatchKill \/ DispatchSignal
  BY <1>19 DEF DispatchListenerError, DispatchTick, DispatchKill, DispatchSignal
<1>20. CASE CreateTimerThrows
  BY <1>20 DEF CreateTimerThrows
<1>21. ASSUME NEW t \in Threads, Terminate(t) PROVE TimerAlive'
  BY <1>21 DEF Terminate
<1>22. CASE UNCHANGED vars BY <1>22 DEF vars
<1>23. ASSUME NEW t \in Threads, Application(t) PROVE TimerAlive'
  BY ONLY <1>1, <1>2, <1>3, <1>23 DEF Application
<1>24. ASSUME NEW t \in Threads, Library(t) PROVE TimerAlive'
  BY ONLY <1>5, <1>6, <1>7, <1>8, <1>24 DEF Library
<1>25. CASE Run
  BY ONLY <1>10, <1>11, <1>12, <1>13, <1>14, <1>15, <1>16, <1>25 DEF Run
<1>26. CASE ControlDispatch
  BY ONLY <1>17, <1>18, <1>19, <1>26 DEF ControlDispatch
<1> QED BY ONLY <1>4, <1>9, <1>20, <1>21, <1>22, <1>23, <1>24, <1>25, <1>26, [Next]_vars
  DEF Next, Dispatch

\* userTimerCB adds the event of a repeating timer again, whatever onTimer did.
LEMMA RepeatsStep ==
  ASSUME TypeOK, Frames, Serves, Cleared, Firing, RepeatsOn, [Next]_vars
  PROVE  RepeatsOn'
<1> USE LifecycleAssumption DEF LifecycleAssumption, Threads, Loops, Goto, User, CallAbort,
     InLoop, New, Throw, KeepHandles, flags, events, clocks, map, calls, stack, UserLabels,
     CallbackLabels, TypeOK,
     FreeLabels, Runs, Freed, Closed, Frames, Serves, Cleared, Firing, RepeatsOn, Ended, WorkerLabels
<1>1. ASSUME NEW t \in Threads, NEW c \in Connections,
             ConnectTo(t, c) \/ Release(t, c) \/ Close(t, c)
      PROVE  RepeatsOn'
  BY <1>1 DEF ConnectTo, Release, Close
<1>2. ASSUME NEW t \in Threads, NEW u \in Timers, CreateTimer(t, u) \/ FindTimer(t, u)
      PROVE  RepeatsOn'
  BY <1>2 DEF CreateTimer, FindTimer
<1>3. ASSUME NEW t \in Threads, CallCount(t) \/ Shutdown(t) \/ Abort(t) PROVE RepeatsOn'
  BY <1>3 DEF CallCount, Shutdown, Abort
<1>4. ASSUME NEW t \in Threads, EndUser(t) PROVE RepeatsOn'
  BY <1>4 DEF EndUser
<1>5. ASSUME NEW t \in Threads, EnterLoop(t) \/ LeaveLoop(t) \/ Count(t) \/ AddTimer(t)
      PROVE  RepeatsOn'
  BY <1>5 DEF EnterLoop, LeaveLoop, Count, AddTimer
<1>6. ASSUME NEW t \in Threads, AddConnection(t) \/ RequestHandle(t) PROVE RepeatsOn'
  BY <1>6 DEF AddConnection, RequestHandle
<1>7. ASSUME NEW t \in Threads, CloseConnection(t) PROVE RepeatsOn'
  BY <1>7 DEF CloseConnection
<1>8. ASSUME NEW t \in Threads,
             SetAbort(t) \/ (\E w \in Workers : BreakWorker(t, w)) \/ BreakMain(t)
      PROVE  RepeatsOn'
  BY <1>8 DEF SetAbort, BreakWorker, BreakMain
<1>9. ASSUME NEW t \in Threads, NEW c \in Connections, DispatchIO(t, c) \/ DispatchDestroy(t, c)
      PROVE  RepeatsOn'
  BY <1>9 DEF DispatchIO, DispatchDestroy
<1>10. CASE Configure \/ ConfigureFails \/ SpawnFails \/ SpawnThrows \/ OnStart \/ TestAbort
  BY <1>10 DEF Configure, ConfigureFails, SpawnFails, SpawnThrows, OnStart, TestAbort
<1>11. ASSUME NEW w \in Workers, Spawn(w) \/ Join(w) PROVE RepeatsOn'
  BY <1>11 DEF Spawn, Join
<1>12. CASE TickTime \/ RepeatTimer \/ OnStop \/ LockMap
  BY <1>12 DEF TickTime, RepeatTimer, OnStop, LockMap
<1>13. ASSUME NEW c \in Connections, DeleteConnection(c) PROVE RepeatsOn'
  BY <1>13 DEF DeleteConnection
<1>14. CASE FreeRead \/ FreeWrite
  BY <1>14 DEF FreeRead, FreeWrite
<1>15. CASE FreeDestroy
  BY <1>15 DEF FreeDestroy
<1>16. CASE ClearMap \/ Free
  BY <1>16 DEF ClearMap, Free
<1>17. ASSUME NEW c \in Connections, DispatchAccept(c) PROVE RepeatsOn'
  BY <1>17 DEF DispatchAccept
<1>18. ASSUME NEW u \in Timers, DispatchTimer(u) PROVE RepeatsOn'
  BY <1>18 DEF DispatchTimer
<1>19. CASE DispatchListenerError \/ DispatchTick \/ DispatchKill \/ DispatchSignal
  BY <1>19 DEF DispatchListenerError, DispatchTick, DispatchKill, DispatchSignal
<1>20. CASE CreateTimerThrows
  BY <1>20 DEF CreateTimerThrows
<1>21. ASSUME NEW t \in Threads, Terminate(t) PROVE RepeatsOn'
  BY <1>21 DEF Terminate
<1>22. CASE UNCHANGED vars BY <1>22 DEF vars
<1>23. ASSUME NEW t \in Threads, Application(t) PROVE RepeatsOn'
  BY ONLY <1>1, <1>2, <1>3, <1>23 DEF Application
<1>24. ASSUME NEW t \in Threads, Library(t) PROVE RepeatsOn'
  BY ONLY <1>5, <1>6, <1>7, <1>8, <1>24 DEF Library
<1>25. CASE Run
  BY ONLY <1>10, <1>11, <1>12, <1>13, <1>14, <1>15, <1>16, <1>25 DEF Run
<1>26. CASE ControlDispatch
  BY ONLY <1>17, <1>18, <1>19, <1>26 DEF ControlDispatch
<1> QED BY ONLY <1>4, <1>9, <1>20, <1>21, <1>22, <1>23, <1>24, <1>25, <1>26, [Next]_vars
  DEF Next, Dispatch

-----------------------------------------------------------------------------
(* The theorems                                                            *)

\* The initial state satisfies everything.
LEMMA InitHolds == Init => Alive /\ BreaksLiveWorkers /\ Clocks
<1> SUFFICES ASSUME Init PROVE Alive /\ BreaksLiveWorkers /\ Clocks
  OBVIOUS
<1> USE LifecycleAssumption DEF LifecycleAssumption, Init, Threads, Loops
<1>1. TypeOK
  <2>1. FlagTypes
    BY DEF FlagTypes
  <2>2. DataTypes
    BY DEF DataTypes, Labels, RunLabels, WorkerLabels, FreeLabels
  <2> QED BY <2>1, <2>2, TypeParts
<1>2. Frames
  BY DEF Frames, WorkerLabels, CallbackLabels, UserLabels
<1>3. Born /\ Entries /\ MapAlive /\ Serves /\ Cleared
  BY DEF Born, Entries, MapAlive, Serves, Cleared, Closed, FreeLabels, Ended
<1>4. BreaksLiveWorkers
  BY DEF BreaksLiveWorkers
<1>5. Clocks
  BY DEF Clocks, Firing, TimerAlive, RepeatsOn
<1> QED BY <1>1, <1>2, <1>3, <1>4, <1>5 DEF Alive

\* The inductive invariant of the manager: a callback's connection is in the map
\* and not deleted, so an empty map means idle workers.
THEOREM AliveInvariant == Spec => []Alive
<1>1. Alive /\ [Next]_vars => Alive'
  <2> SUFFICES ASSUME Alive, [Next]_vars PROVE Alive'
    OBVIOUS
  <2>1. TypeOK'
    BY TypeParts, FlagsStep, DataStep DEF Alive
  <2>2. Frames' /\ Born' /\ Entries' /\ MapAlive' /\ Serves' /\ Cleared'
    BY FramesStep, BornStep, EntriesStep, ServesStep, ClearedStep DEF Alive
  <2> QED BY <2>1, <2>2 DEF Alive
<1> QED BY <1>1, InitHolds, PTL DEF Spec

\* Every variable keeps its type; _connectionsMutex is held from one step to the
\* next by _cleanup alone, while it deletes.
THEOREM LifecycleTypeCorrect == Spec => []TypeOK
<1>1. Alive => TypeOK
  BY DEF Alive
<1> QED BY <1>1, AliveInvariant, PTL

\* No connection is deleted under the event callback that runs for it.
THEOREM NoCallbackOutlived == Spec => []CallbackObjectAlive
<1>1. Alive => CallbackObjectAlive
  BY LifecycleAssumption DEF LifecycleAssumption, Alive, TypeOK, Serves, CallbackObjectAlive
<1> QED BY <1>1, AliveInvariant, PTL

\* destroyCB finds its connection in the map.
THEOREM DestroyFindsItsEntry == Spec => []DestroyFindsEntry
<1>1. Alive => DestroyFindsEntry
  BY DEF Alive, Frames, Serves, DestroyFindsEntry
<1> QED BY <1>1, AliveInvariant, PTL

\* The map never points to a deleted connection where another thread can look.
THEOREM MapStaysAlive == Spec => []MapAlive
<1>1. Alive => MapAlive
  BY DEF Alive
<1> QED BY <1>1, AliveInvariant, PTL

\* run returns, or throws on, only after every connection is deleted and every
\* thread joined.
THEOREM NothingLeftBehind == Spec => []NothingLeft
<1>1. Alive => NothingLeft
  BY DEF Alive, Born, Entries, Cleared, NothingLeft, Ended
<1> QED BY <1>1, AliveInvariant, PTL

\* abort, from whatever thread and however late, breaks no worker that has been
\* joined.
THEOREM AbortBreaksLiveWorkers == Spec => []BreaksLiveWorkers
<1>1. Alive /\ BreaksLiveWorkers /\ [Next]_vars => BreaksLiveWorkers'
  BY BreaksStep DEF Alive
<1> QED BY <1>1, InitHolds, AliveInvariant, PTL DEF Spec

\* The inductive invariant of the user timers.
THEOREM ClocksInvariant == Spec => []Clocks
<1>1. Alive /\ Clocks /\ [Next]_vars => Clocks'
  BY FiringStep, TimerAliveStep, RepeatsStep DEF Alive, Clocks
<1> QED BY <1>1, InitHolds, AliveInvariant, PTL DEF Spec

\* No user timer is freed while a thread starts it or its callback runs.
THEOREM TimersOutliveUse == Spec => []TimerAlive
<1>1. Clocks => TimerAlive
  BY DEF Clocks
<1> QED BY <1>1, ClocksInvariant, PTL

\* A repeating timer stays on: no order of startTimer and userTimerCB stops it.
THEOREM TimersRepeat == Spec => []RepeatsOn
<1>1. Clocks => RepeatsOn
  BY DEF Clocks
<1> QED BY <1>1, ClocksInvariant, PTL

=============================================================================
