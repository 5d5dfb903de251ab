-------------------------- MODULE ConnectionProofs --------------------------
(***************************************************************************)
(* The safety properties of Connection, proved for any number of threads   *)
(* and Handles.                                                            *)
(*                                                                         *)
(* The argument has seven layers, each an inductive invariant that uses the  *)
(* ones before it:                                                         *)
(*   Basic      types, where frames return to, whose Handle is whose        *)
(*   Counted    the count is the number of live Handles                    *)
(*   Closure    one thread closes, and the read event stays down           *)
(*   IOSafe     event_del keeps read() and write() off a closed descriptor *)
(*   Delivery   a queued buffer always has somebody to send it             *)
(*   Lifetime   with one event loop nothing is freed while it is in use    *)
(*   Attended   and every callback of the connection has its Handle        *)
(* Each has a lemma per conjunct with one step per action.                 *)
(***************************************************************************)
EXTENDS Connection, FiniteSetTheorems, TLAPS

-----------------------------------------------------------------------------
(* Counting Handles                                                        *)

\* There are finitely many Handles, so the live ones can be counted.
LEMMA LiveFinite == IsFiniteSet(Live)
<1>1. IsFiniteSet(HandleIds)
  <2>1. IsFiniteSet(Handles \cup {Worker})
    BY ConnectionAssumption, FS_AddElement DEF ConnectionAssumption
  <2>2. IsFiniteSet((Handles \cup {Worker}) \cup {Control})
    BY <2>1, FS_AddElement
  <2>3. HandleIds = (Handles \cup {Worker}) \cup {Control}
    BY DEF HandleIds, LoopThreads
  <2> QED BY <2>2, <2>3
<1>2. Live \in SUBSET HandleIds
  BY DEF Live
<1> QED BY <1>1, <1>2, FS_Subset

\* There are finitely many threads, so those in operator= can be counted.
LEMMA ReassigningFinite == IsFiniteSet(Reassigning)
<1>1. IsFiniteSet(Threads)
  <2>1. IsFiniteSet(Users \cup {Worker})
    BY ConnectionAssumption, FS_AddElement DEF ConnectionAssumption
  <2>2. IsFiniteSet((Users \cup {Worker}) \cup {Control})
    BY <2>1, FS_AddElement
  <2>3. Threads = (Users \cup {Worker}) \cup {Control}
    BY DEF Threads, LoopThreads
  <2> QED BY <2>2, <2>3
<1>2. Reassigning \in SUBSET Threads
  BY DEF Reassigning
<1> QED BY <1>1, <1>2, FS_Subset

\* Increment: a Handle that referred to nothing now refers to the connection.
LEMMA OneMore ==
  ASSUME TypeOK, HandlesCounted, Reassigning' = Reassigning,
         NEW h \in HandleIds, NEW u \in Threads,
         owner[h] = NoOne,
         owner' = [owner EXCEPT ![h] = u],
         references' = references + 1
  PROVE  HandlesCounted'
<1>1. Live' = Live \cup {h} /\ h \notin Live
  BY ConnectionAssumption DEF Live, TypeOK, ConnectionAssumption
<1>2. Cardinality(Live') = Cardinality(Live) + 1
  BY <1>1, LiveFinite, FS_AddElement
<1>3. Cardinality(Live) \in Nat /\ Cardinality(Reassigning) \in Nat
  BY LiveFinite, ReassigningFinite, FS_CardinalityType
<1> QED BY <1>2, <1>3 DEF TypeOK, HandlesCounted

\* Decrement: one Handle less refers to the connection.
LEMMA OneLess ==
  ASSUME TypeOK, HandlesCounted, Reassigning' = Reassigning,
         NEW h \in HandleIds, owner[h] # NoOne,
         owner' = [owner EXCEPT ![h] = NoOne],
         references' = references - 1
  PROVE  HandlesCounted'
<1>1. Live' = Live \ {h} /\ h \in Live
  BY DEF Live, TypeOK
<1>2. Cardinality(Live') = Cardinality(Live) - 1
  BY <1>1, LiveFinite, FS_RemoveElement
<1>3. Cardinality(Live) \in Nat /\ Cardinality(Reassigning) \in Nat
  BY LiveFinite, ReassigningFinite, FS_CardinalityType
<1> QED BY <1>2, <1>3 DEF TypeOK, HandlesCounted

\* Handles that only change hands leave the count alone.
LEMMA SameLive ==
  ASSUME HandlesCounted, Live' = Live, Reassigning' = Reassigning, references' = references
  PROVE  HandlesCounted'
BY DEF HandlesCounted

\* No change of owner, no change of the count.
LEMMA SameCount ==
  ASSUME HandlesCounted, owner' = owner, Reassigning' = Reassigning, references' = references
  PROVE  HandlesCounted'
BY SameLive DEF Live


-----------------------------------------------------------------------------
(* Basic                                                                   *)

\* The return labels are those of the frame a thread is in: outside of a
\* member function, and outside of application code, there is none.
Frames ==
  \A t \in Threads :
    /\ pc[t] \notin MemberLabels => ret[t] = "user"
    /\ pc[t] \notin MemberLabels \cup {"user"} => resume[t] = "user"
    /\ ret[t] \notin {"user", "recount"} => resume[t] = "user"
    /\ pc[t] = "recount" => ret[t] = "user"
    /\ "copy" \notin SelfAssigns => pc[t] # "recount" /\ ret[t] # "recount"

\* A callback's own Handle exists from requestHandle to its destructor.
OwnScoped ==
  \A t \in LoopThreads :
    /\ owner[t] \in {t, NoOne}
    /\ \/ pc[t] \in {"loop", "publish", "request", "acquire", "destroy", "done"}
       \/ ret[t] \in {"loop", "done"}
       \/ resume[t] = "loop"
       => owner[t] = NoOne

Basic == TypeOK /\ Frames /\ OwnScoped

\* Calls and callbacks return to where their frame says.
LEMMA FramesStep ==
  ASSUME TypeOK, Frames, [Next]_vars
  PROVE  Frames'
<1> USE ConnectionAssumption DEF ConnectionAssumption, LoopThreads, Threads, HandleIds, TypeOK,
     Frames, Goto, Call, Callback, EndAt, Return, Resume, At, IdleLabels, MemberLabels,
     DecrementLabels, CloseLabels, CallbackLabels, ReturnLabels, ResumeLabels, object, events,
     queues, locals, control
<1>1. ASSUME NEW t \in Threads, Application(t) PROVE Frames'
  BY <1>1 DEF Application, Copy, Move, Release, AssignToItself, CloseHandle, Write, Drop
<1>2. ASSUME NEW t \in Threads, Member(t) PROVE Frames'
  BY <1>2 DEF Member, LoadReferences, TestClose, Arm, TestAndSetClose, DelRead, DelWrite,
       CloseSocket, LastReference, AddWrite, Recount
<1>3. ASSUME NEW t \in LoopThreads, EndCallback(t) PROVE Frames'
  BY <1>3 DEF EndCallback
<1>4. ASSUME NEW t \in LoopThreads, Common(t) PROVE Frames'
  <2>1. CASE Finish(t)
    <3> DEFINE end == IF t = Worker THEN "loop" ELSE "done"
    <3>1. CASE Drop(t, t, end) BY <2>1, <3>1 DEF Finish, Drop
    <3>2. CASE owner[t] # t /\ EndAt(t, end) /\ UNCHANGED <<object, events, ret, resume>>
      BY <2>1, <3>2 DEF Finish
    <3> QED BY <2>1, <3>1, <3>2 DEF Finish
  <2>2. CASE RequestHandle(t) \/ AcquireHandle(t)
    BY <2>2 DEF RequestHandle, AcquireHandle
  <2> QED BY <1>4, <2>1, <2>2 DEF Common
<1>5. CASE WorkerCallback
  <2>1. CASE CheckOpen \/ ReadData \/ ReadAgain \/ ReadFails \/ ReportHangup \/ Deliver \/
       ReportErrors \/ Drain \/ WriteDone \/ WriteNothing \/ WriteFails \/ ReportWriteFailure \/
       Destroy
    BY <2>1 DEF CheckOpen, ReadData, ReadAgain, ReadFails, ReportHangup, Deliver, ReportErrors,
         Drain, WriteDone, WriteNothing, WriteFails, ReportWriteFailure, Destroy
  <2> QED BY <1>5, <2>1, <1>4 DEF WorkerCallback
<1>6. CASE ControlCallback
  <2>1. CASE Publish \/ Announce
    BY <2>1 DEF Publish, Announce
  <2> QED BY <1>6, <2>1, <1>4 DEF ControlCallback
<1>7. CASE Dispatches
  BY <1>7 DEF Dispatches, DispatchRead, DispatchWrite, DispatchDestroy, DispatchOther, Dispatch,
       LoopIdle
<1>8. CASE UNCHANGED vars BY <1>8 DEF vars
<1> QED BY <1>1, <1>2, <1>3, <1>4, <1>5, <1>6, <1>7, <1>8 DEF Next

\* A callback's own Handle is constructed and destroyed within the callback.
LEMMA OwnScopedStep ==
  ASSUME TypeOK, Frames, OwnScoped, [Next]_vars
  PROVE  OwnScoped'
<1> USE ConnectionAssumption DEF ConnectionAssumption, LoopThreads, Threads, HandleIds, TypeOK,
     Frames, OwnScoped, Goto, Call, Callback, EndAt, Return, Resume, At, IdleLabels,
     MemberLabels, DecrementLabels, CloseLabels, CallbackLabels, ReturnLabels, ResumeLabels,
     object, events, queues, locals, control
<1>1. ASSUME NEW t \in Threads, Application(t) PROVE OwnScoped'
  BY <1>1 DEF Application, Copy, Move, Release, AssignToItself, CloseHandle, Write, Drop
<1>2. ASSUME NEW t \in Threads, Member(t) PROVE OwnScoped'
  BY <1>2 DEF Member, LoadReferences, TestClose, Arm, TestAndSetClose, DelRead, DelWrite,
       CloseSocket, LastReference, AddWrite, Recount
<1>3. ASSUME NEW t \in LoopThreads, EndCallback(t) PROVE OwnScoped'
  BY <1>3 DEF EndCallback
<1>4. ASSUME NEW t \in LoopThreads, Common(t) PROVE OwnScoped'
  <2>1. CASE Finish(t)
    <3> DEFINE end == IF t = Worker THEN "loop" ELSE "done"
    <3>1. CASE Drop(t, t, end) BY <2>1, <3>1 DEF Finish, Drop
    <3>2. CASE owner[t] # t /\ EndAt(t, end) /\ UNCHANGED <<object, events, ret, resume>>
      BY <2>1, <3>2 DEF Finish
    <3> QED BY <2>1, <3>1, <3>2 DEF Finish
  <2>2. CASE RequestHandle(t) \/ AcquireHandle(t)
    BY <2>2 DEF RequestHandle, AcquireHandle
  <2> QED BY <1>4, <2>1, <2>2 DEF Common
<1>5. CASE WorkerCallback
  <2>1. CASE CheckOpen \/ ReadData \/ ReadAgain \/ ReadFails \/ ReportHangup \/ Deliver \/
       ReportErrors \/ Drain \/ WriteDone \/ WriteNothing \/ WriteFails \/ ReportWriteFailure \/
       Destroy
    BY <2>1 DEF CheckOpen, ReadData, ReadAgain, ReadFails, ReportHangup, Deliver, ReportErrors,
         Drain, WriteDone, WriteNothing, WriteFails, ReportWriteFailure, Destroy
  <2> QED BY <1>5, <2>1, <1>4 DEF WorkerCallback
<1>6. CASE ControlCallback
  <2>1. CASE Publish \/ Announce
    BY <2>1 DEF Publish, Announce
  <2> QED BY <1>6, <2>1, <1>4 DEF ControlCallback
<1>7. CASE Dispatches
  BY <1>7 DEF Dispatches, DispatchRead, DispatchWrite, DispatchDestroy, DispatchOther, Dispatch,
       LoopIdle
<1>8. CASE UNCHANGED vars BY <1>8 DEF vars
<1> QED BY <1>1, <1>2, <1>3, <1>4, <1>5, <1>6, <1>7, <1>8 DEF Next

\* Every action assigns each variable a value of its type.
LEMMA TypeStep ==
  ASSUME TypeOK, [Next]_vars
  PROVE  TypeOK'
<1> USE ConnectionAssumption DEF ConnectionAssumption, LoopThreads, Threads, HandleIds,
     TypeOK, Labels, Goto, Call, Callback, EndAt, Return, Resume, At, IdleLabels,
     MemberLabels, DecrementLabels, CloseLabels, CallbackLabels, ReturnLabels,
     ResumeLabels, object, events, queues, locals, control
<1>1. ASSUME NEW t \in Threads, NEW h \in HandleIds, NEW copy \in Handles, NEW u \in Threads, Copy(t, h, copy, u)
      PROVE  TypeOK'
  BY <1>1 DEF Copy
<1>2. ASSUME NEW t \in Threads, NEW h \in Handles, NEW u \in Threads, Move(t, h, u) PROVE TypeOK'
  BY <1>2 DEF Move
<1>3. ASSUME NEW t \in Threads, NEW h \in Handles, Release(t, h) PROVE TypeOK'
  BY <1>3 DEF Release, Drop
<1>4. ASSUME NEW t \in Threads, CloseHandle(t) PROVE TypeOK' BY <1>4 DEF CloseHandle
<1>5. ASSUME NEW t \in Threads, Write(t) PROVE TypeOK'
  <2>1. errors' \in BOOLEAN
    BY <1>5, Zenon DEF Write
  <2>2. /\ freed' \in BOOLEAN /\ destroyEvent' \in BOOLEAN
        /\ readEvent' \in BOOLEAN /\ writeEvent' \in BOOLEAN
    BY <1>5, Zenon DEF Write
  <2> QED BY <1>5, <2>1, <2>2 DEF Write
<1>6. ASSUME NEW t \in Threads, LoadReferences(t) PROVE TypeOK' BY <1>6 DEF LoadReferences
<1>7. ASSUME NEW t \in Threads, TestClose(t) PROVE TypeOK' BY <1>7 DEF TestClose
<1>8. ASSUME NEW t \in Threads, Arm(t) PROVE TypeOK' BY <1>8 DEF Arm
<1>9. ASSUME NEW t \in Threads, TestAndSetClose(t) PROVE TypeOK' BY <1>9 DEF TestAndSetClose
<1>10. ASSUME NEW t \in Threads, DelRead(t) PROVE TypeOK'
  <2>1. /\ freed' \in BOOLEAN /\ destroyEvent' \in BOOLEAN /\ readEvent' \in BOOLEAN
        /\ writeEvent' \in BOOLEAN /\ errors' \in BOOLEAN /\ closed' \in BOOLEAN
        /\ good' \in BOOLEAN /\ socketOpen' \in BOOLEAN
    BY <1>10, Zenon DEF DelRead
  <2> QED BY <1>10, <2>1 DEF DelRead
<1>11. ASSUME NEW t \in Threads, DelWrite(t) PROVE TypeOK'
  <2>1. /\ freed' \in BOOLEAN /\ destroyEvent' \in BOOLEAN /\ readEvent' \in BOOLEAN
        /\ writeEvent' \in BOOLEAN /\ errors' \in BOOLEAN /\ closed' \in BOOLEAN
        /\ good' \in BOOLEAN /\ socketOpen' \in BOOLEAN
    BY <1>11, Zenon DEF DelWrite
  <2> QED BY <1>11, <2>1 DEF DelWrite
<1>12. ASSUME NEW t \in Threads, CloseSocket(t) PROVE TypeOK'
  <2>1. /\ freed' \in BOOLEAN /\ destroyEvent' \in BOOLEAN /\ readEvent' \in BOOLEAN
        /\ writeEvent' \in BOOLEAN /\ errors' \in BOOLEAN /\ closed' \in BOOLEAN
        /\ good' \in BOOLEAN /\ socketOpen' \in BOOLEAN
    BY <1>12, Zenon DEF CloseSocket
  <2> QED BY <1>12, <2>1 DEF CloseSocket
<1>13. ASSUME NEW t \in Threads, LastReference(t) PROVE TypeOK' BY <1>13 DEF LastReference
<1>14. ASSUME NEW t \in Threads, AddWrite(t) PROVE TypeOK' BY <1>14 DEF AddWrite
<1>15. ASSUME NEW t \in LoopThreads, EndCallback(t) PROVE TypeOK' BY <1>15 DEF EndCallback
<1>16. ASSUME NEW t \in LoopThreads, RequestHandle(t) PROVE TypeOK' BY <1>16 DEF RequestHandle
<1>17. ASSUME NEW t \in LoopThreads, AcquireHandle(t) PROVE TypeOK' BY <1>17 DEF AcquireHandle
<1>18. ASSUME NEW t \in LoopThreads, Finish(t) PROVE TypeOK'
  <2>1. references' \in Int
    BY <1>18 DEF Finish, Drop
  <2>2. good' \in BOOLEAN
    BY <1>18, Zenon DEF Finish
  <2> DEFINE end == IF t = Worker THEN "loop" ELSE "done"
  <2>3. CASE Drop(t, t, end)
    BY <1>18, <2>1, <2>2, <2>3, ZenonT(60) DEF Finish, Drop
  <2>4. CASE owner[t] # t /\ EndAt(t, end) /\ UNCHANGED <<object, events, ret, resume>>
    BY <1>18, <2>2, <2>4 DEF Finish
  <2> QED BY <1>18, <2>3, <2>4 DEF Finish
<1>19. CASE CheckOpen BY <1>19 DEF CheckOpen
<1>20. CASE ReadData BY <1>20 DEF ReadData
<1>21. CASE ReadAgain BY <1>21 DEF ReadAgain
<1>22. CASE ReadFails BY <1>22 DEF ReadFails
<1>23. CASE ReportHangup BY <1>23 DEF ReportHangup
<1>24. CASE Deliver
  <2>1. errors' \in BOOLEAN
    BY <1>24, Zenon DEF Deliver
  <2>2. /\ freed' \in BOOLEAN /\ destroyEvent' \in BOOLEAN
        /\ readEvent' \in BOOLEAN /\ writeEvent' \in BOOLEAN
    BY <1>24, Zenon DEF Deliver
  <2> QED BY <1>24, <2>1, <2>2 DEF Deliver
<1>25. CASE ReportErrors
  <2>1. errors' \in BOOLEAN
    BY <1>25, Zenon DEF ReportErrors
  <2>2. /\ freed' \in BOOLEAN /\ destroyEvent' \in BOOLEAN
        /\ readEvent' \in BOOLEAN /\ writeEvent' \in BOOLEAN
    BY <1>25, Zenon DEF ReportErrors
  <2> QED BY <1>25, <2>1, <2>2 DEF ReportErrors
<1>26. CASE Drain BY <1>26 DEF Drain
<1>27. CASE WriteDone BY <1>27 DEF WriteDone
<1>28. CASE WriteNothing
  <2>1. /\ freed' \in BOOLEAN /\ destroyEvent' \in BOOLEAN /\ readEvent' \in BOOLEAN
        /\ writeEvent' \in BOOLEAN /\ errors' \in BOOLEAN /\ closed' \in BOOLEAN
        /\ good' \in BOOLEAN /\ socketOpen' \in BOOLEAN
    BY <1>28, Zenon DEF WriteNothing
  <2> QED BY <1>28, <2>1 DEF WriteNothing
<1>29. CASE WriteFails
  <2>1. /\ freed' \in BOOLEAN /\ destroyEvent' \in BOOLEAN /\ readEvent' \in BOOLEAN
        /\ writeEvent' \in BOOLEAN /\ errors' \in BOOLEAN /\ closed' \in BOOLEAN
        /\ good' \in BOOLEAN /\ socketOpen' \in BOOLEAN
    BY <1>29, Zenon DEF WriteFails
  <2> QED BY <1>29, <2>1 DEF WriteFails
<1>30. CASE ReportWriteFailure BY <1>30 DEF ReportWriteFailure
<1>31. CASE Destroy
  <2>1. errors' \in BOOLEAN
    BY <1>31, Zenon DEF Destroy
  <2>2. /\ freed' \in BOOLEAN /\ destroyEvent' \in BOOLEAN
        /\ readEvent' \in BOOLEAN /\ writeEvent' \in BOOLEAN
    BY <1>31, Zenon DEF Destroy
  <2> QED BY <1>31, <2>1, <2>2 DEF Destroy
<1>32. CASE Publish BY <1>32 DEF Publish
<1>33. CASE Announce BY <1>33 DEF Announce
<1>34. CASE DispatchRead BY <1>34 DEF DispatchRead, Dispatch, LoopIdle
<1>35. CASE DispatchWrite BY <1>35 DEF DispatchWrite, Dispatch, LoopIdle
<1>36. CASE DispatchDestroy BY <1>36 DEF DispatchDestroy, Dispatch, LoopIdle
<1>37. CASE DispatchOther BY <1>37 DEF DispatchOther, LoopIdle
<1>38. CASE UNCHANGED vars BY <1>38 DEF vars
<1>39. ASSUME NEW t \in Threads, NEW h \in Handles \cup {Control}, AssignToItself(t, h)
       PROVE  TypeOK'
  BY <1>39 DEF AssignToItself
<1>40. ASSUME NEW t \in Threads, Recount(t) PROVE TypeOK' BY <1>40 DEF Recount
<1> QED BY <1>1, <1>2, <1>3, <1>4, <1>5, <1>6, <1>7, <1>8, <1>9, <1>10, <1>11, <1>12, <1>13,
     <1>14, <1>15, <1>16, <1>17, <1>18, <1>19, <1>20, <1>21, <1>22, <1>23, <1>24, <1>25, <1>26,
     <1>27, <1>28, <1>29, <1>30, <1>31, <1>32, <1>33, <1>34, <1>35, <1>36, <1>37, <1>38, <1>39, <1>40 DEF
     Next, Application, Member, WorkerCallback, ControlCallback, Common, Dispatches

\* The invariant every other layer starts from.
THEOREM BasicInvariant == Spec => []Basic
<1>1. Init => Basic
  <2>3. ASSUME Init PROVE TypeOK
    <3>1. /\ closed \in BOOLEAN /\ freed \in BOOLEAN /\ socketOpen \in BOOLEAN
          /\ readEvent \in BOOLEAN /\ writeEvent \in BOOLEAN /\ destroyEvent \in BOOLEAN
          /\ errors \in BOOLEAN /\ good \in BOOLEAN
      BY <2>3, Zenon DEF Init
    <3>2. pc \in [Threads -> Labels] /\ ret \in [Threads -> ReturnLabels]
      BY <2>3, ConnectionAssumption
         DEF Init, ConnectionAssumption, Threads, LoopThreads, Labels, IdleLabels, ReturnLabels
    <3> QED BY <2>3, <3>1, <3>2, ConnectionAssumption
            DEF Init, TypeOK, ConnectionAssumption, ResumeLabels
  <2>4. ASSUME Init PROVE Frames /\ OwnScoped
    BY <2>4, ConnectionAssumption
       DEF Init, Frames, OwnScoped, ConnectionAssumption, Threads, LoopThreads, HandleIds
  <2> QED BY <2>3, <2>4 DEF Basic
<1>2. Basic /\ [Next]_vars => Basic'
  BY FramesStep, OwnScopedStep, TypeStep DEF Basic
<1> QED BY <1>1, <1>2, PTL DEF Spec

\* Every variable has its type in every reachable state: writeCB never takes a
\* buffer out of an empty queue.
THEOREM TypeCorrect == Spec => []TypeOK
BY BasicInvariant, PTL DEF Basic

-----------------------------------------------------------------------------
(* Counted                                                                 *)

\* Only operator= with the Handle itself on the right, by copy, puts a thread
\* on the way to count it again.
LEMMA ReassigningStep ==
  ASSUME TypeOK, Frames, [Next]_vars,
         \A t \in Threads : ~Recount(t) /\ \A h \in Handles \cup {Control} : ~AssignToItself(t, h)
  PROVE  Reassigning' = Reassigning
<1> USE ConnectionAssumption DEF ConnectionAssumption, LoopThreads, Threads, HandleIds, TypeOK,
     Frames, Reassigning, Goto, Call, Callback, EndAt, Return, Resume, At, IdleLabels,
     MemberLabels, DecrementLabels, CloseLabels, CallbackLabels, ReturnLabels, ResumeLabels,
     object, events, queues, locals, control
<1>1. ASSUME NEW t \in Threads, Application(t) PROVE Reassigning' = Reassigning
  BY <1>1 DEF Application, Copy, Move, Release, CloseHandle, Write, Drop
<1>2. ASSUME NEW t \in Threads, Member(t) PROVE Reassigning' = Reassigning
  BY <1>2 DEF Member, LoadReferences, TestClose, Arm, TestAndSetClose, DelRead, DelWrite,
       CloseSocket, LastReference, AddWrite
<1>3. ASSUME NEW t \in LoopThreads, EndCallback(t) PROVE Reassigning' = Reassigning
  BY <1>3 DEF EndCallback
<1>4. ASSUME NEW t \in LoopThreads, Common(t) PROVE Reassigning' = Reassigning
  <2>1. CASE Finish(t)
    <3> DEFINE end == IF t = Worker THEN "loop" ELSE "done"
    <3>1. CASE Drop(t, t, end) BY <2>1, <3>1 DEF Finish, Drop
    <3>2. CASE owner[t] # t /\ EndAt(t, end) /\ UNCHANGED <<object, events, ret, resume>>
      BY <2>1, <3>2 DEF Finish
    <3> QED BY <2>1, <3>1, <3>2 DEF Finish
  <2>2. CASE RequestHandle(t) \/ AcquireHandle(t)
    BY <2>2 DEF RequestHandle, AcquireHandle
  <2> QED BY <1>4, <2>1, <2>2 DEF Common
<1>5. CASE WorkerCallback
  <2>1. CASE CheckOpen \/ ReadData \/ ReadAgain \/ ReadFails \/ ReportHangup \/ Deliver \/
       ReportErrors \/ Drain \/ WriteDone \/ WriteNothing \/ WriteFails \/ ReportWriteFailure \/
       Destroy
    BY <2>1 DEF CheckOpen, ReadData, ReadAgain, ReadFails, ReportHangup, Deliver, ReportErrors,
         Drain, WriteDone, WriteNothing, WriteFails, ReportWriteFailure, Destroy
  <2> QED BY <1>5, <2>1, <1>4 DEF WorkerCallback
<1>6. CASE ControlCallback
  <2>1. CASE Publish \/ Announce
    BY <2>1 DEF Publish, Announce
  <2> QED BY <1>6, <2>1, <1>4 DEF ControlCallback
<1>7. CASE Dispatches
  BY <1>7 DEF Dispatches, DispatchRead, DispatchWrite, DispatchDestroy, DispatchOther, Dispatch,
       LoopIdle
<1>8. CASE UNCHANGED vars BY <1>8 DEF vars
<1> QED BY <1>1, <1>2, <1>3, <1>4, <1>5, <1>6, <1>7, <1>8 DEF Next

\* The count follows the Handles in the steps that assign none to itself: only
\* five of them touch either.
LEMMA CountedStep ==
  ASSUME TypeOK, OwnScoped, HandlesCounted, Reassigning' = Reassigning, [Next]_vars,
         \A t \in Threads : ~Recount(t) /\ \A h \in Handles \cup {Control} : ~AssignToItself(t, h)
  PROVE  HandlesCounted'
<1> USE ConnectionAssumption DEF ConnectionAssumption, LoopThreads, Threads,
     HandleIds, TypeOK
<1>1. ASSUME NEW t \in Threads, NEW h \in HandleIds, NEW copy \in Handles, NEW u \in Threads,
     Copy(t, h, copy, u)
       PROVE  HandlesCounted'
  <2>1. copy \in HandleIds
    OBVIOUS
  <2> QED BY <1>1, <2>1, OneMore DEF Copy
<1>2. ASSUME NEW t \in Threads, NEW h \in Handles, NEW u \in Threads, Move(t, h, u)
       PROVE  HandlesCounted'
  <2>1. Live' = Live
    BY <1>2 DEF Move, Live
  <2> QED BY <1>2, <2>1, SameLive DEF Move
<1>3. ASSUME NEW t \in Threads, NEW h \in Handles, Release(t, h)
       PROVE  HandlesCounted'
  <2>1. h \in HandleIds /\ owner[h] # NoOne
    BY <1>3 DEF Release, Drop
  <2> QED BY <1>3, <2>1, OneLess DEF Release, Drop
<1>4. ASSUME NEW t \in LoopThreads, AcquireHandle(t)
       PROVE  HandlesCounted'
  <2>1. t \in HandleIds /\ t \in Threads /\ owner[t] = NoOne
    BY <1>4 DEF AcquireHandle, OwnScoped, At
  <2> QED BY <1>4, <2>1, OneMore DEF AcquireHandle
<1>5. ASSUME NEW t \in LoopThreads, Finish(t)
       PROVE  HandlesCounted'
  <2>1. t \in HandleIds /\ t \in Threads
    OBVIOUS
  <2>2. CASE owner[t] = t /\ owner' = [owner EXCEPT ![t] = NoOne] /\ references' = references - 1
    BY <2>1, <2>2, OneLess
  <2>3. CASE owner' = owner /\ references' = references
    BY <2>3, SameCount
  <2> QED BY <1>5, <2>2, <2>3 DEF Finish, Drop, object
<1>6. ASSUME owner' = owner, references' = references
       PROVE  HandlesCounted'
  BY <1>6, SameCount
<1>7. ASSUME NEW t \in Threads, CloseHandle(t) PROVE owner' = owner /\ references' = references
  BY <1>7 DEF CloseHandle, object
<1>8. ASSUME NEW t \in Threads, Write(t) PROVE owner' = owner /\ references' = references
  BY <1>8 DEF Write, object
<1>9. ASSUME NEW t \in Threads, LoadReferences(t) PROVE owner' = owner /\ references' = references
  BY <1>9 DEF LoadReferences, object
<1>10. ASSUME NEW t \in Threads, TestClose(t) PROVE owner' = owner /\ references' = references
  BY <1>10 DEF TestClose, object
<1>11. ASSUME NEW t \in Threads, Arm(t) PROVE owner' = owner /\ references' = references
  BY <1>11 DEF Arm, object
<1>12. ASSUME NEW t \in Threads, TestAndSetClose(t) PROVE owner' = owner /\ references' = references
  BY <1>12 DEF TestAndSetClose, object
<1>13. ASSUME NEW t \in Threads, DelRead(t) PROVE owner' = owner /\ references' = references
  BY <1>13 DEF DelRead, object
<1>14. ASSUME NEW t \in Threads, DelWrite(t) PROVE owner' = owner /\ references' = references
  BY <1>14 DEF DelWrite, object
<1>15. ASSUME NEW t \in Threads, CloseSocket(t) PROVE owner' = owner /\ references' = references
  BY <1>15 DEF CloseSocket, object
<1>16. ASSUME NEW t \in Threads, LastReference(t) PROVE owner' = owner /\ references' = references
  BY <1>16 DEF LastReference, object
<1>17. ASSUME NEW t \in Threads, AddWrite(t) PROVE owner' = owner /\ references' = references
  BY <1>17 DEF AddWrite, object
<1>18. ASSUME NEW t \in LoopThreads, EndCallback(t) PROVE owner' = owner /\ references' = references
  BY <1>18 DEF EndCallback, object
<1>19. ASSUME NEW t \in LoopThreads, RequestHandle(t)
       PROVE  owner' = owner /\ references' = references
  BY <1>19 DEF RequestHandle, object
<1>20. ASSUME CheckOpen PROVE owner' = owner /\ references' = references
  BY <1>20 DEF CheckOpen, object
<1>21. ASSUME ReadData PROVE owner' = owner /\ references' = references
  BY <1>21 DEF ReadData, object
<1>22. ASSUME ReadAgain PROVE owner' = owner /\ references' = references
  BY <1>22 DEF ReadAgain, object
<1>23. ASSUME ReadFails PROVE owner' = owner /\ references' = references
  BY <1>23 DEF ReadFails, object
<1>24. ASSUME ReportHangup PROVE owner' = owner /\ references' = references
  BY <1>24 DEF ReportHangup, object
<1>25. ASSUME Deliver PROVE owner' = owner /\ references' = references
  BY <1>25 DEF Deliver, object
<1>26. ASSUME ReportErrors PROVE owner' = owner /\ references' = references
  BY <1>26 DEF ReportErrors, object
<1>27. ASSUME Drain PROVE owner' = owner /\ references' = references
  BY <1>27 DEF Drain, object
<1>28. ASSUME WriteDone PROVE owner' = owner /\ references' = references
  BY <1>28 DEF WriteDone, object
<1>29. ASSUME WriteNothing PROVE owner' = owner /\ references' = references
  BY <1>29 DEF WriteNothing, object
<1>30. ASSUME WriteFails PROVE owner' = owner /\ references' = references
  BY <1>30 DEF WriteFails, object
<1>31. ASSUME ReportWriteFailure PROVE owner' = owner /\ references' = references
  BY <1>31 DEF ReportWriteFailure, object
<1>32. ASSUME Destroy PROVE owner' = owner /\ references' = references
  BY <1>32 DEF Destroy, object
<1>33. ASSUME Publish PROVE owner' = owner /\ references' = references
  BY <1>33 DEF Publish, object
<1>34. ASSUME Announce PROVE owner' = owner /\ references' = references
  BY <1>34 DEF Announce, object
<1>35. ASSUME DispatchRead PROVE owner' = owner /\ references' = references
  BY <1>35 DEF DispatchRead, object
<1>36. ASSUME DispatchWrite PROVE owner' = owner /\ references' = references
  BY <1>36 DEF DispatchWrite, object
<1>37. ASSUME DispatchDestroy PROVE owner' = owner /\ references' = references
  BY <1>37 DEF DispatchDestroy, object
<1>38. ASSUME DispatchOther PROVE owner' = owner /\ references' = references
  BY <1>38 DEF DispatchOther, object
<1>39. CASE UNCHANGED vars
  BY <1>39, SameCount DEF vars, object
<1> QED BY <1>1, <1>2, <1>3, <1>4, <1>5, <1>6, <1>7, <1>8, <1>9, <1>10, <1>11,
     <1>12, <1>13, <1>14, <1>15, <1>16, <1>17, <1>18, <1>19, <1>20, <1>21,
     <1>22, <1>23, <1>24, <1>25, <1>26, <1>27, <1>28, <1>29, <1>30, <1>31,
     <1>32, <1>33, <1>34, <1>35, <1>36, <1>37, <1>38, <1>39 DEF Next,
     Application, Member, WorkerCallback, ControlCallback, Common, Dispatches

\* A Handle copied to itself is counted out, then counted in again.
LEMMA CopiedToItself ==
  ASSUME TypeOK, Frames, HandlesCounted, "move" \notin SelfAssigns, NEW t \in Threads,
         Recount(t) \/ \E h \in Handles \cup {Control} : AssignToItself(t, h)
  PROVE  HandlesCounted'
<1>1. Cardinality(Live) \in Nat /\ Cardinality(Reassigning) \in Nat
  BY LiveFinite, ReassigningFinite, FS_CardinalityType
<1>2. Live' = Live
  BY DEF Recount, AssignToItself, Live
<1>3. CASE Recount(t)
  <2>1. Reassigning' = Reassigning \ {t} /\ t \in Reassigning
    BY <1>3 DEF Recount, Reassigning, TypeOK, Frames, At, Goto
  <2>2. Cardinality(Reassigning') = Cardinality(Reassigning) - 1
    BY <2>1, ReassigningFinite, FS_RemoveElement
  <2> QED BY <1>1, <1>2, <1>3, <2>2 DEF Recount, TypeOK, HandlesCounted
<1>4. CASE \E h \in Handles \cup {Control} : AssignToItself(t, h)
  <2>1. /\ pc[t] = "user" /\ ret[t] = "user"
        /\ Call(t, "loadReferences", "recount")
        /\ references' = references - 1
    BY <1>4 DEF AssignToItself, At, Frames, MemberLabels, DecrementLabels, CloseLabels
  <2>2. Reassigning' = Reassigning \cup {t} /\ t \notin Reassigning
    BY <2>1 DEF Reassigning, TypeOK, Call
  <2>3. Cardinality(Reassigning') = Cardinality(Reassigning) + 1
    BY <2>2, ReassigningFinite, FS_AddElement
  <2> QED BY <1>1, <1>2, <2>1, <2>3 DEF TypeOK, HandlesCounted
<1> QED BY <1>3, <1>4

\* A thread that assigns a Handle to itself owns it.
ReassigningOwn == \A t \in Reassigning : Owns(t)

\* Only their owners give Handles away, and only outside of operator=.
LEMMA ReassigningOwnStep ==
  ASSUME TypeOK, Frames, OwnScoped, ReassigningOwn, [Next]_vars
  PROVE  ReassigningOwn'
<1> USE ConnectionAssumption DEF ConnectionAssumption, LoopThreads, Threads, HandleIds, TypeOK,
     Frames, OwnScoped, Reassigning, ReassigningOwn, Owns, Goto, Call, Callback, EndAt, Return,
     Resume, At, IdleLabels, MemberLabels, DecrementLabels, CloseLabels, CallbackLabels,
     ReturnLabels, ResumeLabels, object, events, queues, locals, control
<1>1. ASSUME NEW t \in Threads, Application(t) PROVE ReassigningOwn'
  BY <1>1 DEF Application, Copy, Move, Release, AssignToItself, CloseHandle, Write, Drop
<1>2. ASSUME NEW t \in Threads, Member(t) PROVE ReassigningOwn'
  BY <1>2 DEF Member, LoadReferences, TestClose, Arm, TestAndSetClose, DelRead, DelWrite,
       CloseSocket, LastReference, AddWrite, Recount
<1>3. ASSUME NEW t \in LoopThreads, EndCallback(t) PROVE ReassigningOwn'
  BY <1>3 DEF EndCallback
<1>4. ASSUME NEW t \in LoopThreads, Common(t) PROVE ReassigningOwn'
  <2>1. CASE Finish(t)
    <3> DEFINE end == IF t = Worker THEN "loop" ELSE "done"
    <3>1. CASE Drop(t, t, end) BY <2>1, <3>1 DEF Finish, Drop
    <3>2. CASE owner[t] # t /\ EndAt(t, end) /\ UNCHANGED <<object, events, ret, resume>>
      BY <2>1, <3>2 DEF Finish
    <3> QED BY <2>1, <3>1, <3>2 DEF Finish
  <2>2. CASE RequestHandle(t) \/ AcquireHandle(t)
    BY <2>2 DEF RequestHandle, AcquireHandle
  <2> QED BY <1>4, <2>1, <2>2 DEF Common
<1>5. CASE WorkerCallback
  <2>1. CASE CheckOpen \/ ReadData \/ ReadAgain \/ ReadFails \/ ReportHangup \/ Deliver \/
       ReportErrors \/ Drain \/ WriteDone \/ WriteNothing \/ WriteFails \/ ReportWriteFailure \/
       Destroy
    BY <2>1 DEF CheckOpen, ReadData, ReadAgain, ReadFails, ReportHangup, Deliver, ReportErrors,
         Drain, WriteDone, WriteNothing, WriteFails, ReportWriteFailure, Destroy
  <2> QED BY <1>5, <2>1, <1>4 DEF WorkerCallback
<1>6. CASE ControlCallback
  <2>1. CASE Publish \/ Announce
    BY <2>1 DEF Publish, Announce
  <2> QED BY <1>6, <2>1, <1>4 DEF ControlCallback
<1>7. CASE Dispatches
  BY <1>7 DEF Dispatches, DispatchRead, DispatchWrite, DispatchDestroy, DispatchOther, Dispatch,
       LoopIdle
<1>8. CASE UNCHANGED vars BY <1>8 DEF vars
<1> QED BY <1>1, <1>2, <1>3, <1>4, <1>5, <1>6, <1>7, <1>8 DEF Next

\* The count is the number of Handles, but for those being copied to themselves,
\* as long as none is moved to itself: Handle.cpp's constructors, assignments and
\* destructor pair every increment with a decrement.
THEOREM CountExact ==
  ASSUME "move" \notin SelfAssigns
  PROVE  Spec => []HandlesCounted
<1>1. Init => HandlesCounted
  <2> SUFFICES ASSUME Init PROVE HandlesCounted
    OBVIOUS
  <2>1. Live = {} /\ Reassigning = {}
    BY DEF Init, Live, Reassigning
  <2>2. references = 0
    BY DEF Init
  <2> QED BY <2>1, <2>2, FS_EmptySet DEF HandlesCounted
<1>2. Basic /\ HandlesCounted /\ [Next]_vars => HandlesCounted'
  <2> SUFFICES ASSUME Basic, HandlesCounted, [Next]_vars PROVE HandlesCounted'
    OBVIOUS
  <2>1. CASE \A t \in Threads :
               ~Recount(t) /\ \A h \in Handles \cup {Control} : ~AssignToItself(t, h)
    <3>1. Reassigning' = Reassigning
      BY <2>1, ReassigningStep DEF Basic
    <3> QED BY <2>1, <3>1, CountedStep DEF Basic
  <2>2. CASE \E t \in Threads :
               Recount(t) \/ \E h \in Handles \cup {Control} : AssignToItself(t, h)
    BY <2>2, CopiedToItself DEF Basic
  <2> QED BY <2>1, <2>2
<1> QED BY <1>1, <1>2, BasicInvariant, PTL DEF Spec

\* There are as many live Handles as threads in operator=, or more.
LEMMA OwnersCounted ==
  ASSUME TypeOK, HandlesCounted, ReassigningOwn
  PROVE  references \in Nat
<1> DEFINE f == [t \in Reassigning |-> CHOOSE h \in HandleIds : owner[h] = t]
<1>1. \A t \in Reassigning : f[t] \in HandleIds /\ owner[f[t]] = t
  BY DEF ReassigningOwn, Owns
<1>2. \A t \in Reassigning : t # NoOne
  BY ConnectionAssumption DEF Reassigning, ConnectionAssumption
<1>3. f \in Injection(Reassigning, Live)
  <2>1. f \in [Reassigning -> Live]
    BY <1>1, <1>2 DEF Live
  <2>2. \A t, u \in Reassigning : f[t] = f[u] => t = u
    BY <1>1
  <2> HIDE DEF f
  <2> QED BY <2>1, <2>2 DEF Injection, IsInjective
<1>4. Cardinality(Reassigning) <= Cardinality(Live)
  <2> HIDE DEF f
  <2> QED BY <1>3, LiveFinite, FS_Injection
<1>5. Cardinality(Live) \in Nat /\ Cardinality(Reassigning) \in Nat
  BY LiveFinite, ReassigningFinite, FS_CardinalityType
<1> QED BY <1>4, <1>5 DEF HandlesCounted, TypeOK

\* The count never goes below zero, where it would wrap, as long as no Handle is
\* moved to itself.
THEOREM CountNeverNegative ==
  ASSUME "move" \notin SelfAssigns
  PROVE  Spec => [](references \in Nat)
<1>1. Init => ReassigningOwn
  BY DEF Init, ReassigningOwn, Reassigning
<1>2. Basic /\ ReassigningOwn /\ [Next]_vars => ReassigningOwn'
  BY ReassigningOwnStep DEF Basic
<1>3. Basic /\ HandlesCounted /\ ReassigningOwn => references \in Nat
  BY OwnersCounted DEF Basic
<1> QED BY <1>1, <1>2, <1>3, BasicInvariant, CountExact, PTL DEF Spec

\* Without self-assignment the count is zero exactly when no Handle refers to
\* the connection.
LEMMA NoneLive ==
  ASSUME HandlesCounted, Frames, TypeOK, SelfAssigns = {}
  PROVE  references = 0 <=> \A h \in HandleIds : owner[h] = NoOne
<1>1. Live = {} <=> \A h \in HandleIds : owner[h] = NoOne
  BY DEF Live
<1>2. Cardinality(Reassigning) = 0
  <2>1. Reassigning = {}
    BY DEF Reassigning, Frames
  <2> QED BY <2>1, FS_EmptySet
<1>3. references = Cardinality(Live)
  BY <1>2 DEF HandlesCounted, TypeOK
<1> QED BY <1>1, <1>3, LiveFinite, FS_EmptySet


-----------------------------------------------------------------------------
(* Closure                                                                 *)

\* The descriptor is closed after the flag is set.
CloseOrder == ~closed => socketOpen

\* Nobody has touched the connection before addConnection opens it.
PublishFirst ==
  pc[Control] = "publish" =>
    /\ \A h \in HandleIds : owner[h] = NoOne
    /\ ~closed /\ ~readEvent /\ ~writeEvent /\ ~destroyEvent
    /\ \A t \in Threads : pc[t] \in {"user", "loop", "publish"}
    /\ ret[Worker] = "user" /\ resume[Worker] \in {"user", "loop"}

\* Past its first event_del the closing thread has taken the event down.
ReadDown == \A t \in Threads : pc[t] \in {"delWrite", "closeSocket"} => ~readEvent

Closure == /\ OneCloser /\ CloseOrder
           /\ PublishFirst
           /\ ReadDown /\ ClosedNotReading

\* Dropping the last Handle of a closed connection leads to Arm.
LEMMA LostStep ==
  ASSUME TypeOK, references \in Nat, NoLostDestroy, [Next]_vars
  PROVE  NoLostDestroy'
<1> USE ConnectionAssumption DEF ConnectionAssumption, LoopThreads, Threads, HandleIds,
     TypeOK, NoLostDestroy, AboutToArm, Goto, Call, Callback, EndAt, Return, Resume, At,
     IdleLabels, MemberLabels, DecrementLabels, CloseLabels, CallbackLabels, ReturnLabels,
     ResumeLabels, object, events, queues, locals, control
<1>1. ASSUME NEW t \in Threads, NEW h \in HandleIds, NEW copy \in Handles, NEW u \in Threads, Copy(t, h, copy, u)
      PROVE  NoLostDestroy'
  BY <1>1 DEF Copy
<1>2. ASSUME NEW t \in Threads, NEW h \in Handles, NEW u \in Threads, Move(t, h, u)
      PROVE  NoLostDestroy'
  BY <1>2 DEF Move
<1>3. ASSUME NEW t \in Threads, NEW h \in Handles, Release(t, h) PROVE NoLostDestroy'
  BY <1>3 DEF Release, Drop
<1>4. ASSUME NEW t \in Threads, CloseHandle(t) PROVE NoLostDestroy' BY <1>4 DEF CloseHandle
<1>5. ASSUME NEW t \in Threads, Write(t) PROVE NoLostDestroy' BY <1>5 DEF Write
<1>6. ASSUME NEW t \in Threads, LoadReferences(t) PROVE NoLostDestroy'
  BY <1>6 DEF LoadReferences
<1>7. ASSUME NEW t \in Threads, TestClose(t) PROVE NoLostDestroy' BY <1>7 DEF TestClose
<1>8. ASSUME NEW t \in Threads, Arm(t) PROVE NoLostDestroy' BY <1>8 DEF Arm
<1>9. ASSUME NEW t \in Threads, TestAndSetClose(t) PROVE NoLostDestroy'
  BY <1>9 DEF TestAndSetClose
<1>10. ASSUME NEW t \in Threads, DelRead(t) PROVE NoLostDestroy' BY <1>10 DEF DelRead
<1>11. ASSUME NEW t \in Threads, DelWrite(t) PROVE NoLostDestroy' BY <1>11 DEF DelWrite
<1>12. ASSUME NEW t \in Threads, CloseSocket(t) PROVE NoLostDestroy' BY <1>12 DEF CloseSocket
<1>13. ASSUME NEW t \in Threads, LastReference(t) PROVE NoLostDestroy'
  BY <1>13 DEF LastReference
<1>14. ASSUME NEW t \in Threads, AddWrite(t) PROVE NoLostDestroy' BY <1>14 DEF AddWrite
<1>15. ASSUME NEW t \in LoopThreads, EndCallback(t) PROVE NoLostDestroy'
  BY <1>15 DEF EndCallback
<1>16. ASSUME NEW t \in LoopThreads, RequestHandle(t) PROVE NoLostDestroy'
  BY <1>16 DEF RequestHandle
<1>17. ASSUME NEW t \in LoopThreads, AcquireHandle(t) PROVE NoLostDestroy'
  BY <1>17 DEF AcquireHandle
<1>18. ASSUME NEW t \in LoopThreads, Finish(t) PROVE NoLostDestroy'
  <2> DEFINE end == IF t = Worker THEN "loop" ELSE "done"
  <2>1. CASE Drop(t, t, end) BY <1>18, <2>1 DEF Finish, Drop
  <2>2. CASE owner[t] # t /\ EndAt(t, end) /\ UNCHANGED <<object, events, ret, resume>>
    BY <1>18, <2>2 DEF Finish
  <2> QED BY <1>18, <2>1, <2>2 DEF Finish
<1>19. CASE CheckOpen BY <1>19 DEF CheckOpen
<1>20. CASE ReadData BY <1>20 DEF ReadData
<1>21. CASE ReadAgain BY <1>21 DEF ReadAgain
<1>22. CASE ReadFails BY <1>22 DEF ReadFails
<1>23. CASE ReportHangup BY <1>23 DEF ReportHangup
<1>24. CASE Deliver BY <1>24 DEF Deliver
<1>25. CASE ReportErrors BY <1>25 DEF ReportErrors
<1>26. CASE Drain BY <1>26 DEF Drain
<1>27. CASE WriteDone BY <1>27 DEF WriteDone
<1>28. CASE WriteNothing BY <1>28 DEF WriteNothing
<1>29. CASE WriteFails BY <1>29 DEF WriteFails
<1>30. CASE ReportWriteFailure BY <1>30 DEF ReportWriteFailure
<1>31. CASE Destroy BY <1>31 DEF Destroy
<1>32. CASE Publish BY <1>32 DEF Publish
<1>33. CASE Announce BY <1>33 DEF Announce
<1>34. CASE DispatchRead BY <1>34 DEF DispatchRead, Dispatch, LoopIdle
<1>35. CASE DispatchWrite BY <1>35 DEF DispatchWrite, Dispatch, LoopIdle
<1>36. CASE DispatchDestroy BY <1>36 DEF DispatchDestroy, Dispatch, LoopIdle
<1>37. CASE DispatchOther BY <1>37 DEF DispatchOther, LoopIdle
<1>38. CASE UNCHANGED vars BY <1>38 DEF vars
<1>39. ASSUME NEW t \in Threads, NEW h \in Handles \cup {Control}, AssignToItself(t, h)
       PROVE  NoLostDestroy'
  BY <1>39 DEF AssignToItself
<1>40. ASSUME NEW t \in Threads, Recount(t) PROVE NoLostDestroy' BY <1>40 DEF Recount
<1> QED BY <1>1, <1>2, <1>3, <1>4, <1>5, <1>6, <1>7, <1>8, <1>9, <1>10, <1>11, <1>12, <1>13,
     <1>14, <1>15, <1>16, <1>17, <1>18, <1>19, <1>20, <1>21, <1>22, <1>23, <1>24, <1>25, <1>26,
     <1>27, <1>28, <1>29, <1>30, <1>31, <1>32, <1>33, <1>34, <1>35, <1>36, <1>37, <1>38, <1>39, <1>40 DEF
     Next, Application, Member, WorkerCallback, ControlCallback, Common, Dispatches

\* addConnection comes before every other step that names the connection.
LEMMA PublishStep ==
  ASSUME TypeOK, PublishFirst, [Next]_vars
  PROVE  PublishFirst'
<1> USE ConnectionAssumption DEF ConnectionAssumption, LoopThreads, Threads, HandleIds, TypeOK,
     PublishFirst, Owns, Goto, Call, Callback, EndAt, Return, Resume, At, IdleLabels,
     MemberLabels, DecrementLabels, CloseLabels, CallbackLabels, ReturnLabels, ResumeLabels,
     object, events, queues, locals, control
<1>1. ASSUME NEW t \in Threads, Application(t) PROVE PublishFirst'
  BY <1>1 DEF Application, Copy, Move, Release, AssignToItself, CloseHandle, Write, Drop
<1>2. ASSUME NEW t \in Threads, Member(t) PROVE PublishFirst'
  BY <1>2 DEF Member, LoadReferences, TestClose, Arm, TestAndSetClose, DelRead, DelWrite,
       CloseSocket, LastReference, AddWrite, Recount
<1>3. ASSUME NEW t \in LoopThreads, EndCallback(t) PROVE PublishFirst'
  BY <1>3 DEF EndCallback
<1>4. ASSUME NEW t \in LoopThreads, Common(t) PROVE PublishFirst'
  <2>1. CASE Finish(t)
    <3> DEFINE end == IF t = Worker THEN "loop" ELSE "done"
    <3>1. CASE Drop(t, t, end) BY <2>1, <3>1 DEF Finish, Drop
    <3>2. CASE owner[t] # t /\ EndAt(t, end) /\ UNCHANGED <<object, events, ret, resume>>
      BY <2>1, <3>2 DEF Finish
    <3> QED BY <2>1, <3>1, <3>2 DEF Finish
  <2>2. CASE RequestHandle(t) \/ AcquireHandle(t)
    BY <2>2 DEF RequestHandle, AcquireHandle
  <2> QED BY <1>4, <2>1, <2>2 DEF Common
<1>5. CASE WorkerCallback
  <2>1. CASE CheckOpen \/ ReadData \/ ReadAgain \/ ReadFails \/ ReportHangup \/ Deliver \/
       ReportErrors \/ Drain \/ WriteDone \/ WriteNothing \/ WriteFails \/ ReportWriteFailure \/
       Destroy
    BY <2>1 DEF CheckOpen, ReadData, ReadAgain, ReadFails, ReportHangup, Deliver, ReportErrors,
         Drain, WriteDone, WriteNothing, WriteFails, ReportWriteFailure, Destroy
  <2> QED BY <1>5, <2>1, <1>4 DEF WorkerCallback
<1>6. CASE ControlCallback
  <2>1. CASE Publish \/ Announce
    BY <2>1 DEF Publish, Announce
  <2> QED BY <1>6, <2>1, <1>4 DEF ControlCallback
<1>7. CASE Dispatches
  BY <1>7 DEF Dispatches, DispatchRead, DispatchWrite, DispatchDestroy, DispatchOther, Dispatch,
       LoopIdle
<1>8. CASE UNCHANGED vars BY <1>8 DEF vars
<1> QED BY <1>1, <1>2, <1>3, <1>4, <1>5, <1>6, <1>7, <1>8 DEF Next

\* The flag lets one thread through.
LEMMA CloserStep ==
  ASSUME TypeOK, OneCloser, CloseOrder, [Next]_vars
  PROVE  (OneCloser /\ CloseOrder)'
<1> USE ConnectionAssumption DEF ConnectionAssumption, LoopThreads, Threads, HandleIds, TypeOK,
     OneCloser, CloseOrder, Closing, Goto, Call, Callback, EndAt, Return, Resume, At,
     IdleLabels, MemberLabels, DecrementLabels, CloseLabels, CallbackLabels, ReturnLabels,
     ResumeLabels, object, events, queues, locals, control
<1>1. ASSUME NEW t \in Threads, Application(t) PROVE (OneCloser /\ CloseOrder)'
  BY <1>1 DEF Application, Copy, Move, Release, AssignToItself, CloseHandle, Write, Drop
<1>2. ASSUME NEW t \in Threads, Member(t) PROVE (OneCloser /\ CloseOrder)'
  BY <1>2 DEF Member, LoadReferences, TestClose, Arm, TestAndSetClose, DelRead, DelWrite,
       CloseSocket, LastReference, AddWrite, Recount
<1>3. ASSUME NEW t \in LoopThreads, EndCallback(t) PROVE (OneCloser /\ CloseOrder)'
  BY <1>3 DEF EndCallback
<1>4. ASSUME NEW t \in LoopThreads, Common(t) PROVE (OneCloser /\ CloseOrder)'
  <2>1. CASE Finish(t)
    <3> DEFINE end == IF t = Worker THEN "loop" ELSE "done"
    <3>1. CASE Drop(t, t, end) BY <2>1, <3>1 DEF Finish, Drop
    <3>2. CASE owner[t] # t /\ EndAt(t, end) /\ UNCHANGED <<object, events, ret, resume>>
      BY <2>1, <3>2 DEF Finish
    <3> QED BY <2>1, <3>1, <3>2 DEF Finish
  <2>2. CASE RequestHandle(t) \/ AcquireHandle(t)
    BY <2>2 DEF RequestHandle, AcquireHandle
  <2> QED BY <1>4, <2>1, <2>2 DEF Common
<1>5. CASE WorkerCallback
  <2>1. CASE CheckOpen \/ ReadData \/ ReadAgain \/ ReadFails \/ ReportHangup \/ Deliver \/
       ReportErrors \/ Drain \/ WriteDone \/ WriteNothing \/ WriteFails \/ ReportWriteFailure \/
       Destroy
    BY <2>1 DEF CheckOpen, ReadData, ReadAgain, ReadFails, ReportHangup, Deliver, ReportErrors,
         Drain, WriteDone, WriteNothing, WriteFails, ReportWriteFailure, Destroy
  <2> QED BY <1>5, <2>1, <1>4 DEF WorkerCallback
<1>6. CASE ControlCallback
  <2>1. CASE Publish \/ Announce
    BY <2>1 DEF Publish, Announce
  <2> QED BY <1>6, <2>1, <1>4 DEF ControlCallback
<1>7. CASE Dispatches
  BY <1>7 DEF Dispatches, DispatchRead, DispatchWrite, DispatchDestroy, DispatchOther, Dispatch,
       LoopIdle
<1>8. CASE UNCHANGED vars BY <1>8 DEF vars
<1> QED BY <1>1, <1>2, <1>3, <1>4, <1>5, <1>6, <1>7, <1>8 DEF Next

\* open() comes before every close(), and nothing else adds the read event.
LEMMA ReadDownStep ==
  ASSUME TypeOK, OneCloser, CloseOrder, PublishFirst, ReadDown, ClosedNotReading,
         [Next]_vars
  PROVE  (ReadDown /\ ClosedNotReading)'
<1> USE ConnectionAssumption DEF ConnectionAssumption, LoopThreads, Threads, HandleIds, TypeOK,
     OneCloser, CloseOrder, PublishFirst, Closing, ReadDown, ClosedNotReading, Goto, Call,
     Callback, EndAt, Return, Resume, At, IdleLabels, MemberLabels, DecrementLabels,
     CloseLabels, CallbackLabels, ReturnLabels, ResumeLabels, object, events, queues, locals,
     control
<1>1. ASSUME NEW t \in Threads, Application(t) PROVE (ReadDown /\ ClosedNotReading)'
  BY <1>1 DEF Application, Copy, Move, Release, AssignToItself, CloseHandle, Write, Drop
<1>2. ASSUME NEW t \in Threads, Member(t) PROVE (ReadDown /\ ClosedNotReading)'
  BY <1>2 DEF Member, LoadReferences, TestClose, Arm, TestAndSetClose, DelRead, DelWrite,
       CloseSocket, LastReference, AddWrite, Recount
<1>3. ASSUME NEW t \in LoopThreads, EndCallback(t) PROVE (ReadDown /\ ClosedNotReading)'
  BY <1>3 DEF EndCallback
<1>4. ASSUME NEW t \in LoopThreads, Common(t) PROVE (ReadDown /\ ClosedNotReading)'
  <2>1. CASE Finish(t)
    <3> DEFINE end == IF t = Worker THEN "loop" ELSE "done"
    <3>1. CASE Drop(t, t, end) BY <2>1, <3>1 DEF Finish, Drop
    <3>2. CASE owner[t] # t /\ EndAt(t, end) /\ UNCHANGED <<object, events, ret, resume>>
      BY <2>1, <3>2 DEF Finish
    <3> QED BY <2>1, <3>1, <3>2 DEF Finish
  <2>2. CASE RequestHandle(t) \/ AcquireHandle(t)
    BY <2>2 DEF RequestHandle, AcquireHandle
  <2> QED BY <1>4, <2>1, <2>2 DEF Common
<1>5. CASE WorkerCallback
  <2>1. CASE CheckOpen \/ ReadData \/ ReadAgain \/ ReadFails \/ ReportHangup \/ Deliver \/
       ReportErrors \/ Drain \/ WriteDone \/ WriteNothing \/ WriteFails \/ ReportWriteFailure \/
       Destroy
    BY <2>1 DEF CheckOpen, ReadData, ReadAgain, ReadFails, ReportHangup, Deliver, ReportErrors,
         Drain, WriteDone, WriteNothing, WriteFails, ReportWriteFailure, Destroy
  <2> QED BY <1>5, <2>1, <1>4 DEF WorkerCallback
<1>6. CASE ControlCallback
  <2>1. CASE Publish \/ Announce
    BY <2>1 DEF Publish, Announce
  <2> QED BY <1>6, <2>1, <1>4 DEF ControlCallback
<1>7. CASE Dispatches
  BY <1>7 DEF Dispatches, DispatchRead, DispatchWrite, DispatchDestroy, DispatchOther, Dispatch,
       LoopIdle
<1>8. CASE UNCHANGED vars BY <1>8 DEF vars
<1> QED BY <1>1, <1>2, <1>3, <1>4, <1>5, <1>6, <1>7, <1>8 DEF Next

\* Closing is exclusive, final for the read event, and never forgotten.
THEOREM ClosureInvariant == Spec => []Closure
<1>1. Init => Closure
  BY ConnectionAssumption
     DEF Init, Closure, OneCloser, Closing, CloseOrder, PublishFirst, ReadDown,
         ClosedNotReading, ConnectionAssumption, Threads, LoopThreads, HandleIds
<1>2. Basic /\ Closure /\ [Next]_vars => Closure'
  BY PublishStep, CloserStep, ReadDownStep DEF Basic, Closure
<1> QED BY <1>1, <1>2, BasicInvariant, PTL DEF Spec

\* A closed connection without Handles is on its way to be destroyed, whoever
\* drops the last Handle and whoever closes, provided no Handle is moved to
\* itself: a count that has gone below zero comes back to zero by an increment.
THEOREM DestroyNotLost ==
  ASSUME "move" \notin SelfAssigns
  PROVE  Spec => []NoLostDestroy
<1>1. Init => NoLostDestroy
  BY DEF Init, NoLostDestroy
<1>2. Basic /\ references \in Nat /\ NoLostDestroy /\ [Next]_vars => NoLostDestroy'
  BY LostStep DEF Basic
<1> QED BY <1>1, <1>2, BasicInvariant, CountNeverNegative, PTL DEF Spec

\* Connection::close takes the events down and closes the descriptor once.
THEOREM ClosedOnce == Spec => []OneCloser
BY ClosureInvariant, PTL DEF Closure

\* A closed descriptor is never read from the event loop again.
THEOREM ReadStaysDown == Spec => []ClosedNotReading
BY ClosureInvariant, PTL DEF Closure

-----------------------------------------------------------------------------
(* IOSafe                                                                  *)

\* A serializer whose serialize() reports no errors leaves writeCB nothing to
\* report, so nothing runs between its test of _close and its loop.
NoErrors == ~errors /\ resume[Worker] # "errors"

\* Only the Worker returns to the loop.
WorkerLoop ==
  \A t \in Threads \ {Worker} : "loop" \notin {ret[t], resume[t], pc[t]}

\* On one loop, the callback that publishes ends before any event runs.
ControlFirst == ControlOnLoop /\ pc[Control] # "done" => pc[Worker] = "loop"

\* Which event the Worker's label belongs to.
InCallback ==
  /\ pc[Worker] \in {"request", "acquire", "check"} => current \in {"read", "write"}
  /\ pc[Worker] = "readSocket" => current = "read"
  /\ pc[Worker] \in {"errors", "drain", "writeSocket"} => current = "write"
  /\ pc[Worker] = "writeSocket" => good

\* Up to its last read() readCB holds back the thread that closes.
ReadSafe ==
  pc[Worker] \in {"request", "acquire", "check", "readSocket"} /\ current = "read"
    => socketOpen /\ \A t \in Threads : pc[t] \notin {"delWrite", "closeSocket"}

\* So does writeCB once it has found the connection open.
WriteSafe ==
  pc[Worker] \in {"errors", "drain", "writeSocket"} /\ good
    => socketOpen /\ \A t \in Threads : pc[t] # "closeSocket"

IOSafe == NoErrors /\ WorkerLoop /\ ControlFirst /\ InCallback /\ ReadSafe /\ WriteSafe

\* Without pushError in serialize() writeCB has no error to report.
LEMMA NoErrorsStep ==
  ASSUME TypeOK, ~SerializeErrors, NoErrors, [Next]_vars
  PROVE  NoErrors'
<1> USE ConnectionAssumption DEF ConnectionAssumption, LoopThreads, Threads, HandleIds, TypeOK,
     NoErrors, Goto, Call, Callback, EndAt, Return, Resume, At, IdleLabels, MemberLabels,
     DecrementLabels, CloseLabels, CallbackLabels, ReturnLabels, ResumeLabels, object, events,
     queues, locals, control
<1>1. ASSUME NEW t \in Threads, Application(t) PROVE NoErrors'
  BY <1>1 DEF Application, Copy, Move, Release, AssignToItself, CloseHandle, Write, Drop
<1>2. ASSUME NEW t \in Threads, Member(t) PROVE NoErrors'
  BY <1>2 DEF Member, LoadReferences, TestClose, Arm, TestAndSetClose, DelRead, DelWrite,
       CloseSocket, LastReference, AddWrite, Recount
<1>3. ASSUME NEW t \in LoopThreads, EndCallback(t) PROVE NoErrors'
  BY <1>3 DEF EndCallback
<1>4. ASSUME NEW t \in LoopThreads, Common(t) PROVE NoErrors'
  <2>1. CASE Finish(t)
    <3> DEFINE end == IF t = Worker THEN "loop" ELSE "done"
    <3>1. CASE Drop(t, t, end) BY <2>1, <3>1 DEF Finish, Drop
    <3>2. CASE owner[t] # t /\ EndAt(t, end) /\ UNCHANGED <<object, events, ret, resume>>
      BY <2>1, <3>2 DEF Finish
    <3> QED BY <2>1, <3>1, <3>2 DEF Finish
  <2>2. CASE RequestHandle(t) \/ AcquireHandle(t)
    BY <2>2 DEF RequestHandle, AcquireHandle
  <2> QED BY <1>4, <2>1, <2>2 DEF Common
<1>5. CASE WorkerCallback
  <2>1. CASE CheckOpen \/ ReadData \/ ReadAgain \/ ReadFails \/ ReportHangup \/ Deliver \/
       ReportErrors \/ Drain \/ WriteDone \/ WriteNothing \/ WriteFails \/ ReportWriteFailure \/
       Destroy
    BY <2>1 DEF CheckOpen, ReadData, ReadAgain, ReadFails, ReportHangup, Deliver, ReportErrors,
         Drain, WriteDone, WriteNothing, WriteFails, ReportWriteFailure, Destroy
  <2> QED BY <1>5, <2>1, <1>4 DEF WorkerCallback
<1>6. CASE ControlCallback
  <2>1. CASE Publish \/ Announce
    BY <2>1 DEF Publish, Announce
  <2> QED BY <1>6, <2>1, <1>4 DEF ControlCallback
<1>7. CASE Dispatches
  BY <1>7 DEF Dispatches, DispatchRead, DispatchWrite, DispatchDestroy, DispatchOther, Dispatch,
       LoopIdle
<1>8. CASE UNCHANGED vars BY <1>8 DEF vars
<1> QED BY <1>1, <1>2, <1>3, <1>4, <1>5, <1>6, <1>7, <1>8 DEF Next

\* The other threads' calls return to the application or to their end.
LEMMA WorkerLoopStep ==
  ASSUME TypeOK, WorkerLoop, [Next]_vars
  PROVE  WorkerLoop'
<1> USE ConnectionAssumption DEF ConnectionAssumption, LoopThreads, Threads, HandleIds, TypeOK,
     WorkerLoop, Goto, Call, Callback, EndAt, Return, Resume, At, IdleLabels, MemberLabels,
     DecrementLabels, CloseLabels, CallbackLabels, ReturnLabels, ResumeLabels, object, events,
     queues, locals, control
<1>1. ASSUME NEW t \in Threads, Application(t) PROVE WorkerLoop'
  BY <1>1 DEF Application, Copy, Move, Release, AssignToItself, CloseHandle, Write, Drop
<1>2. ASSUME NEW t \in Threads, Member(t) PROVE WorkerLoop'
  BY <1>2 DEF Member, LoadReferences, TestClose, Arm, TestAndSetClose, DelRead, DelWrite,
       CloseSocket, LastReference, AddWrite, Recount
<1>3. ASSUME NEW t \in LoopThreads, EndCallback(t) PROVE WorkerLoop'
  BY <1>3 DEF EndCallback
<1>4. ASSUME NEW t \in LoopThreads, Common(t) PROVE WorkerLoop'
  <2>1. CASE Finish(t)
    <3> DEFINE end == IF t = Worker THEN "loop" ELSE "done"
    <3>1. CASE Drop(t, t, end) BY <2>1, <3>1 DEF Finish, Drop
    <3>2. CASE owner[t] # t /\ EndAt(t, end) /\ UNCHANGED <<object, events, ret, resume>>
      BY <2>1, <3>2 DEF Finish
    <3> QED BY <2>1, <3>1, <3>2 DEF Finish
  <2>2. CASE RequestHandle(t) \/ AcquireHandle(t)
    BY <2>2 DEF RequestHandle, AcquireHandle
  <2> QED BY <1>4, <2>1, <2>2 DEF Common
<1>5. CASE WorkerCallback
  <2>1. CASE CheckOpen \/ ReadData \/ ReadAgain \/ ReadFails \/ ReportHangup \/ Deliver \/
       ReportErrors \/ Drain \/ WriteDone \/ WriteNothing \/ WriteFails \/ ReportWriteFailure \/
       Destroy
    BY <2>1 DEF CheckOpen, ReadData, ReadAgain, ReadFails, ReportHangup, Deliver, ReportErrors,
         Drain, WriteDone, WriteNothing, WriteFails, ReportWriteFailure, Destroy
  <2> QED BY <1>5, <2>1, <1>4 DEF WorkerCallback
<1>6. CASE ControlCallback
  <2>1. CASE Publish \/ Announce
    BY <2>1 DEF Publish, Announce
  <2> QED BY <1>6, <2>1, <1>4 DEF ControlCallback
<1>7. CASE Dispatches
  BY <1>7 DEF Dispatches, DispatchRead, DispatchWrite, DispatchDestroy, DispatchOther, Dispatch,
       LoopIdle
<1>8. CASE UNCHANGED vars BY <1>8 DEF vars
<1> QED BY <1>1, <1>2, <1>3, <1>4, <1>5, <1>6, <1>7, <1>8 DEF Next

\* The loop dispatches nothing while listenerAcceptCB or connectCB runs on it.
LEMMA ControlFirstStep ==
  ASSUME TypeOK, ControlFirst, [Next]_vars
  PROVE  ControlFirst'
<1> USE ConnectionAssumption DEF ConnectionAssumption, LoopThreads, Threads, HandleIds, TypeOK,
     ControlFirst, Goto, Call, Callback, EndAt, Return, Resume, At, IdleLabels, MemberLabels,
     DecrementLabels, CloseLabels, CallbackLabels, ReturnLabels, ResumeLabels, object, events,
     queues, locals, control
<1>1. ASSUME NEW t \in Threads, Application(t) PROVE ControlFirst'
  BY <1>1 DEF Application, Copy, Move, Release, AssignToItself, CloseHandle, Write, Drop
<1>2. ASSUME NEW t \in Threads, Member(t) PROVE ControlFirst'
  BY <1>2 DEF Member, LoadReferences, TestClose, Arm, TestAndSetClose, DelRead, DelWrite,
       CloseSocket, LastReference, AddWrite, Recount
<1>3. ASSUME NEW t \in LoopThreads, EndCallback(t) PROVE ControlFirst'
  BY <1>3 DEF EndCallback
<1>4. ASSUME NEW t \in LoopThreads, Common(t) PROVE ControlFirst'
  <2>1. CASE Finish(t)
    <3> DEFINE end == IF t = Worker THEN "loop" ELSE "done"
    <3>1. CASE Drop(t, t, end) BY <2>1, <3>1 DEF Finish, Drop
    <3>2. CASE owner[t] # t /\ EndAt(t, end) /\ UNCHANGED <<object, events, ret, resume>>
      BY <2>1, <3>2 DEF Finish
    <3> QED BY <2>1, <3>1, <3>2 DEF Finish
  <2>2. CASE RequestHandle(t) \/ AcquireHandle(t)
    BY <2>2 DEF RequestHandle, AcquireHandle
  <2> QED BY <1>4, <2>1, <2>2 DEF Common
<1>5. CASE WorkerCallback
  <2>1. CASE CheckOpen \/ ReadData \/ ReadAgain \/ ReadFails \/ ReportHangup \/ Deliver \/
       ReportErrors \/ Drain \/ WriteDone \/ WriteNothing \/ WriteFails \/ ReportWriteFailure \/
       Destroy
    BY <2>1 DEF CheckOpen, ReadData, ReadAgain, ReadFails, ReportHangup, Deliver, ReportErrors,
         Drain, WriteDone, WriteNothing, WriteFails, ReportWriteFailure, Destroy
  <2> QED BY <1>5, <2>1, <1>4 DEF WorkerCallback
<1>6. CASE ControlCallback
  <2>1. CASE Publish \/ Announce
    BY <2>1 DEF Publish, Announce
  <2> QED BY <1>6, <2>1, <1>4 DEF ControlCallback
<1>7. CASE Dispatches
  BY <1>7 DEF Dispatches, DispatchRead, DispatchWrite, DispatchDestroy, DispatchOther, Dispatch,
       LoopIdle
<1>8. CASE UNCHANGED vars BY <1>8 DEF vars
<1> QED BY <1>1, <1>2, <1>3, <1>4, <1>5, <1>6, <1>7, <1>8 DEF Next

\* readCB keeps to its labels and writeCB to its own.
LEMMA InCallbackStep ==
  ASSUME TypeOK, WorkerLoop, NoErrors, InCallback, [Next]_vars
  PROVE  InCallback'
<1> USE ConnectionAssumption DEF ConnectionAssumption, LoopThreads, Threads, HandleIds, TypeOK,
     WorkerLoop, NoErrors, InCallback, Goto, Call, Callback, EndAt, Return, Resume, At,
     IdleLabels, MemberLabels, DecrementLabels, CloseLabels, CallbackLabels, ReturnLabels,
     ResumeLabels, object, events, queues, locals, control
<1>1. ASSUME NEW t \in Threads, Application(t) PROVE InCallback'
  BY <1>1 DEF Application, Copy, Move, Release, AssignToItself, CloseHandle, Write, Drop
<1>2. ASSUME NEW t \in Threads, Member(t) PROVE InCallback'
  BY <1>2 DEF Member, LoadReferences, TestClose, Arm, TestAndSetClose, DelRead, DelWrite,
       CloseSocket, LastReference, AddWrite, Recount
<1>3. ASSUME NEW t \in LoopThreads, EndCallback(t) PROVE InCallback'
  BY <1>3 DEF EndCallback
<1>4. ASSUME NEW t \in LoopThreads, Common(t) PROVE InCallback'
  <2>1. CASE Finish(t)
    <3> DEFINE end == IF t = Worker THEN "loop" ELSE "done"
    <3>1. CASE Drop(t, t, end) BY <2>1, <3>1 DEF Finish, Drop
    <3>2. CASE owner[t] # t /\ EndAt(t, end) /\ UNCHANGED <<object, events, ret, resume>>
      BY <2>1, <3>2 DEF Finish
    <3> QED BY <2>1, <3>1, <3>2 DEF Finish
  <2>2. CASE RequestHandle(t) \/ AcquireHandle(t)
    BY <2>2 DEF RequestHandle, AcquireHandle
  <2> QED BY <1>4, <2>1, <2>2 DEF Common
<1>5. CASE WorkerCallback
  <2>1. CASE CheckOpen \/ ReadData \/ ReadAgain \/ ReadFails \/ ReportHangup \/ Deliver \/
       ReportErrors \/ Drain \/ WriteDone \/ WriteNothing \/ WriteFails \/ ReportWriteFailure \/
       Destroy
    BY <2>1 DEF CheckOpen, ReadData, ReadAgain, ReadFails, ReportHangup, Deliver, ReportErrors,
         Drain, WriteDone, WriteNothing, WriteFails, ReportWriteFailure, Destroy
  <2> QED BY <1>5, <2>1, <1>4 DEF WorkerCallback
<1>6. CASE ControlCallback
  <2>1. CASE Publish \/ Announce
    BY <2>1 DEF Publish, Announce
  <2> QED BY <1>6, <2>1, <1>4 DEF ControlCallback
<1>7. CASE Dispatches
  BY <1>7 DEF Dispatches, DispatchRead, DispatchWrite, DispatchDestroy, DispatchOther, Dispatch,
       LoopIdle
<1>8. CASE UNCHANGED vars BY <1>8 DEF vars
<1> QED BY <1>1, <1>2, <1>3, <1>4, <1>5, <1>6, <1>7, <1>8 DEF Next

\* event_del of the read event returns outside of readCB, and the event does
\* not come back.
LEMMA ReadSafeStep ==
  ASSUME TypeOK, OneCloser, CloseOrder, ReadDown, ClosedNotReading, ControlFirst,
         WorkerLoop, InCallback, ReadSafe, [Next]_vars
  PROVE  ReadSafe'
<1> USE ConnectionAssumption DEF ConnectionAssumption, LoopThreads, Threads, HandleIds, TypeOK,
     OneCloser, CloseOrder, ReadDown, ClosedNotReading, ControlFirst, WorkerLoop, InCallback,
     ReadSafe, InBase, Goto, Call, Callback, EndAt, Return, Resume, At, IdleLabels,
     MemberLabels, DecrementLabels, CloseLabels, CallbackLabels, ReturnLabels, ResumeLabels,
     object, events, queues, locals, control
<1>1. ASSUME NEW t \in Threads, Application(t) PROVE ReadSafe'
  BY <1>1 DEF Application, Copy, Move, Release, AssignToItself, CloseHandle, Write, Drop
<1>2. ASSUME NEW t \in Threads, Member(t) PROVE ReadSafe'
  BY <1>2 DEF Member, LoadReferences, TestClose, Arm, TestAndSetClose, DelRead, DelWrite,
       CloseSocket, LastReference, AddWrite, Recount
<1>3. ASSUME NEW t \in LoopThreads, EndCallback(t) PROVE ReadSafe'
  BY <1>3 DEF EndCallback
<1>4. ASSUME NEW t \in LoopThreads, Common(t) PROVE ReadSafe'
  <2>1. CASE Finish(t)
    <3> DEFINE end == IF t = Worker THEN "loop" ELSE "done"
    <3>1. CASE Drop(t, t, end) BY <2>1, <3>1 DEF Finish, Drop
    <3>2. CASE owner[t] # t /\ EndAt(t, end) /\ UNCHANGED <<object, events, ret, resume>>
      BY <2>1, <3>2 DEF Finish
    <3> QED BY <2>1, <3>1, <3>2 DEF Finish
  <2>2. CASE RequestHandle(t) \/ AcquireHandle(t)
    BY <2>2 DEF RequestHandle, AcquireHandle
  <2> QED BY <1>4, <2>1, <2>2 DEF Common
<1>5. CASE WorkerCallback
  <2>1. CASE CheckOpen \/ ReadData \/ ReadAgain \/ ReadFails \/ ReportHangup \/ Deliver \/
       ReportErrors \/ Drain \/ WriteDone \/ WriteNothing \/ WriteFails \/ ReportWriteFailure \/
       Destroy
    BY <2>1 DEF CheckOpen, ReadData, ReadAgain, ReadFails, ReportHangup, Deliver, ReportErrors,
         Drain, WriteDone, WriteNothing, WriteFails, ReportWriteFailure, Destroy
  <2> QED BY <1>5, <2>1, <1>4 DEF WorkerCallback
<1>6. CASE ControlCallback
  <2>1. CASE Publish \/ Announce
    BY <2>1 DEF Publish, Announce
  <2> QED BY <1>6, <2>1, <1>4 DEF ControlCallback
<1>7. CASE Dispatches
  BY <1>7 DEF Dispatches, DispatchRead, DispatchWrite, DispatchDestroy, DispatchOther, Dispatch,
       LoopIdle
<1>8. CASE UNCHANGED vars BY <1>8 DEF vars
<1> QED BY <1>1, <1>2, <1>3, <1>4, <1>5, <1>6, <1>7, <1>8 DEF Next

\* event_del of the write event returns outside of writeCB; a later writeCB
\* sees the close flag.
LEMMA WriteSafeStep ==
  ASSUME TypeOK, OneCloser, CloseOrder, ControlFirst, WorkerLoop, InCallback, NoErrors,
         WriteSafe, [Next]_vars
  PROVE  WriteSafe'
<1> USE ConnectionAssumption DEF ConnectionAssumption, LoopThreads, Threads, HandleIds,
     TypeOK, OneCloser, Closing, CloseOrder, ControlFirst, WorkerLoop, InCallback,
     NoErrors, WriteSafe, InBase, Goto, Call, Callback, EndAt, Return, Resume, At,
     IdleLabels, MemberLabels, DecrementLabels, CloseLabels, CallbackLabels, ReturnLabels,
     ResumeLabels, object, events, queues, locals, control
<1>1. ASSUME NEW t \in Threads, NEW h \in HandleIds, NEW copy \in Handles, NEW u \in Threads, Copy(t, h, copy, u)
      PROVE  WriteSafe'
  BY <1>1 DEF Copy
<1>2. ASSUME NEW t \in Threads, NEW h \in Handles, NEW u \in Threads, Move(t, h, u) PROVE WriteSafe'
  BY <1>2 DEF Move
<1>3. ASSUME NEW t \in Threads, NEW h \in Handles, Release(t, h) PROVE WriteSafe'
  BY <1>3 DEF Release, Drop
<1>4. ASSUME NEW t \in Threads, CloseHandle(t) PROVE WriteSafe' BY <1>4 DEF CloseHandle
<1>5. ASSUME NEW t \in Threads, Write(t) PROVE WriteSafe' BY <1>5 DEF Write
<1>6. ASSUME NEW t \in Threads, LoadReferences(t) PROVE WriteSafe' BY <1>6 DEF LoadReferences
<1>7. ASSUME NEW t \in Threads, TestClose(t) PROVE WriteSafe' BY <1>7 DEF TestClose
<1>8. ASSUME NEW t \in Threads, Arm(t) PROVE WriteSafe' BY <1>8 DEF Arm
<1>9. ASSUME NEW t \in Threads, TestAndSetClose(t) PROVE WriteSafe' BY <1>9 DEF TestAndSetClose
<1>10. ASSUME NEW t \in Threads, DelRead(t) PROVE WriteSafe' BY <1>10 DEF DelRead
<1>11. ASSUME NEW t \in Threads, DelWrite(t) PROVE WriteSafe' BY <1>11 DEF DelWrite
<1>12. ASSUME NEW t \in Threads, CloseSocket(t) PROVE WriteSafe' BY <1>12 DEF CloseSocket
<1>13. ASSUME NEW t \in Threads, LastReference(t) PROVE WriteSafe' BY <1>13 DEF LastReference
<1>14. ASSUME NEW t \in Threads, AddWrite(t) PROVE WriteSafe' BY <1>14 DEF AddWrite
<1>15. ASSUME NEW t \in LoopThreads, EndCallback(t) PROVE WriteSafe' BY <1>15 DEF EndCallback
<1>16. ASSUME NEW t \in LoopThreads, RequestHandle(t) PROVE WriteSafe'
  BY <1>16 DEF RequestHandle
<1>17. ASSUME NEW t \in LoopThreads, AcquireHandle(t) PROVE WriteSafe'
  BY <1>17 DEF AcquireHandle
<1>18. ASSUME NEW t \in LoopThreads, Finish(t) PROVE WriteSafe'
  <2> DEFINE end == IF t = Worker THEN "loop" ELSE "done"
  <2>1. CASE Drop(t, t, end) BY <1>18, <2>1 DEF Finish, Drop
  <2>2. CASE owner[t] # t /\ EndAt(t, end) /\ UNCHANGED <<object, events, ret, resume>>
    BY <1>18, <2>2 DEF Finish
  <2> QED BY <1>18, <2>1, <2>2 DEF Finish
<1>19. CASE CheckOpen BY <1>19 DEF CheckOpen
<1>20. CASE ReadData BY <1>20 DEF ReadData
<1>21. CASE ReadAgain BY <1>21 DEF ReadAgain
<1>22. CASE ReadFails BY <1>22 DEF ReadFails
<1>23. CASE ReportHangup BY <1>23 DEF ReportHangup
<1>24. CASE Deliver BY <1>24 DEF Deliver
<1>25. CASE ReportErrors BY <1>25 DEF ReportErrors
<1>26. CASE Drain BY <1>26 DEF Drain
<1>27. CASE WriteDone BY <1>27 DEF WriteDone
<1>28. CASE WriteNothing BY <1>28 DEF WriteNothing
<1>29. CASE WriteFails BY <1>29 DEF WriteFails
<1>30. CASE ReportWriteFailure BY <1>30 DEF ReportWriteFailure
<1>31. CASE Destroy BY <1>31 DEF Destroy
<1>32. CASE Publish BY <1>32 DEF Publish
<1>33. CASE Announce BY <1>33 DEF Announce
<1>34. CASE DispatchRead BY <1>34 DEF DispatchRead, Dispatch, LoopIdle
<1>35. CASE DispatchWrite BY <1>35 DEF DispatchWrite, Dispatch, LoopIdle
<1>36. CASE DispatchDestroy BY <1>36 DEF DispatchDestroy, Dispatch, LoopIdle
<1>37. CASE DispatchOther BY <1>37 DEF DispatchOther, LoopIdle
<1>38. CASE UNCHANGED vars BY <1>38 DEF vars
<1>39. ASSUME NEW t \in Threads, NEW h \in Handles \cup {Control}, AssignToItself(t, h)
       PROVE  WriteSafe'
  BY <1>39 DEF AssignToItself
<1>40. ASSUME NEW t \in Threads, Recount(t) PROVE WriteSafe' BY <1>40 DEF Recount
<1> QED BY <1>1, <1>2, <1>3, <1>4, <1>5, <1>6, <1>7, <1>8, <1>9, <1>10, <1>11, <1>12, <1>13,
     <1>14, <1>15, <1>16, <1>17, <1>18, <1>19, <1>20, <1>21, <1>22, <1>23, <1>24, <1>25, <1>26,
     <1>27, <1>28, <1>29, <1>30, <1>31, <1>32, <1>33, <1>34, <1>35, <1>36, <1>37, <1>38, <1>39, <1>40 DEF
     Next, Application, Member, WorkerCallback, ControlCallback, Common, Dispatches

\* read() and write() are never called on a closed descriptor, whichever
\* thread closes the connection, provided serialize() reports no errors: when
\* it does, writeCB's good is stale after the callback.
THEOREM SocketOpenInIO ==
  ASSUME ~SerializeErrors
  PROVE  Spec => []NoIOOnClosedSocket
<1>1. Init => IOSafe
  BY ConnectionAssumption
     DEF Init, IOSafe, NoErrors, WorkerLoop, ControlFirst, InCallback, ReadSafe, WriteSafe,
         ConnectionAssumption, Threads, LoopThreads, HandleIds
<1>2. Basic /\ Closure /\ IOSafe /\ [Next]_vars => IOSafe'
  BY NoErrorsStep, WorkerLoopStep, ControlFirstStep, InCallbackStep, ReadSafeStep, WriteSafeStep
     DEF Basic, Closure, IOSafe
<1>3. IOSafe => NoIOOnClosedSocket
  BY DEF IOSafe, InCallback, ReadSafe, WriteSafe, NoIOOnClosedSocket
<1> QED BY <1>1, <1>2, <1>3, BasicInvariant, ClosureInvariant, PTL DEF Spec

-----------------------------------------------------------------------------
(* Delivery                                                                *)

\* writeCB stops early only for a closed connection, or to close it.
GoodUnlessClosed ==
  /\ pc[Worker] = "check" /\ owner[Worker] # Worker => closed
  /\ pc[Worker] \in {"errors", "drain", "writeSocket"} \/ resume[Worker] = "errors"
       => good \/ closed
  /\ ret[Worker] = "writeFailed" => pc[Worker] = "close" \/ closed
  /\ pc[Worker] = "writeFailed" => closed

\* writeCB has the queue still to empty, or a failure to close for.
Sending ==
  /\ current = "write"
  /\ \/ pc[Worker] \in {"request", "acquire", "check", "errors", "drain", "writeSocket"}
     \/ resume[Worker] = "errors"
     \/ ret[Worker] = "writeFailed"

SendDue == buffers > 0 /\ ~closed => writeEvent \/ theMutex # NoOne \/ Sending

Delivery == GoodUnlessClosed /\ SendDue

\* writeCB gives up only on a closed connection, having closed it itself or not.
LEMMA GoodStep ==
  ASSUME TypeOK, ~EmptyChunks, OneCloser, Frames, GoodUnlessClosed, [Next]_vars
  PROVE  GoodUnlessClosed'
<1> USE ConnectionAssumption DEF ConnectionAssumption, LoopThreads, Threads, HandleIds, TypeOK,
     OneCloser, Closing, Frames, GoodUnlessClosed, Goto, Call, Callback, EndAt, Return, Resume,
     At, IdleLabels, MemberLabels, DecrementLabels, CloseLabels, CallbackLabels, ReturnLabels,
     ResumeLabels, object, events, queues, locals, control
<1>1. ASSUME NEW t \in Threads, Application(t) PROVE GoodUnlessClosed'
  BY <1>1 DEF Application, Copy, Move, Release, AssignToItself, CloseHandle, Write, Drop
<1>2. ASSUME NEW t \in Threads, Member(t) PROVE GoodUnlessClosed'
  BY <1>2 DEF Member, LoadReferences, TestClose, Arm, TestAndSetClose, DelRead, DelWrite,
       CloseSocket, LastReference, AddWrite, Recount
<1>3. ASSUME NEW t \in LoopThreads, EndCallback(t) PROVE GoodUnlessClosed'
  BY <1>3 DEF EndCallback
<1>4. ASSUME NEW t \in LoopThreads, Common(t) PROVE GoodUnlessClosed'
  <2>1. CASE Finish(t)
    <3> DEFINE end == IF t = Worker THEN "loop" ELSE "done"
    <3>1. CASE Drop(t, t, end) BY <2>1, <3>1 DEF Finish, Drop
    <3>2. CASE owner[t] # t /\ EndAt(t, end) /\ UNCHANGED <<object, events, ret, resume>>
      BY <2>1, <3>2 DEF Finish
    <3> QED BY <2>1, <3>1, <3>2 DEF Finish
  <2>2. CASE RequestHandle(t) \/ AcquireHandle(t)
    BY <2>2 DEF RequestHandle, AcquireHandle
  <2> QED BY <1>4, <2>1, <2>2 DEF Common
<1>5. CASE WorkerCallback
  <2>1. CASE CheckOpen
    <3> DEFINE open == ~closed /\ owner[Worker] = Worker
    <3>1. closed' = closed /\ (~open => closed)
      BY <2>1 DEF CheckOpen
    <3>2. good' = open
      BY <2>1 DEF CheckOpen
    <3>3. good' \/ closed'
      BY <3>1, <3>2, Zenon
    <3> QED BY <2>1, <3>3 DEF CheckOpen
  <2>2. CASE ReadData \/ ReadAgain \/ ReadFails \/ ReportHangup \/ Deliver \/ ReportErrors \/
       Drain \/ WriteDone \/ WriteNothing \/ WriteFails \/ ReportWriteFailure \/ Destroy
    BY <2>2 DEF ReadData, ReadAgain, ReadFails, ReportHangup, Deliver, ReportErrors, Drain,
         WriteDone, WriteNothing, WriteFails, ReportWriteFailure, Destroy
  <2> QED BY <1>5, <2>1, <2>2, <1>4 DEF WorkerCallback
<1>6. CASE ControlCallback
  <2>1. CASE Publish \/ Announce
    BY <2>1 DEF Publish, Announce
  <2> QED BY <1>6, <2>1, <1>4 DEF ControlCallback
<1>7. CASE Dispatches
  BY <1>7 DEF Dispatches, DispatchRead, DispatchWrite, DispatchDestroy, DispatchOther, Dispatch,
       LoopIdle
<1>8. CASE UNCHANGED vars BY <1>8 DEF vars
<1> QED BY <1>1, <1>2, <1>3, <1>4, <1>5, <1>6, <1>7, <1>8 DEF Next

\* Whoever leaves a buffer behind has left the event pending.
LEMMA SendStep ==
  ASSUME TypeOK, Frames, WorkerLoop, OneCloser, GoodUnlessClosed, SendDue, [Next]_vars
  PROVE  SendDue'
<1> USE ConnectionAssumption DEF ConnectionAssumption, LoopThreads, Threads, HandleIds, TypeOK,
     Frames, WorkerLoop, OneCloser, Closing, GoodUnlessClosed, SendDue, Sending, Goto, Call,
     Callback, EndAt, Return, Resume, At, IdleLabels, MemberLabels, DecrementLabels,
     CloseLabels, CallbackLabels, ReturnLabels, ResumeLabels, object, events, queues, locals,
     control
<1>1. ASSUME NEW t \in Threads, Application(t) PROVE SendDue'
  BY <1>1 DEF Application, Copy, Move, Release, AssignToItself, CloseHandle, Write, Drop
<1>2. ASSUME NEW t \in Threads, Member(t) PROVE SendDue'
  BY <1>2 DEF Member, LoadReferences, TestClose, Arm, TestAndSetClose, DelRead, DelWrite,
       CloseSocket, LastReference, AddWrite, Recount
<1>3. ASSUME NEW t \in LoopThreads, EndCallback(t) PROVE SendDue'
  BY <1>3 DEF EndCallback
<1>4. ASSUME NEW t \in LoopThreads, Common(t) PROVE SendDue'
  <2>1. CASE Finish(t)
    <3> DEFINE end == IF t = Worker THEN "loop" ELSE "done"
    <3>1. CASE Drop(t, t, end) BY <2>1, <3>1 DEF Finish, Drop
    <3>2. CASE owner[t] # t /\ EndAt(t, end) /\ UNCHANGED <<object, events, ret, resume>>
      BY <2>1, <3>2 DEF Finish
    <3> QED BY <2>1, <3>1, <3>2 DEF Finish
  <2>2. CASE RequestHandle(t) \/ AcquireHandle(t)
    BY <2>2 DEF RequestHandle, AcquireHandle
  <2> QED BY <1>4, <2>1, <2>2 DEF Common
<1>5. CASE WorkerCallback
  <2>1. CASE CheckOpen \/ ReadData \/ ReadAgain \/ ReadFails \/ ReportHangup \/ Deliver \/
       ReportErrors \/ Drain \/ WriteDone \/ WriteNothing \/ WriteFails \/ ReportWriteFailure \/
       Destroy
    BY <2>1 DEF CheckOpen, ReadData, ReadAgain, ReadFails, ReportHangup, Deliver, ReportErrors,
         Drain, WriteDone, WriteNothing, WriteFails, ReportWriteFailure, Destroy
  <2> QED BY <1>5, <2>1, <1>4 DEF WorkerCallback
<1>6. CASE ControlCallback
  <2>1. CASE Publish \/ Announce
    BY <2>1 DEF Publish, Announce
  <2> QED BY <1>6, <2>1, <1>4 DEF ControlCallback
<1>7. CASE Dispatches
  BY <1>7 DEF Dispatches, DispatchRead, DispatchWrite, DispatchDestroy, DispatchOther, Dispatch,
       LoopIdle
<1>8. CASE UNCHANGED vars BY <1>8 DEF vars
<1> QED BY <1>1, <1>2, <1>3, <1>4, <1>5, <1>6, <1>7, <1>8 DEF Next

\* No queued buffer of an open connection is left without a pending write
\* event, a running writeCB or a writer about to add the event, provided no
\* chunk is empty: write() of one ends writeCB with the queue as it is.
THEOREM WritesNotLost ==
  ASSUME ~EmptyChunks
  PROVE  Spec => []NoLostWrite
<1>1. Init => WorkerLoop /\ Delivery
  BY ConnectionAssumption
     DEF Init, WorkerLoop, Delivery, GoodUnlessClosed, SendDue, ConnectionAssumption, Threads,
         LoopThreads, HandleIds
<1>2. Basic /\ Closure /\ WorkerLoop /\ Delivery /\ [Next]_vars => (WorkerLoop /\ Delivery)'
  BY WorkerLoopStep, GoodStep, SendStep DEF Basic, Closure, Delivery
<1>3. Delivery => NoLostWrite
  BY DEF Delivery, SendDue, Sending, NoLostWrite
<1> QED BY <1>1, <1>2, <1>3, BasicInvariant, ClosureInvariant, PTL DEF Spec

-----------------------------------------------------------------------------
(* Lifetime                                                                *)

\* numThreads = 0, other threads leave the destruction of Handles and the
\* dialling of connections to the loop, and no Handle is assigned to itself: the
\* use of the library in which its promise about Handles holds.
OneLoop == ControlOnLoop /\ Releasers \subseteq LoopThreads /\ SelfAssigns = {}

\* A user thread never decrements, and never finds the count zero.
UserLabels == {"user", "addWrite"} \cup CloseLabels
UsersNeverDrop == \A t \in Users : pc[t] \in UserLabels /\ ret[t] = "user"

\* A thread inside close or write owns a Handle.
MembersOwn == \A t \in Threads : pc[t] \in CloseLabels \cup {"addWrite"} => Owns(t)
GoodOwns ==
  /\ good => owner[Worker] = Worker
  /\ pc[Worker] \in {"readSocket", "writeSocket"} => good

\* requestHandle's test of _close may be out of date when it increments, but
\* then whoever closed the connection since then owns a Handle.
AcquireLive ==
  \A t \in LoopThreads :
    pc[t] = "acquire" /\ closed => \E h \in HandleIds : owner[h] # NoOne

\* Closed, and nobody will ever have a Handle again.
Doomed == closed /\ \A h \in HandleIds : owner[h] = NoOne

ArmedDoomed ==
  /\ \A t \in LoopThreads :
       pc[t] = "testClose" => \A h \in HandleIds : owner[h] = NoOne
  /\ (\E t \in LoopThreads : pc[t] = "arm") \/ destroyEvent \/ pc[Worker] = "destroy"
       => Doomed

FreedIdle ==
  freed =>
    /\ Doomed
    /\ pc[Control] = "done"
    /\ pc[Worker] = "loop" \/ (pc[Worker] = "user" /\ resume[Worker] = "loop")
    /\ \A t \in Users : pc[t] = "user"

Lifetime == /\ ControlFirst /\ UsersNeverDrop /\ MembersOwn /\ GoodOwns
            /\ AcquireLive /\ ArmedDoomed /\ FreedIdle

\* Application threads own a Handle in every call, so none drops the last one.
LEMMA UsersStep ==
  ASSUME TypeOK, Frames, HandlesCounted, OneLoop, MembersOwn, UsersNeverDrop, [Next]_vars
  PROVE  UsersNeverDrop'
<1> USE ConnectionAssumption DEF ConnectionAssumption, LoopThreads, Threads, HandleIds, TypeOK,
     OneLoop, UsersNeverDrop, UserLabels, MembersOwn, Owns, Goto, Call, Callback, EndAt, Return, Resume,
     At, IdleLabels, MemberLabels, DecrementLabels, CloseLabels, CallbackLabels, ReturnLabels,
     ResumeLabels, object, events, queues, locals, control
<1>1. ASSUME NEW t \in Threads, Application(t) PROVE UsersNeverDrop'
  BY <1>1 DEF Application, Copy, Move, Release, AssignToItself, CloseHandle, Write, Drop
<1>2. ASSUME NEW t \in Threads, Member(t) PROVE UsersNeverDrop'
  <2>1. CASE LastReference(t) BY <2>1, NoneLive DEF LastReference
  <2>2. CASE LoadReferences(t) \/ TestClose(t) \/ Arm(t) \/ TestAndSetClose(t) \/ DelRead(t) \/
       DelWrite(t) \/ CloseSocket(t) \/ AddWrite(t) \/ Recount(t)
    BY <2>2 DEF LoadReferences, TestClose, Arm, TestAndSetClose, DelRead, DelWrite, CloseSocket,
         AddWrite, Recount
  <2> QED BY <1>2, <2>1, <2>2 DEF Member
<1>3. ASSUME NEW t \in LoopThreads, EndCallback(t) PROVE UsersNeverDrop'
  BY <1>3 DEF EndCallback
<1>4. ASSUME NEW t \in LoopThreads, Common(t) PROVE UsersNeverDrop'
  <2>1. CASE Finish(t)
    <3> DEFINE end == IF t = Worker THEN "loop" ELSE "done"
    <3>1. CASE Drop(t, t, end) BY <2>1, <3>1 DEF Finish, Drop
    <3>2. CASE owner[t] # t /\ EndAt(t, end) /\ UNCHANGED <<object, events, ret, resume>>
      BY <2>1, <3>2 DEF Finish
    <3> QED BY <2>1, <3>1, <3>2 DEF Finish
  <2>2. CASE RequestHandle(t) \/ AcquireHandle(t)
    BY <2>2 DEF RequestHandle, AcquireHandle
  <2> QED BY <1>4, <2>1, <2>2 DEF Common
<1>5. CASE WorkerCallback
  <2>1. CASE CheckOpen \/ ReadData \/ ReadAgain \/ ReadFails \/ ReportHangup \/ Deliver \/
       ReportErrors \/ Drain \/ WriteDone \/ WriteNothing \/ WriteFails \/ ReportWriteFailure \/
       Destroy
    BY <2>1 DEF CheckOpen, ReadData, ReadAgain, ReadFails, ReportHangup, Deliver, ReportErrors,
         Drain, WriteDone, WriteNothing, WriteFails, ReportWriteFailure, Destroy
  <2> QED BY <1>5, <2>1, <1>4 DEF WorkerCallback
<1>6. CASE ControlCallback
  <2>1. CASE Publish \/ Announce
    BY <2>1 DEF Publish, Announce
  <2> QED BY <1>6, <2>1, <1>4 DEF ControlCallback
<1>7. CASE Dispatches
  BY <1>7 DEF Dispatches, DispatchRead, DispatchWrite, DispatchDestroy, DispatchOther, Dispatch,
       LoopIdle
<1>8. CASE UNCHANGED vars BY <1>8 DEF vars
<1> QED BY <1>1, <1>2, <1>3, <1>4, <1>5, <1>6, <1>7, <1>8 DEF Next

\* A member function runs on a Handle that its thread owns until it returns.
LEMMA MembersStep ==
  ASSUME TypeOK, OwnScoped, MembersOwn, GoodOwns, [Next]_vars
  PROVE  (MembersOwn /\ GoodOwns)'
<1> USE ConnectionAssumption DEF ConnectionAssumption, LoopThreads, Threads, HandleIds, TypeOK,
     OwnScoped, MembersOwn, GoodOwns, Owns, Goto, Call, Callback, EndAt, Return, Resume, At,
     IdleLabels, MemberLabels, DecrementLabels, CloseLabels, CallbackLabels, ReturnLabels,
     ResumeLabels, object, events, queues, locals, control
<1>1. ASSUME NEW t \in Threads, Application(t) PROVE (MembersOwn /\ GoodOwns)'
  BY <1>1 DEF Application, Copy, Move, Release, AssignToItself, CloseHandle, Write, Drop
<1>2. ASSUME NEW t \in Threads, Member(t) PROVE (MembersOwn /\ GoodOwns)'
  BY <1>2 DEF Member, LoadReferences, TestClose, Arm, TestAndSetClose, DelRead, DelWrite,
       CloseSocket, LastReference, AddWrite, Recount
<1>3. ASSUME NEW t \in LoopThreads, EndCallback(t) PROVE (MembersOwn /\ GoodOwns)'
  BY <1>3 DEF EndCallback
<1>4. ASSUME NEW t \in LoopThreads, Common(t) PROVE (MembersOwn /\ GoodOwns)'
  <2>1. CASE Finish(t)
    <3> DEFINE end == IF t = Worker THEN "loop" ELSE "done"
    <3>1. CASE Drop(t, t, end) BY <2>1, <3>1 DEF Finish, Drop
    <3>2. CASE owner[t] # t /\ EndAt(t, end) /\ UNCHANGED <<object, events, ret, resume>>
      BY <2>1, <3>2 DEF Finish
    <3> QED BY <2>1, <3>1, <3>2 DEF Finish
  <2>2. CASE RequestHandle(t) \/ AcquireHandle(t)
    BY <2>2 DEF RequestHandle, AcquireHandle
  <2> QED BY <1>4, <2>1, <2>2 DEF Common
<1>5. CASE WorkerCallback
  <2>1. CASE CheckOpen
    <3> DEFINE open == ~closed /\ owner[Worker] = Worker
    <3>1. good' = open /\ owner' = owner
      BY <2>1 DEF CheckOpen
    <3>2. pc'[Worker] \in {"readSocket", "writeSocket"} => open
      BY <2>1 DEF CheckOpen
    <3>3. GoodOwns'
      BY <3>1, <3>2, Zenon
    <3>4. MembersOwn'
      BY <2>1 DEF CheckOpen
    <3> QED BY <3>3, <3>4
  <2>2. CASE ReadData \/ ReadAgain \/ ReadFails \/ ReportHangup \/ Deliver \/ ReportErrors \/
       Drain \/ WriteDone \/ WriteNothing \/ WriteFails \/ ReportWriteFailure \/ Destroy
    BY <2>2 DEF ReadData, ReadAgain, ReadFails, ReportHangup, Deliver, ReportErrors, Drain,
         WriteDone, WriteNothing, WriteFails, ReportWriteFailure, Destroy
  <2> QED BY <1>5, <2>1, <2>2, <1>4 DEF WorkerCallback
<1>6. CASE ControlCallback
  <2>1. CASE Publish \/ Announce
    BY <2>1 DEF Publish, Announce
  <2> QED BY <1>6, <2>1, <1>4 DEF ControlCallback
<1>7. CASE Dispatches
  BY <1>7 DEF Dispatches, DispatchRead, DispatchWrite, DispatchDestroy, DispatchOther, Dispatch,
       LoopIdle
<1>8. CASE UNCHANGED vars BY <1>8 DEF vars
<1> QED BY <1>1, <1>2, <1>3, <1>4, <1>5, <1>6, <1>7, <1>8 DEF Next

\* A Handle made after requestHandle's test finds another one alive.
LEMMA AcquireStep ==
  ASSUME TypeOK, OneLoop, OwnScoped, ControlFirst, MembersOwn, AcquireLive, [Next]_vars
  PROVE  AcquireLive'
<1> USE ConnectionAssumption DEF ConnectionAssumption, LoopThreads, Threads, HandleIds,
     TypeOK, OneLoop, OwnScoped, ControlFirst, MembersOwn, AcquireLive, Owns, Goto, Call,
     Callback, EndAt, Return, Resume, At, IdleLabels, MemberLabels, DecrementLabels,
     CloseLabels, CallbackLabels, ReturnLabels, ResumeLabels, object, events, queues,
     locals, control
<1>1. ASSUME NEW t \in Threads, NEW h \in HandleIds, NEW copy \in Handles, NEW u \in Threads, Copy(t, h, copy, u)
      PROVE  AcquireLive'
  BY <1>1 DEF Copy
<1>2. ASSUME NEW t \in Threads, NEW h \in Handles, NEW u \in Threads, Move(t, h, u)
      PROVE  AcquireLive'
  BY <1>2 DEF Move
<1>3. ASSUME NEW t \in Threads, NEW h \in Handles, Release(t, h) PROVE AcquireLive'
  BY <1>3 DEF Release, Drop
<1>4. ASSUME NEW t \in Threads, CloseHandle(t) PROVE AcquireLive' BY <1>4 DEF CloseHandle
<1>5. ASSUME NEW t \in Threads, Write(t) PROVE AcquireLive' BY <1>5 DEF Write
<1>6. ASSUME NEW t \in Threads, LoadReferences(t) PROVE AcquireLive' BY <1>6 DEF LoadReferences
<1>7. ASSUME NEW t \in Threads, TestClose(t) PROVE AcquireLive' BY <1>7 DEF TestClose
<1>8. ASSUME NEW t \in Threads, Arm(t) PROVE AcquireLive' BY <1>8 DEF Arm
<1>9. ASSUME NEW t \in Threads, TestAndSetClose(t) PROVE AcquireLive'
  BY <1>9 DEF TestAndSetClose
<1>10. ASSUME NEW t \in Threads, DelRead(t) PROVE AcquireLive' BY <1>10 DEF DelRead
<1>11. ASSUME NEW t \in Threads, DelWrite(t) PROVE AcquireLive' BY <1>11 DEF DelWrite
<1>12. ASSUME NEW t \in Threads, CloseSocket(t) PROVE AcquireLive' BY <1>12 DEF CloseSocket
<1>13. ASSUME NEW t \in Threads, LastReference(t) PROVE AcquireLive' BY <1>13 DEF LastReference
<1>14. ASSUME NEW t \in Threads, AddWrite(t) PROVE AcquireLive' BY <1>14 DEF AddWrite
<1>15. ASSUME NEW t \in LoopThreads, EndCallback(t) PROVE AcquireLive' BY <1>15 DEF EndCallback
<1>16. ASSUME NEW t \in LoopThreads, RequestHandle(t) PROVE AcquireLive'
  BY <1>16 DEF RequestHandle
<1>17. ASSUME NEW t \in LoopThreads, AcquireHandle(t) PROVE AcquireLive'
  BY <1>17 DEF AcquireHandle
<1>18. ASSUME NEW t \in LoopThreads, Finish(t) PROVE AcquireLive'
  <2> DEFINE end == IF t = Worker THEN "loop" ELSE "done"
  <2>1. CASE Drop(t, t, end) BY <1>18, <2>1 DEF Finish, Drop
  <2>2. CASE owner[t] # t /\ EndAt(t, end) /\ UNCHANGED <<object, events, ret, resume>>
    BY <1>18, <2>2 DEF Finish
  <2> QED BY <1>18, <2>1, <2>2 DEF Finish
<1>19. CASE CheckOpen BY <1>19 DEF CheckOpen
<1>20. CASE ReadData BY <1>20 DEF ReadData
<1>21. CASE ReadAgain BY <1>21 DEF ReadAgain
<1>22. CASE ReadFails BY <1>22 DEF ReadFails
<1>23. CASE ReportHangup BY <1>23 DEF ReportHangup
<1>24. CASE Deliver BY <1>24 DEF Deliver
<1>25. CASE ReportErrors BY <1>25 DEF ReportErrors
<1>26. CASE Drain BY <1>26 DEF Drain
<1>27. CASE WriteDone BY <1>27 DEF WriteDone
<1>28. CASE WriteNothing BY <1>28 DEF WriteNothing
<1>29. CASE WriteFails BY <1>29 DEF WriteFails
<1>30. CASE ReportWriteFailure BY <1>30 DEF ReportWriteFailure
<1>31. CASE Destroy BY <1>31 DEF Destroy
<1>32. CASE Publish BY <1>32 DEF Publish
<1>33. CASE Announce BY <1>33 DEF Announce
<1>34. CASE DispatchRead BY <1>34 DEF DispatchRead, Dispatch, LoopIdle
<1>35. CASE DispatchWrite BY <1>35 DEF DispatchWrite, Dispatch, LoopIdle
<1>36. CASE DispatchDestroy BY <1>36 DEF DispatchDestroy, Dispatch, LoopIdle
<1>37. CASE DispatchOther BY <1>37 DEF DispatchOther, LoopIdle
<1>38. CASE UNCHANGED vars BY <1>38 DEF vars
<1>39. ASSUME NEW t \in Threads, NEW h \in Handles \cup {Control}, AssignToItself(t, h)
       PROVE  AcquireLive'
  BY <1>39 DEF AssignToItself
<1>40. ASSUME NEW t \in Threads, Recount(t) PROVE AcquireLive' BY <1>40 DEF Recount
<1> HIDE DEF AcquireLive
<1>41. ASSUME NEW t \in Threads, Application(t) PROVE AcquireLive'
  BY <1>1, <1>2, <1>3, <1>4, <1>5, <1>39, <1>41 DEF Application
<1>42. ASSUME NEW t \in Threads, Member(t) PROVE AcquireLive'
  BY <1>6, <1>7, <1>8, <1>9, <1>10, <1>11, <1>12, <1>13, <1>14, <1>40, <1>42 DEF Member
<1>43. ASSUME NEW t \in LoopThreads, Common(t) PROVE AcquireLive'
  BY <1>16, <1>17, <1>18, <1>43 DEF Common
<1>44. CASE WorkerCallback
  BY <1>43, <1>44, <1>19, <1>20, <1>21, <1>22, <1>23, <1>24, <1>25, <1>26, <1>27, <1>28, <1>29,
     <1>30, <1>31 DEF WorkerCallback
<1>45. CASE ControlCallback
  BY <1>43, <1>45, <1>32, <1>33 DEF ControlCallback
<1> QED BY <1>15, <1>34, <1>35, <1>36, <1>37, <1>38, <1>41, <1>42, <1>44, <1>45
        DEF Next, Dispatches

\* Only the loop drops Handles, so what it reads of the count stays true until
\* it runs destroyCB itself.
LEMMA ArmedStep ==
  ASSUME TypeOK, Frames, HandlesCounted, OneLoop, ControlFirst, UsersNeverDrop, MembersOwn,
         AcquireLive, ArmedDoomed, [Next]_vars
  PROVE  ArmedDoomed'
<1> USE ConnectionAssumption DEF ConnectionAssumption, LoopThreads, Threads, HandleIds, TypeOK,
     OneLoop, ControlFirst, UsersNeverDrop, UserLabels, MembersOwn, AcquireLive, ArmedDoomed,
     Doomed, Owns, Goto, Call, Callback, EndAt, Return, Resume, At, IdleLabels, MemberLabels,
     DecrementLabels, CloseLabels, CallbackLabels, ReturnLabels, ResumeLabels, object, events,
     queues, locals, control
<1>1. ASSUME NEW t \in Threads, Application(t) PROVE ArmedDoomed'
  BY <1>1 DEF Application, Copy, Move, Release, AssignToItself, CloseHandle, Write, Drop
<1>2. ASSUME NEW t \in Threads, Member(t) PROVE ArmedDoomed'
  <2>1. CASE LoadReferences(t) BY <2>1, NoneLive DEF LoadReferences
  <2>2. CASE LastReference(t) BY <2>2, NoneLive DEF LastReference
  <2>3. CASE TestClose(t) \/ Arm(t) \/ TestAndSetClose(t) \/ DelRead(t) \/ DelWrite(t) \/
       CloseSocket(t) \/ AddWrite(t) \/ Recount(t)
    BY <2>3 DEF TestClose, Arm, TestAndSetClose, DelRead, DelWrite, CloseSocket, AddWrite, Recount
  <2> QED BY <1>2, <2>1, <2>2, <2>3 DEF Member
<1>3. ASSUME NEW t \in LoopThreads, EndCallback(t) PROVE ArmedDoomed'
  BY <1>3 DEF EndCallback
<1>4. ASSUME NEW t \in LoopThreads, Common(t) PROVE ArmedDoomed'
  <2>1. CASE Finish(t)
    <3> DEFINE end == IF t = Worker THEN "loop" ELSE "done"
    <3>1. CASE Drop(t, t, end) BY <2>1, <3>1 DEF Finish, Drop
    <3>2. CASE owner[t] # t /\ EndAt(t, end) /\ UNCHANGED <<object, events, ret, resume>>
      BY <2>1, <3>2 DEF Finish
    <3> QED BY <2>1, <3>1, <3>2 DEF Finish
  <2>2. CASE RequestHandle(t) \/ AcquireHandle(t)
    BY <2>2 DEF RequestHandle, AcquireHandle
  <2> QED BY <1>4, <2>1, <2>2 DEF Common
<1>5. CASE WorkerCallback
  <2>1. CASE CheckOpen \/ ReadData \/ ReadAgain \/ ReadFails \/ ReportHangup \/ Deliver \/
       ReportErrors \/ Drain \/ WriteDone \/ WriteNothing \/ WriteFails \/ ReportWriteFailure \/
       Destroy
    BY <2>1 DEF CheckOpen, ReadData, ReadAgain, ReadFails, ReportHangup, Deliver, ReportErrors,
         Drain, WriteDone, WriteNothing, WriteFails, ReportWriteFailure, Destroy
  <2> QED BY <1>5, <2>1, <1>4 DEF WorkerCallback
<1>6. CASE ControlCallback
  <2>1. CASE Publish \/ Announce
    BY <2>1 DEF Publish, Announce
  <2> QED BY <1>6, <2>1, <1>4 DEF ControlCallback
<1>7. CASE Dispatches
  BY <1>7 DEF Dispatches, DispatchRead, DispatchWrite, DispatchDestroy, DispatchOther, Dispatch,
       LoopIdle
<1>8. CASE UNCHANGED vars BY <1>8 DEF vars
<1> QED BY <1>1, <1>2, <1>3, <1>4, <1>5, <1>6, <1>7, <1>8 DEF Next

\* destroyCB runs with every thread outside the object.
LEMMA FreedStep ==
  ASSUME TypeOK, OneLoop, ControlFirst, UsersNeverDrop, MembersOwn, ArmedDoomed,
         FreedIdle, [Next]_vars
  PROVE  FreedIdle'
<1> USE ConnectionAssumption DEF ConnectionAssumption, LoopThreads, Threads, HandleIds,
     TypeOK, OneLoop, ControlFirst, UsersNeverDrop, UserLabels, MembersOwn, ArmedDoomed,
     FreedIdle, Doomed, Owns, Goto, Call, Callback, EndAt, Return, Resume, At, IdleLabels,
     MemberLabels, DecrementLabels, CloseLabels, CallbackLabels, ReturnLabels,
     ResumeLabels, object, events, queues, locals, control
<1>1. ASSUME NEW t \in Threads, NEW h \in HandleIds, NEW copy \in Handles, NEW u \in Threads, Copy(t, h, copy, u)
      PROVE  FreedIdle'
  BY <1>1 DEF Copy
<1>2. ASSUME NEW t \in Threads, NEW h \in Handles, NEW u \in Threads, Move(t, h, u) PROVE FreedIdle'
  BY <1>2 DEF Move
<1>3. ASSUME NEW t \in Threads, NEW h \in Handles, Release(t, h) PROVE FreedIdle'
  BY <1>3 DEF Release, Drop
<1>4. ASSUME NEW t \in Threads, CloseHandle(t) PROVE FreedIdle' BY <1>4 DEF CloseHandle
<1>5. ASSUME NEW t \in Threads, Write(t) PROVE FreedIdle' BY <1>5 DEF Write
<1>6. ASSUME NEW t \in Threads, LoadReferences(t) PROVE FreedIdle' BY <1>6 DEF LoadReferences
<1>7. ASSUME NEW t \in Threads, TestClose(t) PROVE FreedIdle' BY <1>7 DEF TestClose
<1>8. ASSUME NEW t \in Threads, Arm(t) PROVE FreedIdle' BY <1>8 DEF Arm
<1>9. ASSUME NEW t \in Threads, TestAndSetClose(t) PROVE FreedIdle' BY <1>9 DEF TestAndSetClose
<1>10. ASSUME NEW t \in Threads, DelRead(t) PROVE FreedIdle' BY <1>10 DEF DelRead
<1>11. ASSUME NEW t \in Threads, DelWrite(t) PROVE FreedIdle' BY <1>11 DEF DelWrite
<1>12. ASSUME NEW t \in Threads, CloseSocket(t) PROVE FreedIdle' BY <1>12 DEF CloseSocket
<1>13. ASSUME NEW t \in Threads, LastReference(t) PROVE FreedIdle' BY <1>13 DEF LastReference
<1>14. ASSUME NEW t \in Threads, AddWrite(t) PROVE FreedIdle' BY <1>14 DEF AddWrite
<1>15. ASSUME NEW t \in LoopThreads, EndCallback(t) PROVE FreedIdle' BY <1>15 DEF EndCallback
<1>16. ASSUME NEW t \in LoopThreads, RequestHandle(t) PROVE FreedIdle'
  BY <1>16 DEF RequestHandle
<1>17. ASSUME NEW t \in LoopThreads, AcquireHandle(t) PROVE FreedIdle'
  BY <1>17 DEF AcquireHandle
<1>18. ASSUME NEW t \in LoopThreads, Finish(t) PROVE FreedIdle'
  <2> DEFINE end == IF t = Worker THEN "loop" ELSE "done"
  <2>1. CASE Drop(t, t, end) BY <1>18, <2>1 DEF Finish, Drop
  <2>2. CASE owner[t] # t /\ EndAt(t, end) /\ UNCHANGED <<object, events, ret, resume>>
    BY <1>18, <2>2 DEF Finish
  <2> QED BY <1>18, <2>1, <2>2 DEF Finish
<1>19. CASE CheckOpen BY <1>19 DEF CheckOpen
<1>20. CASE ReadData BY <1>20 DEF ReadData
<1>21. CASE ReadAgain BY <1>21 DEF ReadAgain
<1>22. CASE ReadFails BY <1>22 DEF ReadFails
<1>23. CASE ReportHangup BY <1>23 DEF ReportHangup
<1>24. CASE Deliver BY <1>24 DEF Deliver
<1>25. CASE ReportErrors BY <1>25 DEF ReportErrors
<1>26. CASE Drain BY <1>26 DEF Drain
<1>27. CASE WriteDone BY <1>27 DEF WriteDone
<1>28. CASE WriteNothing BY <1>28 DEF WriteNothing
<1>29. CASE WriteFails BY <1>29 DEF WriteFails
<1>30. CASE ReportWriteFailure BY <1>30 DEF ReportWriteFailure
<1>31. CASE Destroy BY <1>31 DEF Destroy
<1>32. CASE Publish BY <1>32 DEF Publish
<1>33. CASE Announce BY <1>33 DEF Announce
<1>34. CASE DispatchRead BY <1>34 DEF DispatchRead, Dispatch, LoopIdle
<1>35. CASE DispatchWrite BY <1>35 DEF DispatchWrite, Dispatch, LoopIdle
<1>36. CASE DispatchDestroy BY <1>36 DEF DispatchDestroy, Dispatch, LoopIdle
<1>37. CASE DispatchOther BY <1>37 DEF DispatchOther, LoopIdle
<1>38. CASE UNCHANGED vars BY <1>38 DEF vars
<1>39. ASSUME NEW t \in Threads, NEW h \in Handles \cup {Control}, AssignToItself(t, h)
       PROVE  FreedIdle'
  BY <1>39 DEF AssignToItself
<1>40. ASSUME NEW t \in Threads, Recount(t) PROVE FreedIdle' BY <1>40 DEF Recount
<1> QED BY <1>1, <1>2, <1>3, <1>4, <1>5, <1>6, <1>7, <1>8, <1>9, <1>10, <1>11, <1>12, <1>13,
     <1>14, <1>15, <1>16, <1>17, <1>18, <1>19, <1>20, <1>21, <1>22, <1>23, <1>24, <1>25, <1>26,
     <1>27, <1>28, <1>29, <1>30, <1>31, <1>32, <1>33, <1>34, <1>35, <1>36, <1>37, <1>38, <1>39, <1>40 DEF
     Next, Application, Member, WorkerCallback, ControlCallback, Common, Dispatches

\* The invariant of the single loop.
THEOREM LifetimeInvariant ==
  ASSUME OneLoop
  PROVE  Spec => []Lifetime
<1>1. Init => Lifetime
  BY ConnectionAssumption
     DEF Init, Lifetime, ControlFirst, UsersNeverDrop, UserLabels, MembersOwn, GoodOwns,
         AcquireLive, ArmedDoomed, FreedIdle, ConnectionAssumption, Threads, LoopThreads,
         HandleIds, CloseLabels
<1>2. Basic /\ HandlesCounted /\ Lifetime /\ [Next]_vars => Lifetime'
  BY ControlFirstStep, UsersStep, MembersStep, AcquireStep, ArmedStep, FreedStep
     DEF Basic, Lifetime, OneLoop
<1>3. Spec => []HandlesCounted
  BY CountExact DEF OneLoop
<1> QED BY <1>1, <1>2, <1>3, BasicInvariant, PTL DEF Spec

\* With one event loop that alone destroys Handles and dials connections, and
\* no Handle assigned to itself, connection data is not deallocated before all
\* the Handles have been destroyed.
THEOREM HandlesOutliveNothing ==
  ASSUME OneLoop
  PROVE  Spec => []NoDanglingHandle
<1>1. Lifetime => NoDanglingHandle
  BY DEF Lifetime, FreedIdle, Doomed, NoDanglingHandle, Live
<1> QED BY <1>1, LifetimeInvariant, PTL

\* Nor while any thread is inside a member function or a callback.
THEOREM NothingFreedInUse ==
  ASSUME OneLoop
  PROVE  Spec => []NoUseAfterFree
<1>1. Lifetime => NoUseAfterFree
  BY DEF Lifetime, FreedIdle, NoUseAfterFree, Threads, LoopThreads, IdleLabels
<1> QED BY <1>1, LifetimeInvariant, PTL

-----------------------------------------------------------------------------
(* Attended                                                                *)

\* Until Control asks for its Handle nobody else has one, and nobody closes.
Unshared ==
  pc[Control] \in {"publish", "request", "acquire"}
    => /\ ~closed
       /\ \A h \in HandleIds : owner[h] = NoOne
       /\ \A t \in Threads : pc[t] # "close"

\* While a callback may still call the application back its thread has the
\* Handle requestHandle gave it: the Worker lets go of its own in Finish, when
\* good is FALSE, nothing is left to deliver and nothing is to be resumed.
Attended ==
  /\ \A t \in LoopThreads : resume[t] \notin {"loop", "user"} => owner[t] = t
  /\ \/ pc[Worker] \in {"readSocket", "hangup", "writeSocket", "writeFailed"}
     \/ ret[Worker] \in {"hangup", "writeFailed"}
     \/ good
     \/ items > 0
     => owner[Worker] = Worker
  /\ items > 0 => \/ pc[Worker] \in {"readSocket", "deliver", "hangup"}
                  \/ resume[Worker] = "deliver"
                  \/ ret[Worker] = "hangup"
  /\ pc[Control] = "announce" => owner[Control] = Control

\* Before the Connect event only Control knows the connection.
LEMMA UnsharedStep ==
  ASSUME TypeOK, ControlOnLoop, ControlFirst, WorkerLoop, Unshared, [Next]_vars
  PROVE  Unshared'
<1> USE ConnectionAssumption DEF ConnectionAssumption, LoopThreads, Threads, HandleIds, TypeOK,
     ControlFirst, WorkerLoop, Unshared, Goto, Call, Callback, EndAt, Return, Resume, At,
       IdleLabels, MemberLabels,
     DecrementLabels, CloseLabels, CallbackLabels, ReturnLabels, ResumeLabels, object, events,
     queues, locals, control
<1>1. ASSUME NEW t \in Threads, Application(t) PROVE Unshared'
  BY <1>1 DEF Application, Copy, Move, Release, AssignToItself, CloseHandle, Write, Owns, Drop
<1>2. ASSUME NEW t \in Threads, Member(t) PROVE Unshared'
  BY <1>2 DEF Member, LoadReferences, TestClose, Arm, TestAndSetClose, DelRead, DelWrite,
       CloseSocket, LastReference, AddWrite, Recount
<1>3. ASSUME NEW t \in LoopThreads, EndCallback(t) PROVE Unshared'
  BY <1>3 DEF EndCallback
<1>4. ASSUME NEW t \in LoopThreads, Common(t) PROVE Unshared'
  <2>1. CASE Finish(t)
    <3> DEFINE end == IF t = Worker THEN "loop" ELSE "done"
    <3>1. CASE Drop(t, t, end) BY <2>1, <3>1 DEF Finish, Drop
    <3>2. CASE owner[t] # t /\ EndAt(t, end) /\ UNCHANGED <<object, events, ret, resume>>
      BY <2>1, <3>2 DEF Finish
    <3> QED BY <2>1, <3>1, <3>2 DEF Finish
  <2>2. CASE RequestHandle(t) \/ AcquireHandle(t)
    BY <2>2 DEF RequestHandle, AcquireHandle
  <2> QED BY <1>4, <2>1, <2>2 DEF Common
<1>5. CASE WorkerCallback
  <2>1. CASE CheckOpen \/ ReadData \/ ReadAgain \/ ReadFails \/ ReportHangup \/ Deliver \/
       ReportErrors \/ Drain \/ WriteDone \/ WriteNothing \/ WriteFails \/ ReportWriteFailure \/
       Destroy
    BY <2>1 DEF CheckOpen, ReadData, ReadAgain, ReadFails, ReportHangup, Deliver, ReportErrors,
         Drain, WriteDone, WriteNothing, WriteFails, ReportWriteFailure, Destroy
  <2> QED BY <1>5, <2>1, <1>4 DEF WorkerCallback
<1>6. CASE ControlCallback
  <2>1. CASE Publish \/ Announce
    BY <2>1 DEF Publish, Announce
  <2> QED BY <1>6, <2>1, <1>4 DEF ControlCallback
<1>7. CASE Dispatches
  BY <1>7 DEF Dispatches, DispatchRead, DispatchWrite, DispatchDestroy, DispatchOther, Dispatch,
       LoopIdle
<1>8. CASE UNCHANGED vars BY <1>8 DEF vars
<1> QED BY <1>1, <1>2, <1>3, <1>4, <1>5, <1>6, <1>7, <1>8 DEF Next

\* What is yet to be told is told by a callback that has its Handle.
LEMMA AttendedStep ==
  ASSUME TypeOK, ControlOnLoop, Frames, OwnScoped, NoErrors, ControlFirst, WorkerLoop,
         InCallback, Unshared, Attended, [Next]_vars
  PROVE  Attended'
<1> USE ConnectionAssumption DEF ConnectionAssumption, LoopThreads, Threads, HandleIds, TypeOK,
     Frames, OwnScoped, NoErrors, ControlFirst, WorkerLoop, InCallback, Unshared, Attended,
       Goto, Call, Callback, EndAt, Return, Resume, At, IdleLabels, MemberLabels,
     DecrementLabels, CloseLabels, CallbackLabels, ReturnLabels, ResumeLabels, object, events,
     queues, locals, control
<1>1. ASSUME NEW t \in Threads, Application(t) PROVE Attended'
  BY <1>1 DEF Application, Copy, Move, Release, AssignToItself, CloseHandle, Write, Drop
<1>2. ASSUME NEW t \in Threads, Member(t) PROVE Attended'
  BY <1>2 DEF Member, LoadReferences, TestClose, Arm, TestAndSetClose, DelRead, DelWrite,
       CloseSocket, LastReference, AddWrite, Recount
<1>3. ASSUME NEW t \in LoopThreads, EndCallback(t) PROVE Attended'
  BY <1>3 DEF EndCallback
<1>4. ASSUME NEW t \in LoopThreads, Common(t) PROVE Attended'
  <2>1. CASE Finish(t)
    <3> DEFINE end == IF t = Worker THEN "loop" ELSE "done"
    <3>1. CASE Drop(t, t, end) BY <2>1, <3>1 DEF Finish, Drop
    <3>2. CASE owner[t] # t /\ EndAt(t, end) /\ UNCHANGED <<object, events, ret, resume>>
      BY <2>1, <3>2 DEF Finish
    <3> QED BY <2>1, <3>1, <3>2 DEF Finish
  <2>2. CASE RequestHandle(t) \/ AcquireHandle(t)
    BY <2>2 DEF RequestHandle, AcquireHandle
  <2> QED BY <1>4, <2>1, <2>2 DEF Common
<1>5. CASE WorkerCallback
  <2>1. CASE CheckOpen \/ ReadData \/ ReadAgain \/ ReadFails \/ ReportHangup \/ Deliver \/
       ReportErrors \/ Drain \/ WriteDone \/ WriteNothing \/ WriteFails \/ ReportWriteFailure \/
       Destroy
    BY <2>1 DEF CheckOpen, ReadData, ReadAgain, ReadFails, ReportHangup, Deliver, ReportErrors,
         Drain, WriteDone, WriteNothing, WriteFails, ReportWriteFailure, Destroy
  <2> QED BY <1>5, <2>1, <1>4 DEF WorkerCallback
<1>6. CASE ControlCallback
  <2>1. CASE Publish \/ Announce
    BY <2>1 DEF Publish, Announce
  <2> QED BY <1>6, <2>1, <1>4 DEF ControlCallback
<1>7. CASE Dispatches
  BY <1>7 DEF Dispatches, DispatchRead, DispatchWrite, DispatchDestroy, DispatchOther, Dispatch,
       LoopIdle
<1>8. CASE UNCHANGED vars BY <1>8 DEF vars
<1> QED BY <1>1, <1>2, <1>3, <1>4, <1>5, <1>6, <1>7, <1>8 DEF Next

\* With one event loop, and a serializer whose serialize() reports no errors,
\* every callback the connection's events make gets a Handle that refers to the
\* connection.  With worker threads Control may be told of a connection that
\* the Worker has closed, and a read or write event of a closed connection
\* reports what serialize() left without one.
THEOREM CallbacksAttended ==
  ASSUME ControlOnLoop, ~SerializeErrors
  PROVE  Spec => []CallbackHasHandle
<1>1. Init => NoErrors /\ WorkerLoop /\ ControlFirst /\ InCallback /\ Unshared /\ Attended
  BY ConnectionAssumption
     DEF Init, NoErrors, WorkerLoop, ControlFirst, InCallback, Unshared, Attended,
         ConnectionAssumption, Threads, LoopThreads, HandleIds
<1>2. /\ Basic /\ [Next]_vars
      /\ NoErrors /\ WorkerLoop /\ ControlFirst /\ InCallback /\ Unshared /\ Attended
      => (NoErrors /\ WorkerLoop /\ ControlFirst /\ InCallback /\ Unshared /\ Attended)'
  BY NoErrorsStep, WorkerLoopStep, ControlFirstStep, InCallbackStep, UnsharedStep, AttendedStep
     DEF Basic
<1>3. Attended => CallbackHasHandle
  BY DEF Attended, CallbackHasHandle
<1> QED BY <1>1, <1>2, <1>3, BasicInvariant, PTL DEF Spec

-----------------------------------------------------------------------------
(* Refinement                                                              *)

\* Steps that leave the Handles, the flag and the allocation alone stutter.
LEMMA QuietStep ==
  ASSUME owner' = owner, closed' = closed, freed' = freed
  PROVE  [Contract!Next]_(Contract!vars)
BY DEF Contract!vars, Live

\* Every step of the code is a step of the contract, or a stutter.
LEMMA StepHonours ==
  ASSUME Basic, Lifetime, [Next]_vars
  PROVE  [Contract!Next]_(Contract!vars)
<1> USE ConnectionAssumption DEF ConnectionAssumption, LoopThreads, Threads, HandleIds
<1> DEFINE Goal == [Contract!Next]_(Contract!vars)
<1>1. ASSUME NEW t \in Threads, NEW h \in HandleIds, NEW copy \in Handles, NEW u \in Threads,
             Copy(t, h, copy, u)
      PROVE  Contract!Obtain(copy)
  <2>1. Live' = Live \cup {copy} /\ copy \notin Live
    BY <1>1 DEF Copy, Live, Basic, TypeOK
  <2>2. Live # {} /\ ~freed
    BY <1>1 DEF Copy, At, Live
  <2> QED BY <1>1, <2>1, <2>2 DEF Copy, Contract!Obtain
<1>2. ASSUME NEW t \in Threads, NEW h \in Handles, NEW u \in Threads, Move(t, h, u)
      PROVE  Goal
  <2>1. Live' = Live
    BY <1>2 DEF Move, Live, Basic, TypeOK
  <2> QED BY <1>2, <2>1 DEF Move, Contract!vars
<1>3. ASSUME NEW t \in Threads, NEW h \in HandleIds, ~freed, owner[h] # NoOne,
             owner' = [owner EXCEPT ![h] = NoOne], closed' = closed, freed' = freed
      PROVE  Contract!GiveUp(h)
  <2>1. Live' = Live \ {h} /\ h \in Live
    BY <1>3 DEF Live, Basic, TypeOK
  <2> QED BY <1>3, <2>1 DEF Contract!GiveUp
<1>4. ASSUME NEW t \in Threads, NEW h \in Handles, Release(t, h) PROVE Contract!GiveUp(h)
  BY <1>3, <1>4 DEF Release, Drop, At
<1>5. ASSUME NEW t \in LoopThreads, Finish(t) PROVE Goal
  <2>1. CASE owner[t] = t /\ owner' = [owner EXCEPT ![t] = NoOne] /\ closed' = closed
             /\ freed' = freed /\ ~freed
    <3>1. Contract!GiveUp(t)
      BY <1>3, <2>1
    <3> QED BY <3>1 DEF Contract!Next
  <2>2. CASE owner' = owner /\ closed' = closed /\ freed' = freed
    BY <2>2, QuietStep
  <2> QED BY <1>5, <2>1, <2>2 DEF Finish, Drop, At, object
<1>6. ASSUME NEW t \in LoopThreads, AcquireHandle(t) PROVE Contract!Obtain(t)
  <2>1. owner[t] = NoOne
    BY <1>6 DEF AcquireHandle, At, Basic, OwnScoped
  <2>2. Live' = Live \cup {t} /\ t \notin Live
    BY <1>6, <2>1 DEF AcquireHandle, Live, Basic, TypeOK
  <2>3. ~closed \/ Live # {}
    BY <1>6 DEF AcquireHandle, At, Lifetime, AcquireLive, Live
  <2> QED BY <1>6, <2>2, <2>3 DEF AcquireHandle, At, Contract!Obtain
<1>7. ASSUME NEW t \in Threads, TestAndSetClose(t) PROVE Contract!Close
  BY <1>7 DEF TestAndSetClose, At, Live, Contract!Close
<1>8. ASSUME Destroy PROVE Contract!Free
  <2>1. closed /\ Live = {} /\ ~freed
    BY <1>8 DEF Destroy, At, Lifetime, ArmedDoomed, Doomed, Live
  <2> QED BY <1>8, <2>1 DEF Destroy, Live, Contract!Free
<1>9. ASSUME NEW t \in Threads, CloseHandle(t) PROVE Goal
  BY <1>9, QuietStep DEF CloseHandle, object
<1>10. ASSUME NEW t \in Threads, Write(t) PROVE Goal BY <1>10, QuietStep DEF Write, object
<1>11. ASSUME NEW t \in Threads, LoadReferences(t) PROVE Goal
  BY <1>11, QuietStep DEF LoadReferences, object
<1>12. ASSUME NEW t \in Threads, TestClose(t) PROVE Goal
  BY <1>12, QuietStep DEF TestClose, object
<1>13. ASSUME NEW t \in Threads, Arm(t) PROVE Goal BY <1>13, QuietStep DEF Arm, object
<1>14. ASSUME NEW t \in Threads, DelRead(t) PROVE Goal BY <1>14, QuietStep DEF DelRead, object
<1>15. ASSUME NEW t \in Threads, DelWrite(t) PROVE Goal
  BY <1>15, QuietStep DEF DelWrite, object
<1>16. ASSUME NEW t \in Threads, CloseSocket(t) PROVE Goal
  BY <1>16, QuietStep DEF CloseSocket, object
<1>17. ASSUME NEW t \in Threads, LastReference(t) PROVE Goal
  BY <1>17, QuietStep DEF LastReference, object
<1>18. ASSUME NEW t \in Threads, AddWrite(t) PROVE Goal
  BY <1>18, QuietStep DEF AddWrite, object
<1>19. ASSUME NEW t \in LoopThreads, EndCallback(t) PROVE Goal
  BY <1>19, QuietStep DEF EndCallback, object
<1>20. ASSUME NEW t \in LoopThreads, RequestHandle(t) PROVE Goal
  BY <1>20, QuietStep DEF RequestHandle, object
<1>21. CASE CheckOpen BY <1>21, QuietStep DEF CheckOpen, object
<1>22. CASE ReadData BY <1>22, QuietStep DEF ReadData, object
<1>23. CASE ReadAgain BY <1>23, QuietStep DEF ReadAgain, object
<1>24. CASE ReadFails BY <1>24, QuietStep DEF ReadFails, object
<1>25. CASE ReportHangup BY <1>25, QuietStep DEF ReportHangup, object
<1>26. CASE Deliver BY <1>26, QuietStep DEF Deliver, object
<1>27. CASE ReportErrors BY <1>27, QuietStep DEF ReportErrors, object
<1>28. CASE Drain BY <1>28, QuietStep DEF Drain, object
<1>29. CASE WriteDone BY <1>29, QuietStep DEF WriteDone, object
<1>30. CASE WriteNothing BY <1>30, QuietStep DEF WriteNothing, object
<1>31. CASE WriteFails BY <1>31, QuietStep DEF WriteFails, object
<1>32. CASE ReportWriteFailure BY <1>32, QuietStep DEF ReportWriteFailure, object
<1>33. CASE Publish BY <1>33, QuietStep DEF Publish, object
<1>34. CASE Announce BY <1>34, QuietStep DEF Announce, object
<1>35. CASE DispatchRead BY <1>35, QuietStep DEF DispatchRead, object
<1>36. CASE DispatchWrite BY <1>36, QuietStep DEF DispatchWrite, object
<1>37. CASE DispatchDestroy BY <1>37, QuietStep DEF DispatchDestroy, object
<1>38. CASE DispatchOther BY <1>38, QuietStep DEF DispatchOther, object
<1>39. CASE UNCHANGED vars BY <1>39, QuietStep DEF vars, object
<1>40. ASSUME NEW t \in Threads, NEW h \in Handles \cup {Control}, AssignToItself(t, h) PROVE Goal
  BY <1>40, QuietStep DEF AssignToItself
<1>41. ASSUME NEW t \in Threads, Recount(t) PROVE Goal BY <1>41, QuietStep DEF Recount
<1>50. \A h \in HandleIds : Contract!Obtain(h) \/ Contract!GiveUp(h) => Goal
  BY DEF Contract!Next
<1>51. Contract!Close \/ Contract!Free => Goal
  BY DEF Contract!Next
<1> QED BY <1>1, <1>2, <1>3, <1>4, <1>5, <1>6, <1>7, <1>8, <1>9, <1>10, <1>11, <1>12, <1>13,
     <1>14, <1>15, <1>16, <1>17, <1>18, <1>19, <1>20, <1>21, <1>22, <1>23, <1>24, <1>25, <1>26,
     <1>27, <1>28, <1>29, <1>30, <1>31, <1>32, <1>33, <1>34, <1>35, <1>36, <1>37, <1>38, <1>39, <1>40, <1>41,
     <1>50, <1>51 DEF Next, Application, Member, WorkerCallback, ControlCallback, Common,
     Dispatches

\* With one event loop that alone destroys Handles and dials connections, and
\* no Handle assigned to itself, the code implements the
\* safety of HandleContract: the data is freed only when the connection is
\* closed and has no Handles, and no Handle is obtained after that.
THEOREM OneLoopHonoursContract ==
  ASSUME OneLoop
  PROVE  Spec => ContractSafety
<1>1. Init => Contract!Init
  BY DEF Init, Contract!Init, Live
<1>2. Basic /\ Lifetime /\ [Next]_vars => [Contract!Next]_(Contract!vars)
  BY StepHonours
<1> QED BY <1>1, <1>2, BasicInvariant, LifetimeInvariant, PTL DEF Spec, ContractSafety

=============================================================================
