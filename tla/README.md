# Stewardess in TLA+

Stewardess is a C++ library for servers and clients of message protocols over
TCP, on top of libevent. An application implements `CallbackInterface` and a
`Serializer`; a `Manager` runs the event loops. This directory holds
specifications of the library's concurrent core and of the data structures under
it, model-checked with TLC and in part proved with TLAPS. Paths below are
relative to the repository; most code is in `src/*.cpp` and `inc/*.h` there.

`PROJECT.json` is the index: components, runs, the source lines behind each
definition (`map`), hazards, findings, theorems, and for each checked property a
mutation of the code that breaks it.

## The system

**Threads.** The thread in `ManagerImpl::run` runs the *control loop*: listener,
signal, tick, death timer, user timers and the connector event. With
`numThreads = n` there are n *workers*, each a thread that does nothing but run
its own event loop; with `numThreads = 0` the control loop also runs the
connections. Other application threads may hold Handles.

| Component | State it keeps | Operations | Talks to | Must be correct about |
|---|---|---|---|---|
| Connection, Handle | reference count, close flag, descriptor, three libevent events, mutex | copy, move, destroy a Handle; `requestHandle`, `close`, `write` | manager (`closeConnection`), serializer, libevent | deleted once, after the last Handle; closed once; no I/O on a closed descriptor; queued buffers are sent |
| Event callbacks (`EventCallbacks.cpp`) | local `good`, own Handle | `readCB`, `writeCB`, `destroyCB` | application callbacks | callbacks get a Handle; checks are not stale |
| Connecting | request queue and its mutex, connector event, `_nextThread`, connection map | `requestConnectTo`, `connectCB`, `connectTo`, `listenerAcceptCB`, `getNextThread`, `addConnection` | resolver, sockets, workers | every request answered, truthfully; no descriptor lost; even load |
| Manager lifecycle | `_abort`, `_threads`, break flags of the bases, control events, connection map and mutex | `run`, `shutdown`, `abort`, `_cleanup`, `closeConnection`, control callbacks | workers, application | it stops when told to; everything is freed once, and nothing in use |
| Buffer | linked chunks | push, pop, clear, copy, move, iterate | sockets, serializers | one owner for each chunk; text kept |
| Serializer | queues of payloads, buffers, errors | push and get | callbacks, `Connection::write` | nothing lost; locking |
| Timers | `_userTimers` and mutex | `createTimer`, `startTimer...`, `userTimerCB` | control loop | they fire, repeat, and are not freed in use |
| TestSerializer | message being assembled | `serialize`, `deserialize` | Buffer iterator | framing across reads; no loss in silence |
| ReferenceCounter | shared count, a mutex per counter | copy, move, assign, destroy | nothing in the library | last owner frees; no deadlock |
| Manager, Configuration, InetAddress, Exception, test programs | values | forwarding, conversion | | |

**What is hard.** Handles are counted with atomics and no lock, so decrement,
test and arming the destroy event interleave. `event_del` and `event_free` wait
for a callback that runs in another thread, which gives safety and also gives
deadlocks. `event_base_loopbreak` before a loop is entered is forgotten. A timer
added twice fires once. TCP cuts messages anywhere, and the framing sees the cuts.
Application code runs in every callback and may call
anything. The full list, with lines, is under `hazards` in `PROJECT.json`; each
names the properties that would catch it going wrong, or says why none does yet.

## Modules

| Module | About |
|---|---|
| `Connection` | one connection, its Handles, its three events, the worker, the control thread that publishes it, application threads |
| `HandleContract` | what Handles promise: four operations, no threads or events |
| `Connecting` | from a request, a call or an accepted socket to an entry in the map and an answer |
| `Lifecycle` | `run` from start to end: workers, loops, user timers, stopping, cleanup |
| `Buffer` | the chunk lists |
| `Messages` | payloads from `write` to `onRead`: the serializer's queues, partial writes, the sockets, split reads, `TestSerializer` |
| `MessageChannel` | what two applications may expect of that: payloads in order, none twice |
| `ConnectionProofs`, `ConnectingProofs`, `LifecycleProofs`, `BufferProofs`, `MessagesProofs` | the TLAPS proofs about those modules |
| `SequenceLemmas` | facts about `FlattenSeq`, prefixes and pieces of sequences, and the induction they are proved by |
| `CrossClose` | workers whose callbacks close the connections of other workers |
| `MCConnection`, `MCLifecycle`, `MCBuffer`, `MCMessages` | symmetry sets and the set of payloads for TLC; the `.cfg` files give the instances (of `Connecting` and `CrossClose` directly, whose runs check liveness and use no symmetry) |

Each component module has a section of *faults*: copies of an action with one
plausible mistake. No specification uses them; they show that a property can
fail.

### Connection

State: the members of `Connection` (`references`, `closed`, `socketOpen`, the
pending flags of the events, `theMutex`), the lengths of the serializer's queues,
who owns each Handle object (`owner`), the locals of the running callback, and
for each thread a program counter with one return address for member functions
(`ret`) and one for application callbacks (`resume`).

The grain is one access of an atomic, one critical section or one libevent call.
So `decrementReferences` is `Drop` (the decrement), `LoadReferences`, `TestClose`
and `Arm`; `Connection::close` is `TestAndSetClose`, `DelRead`, `DelWrite`,
`CloseSocket`, `LastReference` and maybe `Arm`; `readCB` is `RequestHandle`,
`AcquireHandle`, `CheckOpen`, `ReadData`..., `Deliver`, `Finish`. Application code
is the label `user`: there a thread may do anything with the Handles it owns.

- `event_del` in another thread than the loop's waits for the event's callback
  (`InBase(t) \/ current # ...`): the library turns on libevent's locking with
  `evthread_use_pthreads` (`Manager.cpp:33`). On the loop's own thread it does not.
- A thread that would touch the object after it was deleted stops. What follows a
  use of freed memory is undefined; the properties are about getting there.
- A Handle may be assigned to itself (`AssignToItself`): `operator=` gives up the
  reference before it looks at the other side, so a copy is counted again only after
  `decrementReferences` has returned (`Recount`), and a move never is.
- `ControlOnLoop` says that the thread that makes the connection is the loop that runs
  its events: `numThreads = 0`, and a connection that is accepted, requested, or dialled by a
  callback. With workers, or for `connectTo` in another thread even with
  `numThreads = 0`, it is `FALSE`.
- By-value Handle arguments of callbacks are the callback's own Handle. All data
  of one `readCB` arrives in one step. The unlocked accesses to the serializer's
  `std::queue`s are steps, not data races.
- `HandleContract` is refined by mapping `live` to the Handle objects with an
  owner, `open` to the close flag and `exists` to the allocation.

### Connecting

State: `_connectionRequests` and its mutex, whether `_connectorEvent` is pending,
`_nextThread`, the map, which descriptors are open, which connections have their
identifier, which have been closed, the worker chosen, and what the application was
told. `connectCB` is
`DispatchConnector`, `Pop`, then the dialling actions, which `connectTo` shares
because the two functions are the same line by line; `listenerAcceptCB` joins
them at `ChooseThread`. `requestConnectTo` is two steps because libevent's
`event_add` comes after the push, inside the lock. From `AddConnection` on the
connection's worker may close and delete it (`CloseConnection`, `DeleteConnection`, one
step each), before the application hears of it too: `TellConnected` answers with a
Handle or, for a connection that is closed by then, a null one. The caller of
`connectTo` cannot tell that from a failure. `OneAtATime` says of a state
that at most one request waits for its answer: `AnsweredInTurn` promises answers
to an application that keeps to it, `RequestsAnswered` to every application.

### Lifecycle

State: `_abort`, `event_break` of each base, the pending control events,
`_threads`, the map with its mutex, the loop each connection belongs to, which
are about to be destroyed (`doomed`), which one `_cleanup` is deleting (`freeing`),
which have been deleted, which each thread's application code has Handles of
(`held`), and where each thread is, with the connection and the event of the callback it
runs. A loop is *entered*
(`EnterLoop` clears `event_break`, as `event_base_loop` does), dispatches
callbacks while the flag is down, and is left. `abort` breaks one base at a time.

A new connection is put into the map (`AddConnection`), and only then is it asked for
the Handle that the Connect event or the caller of `connectTo` gets (`RequestHandle`),
which is a null one if it has been closed. The Handles a thread got in a callback
end with it, except those it stores (`KeepHandles`). A connection becomes `doomed` when
it is closed and its last Handle ends (`Close`).

`_cleanup` locks the map and deletes each connection: `~Connection` frees the
read, the write and the destroy event one after the other (`FreeRead`, `FreeWrite`,
`FreeDestroy`), and each `event_free` waits for the callback of that event and no other.
Then it clears the map, joins the workers and frees the rest.

The run ends in one of four ways. It returns. A throw that `run` catches, its own
or that of `createTimer` in `onStart` or `onStop` (`CreateTimerThrows`), goes
through `abort` and `_cleanup`, without `onStop`, and is thrown on (`failed`). What
`std::thread` throws is not caught (`SpawnThrows`): run is left as it stands (`escaped`).
An exception that leaves a worker ends the process (`Terminate`). One that leaves a callback of
the control loop passes through libevent, which is C: both outcomes are allowed there.

User timers live in the same module because their end does: `_cleanup` frees them
without their mutex, and what keeps a worker from starting one meanwhile is that its
callbacks have been waited for and its thread joined. `FindTimer` and `AddTimer` are
the two halves of `startTimerClock` and `startTimerCountdown`, the lookup under the
lock and the `event_add`; `DispatchTimer` and `RepeatTimer` those of `userTimerCB`,
with application code in between. The time of a timer is left open. `started`
remembers which timers have been started.

Constants say which threads' application code stops, dials or counts, closes, stores
Handles, and makes and starts timers; that is how a run isolates one cause. `PromptWorkers` lets a
started worker reach its loop before the main thread goes on.

Left out: calls before `run` has made its events or from threads that run no
loop (a timer made before `run` has no base, and never fires), and the reallocation of
the `_threads` vector.

### Buffer

State: a heap from addresses to chunks (`capacity`, `size`, `next`, `data`),
`_start`, `_finish` and `_maxChunkSize` of each buffer, and `text`, what the buffer
should hold. Freed chunks leave the heap, so a dangling pointer shows. The loops
of `push` and of the copies take one turn at a time, and `allocate` is a step that
may throw. Writing into a chunk puts the characters behind the first `size`
ones, as the code does. `Iterated` runs the iterator to its end.

A copy loses its text (see the preconditions below). So that this known defect does not hide
what else could go wrong, `copies` remembers which buffers have got text by a copy;
`HoldsText` is about the others, `CopiesHoldText` about all. `Moving` says whether
the program moves a buffer that has text to a new one, which leaves the chunks with
two owners; with `Moving = FALSE` the moved-from buffer is empty.

`Chunk::reallocate`, which nothing calls, is left out, as are a move assignment
of a buffer to itself and a `new` that throws in the middle of a copy.

### Messages

One direction of a connection: an end that writes and an end that reads, each in its
loop, and `wire`, the characters that have been written and not yet read. A payload
is a sequence of characters; only the braces matter.

| Code | Here |
|---|---|
| `Connection::write`, `serialize`, `pushBuffer` | `Write` |
| `writeCB` | `StartWrite`; for each buffer `NextBuffer` and `Send(n)`, which takes all or a part of what is left; `FinishWrite` |
| EAGAIN or an error in `writeCB` | `SendFails` closes the connection and gives up the rest of the buffer |
| `readCB` | `StartRead`, `Read(n)` as often as it gives something, then `NothingToRead`, `EndOfFile` or `ReadFails` |
| `deserialize` | `Parse` for each character, `Parsed` |
| `onRead`, `onConnectionEvent` | `Deliver`, `Report` |

The queues of the Serializer are the operators `pushBuffer` ... `getError`, with the
names of the code. `NothingToRead` may come while characters are on their way: that
is where a read cuts a message. A close is one step here; `Connection` has its inside.
`sent`, `arrived`, `received` and `reported` are histories. Two ends that both use
`TestSerializer` never reach one branch of `Parse`, the one for a second opening brace
in a message: the branch is there for other peers.

`MessageChannel` keeps of this only what was sent and what was received.

### CrossClose

Each worker has one connection and is in its loop, in a callback, or in a close, which
is `TestAndSetClose`, `DelRead` (both events; it waits for a callback that runs in
another thread) and `CloseSocket`. `Connection` has one connection and cannot show
what two do to each other.

## Runs

### Passing

| Run | Instance | Shows |
|---|---|---|
| `threads` | 2 users, worker, control, 2 Handles and the 2 callback Handles | `NoLostDestroy`, `OneCloser`, `ClosedNotReading`, `NoIOOnClosedSocket`, `NoLostWrite`, types |
| `one_loop` | the same with `numThreads = 0`, connections made and Handles destroyed on the loop only, and no self-assignment | `NoDanglingHandle`, `NoUseAfterFree`, `CallbackHasHandle`, and the refinement of `HandleContract` with its liveness (`HonoursContract`) |
| `liveness` | 1 user, worker, control; Handles may be copied to themselves | a closed connection is deleted; buffers leave |
| `connecting` | 2 users, control, 2 workers, 3 requests, connections closed and deleted at any time | descriptors, answers, identifiers, balance, `FireHasRequest`, and `AnsweredInTurn` |
| `cleanup` | 2 workers, 2 connections, everybody stops, dials and closes, nobody stores a Handle, and `createTimer` may throw on the main thread | no callback loses its object, `destroyCB` finds its entry; nothing is deleted twice, left behind (when `run` returns or throws on what it caught), or reached after its join |
| `stop_workers` | 2 workers already in their loops, a timer that the main thread and one worker make and start, callbacks that keep Handles and neither close nor lock the map | a started timer that is not put off for ever fires, and a repeating one goes on (`TimerFires`, `RepeatsOn`), for all that `createTimer` may throw, none is freed in use (`TimerAlive`); `abort` and `shutdown` make `run` return |
| `buffer` | 2 buffers, 3 chunks, texts up to 2 characters of 2, chunk sizes 1 and 2, copies and moves | ownership, the end of the list, text, iterator |
| `messages` | 3 payloads of 1 or 2 characters, sockets that hold 3, reads of up to 2 | the stream is kept (`StreamKept`), a message that is cut is reported (`LossReported`), `MessageChannel` is implemented (`InOrder`), and no payload is lost without a report or a close (`NoSilentLoss`) |

### Violations: where the code parts from its documentation and its users

| Run | What happens | Against |
|---|---|---|
| `dangling` | a Handle is made between the two tests of `decrementReferences`; the object goes under it | `README.md:17` |
| `stranded` | two requests, one timer expiry, one `pop`: the second waits for ever | `ManagerImpl.cpp:399` |
| `cleanup_deadlock` | `_cleanup` and `destroyCB` wait for each other | `inc/ManagerImpl.h:184` |
| `cross_close` | two callbacks close each other's connection, and each `event_del` waits for the other callback | `README.md:10` |

### Preconditions of the passing runs

Some instances exclude what the code does not survive. Each exclusion is a constant;
changing it in the `.cfg` named, or adding the property where it is another one, makes
the property fail:

| Change | Property | What happens | Against |
|---|---|---|---|
| `threads.cfg`, `SerializeErrors = TRUE` | `NoIOOnClosedSocket` | `writeCB` tests `good`, computed before the error callbacks (`EventCallbacks.cpp:315`), and writes to a descriptor one of them closed | `README.md:10` |
| `dangling.cfg` with the property | `NoLateDecrement` | a decrement reads an object that another thread's decrement got deleted (`Connection.cpp:58`) | `README.md:10` |
| `one_loop.cfg`, `SelfAssigns = {"copy"}` or `{"move"}` | `NoDanglingHandle` | a closed connection's last Handle is assigned to itself: `decrementReferences` (`Handle.cpp:54`, `Handle.cpp:72`) arms the destruction, and the Handle lives on | `README.md:17` |
| `one_loop.cfg`, `ControlOnLoop = FALSE` | `NoDanglingHandle`, `NoUseAfterFree`, `CallbackHasHandle` | `connectTo` in another thread asks for its Handle (`ManagerImpl.cpp:385`) after the loop's `destroyCB`, or as it comes | `README.md:10` |
| `threads.cfg` and `liveness.cfg`, `EmptyChunks = TRUE`, `MaxBuffers = 2` | `NoLostWrite`, `WritesLeave` | `write` of an empty chunk returns 0, which ends `writeCB` (`EventCallbacks.cpp:326`) with buffers left | |
| `liveness.cfg` with the property | `CallbackHasHandle` | the Connect event comes with a null Handle (`EventCallbacks.cpp:50`): the worker saw the hang-up first | use in `TestServer.cpp:26` |
| `liveness.cfg` with the property | `WriteFailsWhenClosed` | `write` on a closed connection queues a buffer (`Connection.cpp:105`) | `inc/Handle.h:67` |
| `stop_workers.cfg`, `PromptWorkers = FALSE` | `AbortReturns` | `abort` before a worker enters its loop is forgotten (`ManagerImpl.cpp:291`), `join` hangs | `inc/ManagerImpl.h:184` |
| `stop_workers.cfg`, a worker in `Stoppers` | `AbortReturns` | `abort` between the test of `_abort` (`ManagerImpl.cpp:224`) and the control loop is forgotten | `inc/ManagerImpl.h:47` |
| `cleanup.cfg` with the property | `HandlesOutlived` | `_cleanup` (`ManagerImpl.cpp:56`) deletes under a Handle that a callback has (or, with `Keepers`, one that is stored) | `README.md:17` |
| `cleanup.cfg` with the property | `RequestFindsConnection` | the worker, or `_cleanup`, deletes a connection between `addConnection` and `requestHandle` (`ManagerImpl.cpp:385`, `EventCallbacks.cpp:50`) | `README.md:10` |
| `cleanup.cfg` with the property | `CloseFindsEvents` | `writeCB` calls `close`, which deletes `_readEvent` (`Connection.cpp:86`) after `~Connection` has freed it (`Connection.cpp:37`) and waits for `writeCB` in the next `event_free` | `README.md:10` |
| `cleanup.cfg` with the property | `EscapeLeavesNothing` | `std::system_error` of `std::thread` (`ManagerImpl.cpp:212`) is not caught (`ManagerImpl.cpp:232`): the workers run on, the connections stay | |
| `buffer.cfg`, `Moving = TRUE` | `OneOwner` | the defaulted move constructor copies the pointers (`inc/Buffer.h:94`) | `inc/Buffer.h:93` |
| `buffer.cfg` with the property | `CopiesHoldText` | a copy has the capacity of the original and no text: `size` stays 0 in its chunks (`Buffer.cpp:122`) | `inc/Buffer.h:89` |
| `messages.cfg`, a payload with a brace, and `MessagesAssumption` without its first part | `InOrder` | `serialize` does not escape braces (`TestSerializer.cpp:34`) | |

`IteratorReadsText` excepts lists with an empty chunk: `operator bool` is true there
(`Buffer.cpp:86`) and `operator*` reads what was never written. A stream that ends at
the end of a chunk leaves such a chunk behind.

What `messages` shows is not all good news. `LossReported` and `NoSilentLoss` allow what
the code does: a message that two reads cut in two is lost with an error for each of
its later characters, since `building` is local to `deserialize`
(`TestSerializer.cpp:46`), and a reader that is slow for a moment costs the writer its
connection, since EAGAIN closes it (`EventCallbacks.cpp:332`). And `Disconnect` is told
before the payloads that came with the end of the file.

The lifecycle runs also show how far the damage goes. A worker's late `connectTo`
cannot slip a connection past `_cleanup`: `event_free` waits for the callback it
would be made in, and the map is locked meanwhile (`NothingLeft` passes, at the
price of the deadlock). What `_cleanup` deletes without its having been closed keeps its
descriptor, since `~Connection` does not close `_socket`; `SocketsAccounted` is about
dialling and does not cover that.

### Bounds

- *Threads.* Two application threads next to the worker and the control thread
  give every pair of roles that can race in `decrementReferences` and `close`. The
  safety properties of the component modules are also proved for any number.
- *Handles.* Two, besides the callbacks' own: one to destroy and one left.
- *Queues.* `MaxBuffers = 1` and `MaxItems = 1`: the code tests only for emptiness.
- *Connecting.* Three requests over two workers make the round robin wrap while
  another thread is choosing; two requests are enough to share a timer.
- *Lifecycle.* Two workers: one is joined while the other still runs. Two
  connections: one in a callback while another is being made or closed.
- *Buffer.* Texts up to two characters with chunks of 1 and 2 cover a text shorter
  than, equal to and longer than a chunk and an exact end; with a string, a chunk and
  a stream pushed in turn three chunks are in use and memory runs out. The proofs
  have texts, chunks and buffers without a bound.
- *Timers.* One timer, two threads that start it and the loop that fires it. What
  could go wrong is between threads; two timers share only the mutex.
- *Messages.* A framed payload fits in the sockets (`{a}`) or does not (`{bc}`), and is
  read in one turn or in several. Three payloads: one that is cut, its neighbours, and
  two queued while one is being sent.

`CHECK_DEADLOCK FALSE` is set where the system may stop: in the lifecycle runs, where
`run` returns, in `messages`, where both ends close, and in `cross_close`, where the
connections run out.

### Fairness

- Weak fairness for each thread's library code: the scheduler runs every thread.
- Strong fairness for `EndCallback` / `EndUser`: application callbacks return,
  whatever they did before.
- Strong fairness for dispatching the write and destroy events, the connector
  event, the death timer and the user timers: an event loop runs every event it has found active
  before it waits again. A timer that is started while it is pending is put off, and
  need never expire if that goes on for ever, as an application's idle timer may. So the fairness
  of a user timer is conditional on `~KeepsStarting`, that of the death timer on
  `~KeepsShuttingDown`, and `TimerFires` and `ShutdownReturns` except these
  behaviours.
- In `Messages`, strong fairness for `writeCB`, whose event waits for room, and for
  reads that give something: what has been written arrives, and reads do not come back
  empty for ever.
- No fairness for what the application may do, nor for who gets a mutex. That is
  why `WritesLeave` excepts an application that writes for ever (`KeepsWriting`):
  `close` may lose `_theMutex` to it every time.

## Proofs

For all values of the constants; each module's `ASSUME` and the assumptions named
below are all that is used.

| Module | Theorem | Property |
|---|---|---|
| `ConnectionProofs` | `TypeCorrect` | types |
| | `CountExact`, `CountNeverNegative` | the count is the number of live Handles, less those being copied to themselves (`HandlesCounted`), and never below zero, if no Handle is moved to itself |
| | `DestroyNotLost` | `NoLostDestroy`, under the same assumption |
| | `ClosedOnce`, `ReadStaysDown` | `OneCloser`, `ClosedNotReading` |
| | `SocketOpenInIO` | `NoIOOnClosedSocket`, if `serialize` reports no errors |
| | `WritesNotLost` | `NoLostWrite`, if no chunk is empty |
| | `HandlesOutliveNothing`, `NothingFreedInUse` | `NoDanglingHandle`, `NoUseAfterFree`, under `OneLoop` |
| | `CallbacksAttended` | `CallbackHasHandle`, with `ControlOnLoop`, if `serialize` reports no errors |
| | `OneLoopHonoursContract` | every step is one of `HandleContract` or a stutter, under `OneLoop` |
| `ConnectingProofs` | `ConnectingTypeCorrect`, `FireFindsRequest` | `TypeOK`, `FireHasRequest` |
| | `NoSocketLost`, `AnswersStayTrue`, `IdentifiedBeforeEvents`, `LoadsBalanced` | `SocketsAccounted`, `AnswersTrue`, `IdentifiedFirst`, `Balanced` |
| `LifecycleProofs` | `LifecycleTypeCorrect`, `NoCallbackOutlived`, `MapStaysAlive`, `DestroyFindsItsEntry`, `NothingLeftBehind`, `AbortBreaksLiveWorkers` | `TypeOK`, `CallbackObjectAlive`, `MapAlive`, `DestroyFindsEntry`, `NothingLeft`, `BreaksLiveWorkers` |
| | `TimersOutliveUse`, `TimersRepeat` | `TimerAlive`, `RepeatsOn` |
| `BufferProofs` | `BufferTypeCorrect`, `ChunksOwned`, `PushesAtTheEnd` | `TypeOK`, `OneOwner`, `FinishIsLast`, with `Moving = FALSE` |
| | `TextKept`, `IteratorReads` | `HoldsText`, `IteratorReadsText`, with `Moving = FALSE` |
| `MessagesProofs` | `MessagesTypeCorrect`, `NothingCutOut`, `NothingSwallowed` | `TypeOK`, `StreamKept`, `LossReported` |
| | `DeliveredInOrder` | `InOrder`: `Messages` implements `MessageChannel` |

None of the properties is inductive alone.

**Connection.** Six invariants, each on those before it:

1. `Basic`: types, and that `ret` and `resume`
   describe the frame a thread is in. Without the frames nothing is known of where
   a member function returns to. On it rests `HandlesCounted`, for applications that
   move no Handle to itself.
2. `Closure`: one closer, the read event stays down once the descriptor is closed
   (which needs that `Publish` comes before any close), and somebody is on the way
   to arm the destroy event.
3. `IOSafe`: what `good` and the running event say about the progress of a closer
   that waits in `event_del`.
4. `Delivery`: a queued buffer has the write event, a running `writeCB` whose
   `good` is true, or a writer inside the lock.
5. `Lifetime`: with one loop, application threads never run `decrementReferences`,
   every thread inside a member function owns a Handle, and an armed destroy event
   means that no Handle is left.
6. `Attended`: every callback, and `readCB` and `writeCB` around it, have their Handle
   for as long as they run. For the Connect event this needs that with one loop nobody has
   seen the connection when its Handle is requested.

`OneLoop` says that `numThreads = 0`, that only code on the loop destroys Handles and
makes connections (`connectTo` is not called in another thread), and that no Handle is
assigned to itself. Each part is needed: see the preconditions.

**Connecting.** `Typed` has the types. `Queue` compares numbers: there is a request on
the queue for the pending event, one for the control thread between its dispatch and
its `pop`, and one for the thread that has pushed and is about to add the event, which
holds the mutex. `Work` says that a request is untouched until a thread works on it,
that only one does, and what there is of the request at each label: the descriptor from
the step that opens it, the identifier before the entry of the map, the answer last, though the connection may
be closed and gone by then.
`Rounds` says that every worker has had *k* connections and those before `_nextThread`
one more.

**Lifecycle.** `Alive` is the argument why `_cleanup` is safe. A worker is in library
or application code only in a callback for a connection; that connection is in the map,
not deleted, and belongs to the worker's own base. Of the callbacks for the connection
that `_cleanup` is deleting, those of the events freed so far are over and cannot begin
again (`Freed`); when the third event is freed none is left. So when the loop of
`_cleanup` has come past a connection no worker serves it, and when the map is empty no
worker is in a callback, however many connections
were dialled meanwhile. `BreaksLiveWorkers` follows: who is in `abort` is in a
callback, and the first join comes after the last of them. `Clocks` is the same for
timers, and says that nobody but a thread in such a callback starts one. All of it is about
runs that return or throw on what they caught; of `escaped` it says that no thread is
joined, and of `terminated` that there is nobody left.

**Buffer.** The argument is about heaps first. A list is a sequence of addresses that
`next` links in a heap (`ListOf`), and `Arranged` says that given lists are those of the
buffers, share the heap out among them and end at `_finish`. One lemma for each thing
the operations do to memory (link a chunk at the end, free a list, start a new one, move
one, pop a chunk) takes an arrangement to the next, with what becomes of the contents.
Two lemmas tie this to the model's recursive functions: whoever walks a list meets
its addresses and no others (`WalkOfList`), so `Chain` is that list, and `getString`
is the text stored along it. The invariant adds to this (`Sound`) that a loop has what
it works on (`Frames`: a push that is past `allocate` has a chunk, a copy has come to an
allocated one) and that the contents, followed by what a push has still to store, are the
text (`Told`). `Told` also says of copies, whose text the code loses, that they are not
longer than it: without this nothing would bound what is pushed to a copy later.
`IteratorReads` goes along the list: after *k* increments the iterator has passed *k*
characters (`ReadsOn`), those of the chunks it has left and those before its position,
which fails at the first empty chunk. Without `Moving = FALSE` even `OneOwner` is
false: see the preconditions.

**Messages.** `OnTheWay` says of the characters read, on the wire and unsent that
they are the stream, and what of this is left after a close: nothing is sent after a
buffer was given up. `Unparsed` says that `input` is the end of `arrived`, so that the
next character `deserialize` takes is the first it has not had. `Framed` places it in
the stream: after *k* messages and *q* characters of the next one, with the first *q - 1*
of the payload in `currentPayload` if it is building, and with payloads made of a
subsequence of the *k* messages. That payloads have no braces is used in one place, to tell the next
character's kind by *q*. A payload that is passed over, because a read was cut in it,
leaves the subsequence as it is; one that is completed extends it. The step of `Deliver`
then is a `Receive` of the channel.

**Induction.** The stream and `getString` are made with `FlattenSeq`, and `Chain` and
`Iterated` are recursive functions themselves. What they compute is proved, in
`SequenceLemmas` and `BufferProofs`, without an induction rule over operators: a
set of natural numbers that has a member has a least one (from the well-foundedness of
`<`), therefore a set with 0 and the successors of its members has them all
(`SetInduction`), and each induction is an instance of that with the set of the
numbers for which the statement holds.

The extra assumptions are needed, not convenient: the run `dangling` and the
changes listed under the preconditions are counterexamples without them. For the count
itself, a Handle that is moved to itself is the counterexample by inspection:
`Handle.cpp:68-78` decrements and keeps the pointer.

Only model-checked: all liveness (`ClosedIsDestroyed`, `WritesLeave`,
`AnsweredInTurn`, `TimerFires`, `AbortReturns`, `ShutdownReturns`, `NoSilentLoss`) and
the fairness part of `HonoursContract`, since TLAPS has no `ENABLED`.

## Plan

1. An abstract manager (connections appear, are closed, all are gone at the end)
   that `Lifecycle` implements, its step refinement proved like that of
   `HandleContract`.
2. An abstract buffer (a text that grows at the end and is taken from the front) that
   `Buffer` implements between calls, from `TextKept`.
3. The moves with `Moving = TRUE`, for buffers that are not used after they were moved
   from: which of the properties are left.

## Not modelled

`InetAddress`, `Configuration`, `Exception` and the logging have no state that the
rest depends on. The test programs are applications: the models leave application
code open. The contents of payloads, addresses and error strings are abstracted.
SSL is announced in the repository's README and not there.

`ReferenceCounter` is left out: no other file of the repository includes it. A reading
shows that its count starts at 0, and is tested and then decremented, so that owners
that are destroyed at the same time may leave the data behind; and that an assignment
locks the mutexes of both counters in the order of the call, so that crosswise
assignments, or one of a counter to itself, wait for ever.

Of `Manager` the count of instances is left out, which turns on libevent's locking with
the first and shuts libevent down with the last; the models take the locking as turned
on. The times of timers, ticks and timeouts are left open: a read timeout is a `readCB`
that finds nothing.
