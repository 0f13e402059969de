# uv-rpc in TLA+

Specifications of the core of uv-rpc (`src/`), a small RPC library on top of
libuv, with TLC runs on small instances and theorems checked by TLAPS.  Paths
below are relative to the repository; `Async.cpp:42` stands for
`src/src/Async.cpp` line 42.

## 1. The system

A server is a `TcpServer` whose listening loop hands every new connection to a
`ConnectionManager`; the manager owns a pool of `EventLoop`s, one thread each,
and gives the connection to one of them.  A client is a `TcpConnection` on an
`EventLoop`, or a `Broker` with many of them.  libuv's loops are single
threaded: only `uv_async_send` may be called from elsewhere.  So everything a
foreign thread wants done is a closure put into `Async`'s queue and run by the
loop's thread.  Most of what can go wrong in this library goes wrong in the gap
between these threads, or between two callbacks of one of them.

| Part | State | Operations | Talks to | What is hard |
|---|---|---|---|---|
| `EventLoop`, `Async` | `status`, the async handle with its unset field `uvHandle.data`, the mutex-protected `cbQue`, `tmpCallbacks` of the batch being run | `run`, `runNoWait`, `stop`, `runInLoop`, `runInLoopEn`; `Async::init`, `runInLoop`, `realProcess`, `close` | libuv (external); used by every other part | the test of `data` is not synchronised with `init` and `close`; a wake-up may be lost; callbacks hand over callbacks while the batch runs; `run` again after `stop` |
| `SimpleMsgDispatcher`, `CharVector` | the tail of the stream kept between reads, its capacity | `onMessage` (six cases), `doMessageInNewBuf`, `copyToVec`; `append`, `reserve`, `clear` | called by `TcpConnection::onRead`; calls the user's `onMessageParse` | a read may end anywhere: in a header, at its end, at the end of a packet; pointers into a vector that grows |
| `TcpConnection` | `sendQue`, `tempQue`, `bConnected`, `bClosed`, the libuv stream, the receive buffer | `sendMsg`, `pushinQue`, `realSend`, `afterWrite`, `connect`, `reConnect`, `onConnect`, `onRead`, `close`, `closeSafe`, `onClose` | `EventLoop` for closures, `BufferPool` for requests, libuv, four user callbacks that may call the connection again | senders on other threads race with `realSend`; a refused or cancelled write must not lose, repeat or leak a request; close and reconnect from inside callbacks |
| `BufferPool` | `reqQueue`, the pool of write requests; a pool of read buffers | `getWriteBuffer`, `putWriteBuffer`; `getReadBuffer`, `putReadBuffer` | called by `TcpConnection` | a request that is put back twice, or never |
| `ConnectionManager`, `TcpServer` | the loops and threads, `round_robin`, `connMap` | `start`, `stop`, `getNextLoop`, `onNewConnection`, `addConnection`, `freeConnection` | `EventLoop`, `TcpConnection`, libuv's listen and accept | who keeps a session alive between accept and close, on two threads; `stop` before the loops run |
| `Broker` (`samples/pingTest/distribute`) | `clients`, `loopVector`, `bStop` | `start`, `stop`, `addNode`, `reConnect`, `onConnect`, `sendNewTask` | `EventLoop`, `TcpConnection`, `UvTimer` | the reconnect timer races with the close callback and with `stop` |
| `UvTimer` | `bStarted`, the timer handle | `start`, `stop`, `close`, `setRepeat` | `EventLoop::runInLoop` | `stop`, `close` and the deletion run directly or queued, depending on the thread |
| `WorkerPool` | the task in libuv's thread pool | `addToWorkQueue`, `uvWork`, `uvAfterWork` | `GlobalConfig`, `TcpConnection` | the connection may be gone when the work ends |
| `GlobalConfig`, `SocketAddr`, logging, `utils` containers | configuration, addresses, helpers | | | not concurrent; not modelled |

What makes each part correct:

- `EventLoop`: what is handed over is run exactly once, in order, on the loop's
  thread; a loop never sleeps on a filled queue; `stop` ends `run`.
- `SimpleMsgDispatcher`: for every split of the stream into reads the packets
  delivered are the packets sent.
- `TcpConnection` and `BufferPool`: every request has one owner; tasks go out
  once, in order; nothing waits for a wake-up that does not come; a close
  closes; the flags say what is the case.
- `ConnectionManager`: a session's object outlives libuv's knowledge of its
  handle and every closure that points to it, and not much longer; loops are
  used evenly; `stop` returns.
- `WorkerPool`: a task may outlive its session and must not keep it; what the
  after-work callback finds is a session libuv still has, or none.
- `Broker` and `UvTimer`: a client that failed or was lost is connected again,
  by one of several ways and never by two at once; a timer is deleted once, after
  libuv has let go of it; `stop` comes to an end and leaves no open client.

## 2. The modules

| Module | Models | Notes |
|---|---|---|
| `CallbackQueue` | what an `EventLoop` promises | abstract: post, start in order |
| `EventLoop` | `EventLoop.cpp`, `Async.cpp` | implements `CallbackQueue` |
| `PacketStream` | what a dispatcher promises of a stream, whatever the reads | abstract: read, pass on what is whole |
| `SimpleMsgDispatcher` | `SimpleMsgDispatcher.cpp`, `CharVector.h` | implements `PacketStream`; pure algorithm as a machine over all streams and splits |
| `ReconnectedStream` | the dispatcher across `TcpConnection::connect` | extends `SimpleMsgDispatcher` |
| `Outbox` | what a `TcpConnection` promises of the tasks handed to `sendMsg` | abstract: accept, deliver, fail |
| `TcpConnection` | `TcpConnection.cpp`, the write requests of `BufferPool.cpp` | implements `Outbox`; relies on what `CallbackQueue` promises |
| `ConnectionManager` | `ConnectionManager.cpp`, the start of `TcpServer.cpp` | many loops, each reduced to its queue and its running callback |
| `WorkerPool` | `WorkerPool.cpp`, `ITask.h` | extends `ConnectionManager`: tasks in libuv's pool beside the sessions |
| `UvTimer` | `UvTimer.cpp` | a timer as a value, with the results of the calls |
| `Broker` | `broker.cpp` of the distributed ping | uses `UvTimer`; loops and connections reduced to what they show the broker |
| `MC...` | TLC instances | |
| `..._proof` | theorems | extends the component's module and `TLAPS` |

### EventLoop

A step is what another thread can observe: one block under the mutex, one read
or write of a shared field, one call of libuv.  `lpc` is the place of the loop's
thread `Runner` in `run()`, `uv_run` and `realProcess`; `pc[t]` is the place of
thread `t` in `runInLoop`, `runInLoopEn` or `stop`.  `Runner` itself may call the
loop, from inside a callback (`callback`, `otherCallback`) or before and after
`run`.  `data` is the value of `uvHandle.data`: nothing sets it before
`Async::init`, so `Init` takes any value of the constant `InitialData`; `"other"`
stands for anything but the address of this `Async`, `"this"` for what an
earlier `Async` at the same address may have left there.  The lambdas that
`stop` queues are the members of `Closer`.  libuv is modelled from its contract:
an iteration polls, runs the async callback, then completes closing handles;
`uv_stop` is looked at before the next iteration.  `posted`, `ran` and `direct`
are history variables.

### SimpleMsgDispatcher

A byte is its position in the stream, so every slip of a copy by one byte shows.
`lenAt`, chosen at the start, is what the length field of a header at each
position would hold: the model ranges over all streams.  `OnMessage(n)` takes a
read of any `n` bytes and has one disjunct per case (2) to (6) of the source plus
the empty vector; case (1) is the one the source asserts not to happen, and
`NoPacketWaits` says so.  `DeliverNew` is an iteration of `doMessageInNewBuf`.
`PointsTo` is a pointer into the vector taken before an append: if the append
reallocates, the bytes behind the pointer may be gone.  That is a
nondeterministic choice between the bytes and nothing.  `PacketStream` knows
nothing of the vector and the six cases: its state is the stream, how much of it
has been read, which packet is due and what was passed on, and it says that no
packet is passed on before it is whole and none is left when a call returns.

### TcpConnection

`calls` is what the loop's thread has left to do in the libuv callback it is in,
next call first; a user callback that calls `sendMsg`, `closeSafe` or
`reConnect` puts calls in front.  `sendMsg` of other threads is `SendMsg`
(encode), `PushInQue` (under the lock), `PostRealSend` (`runInLoopEn`), with the
loop and the other threads in between.  `realSend` is `SwapQue`, then `UvWrite`,
`UvWriteRefused` or `KeepUnsent` per request.  `afterWrite` calls the user, then
`realSend` and `putWriteBuffer`, or `pushbackQue` and `close`; with a task that
names no connection it returns early (`AfterWriteUnbound`; a debug build stops
there, at the assertion of `TcpConnection.cpp:270`).  `stream` is libuv's
state of the handle; `"noFd"` is a stream for which `uv_tcp_connect` could not
open a socket, a result `connect` ignores.  `bClient` picks a client or a
server's session.  `handed`, `wire`, `failed` and `reported` are history.

A client is kept by its owner.  A session is kept by the map until `onClose` has
called `freeConnection`, and by every thread that is inside `sendMsg` or
`closeSafe`, which got its `shared_ptr` from the task.  Who lets go last runs
`~TcpConnection`, which gives the queue back to the pool (`Destroy`; the stream
is then `"freed"`).  The closures that `sendMsg` and `closeSafe` hand to the loop
hold only `this`: a closure whose session is gone is undefined behaviour, and
the model says nothing of what follows it.  `Outbox` sees `handed` as what was
accepted and `wire` as what was delivered; `failed` is its own.

### ConnectionManager

`owner` calls `start` and `stop`; `spc` and `cur` are where the listening thread
is in `onNewConnection`; `io[l]` is the callback loop `l` is running and
`posted[l]` what has been handed to it.  Of a session only its libuv handle, its
loop, its key and its peer are kept.  `Alive(c)` lists the holders of a
`shared_ptr`: the map, the running `onNewConnection`, the running `onRead` and
`onClose`.  The closure that starts the reading and libuv hold bare pointers, so
`SessionLives` is the claim that these never outlive the object.  A peer may
always come back from the address of a session that is closed (`FreeKey`), so a
key is erased from the map and inserted again.  `ReuseKeys` says whether a session
may also get the key of one that is not closed: because a peer reset its
connection and came back from the same address before the reset was handled, or
because `getpeername` failed and the key was made from an unset address
(`SocketAddr.cpp:75` ignores the result).

### WorkerPool

The module adds to the manager's sessions the messages that a user's
`onMessageParse` hands to `addToWorkQueue`.  `work[t]` is where the request is:
queued, done, or deleted by the after-work callback; `taskConn[t]` is the
`weak_ptr` of the task, so `Alive` of `ConnectionManager` does not change.  A
`shared_ptr` that the work itself or a sending thread gets from `getConnection()`
is left out: no work in the repository takes one, and `TcpConnection` has the
senders.  The
actions of the manager are taken as they are, with the pool's variables left
alone; `found[t]` records what `getConnection` gave the after-work callback.  The
reply, which `WorkerPool.cpp:54` has as a comment, and the work that warms up the
pool's threads are left out.

### Broker and UvTimer

`UvTimer` has no variables: a timer is a record, and `Constructed`, `Started`,
`Stopped`, `Fired`, `Closed` and `Deleted` are what the operations of the class
and of libuv make of it.  `"dangling"` is the object deleted while libuv has its
handle; it is no member of `TimerType`.

In `Broker` the owner calls `start`, `addNode` and `stop`; each loop's thread runs
one callback per step.  `onClose` is two steps, since the owner reads `isClosed()`
on another thread and may do so between `setClosed` and the close callback.  The
order of the phases of a libuv iteration matters here and is kept: timers, then
I/O, then the end of closes.  So no timer fires with a stream's close pending; I/O
and closures do run between a timer's callback, which closes the timer, and the end
of that close.  That two timers fire on both sides of one poll is not excluded:
which closes first makes no difference to them.  A connection is `stream`, `bClosed` and
whether its callbacks are set (`clearCb`).  An aborted connect is reported before
`onClose` and arms a timer of its own, also during `stop`.  After `clients.clear()`
(`Cleared`) a callback that would use a client or `clients[idx]` is undefined and
is not taken.  `Timer` bounds the timers that exist at a time; there are
two, so that one client could arm a second.

### The operators marked "Fault"

Next to some actions stands a variant marked `\* Fault:`, which no specification
uses: the action as a plausible mistake would have it (a wake-up left out, a
queue copied instead of swapped, a count wrapped too early).  Putting the variant
in the action's place must make TLC report the property `PROJECT.json` names with
it under `mutants`.  They document what each property is able to notice.

## 3. The runs

`tlc -config X.cfg M` with the pairs of `PROJECT.json`; all twelve finish within
two minutes each on two cores.  Sizes are distinct states.

| Run | Asks | Bounds |
|---|---|---|
| `EventLoop` | `TypeOK`, `NothingLost`, `NoLostWakeup`, `ReinitOnlyClosed`, `QueuedRunInLoop`, `ImplementsQueue`, `QueuedIsRun`, `StopReturns` | loop thread and two others, one callback, two stops; 183 573 |
| `SimpleMsgDispatcher` | `TypeOK`, `BodiesParse`, `RestFollows`, `NoPacketWaits`, `HeadersParse`, `ImplementsStream` | ten bytes, three-byte headers, bodies of 0 or 2 bytes, vector of five; 64 000 |
| `SimpleMsgDispatcherHeader` | violated: `HeadersParse` | bodies outgrow the vector |
| `ReconnectedStream` | violated: `DeliversOwnBytes` | one reconnect |
| `TcpConnection` | `TypeOK`, `OwnedOnce`, `TaskWhileUsed`, `NoSendForgotten`, `SentInOrder`, `OKMeansOpen`, `DestroyedUnheld`, `ImplementsOutbox`, `HandedIsTried`, `CloseSafeCloses`, `ClosedIsFreed` | client and session, two threads, one of which closes, and the user; two tasks, one of which names no connection; two requests, one of which is pooled; two connects; 112 170 |
| `TcpConnectionReport` | violated: `FailureReported` | one task |
| `TcpConnectionFreed` | violated: `PostedFindsConnection` | a session, one thread, one task |
| `WorkerPool` | `TypeOK`, `SessionLives`, `MapIsSound`, `StartsOnce`, `Balanced`, `GoneIsFreed`, `StopReturns` of the manager, `FoundIsOpen`, `DoneIsDeleted` | two sessions, two loops, two keys, one task; 153 607 |
| `ConnectionManagerReuse` | violated: `SessionLives` | two sessions, one key, keys reused |
| `ConnectionManagerStop` | violated: `StopAlwaysReturns` | one loop |
| `Broker` | `TypeOK`, `ReconnectsOnce`, `WaitsForClosing`, `HandleContract`, `LostIsReconnected`, `StopClears` | two clients on two loops, two timers; 73 824 |
| `BrokerStop` | violated: `ClearsClosed` | one client |

Why the bounds are enough for what they are asked:

- `EventLoop`: the races are between one push, one `init` or `close` and one
  drain.  Two posters and a runner that calls back make each of them happen, two
  stops let the loop be closed, run again and closed again, and a third callback
  is what is left over for the next run.
- `SimpleMsgDispatcher`: ten bytes hold up to three packets and two boundaries
  inside reads; with three-byte headers a read can end before, inside and at the
  end of a header.  Nothing depends on the size but the six comparisons, and
  the theorems hold for every size.
- `TcpConnection`: two tasks can overtake each other; two requests exhaust the
  pool (one pooled, one allocated); the second connect is where what the first
  one left over can do harm.  One of the two tasks takes the early return of
  `afterWrite`, which is independent of the other's way.  One closing thread and the
  user are two closes at different times; a second closing thread adds nothing
  but another `close` in the queue.
- `WorkerPool`: two sessions can share a loop or not, be in the map together under
  two keys, or have one key after the other: the second is inserted where
  `freeConnection` has erased the first.  One key at a time for two sessions is
  `ConnectionManagerReuse`.  A task concerns one session, and tasks do not see one
  another.
- `Broker`: clients meet only in the owner's loop over them and in the loops'
  callbacks; one of two can be closed while the other connects.  The number of
  times a client is lost or fails is not bounded, so a client reconnects by every
  way there is, after any other.

Deadlock is checked for `EventLoop`.  The other components really stop: all
bytes received, the connection closed for good, the manager or the broker
stopped.

### Fairness

- `EventLoop`: the thread in `run()` keeps going (`LoopStep`) and a thread that
  is in a call of the loop finishes it.  libuv's loop does nothing else, and
  the library's calls do not block but for a short mutex.  Nothing obliges
  anybody to call `run`, `stop` or `runInLoop`; that another handle is due
  (`UvOtherEvent`) is never required, and callbacks are assumed to return because
  `EndCallback` is part of `LoopStep`.
- `TcpConnection`: weak fairness of `LoopCall`: a callback that was entered
  runs to its end, including the user's.  Strong fairness of each kind of event:
  an event that is due is not overtaken for ever by others, as `uv_run` handles
  each kind once per iteration.  Connects are answered and writes are taken or
  fail, since TCP times out.
- `ConnectionManager` and `WorkerPool`: the owner, the listening thread, and each
  loop as a whole.  `uv_run` polls all its handles, but no property needs more
  than that a loop does not stand still while something is due.  For
  `DoneIsDeleted` an iteration must also get to the work that is done.  Nothing is
  assumed of the pool: a task may be worked on for ever, and sessions are freed and
  loops stopped all the same.
- `Broker`: the owner goes on with `stop()`; a loop does not stand still, and its
  iterations get to the closures handed to it (strong fairness of `RunPosted`) and
  to the timers that are closing (`OnTimerClosed`: `uv_run` ends with the closes).
  Per loop this is enough as long as each has one client, as in the run.
  Connects are answered; nothing says that one ever succeeds.

`QueuedIsRun` is about `run()`; a `runNoWait()` may end before it.  It is checked
with `InitialData = {"other"}`: with `"this"` the loop has no handle at all,
`run()` returns at once and a queued callback waits for ever (see 5).

## 4. What is proved

`tlapm M_proof.tla`; no assumption but the named `ASSUME`s of the modules and the
hypotheses stated in the theorems (in `ConnectionManager_proof`, `WorkerPool_proof`
and for `HeadersParse`).

- `EventLoop_proof`, for any threads, callbacks and initial value of the unset
  field: `TypeOK`, `NothingLost`, `NoLostWakeup`, `ReinitOnlyClosed`,
  `QueuedRunInLoop`, and `Implementation`: `Spec => ImplementsQueue`.  The
  invariant `IInv` adds to the properties that `status` is `Running` throughout
  `uv_run` (`RunningInv`), that `data` names the `Async` as long as libuv has the
  handle but for the step between `uv_async_init` and the assignment
  (`HandleInv`), and that `tmpCallbacks` lives only inside `realProcess`
  (`BatchInv`).  `HandleInv` is what `NoLostWakeup` needs: a pusher that finds
  `data` unset knows that either the handle is not open, or `init` has its own
  wake-up still to send.  `CallInv`, a second invariant proved beside it, says
  that a call holds a callback of its own: the refinement needs it, since the
  abstract queue accepts a callback once.
- `SimpleMsgDispatcher_proof`, for every header size, stream, split and
  capacity: `TypeOK`, `BodiesParse`, `RestFollows`, `NoPacketWaits` (the assertion
  of `SimpleMsgDispatcher.cpp:47`).  `BufferInv` says that the vector
  between reads, or the buffer inside one, holds exactly the bytes from the
  packet that is due to the last byte received.  `Implementation`:
  `Spec => ImplementsStream` reads every step as one of two kinds, `Delivers` and
  `Keeps`, whatever the case of `onMessage`.  `HeadersParse` needs the hypothesis
  `PacketsFit`, that no packet outgrows the capacity the vector starts with: the
  capacity never shrinks (`CapInv`), so the append of case (2) moves nothing.  In
  the code that capacity is 1024 bytes; for longer packets the run
  `SimpleMsgDispatcherHeader` refutes it.
- `ConnectionManager_proof`, for any number of loops, sessions and keys:
  `TypeOK` and `StartsOnce` without a hypothesis; `SessionLives` and `MapIsSound`
  assuming `~ReuseKeys`, that no session gets the key of one that is not closed yet,
  without which `ConnectionManagerReuse` refutes them.  A key may come back any
  number of times.  The invariant has five parts: how far `onNewConnection` is with the session it
  creates (`ServerInv`), that the sessions which are not closed have
  different keys (`KeyInv`), that the map is exactly the sessions between
  `addConnection` and `onClose`, each under its own key (`MapInv`), that the
  callback a loop is in concerns a session of that loop in the state libuv called
  it in (`RunningInv`), and that the closures in the queues are each for a waiting
  session, once (`QueuedInv`).  The last one is why `StartReading` never finds a
  session that is closed already.  All but `KeyInv` and `MapInv` are independent of
  the keys (`SessionInv`).  The end of one session and the arrival of the next under
  its key meet in `MapInv`: `onClose` erases the entry in the step that ends the hold
  on the key, so `addConnection` finds none (`AddConnection`), and no close that is
  still to come erases the entry of another session (`OnClose`).  `StartsOnce` needs the converse too, that no waiting session
  is without its closure (`CoveredInv`): what a loop holds stays with it until it
  ends (`HeldStays`), and only the step that hands the closure over makes a session
  wait (`WaitsComes`).  That every session is started or closed once is the safe
  half of `GoneIsFreed`.
  `SessionsBalanced` assumes `IoLoops = NLoops` instead.  `Balanced` compares
  cardinalities and is not inductive; `BalanceInv` gives them in closed form: the
  round robin has gone round `base` times, so every loop has been given `base`
  sessions and the loops `1..round_robin` one more, since loop 0 ends a round.  It
  also says that a session without a handle belongs to no loop, so that
  `onNewConnection` adds to one set and takes from none.

- `WorkerPool_proof`, for any number of loops, sessions and tasks: a behaviour of
  the composition is one of the manager (`Composition`), so what is proved of the
  manager holds beside the pool (`SessionsLiveBesideWork`, `BalancedBesideWork`); and `FoundIsOpen` assuming `~ReuseKeys`.  The
  step that matters is `AliveIsOpen`: whoever can still hold a session while its
  loop polls, the map, `onNewConnection` or a callback of another loop, holds one
  that libuv has not let go of, which follows from `MapInv`, `ServerInv` and
  `RunningInv` of the manager.
- `Broker_proof`, for any number of loops, clients and timers: `TypeOK`,
  `ReconnectsOnce`, `WaitsForClosing`, `HandleContract` (`ClosesInitialised` and
  `ReconnectsDead`).  The invariant says that what will connect a client, its first connect, a retry handed to its loop or an armed
  timer, exists at most once (`Order`, `TimerInv`) and only while the stream is
  dead in the right way (`Fits`): never initialised for the first connect, failed
  for a retry or, once the broker is stopped, closing or closed.  The second case
  is why a retry that stop() has overtaken cannot meet a close callback that
  connects too.  `StreamInv` says that a client that was never initialised has its
  first connect still in the queue, before every close (`Order`): hence
  `ClosesInitialised`.  `TypeOK` needs `TimerInv`, since a timer that is closed
  while armed would leave its type.  `ReconnectsOnce` needs the converse too, that
  what will connect a dead client exists: `ComingInv`, a second invariant, says
  that while the broker runs a client has its callbacks, a failed one has its retry
  in the queue or a timer, and a closed one a close callback about to be called.
  It is the safe half of `LostIsReconnected`.
  `WaitsForClosing` is that of `StopClears`; `ClosesInv` adds to it that a stream
  which is closed has been reported closed (so a reconnect loses no close) and that
  no loop is told to stop before the clients are cleared.

- `TcpConnection_proof`, for any threads, tasks, requests and number of connects:
  `TypeOK`, `OwnedOnce`, `TaskWhileUsed`, `OKMeansOpen`, `DestroyedUnheld`.  What makes the model's
  stack of calls tractable is `Placed`, which says where in it a call may stand: a
  connection that succeeded is reported before anything else, a push from a
  callback is followed by its `realSend`, the loop over `tempQue` is only ever
  delayed by a `close`, `onClose` and `freeConnection` come last.  From it follow
  `OKInv` (nothing sets `bConnected` of a stream that a pending call is about to
  end) and `TempInv` (`tempQue` is empty outside `realSend`).  `OwnedOnce` counts
  places in eight sequences and functions; the invariant behind it, `PlaceInv`, says
  the same without counting: no sequence has an element twice, the sets of what
  they hold are disjoint, and together they are what was allocated.  Each step moves
  one request, or one whole sequence, from one set to another (`PlaceNext`).
  `TaskInv` rides on `PlaceInv`: a request that leaves the pool is in no other place
  whose task could change with it.  The proof needs `PooledAssumption`, that the pool
  is made of different requests, which `BufferPool.cpp` makes with `new`.
  `DestroyedUnheld`, the safe half of `ClosedIsFreed`, is inductive beside `Placed`:
  `freeConnection` is the last call, so that nothing is left to run on a session that
  it destroys.
- `TcpConnectionOutbox_proof`, on top of it: `NoSendForgotten`, `SentInOrder` and
  `Implementation`: `Spec => ImplementsOutbox`.  `HistoryInv` ties the histories to
  the places: no two requests carry the same task; the task of a request that waits,
  or that a call will put back into the queue, was handed over and has not gone out;
  the task of a request that is still held was not handed over.  `UsedKeeps` is the
  lemma the rest hangs on: a request in use before and after a step carries the same
  task, so every step can be read as a move of tasks.  `NoSendForgotten` needs that
  what a failed write puts back has failed already, and `SentInOrder` that `tempQue`
  is empty when `realSend` swaps the queue (`TempInv`, `Placed`).  In the refinement,
  `Deliver` in order is `SentInOrder`, and that nothing is delivered twice or reported
  after it went out is `HistoryInv`.

Only model-checked: everything about liveness (`QueuedIsRun`, both `StopReturns`,
`HandedIsTried`, `CloseSafeCloses`, `ClosedIsFreed`, `GoneIsFreed`,
`DoneIsDeleted`, `LostIsReconnected`, `StopClears`), since the
prover has no rule for fairness at hand here.

## 5. Where code and words disagree

Shown by a run:

1. `SimpleMsgDispatcherHeader`: in case (2) the header passed to the user is a
   pointer into the vector from before an append that may move it
   (`SimpleMsgDispatcher.cpp:43`, `:69`, `:72`).
2. `ReconnectedStream`: `connect` keeps the tail of the old stream, which the
   dispatcher then puts in front of the new one (`TcpConnection.cpp:354`).
3. `TcpConnectionReport`: the user never hears of a task that was sent after the
   close (`TcpConnection.cpp:210`).
4. `TcpConnectionFreed`: the closure of `sendMsg` captures `this`
   (`TcpConnection.cpp:257`).  A thread that sends to a session while the loop closes
   it can be the last to let go of it, with its closure still queued.  The samples
   send to sessions from the loop only.
5. `ConnectionManagerReuse`: `map::insert` ignores a session whose key is still
   there, and that session is destroyed while libuv has its handle
   (`ConnectionManager.cpp:138`).  The key is also wrong when `getpeername` fails.
6. `ConnectionManagerStop`: `stop()` before the loops run is refused, the refusal
   is ignored and the join never returns (`ConnectionManager.cpp:71`).
7. `BrokerStop`: `bClosed` is never reset, so `isClosed()` stays true after a
   reconnect (`TcpConnection.cpp:495`); `Broker::stop` takes such a client for
   closed and destroys it while libuv has its handle (`broker.cpp:134`).  The
   closures of `closeSafe` have the 50 ms before the first look to prevent it.

Read from the code, with no run of its own:

- `runInLoop` tests `isStoped()` and calls the callback itself later
  (`EventLoop.cpp:141`); the loop may have been run again by then, and the callback
  runs beside it.  The run `EventLoop` has this interleaving; nothing in the
  repository runs a stopped loop again while another thread uses it.
- `stop()` hands its close to the queue if it finds the loop `Running`
  (`EventLoop.cpp:92`).  When another close has been taken up already, or `run()` is
  just ending, this one stays in the queue and ends the next `run()` as soon as it
  has begun.  The run `EventLoop` has this; no text says what two stops should do.
- A request that is refused or fails goes behind what was sent meanwhile
  (`TcpConnection.cpp:210`), so after a reconnect tasks may go out in another order
  than they were sent: `SentInOrder` and `Outbox` promise the order only until a
  write fails.
- `getNextLoop` counts modulo `IO_LOOPS`, which is 1 (`ConnectionManager.h:6`;
  README.md:37 says 4), not modulo the number of loops `start(n)` created: every
  session gets loop 0.  `Balanced` is checked for `IoLoops = NLoops`, and TLC
  refutes it at once for `IoLoops` = 1.
- `Async::runInLoop` and `Async::init` test `uvHandle.data` before anything has
  set it (`Async.cpp:20`, `:42`).  If the memory holds the very address, `init`
  does nothing and `uv_async_send` gets a handle libuv never saw.
- `onNewConnection` calls `uv_tcp_init` and `uv_accept` for a loop that another
  thread is running (`ConnectionManager.cpp:104`).  No lock orders them; what
  libuv's tables look like afterwards is not modelled.
- The samples send tasks without `setConnection`, which the assertion of
  `TcpConnection.cpp:270` forbids; the lines after it handle the case, and the
  user's `sendCb` is not called.  `pingClient.cpp` sends its next ping from
  `sendCb`, so a release build sends one.
- A failed connect is retried by `connect()` without `uv_close`
  (`broker.cpp:246`): `uv_tcp_init` on a handle libuv still knows.  A connect
  that could not even open a socket (`TcpConnection.cpp:370`) is never reported,
  so nothing retries it.
- A connect that `stop()` aborts is reported with an error, and `Broker::onConnect`
  arms a new reconnect timer for a client about to be cleared.  The timer's
  callback then indexes `clients` (`broker.cpp:173`); it does not come to that only
  if the loop is stopped within the five seconds of the timer.
- `Broker::addNode` may move the clients (`broker.cpp:192`) while a loop's thread
  reads `clients[index]`; `taskId` is incremented by all loops without its lock
  (`broker.cpp:260`).
- Every write that ends, also by failing, makes the broker send another ping
  (`broker.cpp:238`), and what failed is kept for the next stream: each reconnect
  about doubles the pings under way.
- `uv_loop_close` refuses a loop that still has handles or work; the refusal is
  ignored and the loop deleted (`EventLoop.cpp:37`).
- `GlobalConfig::init` hands `putenv` a buffer on its stack and reuses the buffer
  at once (`GlobalConfig.cpp:36`, `:47`): on Linux `UV_THREADPOOL_SIZE` is not set.
- `LogWriter::write` drops what is above `Error`, hence every `fatal`
  (`LogWriter.cpp:40`).

## 6. What is not modelled

- libuv, the network and the peers, but for the contract above.
- `src/third`: protobuf, rapidjson, libuv and log4cpp headers, vendored and not
  part of the program; they are most of the lines of the repository.
- A failed allocation: `SimpleMsgDispatcher.cpp:178` ignores it.
- The pool of read buffers of `BufferPool`: taken and given back within one libuv
  read.
- Encoders, decoders and task payloads, counters, printing and logging; address
  conversion (the key of a session is a model value).  The pings of the samples
  (`onSent`, `sendNewTask`): their number is not bounded, see 5.
- Destruction of an `EventLoop`; of a client `TcpConnection` by its owner, but for
  `clients.clear()` in `Broker`.
- `UvTimer` called from another thread, which queues the calls, and `setRepeat`:
  nothing in the repository uses them.
- `GlobalConfig`, `LogWriter`, `TimeUtils`: set once, or no state of interest.
- `Heap.h`, `Queue.h` (from libuv) and `BufferQue.h`: the library does not use them.

## 7. Plan

Done: the modules of section 2, in the order of the table.  Every safety invariant
and action property of a passing run is proved, and the three refinements;
`HeadersParse` under the hypothesis `PacketsFit`, without which section 5 refutes
it.  Of the liveness properties the part that can be stated as safety is proved
where it could be named: `NoLostWakeup` for `QueuedIsRun`, `NoSendForgotten` for
`HandedIsTried`, `DestroyedUnheld` for `ClosedIsFreed`, `StartsOnce` for
`GoneIsFreed`, `ReconnectsOnce` for `LostIsReconnected`,
`WaitsForClosing` for `StopClears`.  Left for the prover: the like for
`CloseSafeCloses`, `DoneIsDeleted` and the two `StopReturns`.
