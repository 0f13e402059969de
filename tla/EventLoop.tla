------------------------------ MODULE EventLoop ------------------------------
(***************************************************************************)
(* One robin::EventLoop (src/src/EventLoop.cpp) with the robin::Async it   *)
(* owns (src/src/Async.cpp), and the threads that hand callbacks to it.    *)
(*                                                                         *)
(* A callback (DefaultCallback) is a member of Callback.  The lambdas that *)
(* EventLoop::stop builds, which close the async handle, are the members   *)
(* of Closer.  A member is handed over at most once, which bounds the      *)
(* behaviours: the sizes of Callback and Closer are the model's bounds.    *)
(*                                                                         *)
(* Steps are the units other threads can observe: one lock-protected       *)
(* block, one read or write of a shared field, one call of libuv.  The     *)
(* libuv handle and uv_run are external and modelled from their contract:  *)
(* uv_async_send marks an open handle pending and wakes the loop; the loop *)
(* clears the mark before it calls the callback; uv_close is completed     *)
(* after the poll of the same iteration; uv_stop ends uv_run before its    *)
(* next iteration.                                                         *)
(***************************************************************************)
EXTENDS Naturals, Sequences

CONSTANTS
  Threads,      \* every thread that calls a method of the loop
  Runner,       \* the thread that calls run() / runNoWait()
  Callback,     \* what can be handed to the loop
  Closer,       \* the callbacks that EventLoop::stop hands over
  NoCallback,   \* no callback
  InitialData   \* what the unset field uvHandle.data may hold at construction

ASSUME RunnerAssumption == Runner \in Threads
ASSUME CloserAssumption == Closer \subseteq Callback
ASSUME NoCallbackAssumption == NoCallback \notin Callback
ASSUME DataAssumption == InitialData \subseteq {"other", "this"}

VARIABLES
  status,     \* EventLoop::status
  data,       \* uvHandle.data: "this", "null", or "other" (never written)
  handle,     \* libuv's state of uvHandle
  pending,    \* uvHandle has been sent and its callback has not started
  stopFlag,   \* uv_stop was called in this uv_run
  mode,       \* the uv_run mode in use
  lpc,        \* where Runner is in run()
  cbQue,      \* Async::cbQue
  batch,      \* tmpCallbacks of Async::realProcess
  pc,         \* where each thread is in runInLoop, runInLoopEn or stop
  arg,        \* the callback each thread is handing over
  posted,     \* history: the callbacks pushed to cbQue, in order
  ran,        \* history: the callbacks taken from cbQue and started, in order
  direct      \* history: the callbacks runInLoop ran itself

loopVars == <<status, data, handle, pending, stopFlag, mode, lpc>>
queueVars == <<cbQue, batch, posted, ran>>
callVars == <<pc, arg, direct>>
vars == <<loopVars, queueVars, callVars>>

-----------------------------------------------------------------------------
(* Construction: the constructor of Async leaves uvHandle uninitialised.   *)

Init ==
  /\ status = "NotRun"
  /\ data \in InitialData
  /\ handle = "raw"
  /\ pending = FALSE
  /\ stopFlag = FALSE
  /\ mode = "default"
  /\ lpc = "out"
  /\ cbQue = <<>>
  /\ batch = <<>>
  /\ pc = [t \in Threads |-> "idle"]
  /\ arg = [t \in Threads |-> NoCallback]
  /\ posted = <<>>
  /\ ran = <<>>
  /\ direct = {}

-----------------------------------------------------------------------------
(* run() and runNoWait() on Runner, with Async::init.                      *)

LoopGoto(from, to) == lpc = from /\ lpc' = to

EnterRun ==
  /\ LoopGoto("out", "init")
  /\ pc[Runner] = "idle"
  /\ status \in {"NotRun", "Stop"}
  /\ mode' = "default"
  /\ UNCHANGED <<status, data, handle, pending, stopFlag, queueVars, callVars>>

EnterRunNoWait ==
  /\ LoopGoto("out", "init")
  /\ pc[Runner] = "idle"
  /\ status = "NotRun"
  /\ mode' = "nowait"
  /\ UNCHANGED <<status, data, handle, pending, stopFlag, queueVars, callVars>>

\* Async::init finds its own address in uvHandle.data and does nothing.
InitSkip ==
  /\ LoopGoto("init", "setRunning")
  /\ data = "this"
  /\ UNCHANGED <<status, data, handle, pending, stopFlag, mode, queueVars, callVars>>

\* uv_async_init
InitHandle ==
  /\ LoopGoto("init", "setData")
  /\ data # "this"
  /\ handle' = "open"
  /\ pending' = FALSE
  /\ UNCHANGED <<status, data, stopFlag, mode, queueVars, callVars>>

InitSetData ==
  /\ LoopGoto("setData", "initSend")
  /\ data' = "this"
  /\ UNCHANGED <<status, handle, pending, stopFlag, mode, queueVars, callVars>>

\* Fault: init forgets the wake-up.
InitNoSend ==
  /\ LoopGoto("initSend", "setRunning")
  /\ UNCHANGED <<status, data, handle, pending, stopFlag, mode, queueVars, callVars>>

\* The wake-up that drains what was queued while there was no handle.
InitSend ==
  /\ LoopGoto("initSend", "setRunning")
  /\ pending' = TRUE
  /\ UNCHANGED <<status, data, handle, stopFlag, mode, queueVars, callVars>>

SetRunning ==
  /\ LoopGoto("setRunning", "iterate")
  /\ status' = "Running"
  /\ UNCHANGED <<data, handle, pending, stopFlag, mode, queueVars, callVars>>

\* Fault: the end of a run forgets the handle, closed or not.
SetStoppedForgets ==
  /\ LoopGoto("returned", "out")
  /\ status' = IF mode = "default" THEN "Stop" ELSE "NotRun"
  /\ data' = "null"
  /\ UNCHANGED <<handle, pending, stopFlag, mode, queueVars, callVars>>

SetStopped ==
  /\ LoopGoto("returned", "out")
  /\ status' = IF mode = "default" THEN "Stop" ELSE "NotRun"
  /\ UNCHANGED <<data, handle, pending, stopFlag, mode, queueVars, callVars>>

-----------------------------------------------------------------------------
(* uv_run: an iteration polls, calls back, and completes closing handles.  *)

Alive == handle \in {"open", "closing"}
Wakeable == pending /\ handle = "open"

UvIterate ==
  /\ LoopGoto("iterate", "poll")
  /\ Alive /\ ~stopFlag
  /\ UNCHANGED <<status, data, handle, pending, stopFlag, mode, queueVars, callVars>>

UvReturn ==
  /\ LoopGoto("iterate", "returned")
  /\ ~Alive \/ stopFlag
  /\ stopFlag' = FALSE
  /\ UNCHANGED <<status, data, handle, pending, mode, queueVars, callVars>>

\* The poll blocks unless something is due.
UvPoll ==
  /\ LoopGoto("poll", "async")
  /\ Wakeable \/ handle # "open" \/ mode = "nowait"
  /\ UNCHANGED <<status, data, handle, pending, stopFlag, mode, queueVars, callVars>>

\* Another handle of the loop is due: its callback may use the loop too.
UvOtherEvent ==
  /\ LoopGoto("poll", "otherCallback")
  /\ UNCHANGED <<status, data, handle, pending, stopFlag, mode, queueVars, callVars>>

UvOtherDone ==
  /\ LoopGoto("otherCallback", "async")
  /\ pc[Runner] = "idle"
  /\ UNCHANGED <<status, data, handle, pending, stopFlag, mode, queueVars, callVars>>

\* uvHandle is due: Async::uvCallback checks data and enters realProcess.
UvAsyncCallback ==
  /\ LoopGoto("async", IF data = "null" THEN "closings" ELSE "swap")
  /\ Wakeable
  /\ pending' = FALSE
  /\ UNCHANGED <<status, data, handle, stopFlag, mode, queueVars, callVars>>

UvNoAsync ==
  /\ LoopGoto("async", "closings")
  /\ ~Wakeable
  /\ UNCHANGED <<status, data, handle, pending, stopFlag, mode, queueVars, callVars>>

\* The closing handles of the iteration.  onAfterClose calls the stored
\* callback, which calls uv_stop, and then forgets the handle.  A no-wait run
\* ends here and takes the stop flag with it.
UvClosings ==
  /\ LoopGoto("closings", IF mode = "nowait" THEN "returned" ELSE "iterate")
  /\ IF handle = "closing"
     THEN /\ handle' = "closed"
          /\ stopFlag' = (mode = "default")
          /\ data' = "null"
     ELSE UNCHANGED <<handle, stopFlag, data>>
  /\ UNCHANGED <<status, pending, mode, queueVars, callVars>>

-----------------------------------------------------------------------------
(* Async::realProcess.                                                     *)

\* Fault: the lambda of stop() closes nothing.
AsyncNotClosed == UNCHANGED handle

\* Async::close: the callback it stores is always the one of stop().
AsyncClose == handle' = IF handle = "open" THEN "closing" ELSE handle

\* Fault: the queue is copied and not emptied.
CopyQueue ==
  /\ LoopGoto("swap", "process")
  /\ batch' = cbQue
  /\ UNCHANGED <<status, data, handle, pending, stopFlag, mode, cbQue, posted, ran, callVars>>

SwapQueue ==
  /\ LoopGoto("swap", "process")
  /\ batch' = cbQue
  /\ cbQue' = <<>>
  /\ UNCHANGED <<status, data, handle, pending, stopFlag, mode, posted, ran, callVars>>

\* Fault: the batch is run from its end.
StartLast ==
  /\ LoopGoto("process", "callback")
  /\ batch # <<>>
  /\ ran' = Append(ran, batch[Len(batch)])
  /\ IF batch[Len(batch)] \in Closer THEN AsyncClose ELSE UNCHANGED handle
  /\ UNCHANGED <<status, data, pending, stopFlag, mode, cbQue, batch, posted, callVars>>

\* The callback is called while it is still the head of tmpCallbacks.
StartCallback ==
  /\ LoopGoto("process", "callback")
  /\ batch # <<>>
  /\ ran' = Append(ran, Head(batch))
  /\ IF Head(batch) \in Closer THEN AsyncClose ELSE UNCHANGED handle
  /\ UNCHANGED <<status, data, pending, stopFlag, mode, cbQue, batch, posted, callVars>>

EndCallback ==
  /\ LoopGoto("callback", "process")
  /\ pc[Runner] = "idle"
  /\ batch' = Tail(batch)
  /\ UNCHANGED <<status, data, handle, pending, stopFlag, mode, cbQue, posted, ran, callVars>>

BatchDone ==
  /\ LoopGoto("process", "closings")
  /\ batch = <<>>
  /\ UNCHANGED <<status, data, handle, pending, stopFlag, mode, queueVars, callVars>>

-----------------------------------------------------------------------------
(* The calls.  Runner calls from inside the callbacks it runs, or while it *)
(* is not in run(); any other thread calls at any time.                    *)

CanCall(t) ==
  /\ pc[t] = "idle"
  /\ t = Runner => lpc \in {"out", "callback", "otherCallback"}

Fresh(c) ==
  /\ \A i \in 1..Len(posted) : posted[i] # c
  /\ c \notin direct
  /\ \A u \in Threads : arg[u] # c

CallGoto(t, from, to) == pc[t] = from /\ pc' = [pc EXCEPT ![t] = to]

CallReturns(t, from) ==
  /\ CallGoto(t, from, "idle")
  /\ arg' = [arg EXCEPT ![t] = NoCallback]

RunInLoopEn(t, c) ==
  /\ CanCall(t) /\ Fresh(c) /\ c \notin Closer
  /\ CallGoto(t, "idle", "push")
  /\ arg' = [arg EXCEPT ![t] = c]
  /\ UNCHANGED <<loopVars, queueVars, direct>>

RunInLoop(t, c) ==
  /\ CanCall(t) /\ Fresh(c) /\ c \notin Closer
  /\ CallGoto(t, "idle", "isRunInLoopThread")
  /\ arg' = [arg EXCEPT ![t] = c]
  /\ UNCHANGED <<loopVars, queueVars, direct>>

\* Fault: stop() sets the status itself.
StopAtOnce(t, c) ==
  /\ CanCall(t) /\ Fresh(c) /\ c \in Closer
  /\ status = "Running" /\ status' = "Stop"
  /\ CallGoto(t, "idle", "isRunInLoopThread")
  /\ arg' = [arg EXCEPT ![t] = c]
  /\ UNCHANGED <<data, handle, pending, stopFlag, mode, lpc, queueVars, direct>>

\* stop() refuses (returns -1) a loop that is not running.
Stop(t, c) ==
  /\ CanCall(t) /\ Fresh(c) /\ c \in Closer
  /\ status = "Running"
  /\ CallGoto(t, "idle", "isRunInLoopThread")
  /\ arg' = [arg EXCEPT ![t] = c]
  /\ UNCHANGED <<loopVars, queueVars, direct>>

InLoopThread(t) == status = "Running" /\ t = Runner

\* Fault: the callback is moved out of the argument before the tests.
CheckThreadMoves(t) ==
  /\ CallGoto(t, "isRunInLoopThread", IF InLoopThread(t) THEN "func" ELSE "isStoped")
  /\ arg' = [arg EXCEPT ![t] = NoCallback]
  /\ UNCHANGED <<loopVars, queueVars, direct>>

\* runInLoop reads status twice: in isRunInLoopThread, then in isStoped.
CheckThread(t) ==
  /\ CallGoto(t, "isRunInLoopThread", IF InLoopThread(t) THEN "func" ELSE "isStoped")
  /\ UNCHANGED <<loopVars, queueVars, arg, direct>>

CheckStopped(t) ==
  /\ CallGoto(t, "isStoped", IF status = "Stop" THEN "func" ELSE "push")
  /\ UNCHANGED <<loopVars, queueVars, arg, direct>>

\* runInLoop runs the callback itself, on the thread that called it.
RunDirect(t) ==
  /\ CallReturns(t, "func")
  /\ direct' = direct \cup {arg[t]}
  /\ IF arg[t] \in Closer THEN AsyncClose ELSE UNCHANGED handle
  /\ UNCHANGED <<status, data, pending, stopFlag, mode, lpc, queueVars>>

\* Async::runInLoop: push under the mutex, look at data, send.
Push(t) ==
  /\ CallGoto(t, "push", "checkData")
  /\ cbQue' = Append(cbQue, arg[t])
  /\ posted' = Append(posted, arg[t])
  /\ UNCHANGED <<loopVars, batch, ran, arg, direct>>

\* Fault: only a running loop is woken.
WakeRunning(t) ==
  /\ data = "this"
  /\ IF status = "Running" THEN CallGoto(t, "checkData", "send") /\ UNCHANGED arg
                           ELSE CallReturns(t, "checkData")
  /\ UNCHANGED <<loopVars, queueVars, direct>>

DataIsThis(t) ==
  /\ data = "this"
  /\ CallGoto(t, "checkData", "send")
  /\ UNCHANGED <<loopVars, queueVars, arg, direct>>

DataIsNotThis(t) ==
  /\ data # "this"
  /\ CallReturns(t, "checkData")
  /\ UNCHANGED <<loopVars, queueVars, direct>>

Send(t) ==
  /\ CallReturns(t, "send")
  /\ pending' = TRUE
  /\ UNCHANGED <<status, data, handle, stopFlag, mode, lpc, queueVars, direct>>

-----------------------------------------------------------------------------

\* What Runner does by itself once it is in run().
LoopStep ==
  \/ InitSkip \/ InitHandle \/ InitSetData \/ InitSend
  \/ SetRunning \/ SetStopped
  \/ UvIterate \/ UvReturn \/ UvPoll \/ UvOtherDone
  \/ UvAsyncCallback \/ UvNoAsync \/ UvClosings
  \/ SwapQueue \/ StartCallback \/ EndCallback \/ BatchDone

\* What a thread does by itself once it is in a call.
CallStep(t) ==
  \/ CheckThread(t) \/ CheckStopped(t) \/ RunDirect(t)
  \/ Push(t) \/ DataIsThis(t) \/ DataIsNotThis(t) \/ Send(t)

Enter(t) == \E c \in Callback : RunInLoopEn(t, c) \/ RunInLoop(t, c) \/ Stop(t, c)

Next ==
  \/ EnterRun \/ EnterRunNoWait \/ UvOtherEvent
  \/ LoopStep
  \/ \E t \in Threads : Enter(t) \/ CallStep(t)

Spec == Init /\ [][Next]_vars

\* libuv keeps a running loop going and a thread finishes the call it is in.
\* Nothing obliges a program to call run(), stop() or runInLoop().
Fairness ==
  /\ WF_vars(LoopStep)
  /\ \A t \in Threads : WF_vars(CallStep(t))

FairSpec == Spec /\ Fairness

-----------------------------------------------------------------------------
(* Properties.                                                             *)

Places == {"out", "init", "setData", "initSend", "setRunning", "iterate", "poll",
           "otherCallback", "async", "swap", "process", "callback", "closings",
           "returned"}
CallPlaces == {"idle", "isRunInLoopThread", "isStoped", "func", "push", "checkData", "send"}

\* The variables of EventLoop and Async hold values of their types.
TypeOK ==
  /\ status \in {"NotRun", "Running", "Stop"}
  /\ data \in {"other", "this", "null"}
  /\ handle \in {"raw", "open", "closing", "closed"}
  /\ pending \in BOOLEAN /\ stopFlag \in BOOLEAN
  /\ mode \in {"default", "nowait"}
  /\ lpc \in Places
  /\ cbQue \in Seq(Callback) /\ batch \in Seq(Callback)
  /\ posted \in Seq(Callback) /\ ran \in Seq(Callback)
  /\ pc \in [Threads -> CallPlaces]
  /\ arg \in [Threads -> Callback \cup {NoCallback}]
  /\ direct \subseteq Callback

\* The callbacks of the batch that have not been started.
Unstarted == IF lpc = "callback" THEN Tail(batch) ELSE batch

\* Nothing handed to the queue is lost, duplicated or reordered by the swap of
\* the queue, by callbacks that hand over more, by stop() or by a new run().
NothingLost == posted = ran \o Unstarted \o cbQue

\* A loop with an open handle never sleeps on a filled queue: it is marked
\* pending, or it or some thread is between the push and the send.  This is
\* what the unsynchronised test of uvHandle.data in Async::runInLoop rests on.
NoLostWakeup ==
  handle = "open" /\ cbQue # <<>> =>
    \/ pending
    \/ lpc \in {"setData", "initSend", "swap"}
    \/ \E t \in Threads : pc[t] \in {"checkData", "send"}

\* Async::init initialises the handle again only once libuv has let go of it:
\* uvHandle.data stops naming the Async no sooner than the close completes.
ReinitOnlyClosed ==
  lpc = "init" /\ data # "this" => handle \in {"raw", "closed"}

\* A callback that was queued is started in run(), while status says so.
QueuedRunInLoop ==
  [][ran' # ran => status = "Running" /\ lpc = "process"]_vars

\* Exactly-once, in-order execution: EventLoop implements CallbackQueue.
Queue == INSTANCE CallbackQueue WITH Callback <- Callback, posted <- posted, ran <- ran
ImplementsQueue == Queue!Spec

\* A stop request was made while the loop was running.
StopAsked == \E c \in Closer : ~Fresh(c)

\* A callback that waits in the queue of a loop in run() is eventually started,
\* unless a thread asks that loop to stop.
QueuedIsRun ==
  \A c \in Callback :
    (\E i \in 1..Len(cbQue) : cbQue[i] = c) /\ lpc # "out" /\ mode = "default"
      ~> StopAsked \/ \E i \in 1..Len(ran) : ran[i] = c

\* A stop() that did not refuse eventually makes run() return.
StopReturns ==
  \A t \in Threads :
    pc[t] = "isRunInLoopThread" /\ arg[t] \in Closer ~> status # "Running"
=============================================================================
