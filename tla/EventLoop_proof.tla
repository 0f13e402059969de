--------------------------- MODULE EventLoop_proof ---------------------------
(***************************************************************************)
(* Theorems about EventLoop, for any threads, callbacks and initial value  *)
(* of the unset field.                                                     *)
(***************************************************************************)
EXTENDS EventLoop, TLAPS

-----------------------------------------------------------------------------
(* Sequences.                                                              *)

\* The head of the second of three sequences can be moved to the first.
LEMMA MoveHead ==
  \A r, b, q \in Seq(Callback) :
    b # <<>> => Append(r, Head(b)) \o Tail(b) \o q = r \o b \o q
  OBVIOUS

\* It is the element that follows the first sequence.
LEMMA NextElement ==
  \A r, b, q \in Seq(Callback) :
    b # <<>> => /\ Len(r) < Len(r \o b \o q)
                /\ (r \o b \o q)[Len(r) + 1] = Head(b)
  OBVIOUS

\* An empty batch can take the place of the queue: the swap of the queue.
LEMMA ShiftQueue ==
  \A r, q \in Seq(Callback) : r \o <<>> \o q = r \o q \o <<>>
  OBVIOUS

\* Appending to the last of the sequences appends to the whole.
LEMMA AppendToConcat ==
  \A x, q \in Seq(Callback) : \A e \in Callback : Append(x \o q, e) = x \o Append(q, e)
  OBVIOUS

\* Appending to the queue appends to all that was handed over.
LEMMA PushLast ==
  \A r, b, q \in Seq(Callback) : \A e \in Callback :
    Append(r \o b \o q, e) = r \o b \o Append(q, e)
<1>. SUFFICES ASSUME NEW r \in Seq(Callback), NEW b \in Seq(Callback),
                     NEW q \in Seq(Callback), NEW e \in Callback
              PROVE  Append(r \o b \o q, e) = r \o b \o Append(q, e)
  OBVIOUS
<1>1. r \o b \in Seq(Callback)
  OBVIOUS
<1>. QED  BY <1>1, AppendToConcat, Zenon

-----------------------------------------------------------------------------
(* The inductive invariant.                                                *)

\* run() reports Running exactly as long as it is in uv_run.
RunningInv ==
  lpc \in {"iterate", "poll", "otherCallback", "async", "swap", "process",
           "callback", "closings", "returned"} => status = "Running"

\* uvHandle.data names the Async as long as libuv holds the handle, but for
\* the moment between uv_async_init and the assignment.
HandleInv ==
  /\ handle \in {"open", "closing"} => data = "this" \/ lpc = "setData"
  /\ lpc = "setData" => handle \in {"open", "closing"} /\ data # "this"

\* tmpCallbacks lives inside realProcess only.
BatchInv ==
  /\ lpc \notin {"process", "callback"} => batch = <<>>
  /\ lpc = "callback" => batch # <<>>

\* A call between its entry and the push holds a callback of its own.
Holding == {"isRunInLoopThread", "isStoped", "func", "push"}
CallInv ==
  /\ \A t \in Threads : pc[t] = "idle" => arg[t] = NoCallback
  /\ \A t \in Threads : pc[t] # "idle" => arg[t] \in Callback
  /\ \A t, u \in Threads : t # u /\ arg[t] = arg[u] => arg[t] = NoCallback
  /\ \A t \in Threads : pc[t] \in Holding => \A i \in 1..Len(posted) : posted[i] # arg[t]

IInv == TypeOK /\ RunningInv /\ HandleInv /\ BatchInv /\ NothingLost /\ NoLostWakeup

-----------------------------------------------------------------------------

\* The loop is constructed with values of the types.
LEMMA TypeInit == Init => TypeOK
<1>. SUFFICES ASSUME Init PROVE TypeOK
  OBVIOUS
<1>1. data \in {"other", "this", "null"}
  BY DataAssumption DEF Init
<1>2. pc \in [Threads -> CallPlaces] /\ arg \in [Threads -> Callback \cup {NoCallback}]
  BY DEF Init, CallPlaces
<1>3. lpc \in Places
  BY DEF Init, Places
<1>4. /\ cbQue \in Seq(Callback) /\ batch \in Seq(Callback)
      /\ posted \in Seq(Callback) /\ ran \in Seq(Callback)
      /\ direct \subseteq Callback
  BY DEF Init
<1>5. /\ status \in {"NotRun", "Running", "Stop"}
      /\ handle \in {"raw", "open", "closing", "closed"}
      /\ pending \in BOOLEAN /\ stopFlag \in BOOLEAN
      /\ mode \in {"default", "nowait"}
  BY DEF Init
<1>. QED  BY <1>1, <1>2, <1>3, <1>4, <1>5 DEF TypeOK

\* Every step keeps the types.
LEMMA TypeNext == TypeOK /\ BatchInv /\ CallInv /\ [Next]_vars => TypeOK'
<1>. SUFFICES ASSUME TypeOK, BatchInv, CallInv, [Next]_vars
              PROVE  TypeOK'
  OBVIOUS
<1>. USE DEF TypeOK, Places, CallPlaces, LoopGoto, CallGoto, CallReturns, loopVars, queueVars, callVars, AsyncClose
<1>1. CASE UNCHANGED vars
  BY <1>1 DEF vars
<1>2. CASE EnterRun \/ EnterRunNoWait \/ UvOtherEvent
  <2>1. CASE EnterRun
    BY <2>1 DEF EnterRun
  <2>2. CASE EnterRunNoWait
    BY <2>2 DEF EnterRunNoWait
  <2>3. CASE UvOtherEvent
    BY <2>3 DEF UvOtherEvent
  <2>. QED  BY <1>2, <2>1, <2>2, <2>3
<1>3. CASE InitSkip \/ InitHandle \/ InitSetData \/ InitSend \/ SetRunning \/ SetStopped
  BY <1>3 DEF InitSkip, InitHandle, InitSetData, InitSend, SetRunning, SetStopped
<1>4. CASE UvIterate \/ UvReturn \/ UvPoll \/ UvOtherDone \/ UvAsyncCallback \/ UvNoAsync \/ UvClosings
  BY <1>4 DEF UvIterate, UvReturn, UvPoll, UvOtherDone, UvAsyncCallback, UvNoAsync, UvClosings
<1>5. CASE SwapQueue \/ BatchDone
  <2>1. CASE SwapQueue
    BY <2>1 DEF SwapQueue
  <2>2. CASE BatchDone
    BY <2>2 DEF BatchDone
  <2>. QED  BY <1>5, <2>1, <2>2
<1>6. CASE StartCallback
  <2>1. ran' \in Seq(Callback)
    BY <1>6 DEF StartCallback
  <2>. QED  BY <1>6, <2>1 DEF StartCallback
<1>7. CASE EndCallback
  <2>1. batch' \in Seq(Callback)
    BY <1>7 DEF EndCallback, BatchInv
  <2>. QED  BY <1>7, <2>1 DEF EndCallback
<1>8. ASSUME NEW t \in Threads, Enter(t)  PROVE TypeOK'
  BY <1>8 DEF Enter, RunInLoopEn, RunInLoop, Stop
<1>9. ASSUME NEW t \in Threads, CallStep(t)  PROVE TypeOK'
  <2>1. CASE CheckThread(t) \/ CheckStopped(t) \/ RunDirect(t)
    BY <1>9, <2>1 DEF CheckThread, CheckStopped, RunDirect, CallInv
  <2>2. CASE Push(t)
    <3>1. arg[t] \in Callback
      BY <2>2 DEF Push, CallInv
    <3>2. cbQue' \in Seq(Callback) /\ posted' \in Seq(Callback)
      BY <2>2, <3>1 DEF Push
    <3>. QED  BY <2>2, <3>2 DEF Push
  <2>3. CASE DataIsThis(t) \/ DataIsNotThis(t) \/ Send(t)
    BY <1>9, <2>3 DEF DataIsThis, DataIsNotThis, Send
  <2>. QED  BY <1>9, <2>1, <2>2, <2>3 DEF CallStep
<1>. QED  BY <1>1, <1>2, <1>3, <1>4, <1>5, <1>6, <1>7, <1>8, <1>9 DEF Next, LoopStep

\* No step of run(), stop() or a callback makes run() report a wrong status.
LEMMA RunningNext == RunningInv /\ [Next]_vars => RunningInv'
<1>. SUFFICES ASSUME RunningInv, [Next]_vars
              PROVE  RunningInv'
  OBVIOUS
<1>. USE DEF RunningInv, LoopGoto, loopVars
<1>1. CASE UNCHANGED vars
  BY <1>1 DEF vars
<1>2. CASE EnterRun \/ EnterRunNoWait \/ UvOtherEvent
  BY <1>2 DEF EnterRun, EnterRunNoWait, UvOtherEvent
<1>3. CASE LoopStep
  BY <1>3 DEF LoopStep, InitSkip, InitHandle, InitSetData, InitSend, SetRunning, SetStopped,
              UvIterate, UvReturn, UvPoll, UvOtherDone, UvAsyncCallback, UvNoAsync,
              UvClosings, SwapQueue, StartCallback, EndCallback, BatchDone
<1>4. ASSUME NEW t \in Threads, Enter(t) \/ CallStep(t)
      PROVE  UNCHANGED <<lpc, status>>
  BY <1>4 DEF Enter, CallStep, RunInLoopEn, RunInLoop, Stop, CheckThread, CheckStopped,
              RunDirect, Push, DataIsThis, DataIsNotThis, Send
<1>. QED  BY <1>1, <1>2, <1>3, <1>4 DEF Next

\* Every step keeps data and libuv in agreement about the handle.
LEMMA HandleNext == HandleInv /\ [Next]_vars => HandleInv'
<1>. SUFFICES ASSUME HandleInv, [Next]_vars
              PROVE  HandleInv'
  OBVIOUS
<1>. USE DEF HandleInv, LoopGoto, loopVars, AsyncClose
<1>1. CASE UNCHANGED vars
  BY <1>1 DEF vars
<1>2. CASE EnterRun \/ EnterRunNoWait \/ UvOtherEvent
  BY <1>2 DEF EnterRun, EnterRunNoWait, UvOtherEvent
<1>3. CASE LoopStep
  BY <1>3 DEF LoopStep, InitSkip, InitHandle, InitSetData, InitSend, SetRunning, SetStopped,
              UvIterate, UvReturn, UvPoll, UvOtherDone, UvAsyncCallback, UvNoAsync,
              UvClosings, SwapQueue, StartCallback, EndCallback, BatchDone
<1>4. ASSUME NEW t \in Threads, Enter(t) \/ CallStep(t)
      PROVE  HandleInv'
  BY <1>4 DEF Enter, CallStep, RunInLoopEn, RunInLoop, Stop, CheckThread, CheckStopped,
              RunDirect, Push, DataIsThis, DataIsNotThis, Send
<1>. QED  BY <1>1, <1>2, <1>3, <1>4 DEF Next

\* Every step keeps tmpCallbacks inside realProcess.
LEMMA BatchNext == TypeOK /\ BatchInv /\ [Next]_vars => BatchInv'
<1>. SUFFICES ASSUME TypeOK, BatchInv, [Next]_vars
              PROVE  BatchInv'
  OBVIOUS
<1>. USE DEF BatchInv, LoopGoto, loopVars, queueVars
<1>1. CASE UNCHANGED vars
  BY <1>1 DEF vars
<1>2. CASE EnterRun \/ EnterRunNoWait \/ UvOtherEvent
  BY <1>2 DEF EnterRun, EnterRunNoWait, UvOtherEvent
<1>3. CASE LoopStep
  BY <1>3 DEF LoopStep, InitSkip, InitHandle, InitSetData, InitSend, SetRunning, SetStopped,
              UvIterate, UvReturn, UvPoll, UvOtherDone, UvAsyncCallback, UvNoAsync,
              UvClosings, SwapQueue, StartCallback, EndCallback, BatchDone
<1>4. ASSUME NEW t \in Threads, Enter(t) \/ CallStep(t)
      PROVE  UNCHANGED <<lpc, batch>>
  BY <1>4 DEF Enter, CallStep, RunInLoopEn, RunInLoop, Stop, CheckThread, CheckStopped,
              RunDirect, Push, DataIsThis, DataIsNotThis, Send
<1>. QED  BY <1>1, <1>2, <1>3, <1>4 DEF Next

\* No step of Runner touches the calls.
LEMMA LoopKeepsCalls ==
  ASSUME EnterRun \/ EnterRunNoWait \/ UvOtherEvent \/ LoopStep
  PROVE  UNCHANGED <<pc, arg, direct, posted>>
BY DEF callVars, queueVars, EnterRun, EnterRunNoWait, UvOtherEvent, LoopStep, InitSkip,
       InitHandle, InitSetData, InitSend, SetRunning, SetStopped, UvIterate, UvReturn,
       UvPoll, UvOtherDone, UvAsyncCallback, UvNoAsync, UvClosings, SwapQueue,
       StartCallback, EndCallback, BatchDone

\* Every step keeps the argument of a call with the call.
LEMMA CallNext == TypeOK /\ CallInv /\ [Next]_vars => CallInv'
<1>. SUFFICES ASSUME TypeOK, CallInv, [Next]_vars
              PROVE  CallInv'
  OBVIOUS
<1>. USE NoCallbackAssumption DEF CallInv, Holding, TypeOK, CallPlaces
<1>1. CASE UNCHANGED vars
  BY <1>1 DEF vars, callVars, queueVars
<1>2. CASE EnterRun \/ EnterRunNoWait \/ UvOtherEvent \/ LoopStep
  BY <1>2, LoopKeepsCalls
<1>3. ASSUME NEW t \in Threads, Enter(t)
      PROVE  CallInv'
  <2>1. PICK c \in Callback : /\ pc[t] = "idle" /\ Fresh(c)
                              /\ pc' \in {[pc EXCEPT ![t] = "push"], [pc EXCEPT ![t] = "isRunInLoopThread"]}
                              /\ arg' = [arg EXCEPT ![t] = c]
                              /\ posted' = posted
    BY <1>3 DEF Enter, RunInLoopEn, RunInLoop, Stop, CanCall, CallGoto, queueVars
  <2>. QED  BY <2>1 DEF Fresh
<1>4. ASSUME NEW t \in Threads, CallStep(t)
      PROVE  CallInv'
  <2>1. CASE CheckThread(t) \/ CheckStopped(t) \/ DataIsThis(t)
    BY <2>1 DEF CheckThread, CheckStopped, DataIsThis, CallGoto, queueVars
  <2>2. CASE RunDirect(t) \/ DataIsNotThis(t) \/ Send(t)
    <3>1. /\ pc' = [pc EXCEPT ![t] = "idle"]
          /\ arg' = [arg EXCEPT ![t] = NoCallback]
          /\ posted' = posted
      BY <2>2 DEF RunDirect, DataIsNotThis, Send, CallReturns, CallGoto, queueVars
    <3>. QED  BY <3>1
  <2>3. CASE Push(t)
    <3>1. /\ pc' = [pc EXCEPT ![t] = "checkData"] /\ pc[t] = "push"
          /\ arg' = arg /\ arg[t] \in Callback /\ posted' = Append(posted, arg[t])
      BY <2>3 DEF Push, CallGoto
    <3>2. \A i \in 1..Len(posted') : posted'[i] = arg[t] \/ \E j \in 1..Len(posted) : posted'[i] = posted[j]
      BY <3>1
    <3>. QED  BY <3>1, <3>2
  <2>. QED  BY <1>4, <2>1, <2>2, <2>3 DEF CallStep
<1>. QED  BY <1>1, <1>2, <1>3, <1>4 DEF Next

\* Starting a callback moves it from the batch to the started ones.
LEMMA StartingKeepsOrder ==
  ASSUME TypeOK, batch # <<>>
  PROVE  Append(ran, Head(batch)) \o Tail(batch) \o cbQue = ran \o batch \o cbQue
BY MoveHead, Zenon DEF TypeOK

\* Async::runInLoop adds its callback behind all that wait.
LEMMA PushingKeepsOrder ==
  ASSUME TypeOK, BatchInv, NEW e \in Callback
  PROVE  Append(ran \o Unstarted \o cbQue, e) = ran \o Unstarted \o Append(cbQue, e)
<1>1. ran \in Seq(Callback) /\ cbQue \in Seq(Callback) /\ Unstarted \in Seq(Callback)
  BY DEF TypeOK, BatchInv, Unstarted
<1>. QED  BY <1>1, PushLast, Zenon

\* No step loses, repeats or reorders a callback.
LEMMA NothingLostNext ==
  TypeOK /\ BatchInv /\ CallInv /\ NothingLost /\ [Next]_vars => NothingLost'
<1>. SUFFICES ASSUME TypeOK, BatchInv, CallInv, NothingLost, [Next]_vars
              PROVE  NothingLost'
  OBVIOUS
<1>. USE DEF NothingLost
<1>1. CASE UNCHANGED vars
  BY <1>1 DEF vars, loopVars, queueVars, Unstarted
<1>2. CASE EnterRun \/ EnterRunNoWait \/ UvOtherEvent
  BY <1>2 DEF EnterRun, EnterRunNoWait, UvOtherEvent, LoopGoto, queueVars, Unstarted
<1>3. CASE LoopStep
  <2>1. CASE SwapQueue
    <3>1. posted = ran \o <<>> \o cbQue
      BY <2>1 DEF SwapQueue, LoopGoto, BatchInv, Unstarted
    <3>2. posted' = posted /\ ran' = ran /\ cbQue' = <<>> /\ Unstarted' = cbQue
      BY <2>1 DEF SwapQueue, LoopGoto, Unstarted
    <3>3. ran \o <<>> \o cbQue = ran \o cbQue \o <<>>
      BY ShiftQueue DEF TypeOK
    <3>. QED  BY <3>1, <3>2, <3>3
  <2>2. CASE StartCallback
    <3>1. posted' = posted /\ ran' = Append(ran, Head(batch)) /\ cbQue' = cbQue
          /\ Unstarted' = Tail(batch) /\ Unstarted = batch /\ batch # <<>>
      BY <2>2 DEF StartCallback, LoopGoto, Unstarted
    <3>. QED  BY <3>1, StartingKeepsOrder
  <2>3. CASE EndCallback
    BY <2>3 DEF EndCallback, LoopGoto, Unstarted
  <2>4. CASE InitSkip \/ InitHandle \/ InitSetData \/ InitSend \/ SetRunning \/ SetStopped
    BY <2>4 DEF InitSkip, InitHandle, InitSetData, InitSend, SetRunning, SetStopped,
                LoopGoto, queueVars, Unstarted
  <2>5. CASE UvIterate \/ UvReturn \/ UvPoll \/ UvOtherDone \/ UvAsyncCallback
             \/ UvNoAsync \/ UvClosings \/ BatchDone
    BY <2>5 DEF UvIterate, UvReturn, UvPoll, UvOtherDone, UvAsyncCallback, UvNoAsync,
                UvClosings, BatchDone, LoopGoto, queueVars, Unstarted
  <2>. QED  BY <1>3, <2>1, <2>2, <2>3, <2>4, <2>5 DEF LoopStep
<1>4. ASSUME NEW t \in Threads, Enter(t)
      PROVE  NothingLost'
  BY <1>4 DEF Enter, RunInLoopEn, RunInLoop, Stop, loopVars, queueVars, Unstarted
<1>5. ASSUME NEW t \in Threads, CallStep(t)
      PROVE  NothingLost'
  <2>1. CASE Push(t)
    <3>1. /\ posted' = Append(posted, arg[t]) /\ cbQue' = Append(cbQue, arg[t])
          /\ ran' = ran /\ Unstarted' = Unstarted /\ arg[t] \in Callback
      BY <2>1 DEF Push, CallGoto, loopVars, CallInv, Unstarted
    <3>. QED  BY <3>1, PushingKeepsOrder
  <2>2. CASE CheckThread(t) \/ CheckStopped(t) \/ RunDirect(t) \/ DataIsThis(t)
             \/ DataIsNotThis(t) \/ Send(t)
    BY <2>2 DEF CheckThread, CheckStopped, RunDirect, DataIsThis, DataIsNotThis, Send,
                loopVars, queueVars, Unstarted
  <2>. QED  BY <1>5, <2>1, <2>2 DEF CallStep
<1>. QED  BY <1>1, <1>2, <1>3, <1>4, <1>5 DEF Next

\* No step leaves a filled queue without somebody who wakes the loop.
LEMMA NoLostWakeupNext ==
  TypeOK /\ HandleInv /\ NoLostWakeup /\ [Next]_vars => NoLostWakeup'
<1>. SUFFICES ASSUME TypeOK, HandleInv, NoLostWakeup, [Next]_vars
              PROVE  NoLostWakeup'
  OBVIOUS
<1>. USE DEF NoLostWakeup, HandleInv
<1>1. CASE UNCHANGED vars
  BY <1>1 DEF vars, loopVars, queueVars, callVars
<1>2. CASE EnterRun \/ EnterRunNoWait \/ UvOtherEvent
  BY <1>2 DEF EnterRun, EnterRunNoWait, UvOtherEvent, LoopGoto, queueVars, callVars
<1>3. CASE LoopStep
  <2>1. CASE InitSkip \/ InitHandle \/ InitSetData \/ InitSend \/ SetRunning \/ SetStopped
    BY <2>1 DEF InitSkip, InitHandle, InitSetData, InitSend, SetRunning, SetStopped,
                LoopGoto, queueVars, callVars
  <2>2. CASE UvIterate \/ UvReturn \/ UvPoll \/ UvOtherDone \/ UvAsyncCallback \/ UvNoAsync
    BY <2>2 DEF UvIterate, UvReturn, UvPoll, UvOtherDone, UvAsyncCallback, UvNoAsync,
                Wakeable, LoopGoto, queueVars, callVars
  <2>3. CASE UvClosings \/ SwapQueue \/ StartCallback \/ EndCallback \/ BatchDone
    BY <2>3 DEF UvClosings, SwapQueue, StartCallback, EndCallback, BatchDone, AsyncClose,
                LoopGoto, queueVars, callVars
  <2>. QED  BY <1>3, <2>1, <2>2, <2>3 DEF LoopStep
<1>4. ASSUME NEW t \in Threads, Enter(t)
      PROVE  NoLostWakeup'
  <2>1. /\ pc[t] = "idle" /\ UNCHANGED <<loopVars, queueVars>>
        /\ \A u \in Threads \ {t} : pc'[u] = pc[u]
    BY <1>4 DEF Enter, RunInLoopEn, RunInLoop, Stop, CanCall, CallGoto, TypeOK
  <2>. QED  BY <2>1 DEF loopVars, queueVars
<1>5. ASSUME NEW t \in Threads, CallStep(t)
      PROVE  NoLostWakeup'
  <2>. USE DEF CallGoto, CallReturns, TypeOK
  <2>1. CASE CheckThread(t) \/ CheckStopped(t)
    BY <2>1 DEF CheckThread, CheckStopped, loopVars, queueVars
  <2>2. CASE RunDirect(t)
    BY <2>2 DEF RunDirect, AsyncClose, queueVars
  <2>3. CASE Push(t)
    BY <2>3 DEF Push, loopVars
  <2>4. CASE DataIsThis(t)
    BY <2>4 DEF DataIsThis, loopVars, queueVars
  <2>5. CASE DataIsNotThis(t)
    BY <2>5 DEF DataIsNotThis, loopVars, queueVars
  <2>6. CASE Send(t)
    BY <2>6 DEF Send
  <2>. QED  BY <1>5, <2>1, <2>2, <2>3, <2>4, <2>5, <2>6 DEF CallStep
<1>. QED  BY <1>1, <1>2, <1>3, <1>4, <1>5 DEF Next

-----------------------------------------------------------------------------
(* The theorems.                                                           *)

\* The invariants hold when the loop is constructed.
LEMMA InvInit == Init => IInv /\ CallInv
  BY TypeInit DEF Init, IInv, RunningInv, HandleInv, BatchInv, CallInv, Holding,
                  NothingLost, Unstarted, NoLostWakeup

\* Every step keeps the invariants.
LEMMA InvNext == IInv /\ CallInv /\ [Next]_vars => (IInv /\ CallInv)'
  BY TypeNext, RunningNext, HandleNext, BatchNext, CallNext, NothingLostNext,
     NoLostWakeupNext DEF IInv

\* The invariants hold in every state of a loop and its callers.
THEOREM Invariance == Spec => [](IInv /\ CallInv)
<1>. QED  BY InvInit, InvNext, PTL DEF Spec

\* The variables of EventLoop and Async hold values of their types.
THEOREM TypeCorrect == Spec => []TypeOK
  BY Invariance, PTL DEF IInv

\* No callback handed to the queue is lost, duplicated or reordered, whatever
\* threads post, whenever the loop is stopped and run again.
THEOREM NothingIsLost == Spec => []NothingLost
  BY Invariance, PTL DEF IInv

\* A filled queue of an open handle always has a wake-up on its way.
THEOREM WakeupsAreNotLost == Spec => []NoLostWakeup
  BY Invariance, PTL DEF IInv

\* Async::init never initialises a handle that libuv still holds.
THEOREM HandleIsReinitialisedClosed == Spec => []ReinitOnlyClosed
<1>1. IInv => ReinitOnlyClosed
  BY DEF IInv, TypeOK, HandleInv, ReinitOnlyClosed
<1>. QED  BY <1>1, Invariance, PTL

\* A callback taken from the queue is started in realProcess, while the loop
\* runs, and nowhere else.
THEOREM QueuedRunsInLoop == Spec => QueuedRunInLoop
<1>1. IInv /\ [Next]_vars => [ran' # ran => status = "Running" /\ lpc = "process"]_vars
  <2>. SUFFICES ASSUME IInv, Next, ran' # ran
                PROVE  status = "Running" /\ lpc = "process"
    BY DEF vars
  <2>1. ~(EnterRun \/ EnterRunNoWait \/ UvOtherEvent)
    BY DEF EnterRun, EnterRunNoWait, UvOtherEvent, queueVars
  <2>2. ASSUME NEW t \in Threads PROVE ~Enter(t) /\ ~CallStep(t)
    BY DEF Enter, CallStep, RunInLoopEn, RunInLoop, Stop, CheckThread, CheckStopped,
           RunDirect, Push, DataIsThis, DataIsNotThis, Send, queueVars
  <2>3. LoopStep
    BY <2>1, <2>2 DEF Next
  <2>4. StartCallback
    BY <2>3 DEF LoopStep, InitSkip, InitHandle, InitSetData, InitSend, SetRunning, SetStopped,
                UvIterate, UvReturn, UvPoll, UvOtherDone, UvAsyncCallback, UvNoAsync,
                UvClosings, SwapQueue, EndCallback, BatchDone, queueVars
  <2>. QED  BY <2>4 DEF StartCallback, LoopGoto, IInv, RunningInv
<1>. QED  BY <1>1, Invariance, PTL DEF QueuedRunInLoop, Spec

\* The queue of an EventLoop implements CallbackQueue: each callback handed
\* over is started at most once, in the order of the pushes.
THEOREM Implementation == Spec => ImplementsQueue
<1>1. Init => Queue!Init
  BY DEF Init, Queue!Init
<1>2. IInv /\ CallInv /\ [Next]_vars => [Queue!Next]_Queue!vars
  <2>. SUFFICES ASSUME IInv, CallInv, [Next]_vars
                PROVE  Queue!Next \/ UNCHANGED <<posted, ran>>
    BY DEF Queue!vars
  <2>1. CASE UNCHANGED vars
    BY <2>1 DEF vars, queueVars
  <2>2. CASE EnterRun \/ EnterRunNoWait \/ UvOtherEvent
    BY <2>2 DEF EnterRun, EnterRunNoWait, UvOtherEvent, queueVars
  <2>3. CASE StartCallback
    <3>1. /\ ran' = Append(ran, Head(batch)) /\ posted' = posted
          /\ batch # <<>> /\ posted = ran \o batch \o cbQue
      BY <2>3 DEF StartCallback, LoopGoto, IInv, NothingLost, Unstarted
    <3>2. Len(ran) < Len(posted) /\ posted[Len(ran) + 1] = Head(batch)
      BY <3>1, NextElement, Zenon DEF IInv, TypeOK
    <3>3. Queue!Start
      BY <3>1, <3>2, Zenon DEF Queue!Start
    <3>. QED  BY <3>3 DEF Queue!Next
  <2>4. CASE LoopStep /\ ~StartCallback
    BY <2>4 DEF LoopStep, InitSkip, InitHandle, InitSetData, InitSend, SetRunning, SetStopped,
                UvIterate, UvReturn, UvPoll, UvOtherDone, UvAsyncCallback, UvNoAsync,
                UvClosings, SwapQueue, EndCallback, BatchDone, queueVars
  <2>5. ASSUME NEW t \in Threads, Enter(t) \/ CallStep(t), ~Push(t)
        PROVE  UNCHANGED <<posted, ran>>
    BY <2>5 DEF Enter, CallStep, RunInLoopEn, RunInLoop, Stop, CheckThread, CheckStopped,
                RunDirect, DataIsThis, DataIsNotThis, Send, queueVars
  <2>6. ASSUME NEW t \in Threads, Push(t)
        PROVE  Queue!Next
    <3>1. /\ pc[t] = "push" /\ arg[t] \in Callback
          /\ posted' = Append(posted, arg[t]) /\ UNCHANGED ran
      BY <2>6 DEF Push, CallGoto, CallInv
    <3>2. Queue!Post(arg[t])
      BY <3>1 DEF Queue!Post, CallInv, Holding
    <3>. QED  BY <3>1, <3>2 DEF Queue!Next
  <2>. QED  BY <2>1, <2>2, <2>3, <2>4, <2>5, <2>6 DEF Next
<1>. QED  BY <1>1, <1>2, Invariance, PTL DEF Spec, ImplementsQueue, Queue!Spec
=============================================================================
