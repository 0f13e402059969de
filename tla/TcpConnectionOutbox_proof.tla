---------------------- MODULE TcpConnectionOutbox_proof ----------------------
(***************************************************************************)
(* TcpConnection keeps the promise of Outbox, for any threads, tasks and   *)
(* requests: what a step does to the queues, to the calls and to the       *)
(* histories, seen from the request and the task it is about.              *)
(***************************************************************************)
EXTENDS TcpConnection_proof

\* The requests that wait to be written, and all that are in use.
Queued == ToSet(sendQue) \cup ToSet(temp) \cup ToSet(writes)
Used == Queued \cup Owned(calls) \cup HeldReqs(held)

\* A call that no request depends on, but perhaps to go back to the pool.
Quiet(x) == x.op \notin {"pushinQue", "pushbackQue"} /\ (x.op = "afterWrite" => x.ok)

LEMMA ToSetSome ==
  /\ \A x : ToSet(<<x>>) = {x}
  /\ \A x, y : ToSet(<<x, y>>) = {x, y}
  /\ ToSet(<<>>) = {}
<1>1. \A x : DOMAIN <<x>> = {1} /\ <<x>>[1] = x
  OBVIOUS
<1>2. \A x, y : DOMAIN <<x, y>> = {1, 2} /\ <<x, y>>[1] = x /\ <<x, y>>[2] = y
  OBVIOUS
<1>. QED  BY <1>1, <1>2 DEF ToSet

\* A step returns from a call, or puts calls in front.
LEMMA CallsForm ==
  ASSUME Types, NEW c, c = calls', NEW n \in Seq(CallType),
         \/ Enters(n)
         \/ ReturnsTo(n) /\ ~Idle
         \/ calls' = n \o calls
  PROVE  /\ ToSet(c) \subseteq ToSet(n) \cup ToSet(calls)
         /\ (Enters(n) \/ (ReturnsTo(n) /\ Head(calls).op # "realSend") \/ calls' = n \o calls) =>
              \A x \in ToSet(calls) : x.op = "realSend" => x \in ToSet(c)
<1>1. calls \in Seq(CallType)
  BY DEF Types, ThreadTypes
<1>2. CASE Enters(n)
  BY <1>2, ToSetSome DEF Enters, Idle
<1>3. CASE ReturnsTo(n) /\ ~Idle
  <2>1. PICK t : t = Tail(calls)
    OBVIOUS
  <2>2. t \in Seq(CallType) /\ ToSet(calls) = ToSet(t) \cup {Head(calls)}
    BY <1>1, <1>3, <2>1, Tailing DEF Idle
  <2>3. c = n \o t
    BY <1>3, <2>1 DEF ReturnsTo
  <2>4. ToSet(c) = ToSet(n) \cup ToSet(t)
    BY <2>2, <2>3, Joining
  <2>5. Head(calls).op # "realSend" => \A x \in ToSet(calls) : x.op = "realSend" => x \in ToSet(c)
    BY <2>2, <2>4
  <2>6. ToSet(c) \subseteq ToSet(n) \cup ToSet(calls)
    BY <2>2, <2>4
  <2>7. calls' = n \o calls => \A x \in ToSet(calls) : x \in ToSet(c)
    BY <1>1, Joining
  <2>8. Enters(n) => FALSE
    BY <1>3 DEF Enters
  <2>. QED  BY <2>5, <2>6, <2>7, <2>8
<1>4. CASE calls' = n \o calls
  <2>1. c = n \o calls
    BY <1>4
  <2>2. ToSet(c) = ToSet(n) \cup ToSet(calls)
    BY <1>1, <2>1, Joining
  <2>. QED  BY <2>2
<1>. QED  BY <1>2, <1>3, <1>4

\* What is new in the calls, and that a realSend stays until it runs.
LEMMA CallsStep ==
  ASSUME Types, [Next]_vars, NEW c, c = calls'
  PROVE  /\ ~SwapQue => \A x \in ToSet(calls) : x.op = "realSend" => x \in ToSet(c)
         /\ \A x \in ToSet(c) :
              \/ x \in ToSet(calls)
              \/ Quiet(x)
              \/ x.op = "pushinQue" /\ \E m \in Msg : x.req \in Req /\ UserSends(m, x.req)
              \/ /\ x.op = "afterWrite" /\ x.req \in ToSet(writes) /\ ~UvWritten
                 /\ task[x.req] \in failed'
              \/ /\ x.op = "pushbackQue" /\ AfterWrite /\ x.req = Head(calls).req
                 /\ ~Idle /\ Head(calls).op = "afterWrite" /\ ~Head(calls).ok
<1>. DEFINE News(x) ==
              \/ x \in ToSet(calls)
              \/ Quiet(x)
              \/ x.op = "pushinQue" /\ \E m \in Msg : x.req \in Req /\ UserSends(m, x.req)
              \/ /\ x.op = "afterWrite" /\ x.req \in ToSet(writes) /\ ~UvWritten
                 /\ task[x.req] \in failed'
              \/ /\ x.op = "pushbackQue" /\ AfterWrite /\ x.req = Head(calls).req
                 /\ ~Idle /\ Head(calls).op = "afterWrite" /\ ~Head(calls).ok
            Stays == ~SwapQue => \A x \in ToSet(calls) : x.op = "realSend" => x \in ToSet(c)
<1>. SUFFICES Stays /\ \A x \in ToSet(c) : News(x)
  OBVIOUS
<1>. HIDE DEF News, Stays
<1>1. calls \in Seq(CallType) /\ writes \in Seq(Req)
  BY DEF Types, ThreadTypes, QueueTypes
<1>2. ASSUME UNCHANGED calls PROVE Stays /\ \A x \in ToSet(c) : News(x)
  BY <1>2 DEF News, Stays
<1>3. ASSUME NEW n \in Seq(CallType), \A x \in ToSet(n) : News(x),
             \/ Enters(n)
             \/ ReturnsTo(n) /\ ~Idle /\ (SwapQue \/ Head(calls).op # "realSend")
             \/ calls' = n \o calls
      PROVE  Stays /\ \A x \in ToSet(c) : News(x)
  <2>1. ToSet(c) \subseteq ToSet(n) \cup ToSet(calls)
    BY <1>3, CallsForm
  <2>2. Stays
    <3>1. CASE SwapQue
      BY <3>1 DEF Stays
    <3>2. CASE ~SwapQue
      BY <1>3, <3>2, CallsForm DEF Stays
    <3>. QED  BY <3>1, <3>2
  <2>3. \A x \in ToSet(calls) : News(x)
    BY DEF News
  <2>. QED  BY <1>3, <2>1, <2>2, <2>3
<1>4. ASSUME NEW x \in CallType, Quiet(x),
             \/ Enters(<<x>>)
             \/ ReturnsTo(<<x>>) /\ ~Idle /\ (SwapQue \/ Head(calls).op # "realSend")
             \/ calls' = <<x>> \o calls
      PROVE  Stays /\ \A y \in ToSet(c) : News(y)
  <2>1. PICK n : n = <<x>>
    OBVIOUS
  <2>2. n \in Seq(CallType) /\ ToSet(n) = {x}
    <3>1. <<x>> \in Seq(CallType)
      OBVIOUS
    <3>. QED  BY <2>1, <3>1, ToSetSome
  <2>3. News(x)
    BY <1>4 DEF News
  <2>4. \/ Enters(n)
        \/ ReturnsTo(n) /\ ~Idle /\ (SwapQue \/ Head(calls).op # "realSend")
        \/ calls' = n \o calls
    BY <1>4, <2>1
  <2>. QED  BY <1>3, <2>2, <2>3, <2>4
<1>5. ASSUME Returns, ~Idle, Head(calls).op # "realSend" PROVE Stays /\ \A x \in ToSet(c) : News(x)
  <2>1. PICK t : t = Tail(calls)
    OBVIOUS
  <2>2. c = t /\ ToSet(calls) = ToSet(t) \cup {Head(calls)}
    BY <1>1, <1>5, <2>1, Tailing DEF Returns, Idle
  <2>. QED  BY <1>5, <2>2 DEF News, Stays
<1>8. CASE UNCHANGED vars
  BY <1>2, <1>8 DEF vars
<1>9. ASSUME NEW t \in Senders,
             SenderStep(t) \/ CloseSafe(t) \/ \E m \in Msg, r \in Req : SendMsg(t, m, r)
      PROVE  Stays /\ \A x \in ToSet(c) : News(x)
  BY <1>2, <1>9 DEF SenderStep, PushInQue, PostRealSend, PostClose, CloseSafe, SendMsg
<1>10. CASE RunPosted
  <2>1. Head(posted) \in {"realSend", "close"}
    BY <1>10 DEF RunPosted, Types, ThreadTypes
  <2>2. Call(Head(posted)) \in CallType /\ Quiet(Call(Head(posted)))
    BY <2>1 DEF Quiet, Call, Outcome, CallType, LoopOps, UserOps
  <2>. QED  BY <1>4, <1>10, <2>2 DEF RunPosted
<1>11. CASE UvConnected \/ UvRead \/ UvReadEnds
  <2>1. /\ Outcome("onConnect", None, TRUE) \in CallType /\ Quiet(Outcome("onConnect", None, TRUE))
        /\ Call("onMessageParse") \in CallType /\ Quiet(Call("onMessageParse"))
        /\ Call("close") \in CallType /\ Quiet(Call("close"))
    BY DEF Quiet, Call, Outcome, CallType, LoopOps, UserOps
  <2>. QED  BY <1>4, <1>11, <2>1 DEF UvConnected, UvRead, UvReadEnds
<1>12. CASE UvConnectFails
  <2>1. PICK x, y : x = Outcome("onConnect", None, FALSE) /\ y = Call("flush")
    OBVIOUS
  <2>2. x \in CallType /\ y \in CallType /\ News(x) /\ News(y)
    BY <2>1 DEF News, Quiet, Call, Outcome, CallType, LoopOps, UserOps
  <2>3. <<x, y>> \in Seq(CallType) /\ ToSet(<<x, y>>) = {x, y}
    <3>1. <<x, y>> \in Seq(CallType)
      BY <2>2
    <3>. QED  BY <3>1, ToSetSome
  <2>4. Enters(<<x, y>>)
    BY <1>12, <2>1 DEF UvConnectFails
  <2>. QED  BY <1>3, <2>2, <2>3, <2>4
<1>13. CASE UvWritten \/ UvWriteFails
  <2>1. PICK r : r = Head(writes)
    OBVIOUS
  <2>2. r \in Req \cup {None} /\ r \in ToSet(writes)
    BY <1>1, <1>13, <2>1, Tailing DEF UvWritten, UvWriteFails
  <2>3. CASE UvWritten
    <3>1. Outcome("afterWrite", r, TRUE) \in CallType /\ Quiet(Outcome("afterWrite", r, TRUE))
      BY <2>2 DEF Quiet, Call, Outcome, CallType, LoopOps, UserOps
    <3>. QED  BY <1>4, <2>1, <2>3, <3>1 DEF UvWritten
  <2>4. CASE UvWriteFails /\ ~UvWritten
    <3>1. PICK x : x = Outcome("afterWrite", r, FALSE)
      OBVIOUS
    <3>2. x \in CallType /\ x.op = "afterWrite" /\ x.req = r
      BY <2>2, <3>1 DEF Outcome, CallType, LoopOps, UserOps
    <3>3. task[r] \in failed'
      BY <2>1, <2>4 DEF UvWriteFails
    <3>4. News(x)
      BY <2>2, <2>4, <3>2, <3>3 DEF News
    <3>5. <<x>> \in Seq(CallType) /\ ToSet(<<x>>) = {x}
      <4>1. <<x>> \in Seq(CallType)
        BY <3>2
      <4>. QED  BY <4>1, ToSetSome
    <3>6. Enters(<<x>>)
      BY <2>1, <2>4, <3>1 DEF UvWriteFails
    <3>. QED  BY <1>3, <3>4, <3>5, <3>6
  <2>. QED  BY <1>13, <2>3, <2>4
\* What is cancelled has failed.
<1>14. ASSUME CancelWrites, ~UvWritten PROVE Cancelled \in Seq(CallType) /\ \A x \in ToSet(Cancelled) : News(x)
  <2>1. PICK n : n = Cancelled
    OBVIOUS
  <2>2. /\ n \in Seq(CallType) /\ Len(n) = Len(writes)
        /\ \A i \in 1..Len(writes) : n[i] = Outcome("afterWrite", writes[i], FALSE)
    BY <1>1, <2>1, CancelledCalls
  <2>3. ASSUME NEW x \in ToSet(n) PROVE News(x)
    <3>1. DOMAIN n = 1..Len(n) /\ DOMAIN writes = 1..Len(writes)
      BY <1>1, <2>2
    <3>2. PICK i \in 1..Len(writes) : x = n[i]
      BY <2>2, <3>1 DEF ToSet
    <3>3. PICK r : r = writes[i]
      OBVIOUS
    <3>4. r \in ToSet(writes) /\ x = Outcome("afterWrite", r, FALSE)
      BY <2>2, <3>1, <3>2, <3>3 DEF ToSet
    <3>5. x.op = "afterWrite" /\ x.req = r
      BY <3>4 DEF Outcome
    <3>6. task[r] \in failed'
      BY <1>14, <3>3 DEF CancelWrites
    <3>. QED  BY <1>14, <3>4, <3>5, <3>6 DEF News
  <2>. QED  BY <2>1, <2>2, <2>3
<1>15. CASE UvFlush
  <2>1. ~Idle /\ Head(calls).op # "realSend"
    BY <1>15 DEF UvFlush, Runs
  <2>2. CASE stream = "failed"
    <3>1. ReturnsTo(Cancelled) /\ CancelWrites /\ ~UvWritten
      BY <1>15, <2>1, <2>2 DEF UvFlush, UvWritten, Enters
    <3>. QED  BY <1>3, <1>14, <2>1, <3>1
  <2>3. CASE stream # "failed"
    BY <1>5, <1>15, <2>1, <2>3 DEF UvFlush
  <2>. QED  BY <2>2, <2>3
<1>16. CASE UvFinishClose
  <2>1. PICK e, f, n : e = Outcome("onConnect", None, FALSE) /\ f = Call("onClose") /\ n = Cancelled
    OBVIOUS
  <2>2. e \in CallType /\ f \in CallType /\ News(e) /\ News(f)
    BY <2>1 DEF News, Quiet, Call, Outcome, CallType, LoopOps, UserOps
  <2>3. PICK aborted, done : aborted = (IF stream = "aborting" THEN <<e>> ELSE <<>>) /\ done = <<f>>
    OBVIOUS
  <2>4. aborted \in Seq(CallType) /\ ToSet(aborted) \subseteq {e}
    <3>1. <<e>> \in Seq(CallType) /\ <<>> \in Seq(CallType)
      BY <2>2
    <3>2. ToSet(<<e>>) = {e} /\ ToSet(<<>>) = {}
      BY ToSetSome
    <3>. QED  BY <2>3, <3>1, <3>2
  <2>5. done \in Seq(CallType) /\ ToSet(done) = {f}
    <3>1. <<f>> \in Seq(CallType)
      BY <2>2
    <3>. QED  BY <2>3, <3>1, ToSetSome
  <2>6. n \in Seq(CallType) /\ \A x \in ToSet(n) : News(x)
    BY <1>14, <1>16, <2>1 DEF UvFinishClose, UvWritten
  <2>7. PICK v : v = aborted \o n
    OBVIOUS
  <2>8. v \in Seq(CallType) /\ ToSet(v) = ToSet(aborted) \cup ToSet(n)
    BY <2>4, <2>6, <2>7, Joining
  <2>9. PICK u : u = v \o done
    OBVIOUS
  <2>10. u \in Seq(CallType) /\ ToSet(u) = ToSet(v) \cup ToSet(done)
    BY <2>5, <2>8, <2>9, Joining
  <2>11. \A x \in ToSet(u) : News(x)
    BY <2>2, <2>4, <2>5, <2>6, <2>8, <2>10
  <2>12. Enters(u)
    BY <1>16, <2>1, <2>3, <2>7, <2>9, Zenon DEF UvFinishClose
  <2>. QED  BY <1>3, <2>10, <2>11, <2>12
<1>17. CASE SwapQue
  <2>1. Call("sendLoop") \in CallType /\ Quiet(Call("sendLoop"))
    BY DEF Quiet, Call, Outcome, CallType, LoopOps, UserOps
  <2>. QED  BY <1>4, <1>17, <2>1 DEF SwapQue, Runs
<1>18. CASE UvWriteRefused \/ UserCloses
  <2>1. Call("close") \in CallType /\ Quiet(Call("close"))
    BY DEF Quiet, Call, Outcome, CallType, LoopOps, UserOps
  <2>. QED  BY <1>4, <1>18, <2>1 DEF UvWriteRefused, UserCloses
<1>19. CASE UvWrite \/ KeepUnsent \/ UserReconnects
  BY <1>2, <1>19 DEF UvWrite, KeepUnsent, UserReconnects
<1>20. CASE \/ SendLoopEnds \/ AfterWriteUnbound \/ AfterWritePuts \/ AfterWriteKeeps \/ Close
            \/ FreeConnection \/ PushInQueInLoop \/ UserReturns
  <2>1. Returns /\ ~Idle /\ Head(calls).op # "realSend"
    BY <1>20 DEF SendLoopEnds, AfterWriteUnbound, AfterWritePuts, AfterWriteKeeps, Close,
                 FreeConnection, PushInQueInLoop, UserReturns, InUserCallback, Runs, UserOps
  <2>. QED  BY <1>5, <2>1
<1>21. CASE OnConnect
  <2>1. PICK x : x = Outcome("connCb", None, Head(calls).ok)
    OBVIOUS
  <2>2. ~Idle /\ Head(calls) \in CallType /\ Head(calls).op # "realSend"
    BY <1>1, <1>21 DEF OnConnect, Runs, Idle
  <2>3. x \in CallType /\ Quiet(x)
    BY <2>1, <2>2 DEF Outcome, CallType, LoopOps, UserOps, Quiet
  <2>4. ReturnsTo(<<x>>)
    BY <1>21, <2>1 DEF OnConnect
  <2>. QED  BY <1>4, <2>2, <2>3, <2>4
<1>22. CASE OnClose
  <2>1. PICK x, y : x = Call("closeCb") /\ y = Call("freeConnection")
    OBVIOUS
  <2>2. x \in CallType /\ y \in CallType /\ News(x) /\ News(y)
    BY <2>1 DEF Call, CallType, LoopOps, UserOps, News, Quiet
  <2>3. PICK b, n : b = (IF bClient THEN <<>> ELSE <<y>>) /\ n = <<x>> \o b
    OBVIOUS
  <2>4. /\ <<x>> \in Seq(CallType) /\ ToSet(<<x>>) = {x}
        /\ b \in Seq(CallType) /\ ToSet(b) \subseteq {y}
    <3>1. <<x>> \in Seq(CallType) /\ <<y>> \in Seq(CallType) /\ <<>> \in Seq(CallType)
      BY <2>2
    <3>. QED  BY <2>3, <3>1, ToSetSome
  <2>5. n \in Seq(CallType) /\ \A e \in ToSet(n) : News(e)
    <3>1. n \in Seq(CallType) /\ ToSet(n) = ToSet(<<x>>) \cup ToSet(b)
      BY <2>3, <2>4, Joining
    <3>. QED  BY <2>2, <2>4, <3>1
  <2>6. ReturnsTo(n) /\ ~Idle /\ Head(calls).op # "realSend"
    BY <1>22, <2>1, <2>3 DEF OnClose, Runs
  <2>. QED  BY <1>3, <2>5, <2>6
<1>23. ASSUME NEW m \in Msg, NEW r \in Req, UserSends(m, r)
      PROVE  Stays /\ \A x \in ToSet(c) : News(x)
  <2>1. PICK x, y : x = CallWith("pushinQue", r) /\ y = Call("realSend")
    OBVIOUS
  <2>2. /\ x \in CallType /\ y \in CallType /\ x.op = "pushinQue" /\ x.req = r /\ Quiet(y)
    BY <2>1 DEF Call, CallWith, CallType, LoopOps, UserOps, Quiet
  <2>3. News(x) /\ News(y)
    BY <1>23, <2>2 DEF News
  <2>4. <<x, y>> \in Seq(CallType) /\ ToSet(<<x, y>>) = {x, y}
    <3>1. <<x, y>> \in Seq(CallType)
      BY <2>2
    <3>. QED  BY <3>1, ToSetSome
  <2>5. calls' = <<x, y>> \o calls
    BY <1>23, <2>1 DEF UserSends
  <2>. QED  BY <1>3, <2>3, <2>4, <2>5
<1>24. CASE AfterWrite
  <2>1. PICK r, ok : r = Head(calls).req /\ ok = Head(calls).ok
    OBVIOUS
  <2>2. ~Idle /\ Head(calls) \in CallType /\ Head(calls).op = "afterWrite"
    BY <1>1, <1>24 DEF AfterWrite, Runs, Idle
  <2>3. r \in Req \cup {None} /\ ok \in BOOLEAN
    BY <2>1, <2>2 DEF CallType
  <2>4. PICK x, y, z, u, v : /\ x = Outcome("sendCb", r, ok) /\ y = Call("realSend")
                            /\ z = CallWith("putWriteBuffer", r) /\ u = CallWith("pushbackQue", r)
                            /\ v = Call("close")
    OBVIOUS
  <2>5. /\ {x, y, z, u, v} \subseteq CallType
        /\ Quiet(x) /\ Quiet(y) /\ Quiet(z) /\ Quiet(v) /\ u.op = "pushbackQue" /\ u.req = r
    BY <2>3, <2>4 DEF Call, CallWith, Outcome, CallType, LoopOps, UserOps, Quiet
  <2>6. PICK b, n : b = (IF ok THEN <<y, z>> ELSE <<u, v>>) /\ n = <<x>> \o b
    OBVIOUS
  <2>7. /\ <<x>> \in Seq(CallType) /\ ToSet(<<x>>) = {x}
        /\ b \in Seq(CallType) /\ ToSet(b) = IF ok THEN {y, z} ELSE {u, v}
    <3>1. <<x>> \in Seq(CallType) /\ <<y, z>> \in Seq(CallType) /\ <<u, v>> \in Seq(CallType)
      BY <2>5
    <3>. QED  BY <2>3, <2>6, <3>1, ToSetSome
  <2>8. n \in Seq(CallType) /\ ToSet(n) = {x} \cup ToSet(b)
    <3>1. PICK a : a = <<x>>
      OBVIOUS
    <3>2. a \in Seq(CallType) /\ ToSet(a) = {x} /\ n = a \o b
      BY <2>6, <2>7, <3>1
    <3>3. n \in Seq(CallType) /\ ToSet(n) = ToSet(a) \cup ToSet(b)
      BY <2>7, <3>2, Joining
    <3>. QED  BY <3>2, <3>3
  <2>9. News(x) /\ News(y) /\ News(z) /\ News(v)
    BY <2>5 DEF News
  <2>10. ~ok => News(u)
    BY <1>24, <2>1, <2>2, <2>5 DEF News
  <2>11. \A e \in ToSet(n) : News(e)
    BY <2>3, <2>7, <2>8, <2>9, <2>10
  <2>12. ReturnsTo(n)
    BY <1>24, <2>1, <2>4, <2>6, Zenon DEF AfterWrite
  <2>. QED  BY <1>3, <2>2, <2>8, <2>11, <2>12
<1>. QED  BY <1>8, <1>9, <1>10, <1>11, <1>12, <1>13, <1>15, <1>16, <1>17, <1>18, <1>19, <1>20, <1>21,
             <1>22, <1>23, <1>24 DEF Next, LoopCall, LoopEvent

\* A task comes to a request that nobody uses and that has none; otherwise a request
\* keeps its task or gives it up.
Encodes(m, r) ==
  /\ m \in Msg /\ r \in Req /\ Unsent(m) /\ r \notin Used
  /\ task'[r] = m /\ \A s \in Req \ {r} : task'[s] = task[s]
  /\ UNCHANGED <<handed, wire, failed>>

LEMMA TaskStep ==
  ASSUME Types, PlaceInv, [Next]_vars
  PROVE  \/ \E m \in Msg, r \in Req : Encodes(m, r)
         \/ \A r \in Req : task'[r] \in {task[r], None}
<1>1. ASSUME NEW m \in Msg, NEW r \in Req, EncodeTask(m, r), UNCHANGED history
      PROVE  Encodes(m, r)
  <2>1. r \in ToSet(pool) \/ r \notin allocated
    <3>1. CASE pool # <<>> /\ r = Head(pool)
      BY <3>1, Tailing DEF Types, QueueTypes, ThreadTypes
    <3>. QED  BY <1>1, <3>1 DEF EncodeTask, GetWriteBuffer
  <2>2. r \notin Used
    BY <2>1 DEF Used, Queued, PlaceInv, Apart
  <2>3. task'[r] = m /\ \A s \in Req \ {r} : task'[s] = task[s]
    BY <1>1 DEF EncodeTask, Types, QueueTypes, ThreadTypes
  <2>. QED  BY <1>1, <2>2, <2>3 DEF Encodes, EncodeTask, history
<1>2. ASSUME NEW r, PutWriteBuffer(r) PROVE \A s \in Req : task'[s] \in {task[s], None}
  BY <1>2 DEF PutWriteBuffer, Types, QueueTypes, ThreadTypes
<1>3. ASSUME NEW last, Release(last) PROVE \A s \in Req : task'[s] \in {task[s], None}
  BY <1>3 DEF Release, Destroy
<1>4. ASSUME UNCHANGED task PROVE \A s \in Req : task'[s] \in {task[s], None}
  BY <1>4
<1>5. CASE \/ UNCHANGED vars \/ RunPosted \/ UvConnected \/ UvConnectFails \/ UvWritten \/ UvWriteFails
           \/ UvFinishClose \/ UvRead \/ UvReadEnds \/ UserCloses \/ UserReconnects
           \/ UvFlush \/ SwapQue \/ UvWrite \/ UvWriteRefused \/ KeepUnsent \/ SendLoopEnds
           \/ AfterWrite \/ AfterWriteKeeps \/ Close \/ OnConnect \/ OnClose \/ PushInQueInLoop
           \/ UserReturns
  <2>1. UNCHANGED task
    BY <1>5 DEF vars, poolVars, RunPosted, UvConnected, UvConnectFails, UvWritten, UvWriteFails,
                UvFinishClose, UvRead, UvReadEnds, UserCloses, UserReconnects, UvFlush, SwapQue,
                UvWrite, UvWriteRefused, KeepUnsent, SendLoopEnds, AfterWrite, AfterWriteKeeps,
                Close, OnConnect, OnClose, PushInQueInLoop, UserReturns
  <2>. QED  BY <1>4, <2>1
<1>6. CASE AfterWriteUnbound \/ AfterWritePuts
  BY <1>2, <1>6 DEF AfterWriteUnbound, AfterWritePuts
<1>7. CASE FreeConnection
  BY <1>3, <1>7 DEF FreeConnection
<1>8. ASSUME NEW t \in Senders, SenderStep(t) \/ CloseSafe(t)
      PROVE  \A s \in Req : task'[s] \in {task[s], None}
  BY <1>3, <1>4, <1>8 DEF SenderStep, PushInQue, PostRealSend, PostClose, CloseSafe, poolVars
<1>9. ASSUME NEW m \in Msg, NEW r \in Req, UserSends(m, r) \/ \E t \in Senders : SendMsg(t, m, r)
      PROVE  Encodes(m, r)
  BY <1>1, <1>9 DEF UserSends, SendMsg
<1>. QED  BY <1>5, <1>6, <1>7, <1>8, <1>9 DEF Next, LoopCall, LoopEvent

\* A request is pushed by the thread that holds it, or by the loop's own call.
Pushes(r) ==
  /\ r \in HeldReqs(held) \/ \E x \in ToSet(calls) : x.op = "pushinQue" /\ x.req = r
  /\ r \in ToSet(sendQue')
  /\ handed' = Append(handed, task[r])
  /\ UNCHANGED <<task, wire, failed>>

LEMMA HistoryStep ==
  ASSUME Types, [Next]_vars
  PROVE  /\ failed \subseteq failed'
         /\ \/ UNCHANGED <<handed, wire>>
            \/ \E r \in Req : Pushes(r)
            \/ UvWritten /\ UNCHANGED <<handed, task, failed>>
<1>. DEFINE Goal == /\ failed \subseteq failed'
                    /\ \/ UNCHANGED <<handed, wire>>
                       \/ \E r \in Req : Pushes(r)
                       \/ UvWritten /\ UNCHANGED <<handed, task, failed>>
<1>1. CASE \/ UNCHANGED vars \/ RunPosted \/ UvConnected \/ UvConnectFails \/ UvWriteFails
           \/ UvFinishClose \/ UvRead \/ UvReadEnds \/ UserCloses \/ UserReconnects
           \/ UvFlush \/ SwapQue \/ UvWrite \/ UvWriteRefused \/ KeepUnsent \/ SendLoopEnds
           \/ AfterWriteUnbound \/ AfterWritePuts \/ FreeConnection
           \/ AfterWrite \/ AfterWriteKeeps \/ Close \/ OnConnect \/ OnClose \/ UserReturns
  BY <1>1 DEF vars, history, RunPosted, UvConnected, UvConnectFails, UvWriteFails,
              UvFinishClose, UvRead, UvReadEnds, UserCloses, UserReconnects, UvFlush, SwapQue,
              UvWrite, UvWriteRefused, KeepUnsent, SendLoopEnds, AfterWrite, AfterWriteKeeps,
              AfterWriteUnbound, AfterWritePuts, FreeConnection,
              Close, OnConnect, OnClose, UserReturns, CancelWrites, PushBackHead
<1>2. CASE UvWritten
  BY <1>2 DEF UvWritten, poolVars
\* The push of r, whoever asks for it.
<1>3. ASSUME NEW r \in Req, sendQue' = Append(sendQue, r) PROVE r \in ToSet(sendQue')
  <2>1. PICK q : q = Append(sendQue, r)
    OBVIOUS
  <2>2. sendQue' = q /\ r \in ToSet(q)
    BY <1>3, <2>1, Appending DEF Types, QueueTypes
  <2>. QED  BY <2>2
<1>4. CASE PushInQueInLoop
  <2>1. PICK r : r = Head(calls).req
    OBVIOUS
  <2>2. calls \in Seq(CallType) /\ calls # <<>> /\ Head(calls).op = "pushinQue"
    BY <1>4 DEF PushInQueInLoop, Runs, Idle, Types, ThreadTypes
  <2>3. Head(calls) = calls[1] /\ 1 \in 1..Len(calls) /\ Head(calls) \in ToSet(calls)
    BY <2>2, Tailing
  <2>4. r \in Req
    BY <2>1, <2>2, <2>3 DEF Types, ThreadTypes, HeldInv, Owning
  <2>5. Pushes(r)
    BY <1>3, <1>4, <2>1, <2>2, <2>3, <2>4 DEF Pushes, PushInQueInLoop, poolVars
  <2>. QED  BY <1>4, <2>4, <2>5 DEF PushInQueInLoop
<1>5. ASSUME NEW t \in Senders,
             SenderStep(t) \/ CloseSafe(t) \/ \E m \in Msg, r \in Req : SendMsg(t, m, r)
      PROVE  Goal
  <2>1. CASE PushInQue(t)
    <3>1. PICK r : r = held[t]
      OBVIOUS
    <3>2. r \in Req
      BY <2>1, <3>1 DEF PushInQue, SenderGoto, Types, ThreadTypes, HeldInv
    <3>3. r \in HeldReqs(held)
      BY <3>1, <3>2, NoneAssumption DEF HeldReqs
    <3>4. Pushes(r)
      BY <1>3, <2>1, <3>1, <3>2, <3>3 DEF Pushes, PushInQue, poolVars
    <3>. QED  BY <2>1, <3>2, <3>4 DEF PushInQue
  <2>. QED  BY <1>5, <2>1 DEF SenderStep, PostRealSend, PostClose, CloseSafe, SendMsg, history
<1>6. ASSUME NEW m \in Msg, NEW r \in Req, UserSends(m, r) PROVE Goal
  BY <1>6 DEF UserSends, history
<1>. QED  BY <1>1, <1>2, <1>4, <1>5, <1>6 DEF Next, LoopCall, LoopEvent

\* A request waits after a step that waited before, or was pushed, or is kept after a
\* failed write.
LEMMA QueueStep ==
  ASSUME Types, [Next]_vars, NEW r \in Queued'
  PROVE  \/ r \in Queued
         \/ Pushes(r)
         \/ \E x \in ToSet(calls) : x.op = "pushbackQue" /\ x.req = r /\ UNCHANGED history
<1>. DEFINE Goal == \/ r \in Queued
                    \/ Pushes(r)
                    \/ \E x \in ToSet(calls) : x.op = "pushbackQue" /\ x.req = r /\ UNCHANGED history
<1>1. writes \in Seq(Req) /\ sendQue \in Seq(Req) /\ temp \in Seq(Req)
  BY DEF Types, QueueTypes
<1>2. CASE r \in ToSet(sendQue) \cup ToSet(temp) \cup ToSet(writes)
  BY <1>2 DEF Queued
\* A queue keeps what it has, loses its head, or gets one more at its end.
<1>3. ASSUME NEW q \in Seq(Req), q # <<>> PROVE ToSet(Tail(q)) \subseteq ToSet(q) /\ Head(q) \in ToSet(q)
  BY <1>3, Tailing
<1>4. ASSUME NEW q \in Seq(Req), NEW e \in Req PROVE ToSet(Append(q, e)) = ToSet(q) \cup {e}
  BY Appending
<1>5. ToSet(<<>>) = {}
  BY ToSetSome
<1>6. r \in ToSet(sendQue') \/ r \in ToSet(temp') \/ r \in ToSet(writes')
  BY DEF Queued
<1>7. ASSUME /\ sendQue' = sendQue \/ sendQue' = <<>>
             /\ temp' = temp
             /\ writes' = writes \/ writes' = <<>> \/ (writes # <<>> /\ writes' = Tail(writes))
      PROVE  r \in ToSet(sendQue) \cup ToSet(temp) \cup ToSet(writes)
  <2>1. ToSet(sendQue') \subseteq ToSet(sendQue) /\ ToSet(temp') = ToSet(temp)
    BY <1>5, <1>7
  <2>2. ToSet(writes') \subseteq ToSet(writes)
    <3>1. CASE writes # <<>> /\ writes' = Tail(writes)
      BY <1>1, <1>3, <3>1
    <3>. QED  BY <1>5, <1>7, <3>1
  <2>. QED  BY <1>6, <2>1, <2>2
<1>8. CASE \/ UNCHANGED vars \/ RunPosted \/ UvConnected \/ UvConnectFails \/ UvWritten \/ UvWriteFails
           \/ UvFinishClose \/ UvRead \/ UvReadEnds \/ UserCloses \/ UserReconnects
           \/ UvFlush \/ SendLoopEnds \/ AfterWriteUnbound \/ AfterWritePuts \/ FreeConnection
           \/ AfterWrite \/ Close \/ OnConnect \/ OnClose \/ UserReturns
  BY <1>2, <1>7, <1>8
     DEF vars, queueVars, RunPosted, UvConnected, UvConnectFails, UvWritten, UvWriteFails,
         UvFinishClose, UvRead, UvReadEnds, UserCloses, UserReconnects, UvFlush, SendLoopEnds,
         AfterWriteUnbound, AfterWritePuts, FreeConnection, AfterWrite, Close, OnConnect,
         OnClose, UserReturns, CancelWrites, Release, Destroy
<1>9. CASE SwapQue
  <2>1. r \in ToSet(sendQue) \cup ToSet(temp) \cup ToSet(writes)
    BY <1>5, <1>6, <1>9 DEF SwapQue
  <2>. QED  BY <1>2, <2>1
<1>10. CASE UvWrite
  <2>1. r \in ToSet(sendQue) \cup ToSet(temp) \cup ToSet(writes)
    <3>1. temp # <<>> /\ Head(temp) \in Req
      BY <1>1, <1>10 DEF UvWrite
    <3>2. ToSet(writes') = ToSet(writes) \cup {Head(temp)}
      BY <1>1, <1>4, <1>10, <3>1 DEF UvWrite
    <3>3. sendQue' = sendQue /\ temp' = Tail(temp)
      BY <1>10 DEF UvWrite
    <3>. QED  BY <1>1, <1>3, <1>6, <3>1, <3>2, <3>3
  <2>. QED  BY <1>2, <2>1
<1>11. CASE UvWriteRefused \/ KeepUnsent
  <2>1. r \in ToSet(sendQue) \cup ToSet(temp) \cup ToSet(writes)
    <3>1. temp # <<>> /\ Head(temp) \in Req /\ PushBackHead
      BY <1>1, <1>11 DEF UvWriteRefused, KeepUnsent
    <3>2. ToSet(sendQue') = ToSet(sendQue) \cup {Head(temp)}
      BY <1>1, <1>4, <3>1 DEF PushBackHead
    <3>3. writes' = writes /\ temp' = Tail(temp)
      BY <3>1 DEF PushBackHead
    <3>. QED  BY <1>1, <1>3, <1>6, <3>1, <3>2, <3>3
  <2>. QED  BY <1>2, <2>1
\* What an append to the queue makes of it.
<1>12. ASSUME NEW e \in Req, sendQue' = Append(sendQue, e), UNCHANGED <<temp, writes>>, r # e
       PROVE  r \in ToSet(sendQue) \cup ToSet(temp) \cup ToSet(writes)
  <2>1. ToSet(sendQue') = ToSet(sendQue) \cup {e}
    BY <1>1, <1>4, <1>12
  <2>. QED  BY <1>6, <1>12, <2>1
<1>13. ASSUME NEW e \in Req, sendQue' = Append(sendQue, e) PROVE e \in ToSet(sendQue')
  BY <1>1, <1>4, <1>13
<1>14. CASE PushInQueInLoop \/ AfterWriteKeeps
  <2>1. PICK x : x = Head(calls)
    OBVIOUS
  <2>2. calls \in Seq(CallType) /\ calls # <<>> /\ x.op \in {"pushinQue", "pushbackQue"}
    BY <1>14, <2>1 DEF PushInQueInLoop, AfterWriteKeeps, Runs, Idle, Types, ThreadTypes
  <2>3. x = calls[1] /\ 1 \in 1..Len(calls) /\ x \in ToSet(calls)
    BY <2>1, <2>2, Tailing
  <2>4. x.req \in Req
    BY <2>2, <2>3 DEF Types, HeldInv, Owning
  <2>5. sendQue' = Append(sendQue, x.req) /\ UNCHANGED <<temp, writes>>
    BY <1>14, <2>1 DEF PushInQueInLoop, AfterWriteKeeps
  <2>6. CASE r # x.req
    BY <1>2, <1>12, <2>4, <2>5, <2>6
  <2>7. CASE r = x.req /\ PushInQueInLoop
    <3>1. x.op = "pushinQue"
      BY <2>1, <2>7 DEF PushInQueInLoop, Runs
    <3>2. r \in ToSet(sendQue')
      BY <1>13, <2>4, <2>5, <2>7
    <3>. QED  BY <2>1, <2>3, <2>7, <3>1, <3>2 DEF PushInQueInLoop, Pushes, poolVars
  <2>8. CASE r = x.req /\ AfterWriteKeeps
    <3>1. x.op = "pushbackQue"
      BY <2>1, <2>8 DEF AfterWriteKeeps, Runs
    <3>. QED  BY <2>3, <2>8, <3>1 DEF AfterWriteKeeps
  <2>. QED  BY <1>14, <2>6, <2>7, <2>8
<1>15. ASSUME NEW t \in Senders,
              SenderStep(t) \/ CloseSafe(t) \/ \E m \in Msg, e \in Req : SendMsg(t, m, e)
       PROVE  Goal
  <2>1. CASE PushInQue(t)
    <3>1. PICK e : e = held[t]
      OBVIOUS
    <3>2. e \in Req
      BY <2>1, <3>1 DEF PushInQue, SenderGoto, Types, ThreadTypes, HeldInv
    <3>3. e \in HeldReqs(held)
      BY <3>1, <3>2, NoneAssumption DEF HeldReqs
    <3>4. sendQue' = Append(sendQue, e) /\ UNCHANGED <<temp, writes>>
      BY <2>1, <3>1 DEF PushInQue
    <3>5. CASE r # e
      BY <1>2, <1>12, <3>2, <3>4, <3>5
    <3>6. CASE r = e
      BY <1>13, <2>1, <3>1, <3>2, <3>3, <3>4, <3>6 DEF PushInQue, Pushes, poolVars
    <3>. QED  BY <3>5, <3>6
  <2>. QED  BY <1>2, <1>7, <1>15, <2>1
            DEF SenderStep, PostRealSend, PostClose, CloseSafe, SendMsg, queueVars, Release, Destroy
<1>16. ASSUME NEW m \in Msg, NEW e \in Req, UserSends(m, e) PROVE Goal
  BY <1>2, <1>7, <1>16 DEF UserSends, queueVars
<1>. QED  BY <1>8, <1>9, <1>10, <1>11, <1>14, <1>15, <1>16 DEF Next, LoopCall, LoopEvent

\* A thread gets a request only when it encodes a task.
LEMMA HeldStep ==
  ASSUME Types, [Next]_vars, NEW r \in HeldReqs(held)'
  PROVE  \/ r \in HeldReqs(held)
         \/ \E m \in Msg, t \in Senders : SendMsg(t, m, r)
<1>. DEFINE Goal == r \in HeldReqs(held) \/ \E m \in Msg, t \in Senders : SendMsg(t, m, r)
<1>1. PICK h : h = held'
  OBVIOUS
<1>2. PICK u \in Senders : h[u] = r /\ r # None
  BY <1>1 DEF HeldReqs
<1>3. ASSUME h[u] \in {held[u], None} PROVE Goal
  BY <1>2, <1>3 DEF HeldReqs
<1>4. CASE \/ UNCHANGED vars \/ RunPosted \/ UvConnected \/ UvConnectFails \/ UvWritten \/ UvWriteFails
           \/ UvFinishClose \/ UvRead \/ UvReadEnds \/ UserCloses \/ UserReconnects
           \/ UvFlush \/ SwapQue \/ UvWrite \/ UvWriteRefused \/ KeepUnsent \/ SendLoopEnds
           \/ AfterWriteUnbound \/ AfterWritePuts \/ AfterWriteKeeps \/ FreeConnection
           \/ AfterWrite \/ Close \/ OnConnect \/ OnClose \/ PushInQueInLoop \/ UserReturns
  BY <1>1, <1>3, <1>4
     DEF vars, senderVars, RunPosted, UvConnected, UvConnectFails, UvWritten, UvWriteFails,
         UvFinishClose, UvRead, UvReadEnds, UserCloses, UserReconnects, UvFlush, SwapQue, UvWrite,
         UvWriteRefused, KeepUnsent, SendLoopEnds, AfterWriteUnbound, AfterWritePuts,
         AfterWriteKeeps, FreeConnection, AfterWrite, Close, OnConnect, OnClose, PushInQueInLoop,
         UserReturns
<1>5. ASSUME NEW m \in Msg, NEW e \in Req, UserSends(m, e) PROVE Goal
  BY <1>1, <1>3, <1>5 DEF UserSends, senderVars
<1>6. ASSUME NEW t \in Senders, SenderStep(t) \/ CloseSafe(t) PROVE Goal
  BY <1>1, <1>3, <1>6
     DEF SenderStep, PushInQue, PostRealSend, PostClose, CloseSafe, Types, ThreadTypes
<1>7. ASSUME NEW t \in Senders, NEW m \in Msg, NEW e \in Req, SendMsg(t, m, e) PROVE Goal
  <2>1. h = [held EXCEPT ![t] = e]
    BY <1>1, <1>7 DEF SendMsg
  <2>2. CASE u = t
    <3>1. r = e
      BY <1>2, <2>1, <2>2 DEF Types, ThreadTypes
    <3>. QED  BY <1>7, <3>1
  <2>3. CASE u # t
    BY <1>3, <2>1, <2>3 DEF Types, ThreadTypes
  <2>. QED  BY <2>2, <2>3
<1>. QED  BY <1>4, <1>5, <1>6, <1>7 DEF Next, LoopCall, LoopEvent

-----------------------------------------------------------------------------
(* What the histories say of a task: where its request is, so far it went.  *)

\* A request that is about to go back to the queue.
Returned(x) == x.op = "pushbackQue" \/ (x.op = "afterWrite" /\ ~x.ok)

Undelivered == ToSet(handed) \ ToSet(wire)

HistoryInv ==
  /\ \A r, s \in Req : task[r] = task[s] /\ task[r] # None => r = s
  /\ ToSet(wire) \subseteq ToSet(handed)
  /\ \A r \in Queued : task[r] \in Undelivered
  /\ \A x \in ToSet(calls) : Returned(x) => task[x.req] \in Undelivered /\ task[x.req] \in failed
  /\ \A r \in HeldReqs(held) : task[r] \notin ToSet(handed)
  /\ \A x \in ToSet(calls) : x.op = "pushinQue" => task[x.req] \notin ToSet(handed)

LEMMA HistoryInit == Init => HistoryInv
<1>. SUFFICES ASSUME Init PROVE HistoryInv
  OBVIOUS
<1>1. \A r \in Req : task[r] = None
  BY DEF Init
<1>2. ToSet(<<>>) = {}
  BY ToSetSome
<1>3. Queued = {} /\ ToSet(wire) = {} /\ ToSet(calls) = {}
  BY <1>2 DEF Init, Queued
<1>4. HeldReqs(held) = {}
  BY DEF Init, HeldReqs
<1>. QED  BY <1>1, <1>3, <1>4 DEF HistoryInv

\* The requests of the calls that own one.
LEMMA CallsOwn ==
  ASSUME NEW c \in Seq(CallType), NEW x \in ToSet(c), x.op \in Owning
  PROVE  x.req \in Owned(c)
<1>1. PICK i \in 1..Len(c) : x = c[i]
  BY DEF ToSet
<1>. QED  BY <1>1 DEF Owned

\* What is used is no longer, or not yet, in the pool.
LEMMA UsedTasked ==
  ASSUME Types, PlaceInv, TaskInv, NEW r \in Used
  PROVE  r \in Req /\ task[r] \in Msg /\ task[r] # None
<1>1. r \in Req /\ task[r] \in Msg
  BY Tasked DEF Used, Queued
<1>. QED  BY <1>1, NoneAssumption

\* A request that stays in use keeps its task, and one that comes into use has a new one.
LEMMA UsedKeeps ==
  ASSUME Inv, Inv', [Next]_vars, NEW r \in Used, r \in Used'
  PROVE  task'[r] = task[r]
<1>1. Types /\ PlaceInv /\ TaskInv /\ Types' /\ PlaceInv' /\ TaskInv'
  BY DEF Inv, OKInv
<1>2. r \in Req /\ task'[r] # None
  <2>1. r \in Req
    BY <1>1, UsedTasked
  <2>2. task'[r] # None
    <3>1. r \in allocated' /\ r \notin ToSet(pool')
      BY <1>1 DEF PlaceInv, Apart, Used, Queued
    <3>. QED  BY <1>1, <3>1 DEF TaskInv
  <2>. QED  BY <2>1, <2>2
<1>3. CASE \E m \in Msg, s \in Req : Encodes(m, s)
  BY <1>2, <1>3 DEF Encodes
<1>. QED  BY <1>1, <1>2, <1>3, TaskStep

\* How the histories grow.
LEMMA HistoryGrows ==
  ASSUME Inv, [Next]_vars
  PROVE  /\ ToSet(handed) \subseteq ToSet(handed') /\ ToSet(wire) \subseteq ToSet(wire')
         /\ \A r \in Req : Pushes(r) => ToSet(handed') = ToSet(handed) \cup {task[r]} /\ wire' = wire
         /\ UvWritten => /\ writes # <<>> /\ Head(writes) \in ToSet(writes)
                         /\ ToSet(wire') = ToSet(wire) \cup {task[Head(writes)]}
                         /\ Head(writes) \in Owned(calls') /\ handed' = handed
         /\ ~UvWritten => wire' = wire
         /\ ~(\E r \in Req : Pushes(r)) => handed' = handed
<1>1. Types /\ PlaceInv /\ TaskInv /\ handed \in Seq(Msg) /\ wire \in Seq(Msg) /\ writes \in Seq(Req)
  BY DEF Inv, OKInv, GhostTypes, Types, QueueTypes
<1>2. ASSUME NEW r \in Req, Pushes(r)
      PROVE  ToSet(handed') = ToSet(handed) \cup {task[r]} /\ wire' = wire
  <2>1. r \in Used
    <3>1. CASE r \in HeldReqs(held)
      BY <3>1 DEF Used
    <3>2. ASSUME NEW x \in ToSet(calls), x.op = "pushinQue", x.req = r PROVE r \in Used
      BY <1>1, <3>2, CallsOwn DEF Used, Owning, Types, ThreadTypes
    <3>. QED  BY <1>2, <3>1, <3>2 DEF Pushes
  <2>2. task[r] \in Msg
    BY <1>1, <2>1, UsedTasked
  <2>. QED  BY <1>1, <1>2, <2>2, Appending DEF Pushes
<1>3. ASSUME UvWritten
      PROVE  /\ writes # <<>> /\ Head(writes) \in ToSet(writes)
             /\ ToSet(wire') = ToSet(wire) \cup {task[Head(writes)]}
             /\ Head(writes) \in Owned(calls') /\ handed' = handed
  <2>1. PICK r, x : r = Head(writes) /\ x = Outcome("afterWrite", r, TRUE)
    OBVIOUS
  <2>2. writes # <<>> /\ handed' = handed /\ wire' = Append(wire, task[r]) /\ calls' = <<x>>
    BY <1>3, <2>1 DEF UvWritten, Enters
  <2>3. r \in ToSet(writes) /\ r \in Req
    BY <1>1, <2>1, <2>2, Tailing
  <2>4. task[r] \in Msg
    BY <1>1, <2>3, UsedTasked DEF Used, Queued
  <2>5. ToSet(wire') = ToSet(wire) \cup {task[r]}
    BY <1>1, <2>2, <2>4, Appending
  <2>6. x \in CallType /\ x.op = "afterWrite" /\ x.req = r
    BY <2>1, <2>3 DEF Outcome, CallType, LoopOps
  <2>7. Owned(<<x>>) = {r}
    BY <2>6, OwnedSome DEF Owning
  <2>. QED  BY <2>1, <2>2, <2>3, <2>5, <2>7
<1>4. ~UvWritten => wire' = wire
  BY <1>1, HistoryStep DEF Pushes
<1>5. ~(\E r \in Req : Pushes(r)) => handed' = handed
  BY <1>1, HistoryStep
<1>6. ToSet(handed) \subseteq ToSet(handed') /\ ToSet(wire) \subseteq ToSet(wire')
  BY <1>2, <1>3, <1>4, <1>5
<1>. QED  BY <1>2, <1>3, <1>4, <1>5, <1>6

\* The request that is pushed was not handed over before, and is in the queue then.
LEMMA PushedIsNew ==
  ASSUME Inv, HistoryInv, NEW r \in Req, Pushes(r)
  PROVE  r \in Used /\ task[r] \in Msg /\ task[r] \notin ToSet(handed) /\ r \in Queued'
<1>1. Types /\ PlaceInv /\ TaskInv
  BY DEF Inv, OKInv
<1>2. r \in Used /\ task[r] \notin ToSet(handed)
  <2>1. CASE r \in HeldReqs(held)
    BY <2>1 DEF Used, HistoryInv
  <2>2. ASSUME NEW x \in ToSet(calls), x.op = "pushinQue", x.req = r
        PROVE  r \in Used /\ task[r] \notin ToSet(handed)
    BY <1>1, <2>2, CallsOwn DEF Used, Owning, HistoryInv, Types, ThreadTypes
  <2>. QED  BY <2>1, <2>2 DEF Pushes
<1>3. r \in Queued'
  BY DEF Pushes, Queued
<1>. QED  BY <1>1, <1>2, <1>3, UsedTasked

\* What was accepted stays undelivered but for the one that goes out.
LEMMA StaysUndelivered ==
  ASSUME Inv, HistoryInv, [Next]_vars,
         NEW r \in Req, task[r] \in Undelivered, task[r] \in Msg,
         UvWritten => r # Head(writes)
  PROVE  task[r] \in Undelivered'
<1>1. Types /\ PlaceInv /\ TaskInv
  BY DEF Inv, OKInv
<1>2. task[r] \in ToSet(handed') /\ task[r] \notin ToSet(wire) /\ task[r] # None
  BY HistoryGrows, NoneAssumption DEF Undelivered
<1>3. CASE ~UvWritten
  BY <1>2, <1>3, HistoryGrows DEF Undelivered
<1>4. CASE UvWritten
  <2>1. PICK h : h = Head(writes)
    OBVIOUS
  <2>2. h \in ToSet(writes) /\ h # r /\ ToSet(wire') = ToSet(wire) \cup {task[h]}
    BY <1>4, <2>1, HistoryGrows
  <2>3. h \in Req
    BY <1>1, <2>2, UsedTasked DEF Used, Queued
  <2>4. task[h] # task[r]
    BY <1>2, <2>2, <2>3 DEF HistoryInv
  <2>. QED  BY <1>2, <2>2, <2>4 DEF Undelivered
<1>. QED  BY <1>3, <1>4

\* What waits after a step was in use before it.
LEMMA QueuedWasUsed ==
  ASSUME Inv, HistoryInv, Inv', [Next]_vars, NEW r \in Queued'
  PROVE  r \in Used
<1>1. Types /\ calls \in Seq(CallType)
  BY DEF Inv, OKInv, Types, ThreadTypes
<1>2. r \in Queued => r \in Used
  BY DEF Used
<1>3. Pushes(r) => r \in Used
  <2>1. r \in Req
    BY DEF Queued, Inv, OKInv, PlaceInv, Apart, Types, QueueTypes
  <2>. QED  BY <2>1, PushedIsNew
<1>4. ASSUME NEW x \in ToSet(calls), x.op = "pushbackQue", x.req = r PROVE r \in Used
  BY <1>1, <1>4, CallsOwn DEF Used, Owning
<1>. QED  BY <1>1, <1>2, <1>3, <1>4, QueueStep

LEMMA HistoryNext == Inv /\ HistoryInv /\ Inv' /\ [Next]_vars => HistoryInv'
<1>. SUFFICES ASSUME Inv, HistoryInv, Inv', [Next]_vars PROVE HistoryInv'
  OBVIOUS
<1>1. Types /\ PlaceInv /\ TaskInv /\ GhostTypes /\ Types' /\ PlaceInv' /\ TaskInv'
  BY DEF Inv, OKInv
<1>2. calls \in Seq(CallType) /\ calls' \in Seq(CallType)
  BY <1>1 DEF Types, ThreadTypes
<1>3. PICK c : c = calls'
  OBVIOUS
<1>4. /\ \A x \in ToSet(calls) : x.op \in Owning => x.req \in Owned(calls)
      /\ \A x \in ToSet(c) : x.op \in Owning => x.req \in Owned(c)
  BY <1>2, <1>3, CallsOwn
<1>5. /\ Queued \subseteq Used /\ Owned(calls) \subseteq Used /\ HeldReqs(held) \subseteq Used
      /\ Queued' \subseteq Used' /\ Owned(c) \subseteq Used' /\ HeldReqs(held') \subseteq Used'
  BY <1>3 DEF Used
<1>6. \A r \in Used : r \in Req /\ task[r] \in Msg /\ task[r] # None
  BY <1>1, UsedTasked
<1>7. \A r \in Used : r \in Used' => task'[r] = task[r]
  BY UsedKeeps
<1>8. Queued' \cap (Owned(c) \cup HeldReqs(held')) = {}
  BY <1>1, <1>3 DEF PlaceInv, Apart, Queued
<1>9. \A r, s \in Req : task'[r] = task'[s] /\ task'[r] # None => r = s
  <2>1. CASE \A r \in Req : task'[r] \in {task[r], None}
    BY <2>1 DEF HistoryInv
  <2>2. ASSUME NEW m \in Msg, NEW e \in Req, Encodes(m, e)
        PROVE  \A r, s \in Req : task'[r] = task'[s] /\ task'[r] # None => r = s
    <3>1. /\ task'[e] = m /\ \A s \in Req \ {e} : task'[s] = task[s]
          /\ \A s \in Req : task[s] # m
      BY <2>2 DEF Encodes, Unsent
    <3>. QED  BY <3>1 DEF HistoryInv
  <2>. QED  BY <1>1, <2>1, <2>2, TaskStep
<1>10. ToSet(wire') \subseteq ToSet(handed')
  <2>1. CASE UvWritten
    <3>1. Head(writes) \in Queued
      BY <2>1, HistoryGrows DEF Queued
    <3>2. task[Head(writes)] \in ToSet(handed)
      BY <3>1 DEF HistoryInv, Undelivered
    <3>. QED  BY <2>1, <3>2, HistoryGrows DEF HistoryInv
  <2>2. CASE ~UvWritten
    BY <2>2, HistoryGrows DEF HistoryInv
  <2>. QED  BY <2>1, <2>2
<1>11. ASSUME NEW r \in Queued' PROVE task'[r] \in Undelivered'
  <2>1. UvWritten => r # Head(writes)
    BY <1>3, <1>8, HistoryGrows
  <2>2. r \in Used'
    BY <1>5
  <2>3. CASE r \in Used /\ task[r] \in Undelivered
    <3>1. r \in Req /\ task[r] \in Msg /\ task'[r] = task[r]
      BY <1>6, <1>7, <2>2, <2>3
    <3>2. task[r] \in Undelivered'
      BY <2>1, <2>3, <3>1, StaysUndelivered
    <3>. QED  BY <3>1, <3>2
  <2>4. CASE r \in Queued
    BY <1>5, <2>3, <2>4 DEF HistoryInv
  <2>5. CASE Pushes(r)
    <3>1. r \in Req
      BY <1>1 DEF PlaceInv, Apart, Queued, Types, QueueTypes
    <3>2. task'[r] = task[r] /\ task[r] \notin ToSet(handed)
      BY <2>5, <3>1, PushedIsNew DEF Pushes
    <3>3. task[r] \in ToSet(handed') /\ wire' = wire
      BY <2>5, <3>1, HistoryGrows
    <3>. QED  BY <3>2, <3>3 DEF HistoryInv, Undelivered
  <2>6. ASSUME NEW x \in ToSet(calls), x.op = "pushbackQue", x.req = r
        PROVE  task'[r] \in Undelivered'
    <3>1. r \in Used /\ task[r] \in Undelivered
      BY <1>4, <1>5, <2>6 DEF HistoryInv, Returned, Owning
    <3>. QED  BY <2>3, <3>1
  <2>. QED  BY <1>1, <2>4, <2>5, <2>6, QueueStep
<1>12. ASSUME NEW x \in ToSet(c), Returned(x)
       PROVE  task'[x.req] \in Undelivered' /\ task'[x.req] \in failed'
  <2>1. x.op \in Owning /\ x.req \in Used'
    BY <1>4, <1>5, <1>12 DEF Returned, Owning
  <2>2. ASSUME NEW r, r = x.req, r \in Used, task[r] \in Undelivered, ~UvWritten
        PROVE  task'[r] = task[r] /\ task'[r] \in Undelivered'
    <3>1. r \in Req /\ task[r] \in Msg /\ task'[r] = task[r]
      BY <1>6, <1>7, <2>1, <2>2
    <3>2. task[r] \in Undelivered'
      BY <2>2, <3>1, StaysUndelivered
    <3>. QED  BY <3>1, <3>2
  <2>3. failed \subseteq failed'
    BY <1>1, HistoryStep
  <2>4. ASSUME NEW y \in ToSet(calls), Returned(y), y.req = x.req
        PROVE  task'[x.req] \in Undelivered' /\ task'[x.req] \in failed'
    <3>1. y.op \in Owning /\ task[x.req] \in Undelivered /\ task[x.req] \in failed
      BY <2>4 DEF HistoryInv, Returned, Owning
    <3>2. x.req \in Used
      BY <1>4, <1>5, <2>4, <3>1
    <3>3. ~UvWritten
      <4>1. calls # <<>>
        BY ToSetSome
      <4>. QED  BY <4>1 DEF UvWritten, Enters, Idle
    <3>. QED  BY <2>2, <2>3, <3>1, <3>2, <3>3
  <2>5. CASE x \in ToSet(calls)
    BY <1>12, <2>4, <2>5
  <2>6. CASE x.op = "afterWrite" /\ x.req \in ToSet(writes) /\ ~UvWritten /\ task[x.req] \in failed'
    <3>1. x.req \in Used /\ task[x.req] \in Undelivered
      BY <2>6 DEF HistoryInv, Used, Queued
    <3>. QED  BY <2>2, <2>6, <3>1
  <2>7. CASE /\ x.op = "pushbackQue" /\ x.req = Head(calls).req
             /\ ~Idle /\ Head(calls).op = "afterWrite" /\ ~Head(calls).ok
    <3>1. Head(calls) \in ToSet(calls)
      BY <1>2, <2>7, Tailing DEF Idle
    <3>. QED  BY <2>4, <2>7, <3>1 DEF Returned
  <2>8. ~Quiet(x) /\ x.op # "pushinQue"
    BY <1>12 DEF Quiet, Returned
  <2>. QED  BY <1>1, <1>3, <2>5, <2>6, <2>7, <2>8, CallsStep
\* A task that is held or about to be pushed is not handed over by another's push.
<1>13. ASSUME NEW r, r \in Used, r \in Owned(c) \cup HeldReqs(held'), task[r] \notin ToSet(handed)
       PROVE  task'[r] \notin ToSet(handed')
  <2>1. task'[r] = task[r] /\ r \in Req /\ task[r] # None
    BY <1>5, <1>6, <1>7, <1>13
  <2>2. ASSUME NEW s \in Req, Pushes(s) PROVE task[r] \notin ToSet(handed')
    <3>1. s # r
      BY <1>8, <1>13, <2>2, PushedIsNew
    <3>2. task[s] # task[r]
      BY <2>1, <3>1 DEF HistoryInv
    <3>. QED  BY <1>13, <2>2, <3>2, HistoryGrows
  <2>3. CASE ~\E s \in Req : Pushes(s)
    BY <1>13, <2>1, <2>3, HistoryGrows
  <2>. QED  BY <2>1, <2>2, <2>3
<1>14. ASSUME NEW m \in Msg, NEW r \in Req, EncodeTask(m, r), UNCHANGED history
       PROVE  task'[r] \notin ToSet(handed')
  <2>1. task'[r] = m
    BY <1>1, <1>14 DEF EncodeTask, Types, QueueTypes
  <2>2. DOMAIN handed = 1..Len(handed)
    BY <1>1 DEF GhostTypes
  <2>. QED  BY <1>14, <2>1, <2>2 DEF EncodeTask, Unsent, history, ToSet
<1>15. ASSUME NEW r \in HeldReqs(held') PROVE task'[r] \notin ToSet(handed')
  <2>1. CASE r \in HeldReqs(held)
    BY <1>5, <1>13, <2>1 DEF HistoryInv
  <2>2. ASSUME NEW m \in Msg, NEW t \in Senders, SendMsg(t, m, r) PROVE task'[r] \notin ToSet(handed')
    <3>1. r \in Req
      BY <1>1, NoneAssumption DEF HeldReqs, Types, ThreadTypes
    <3>. QED  BY <1>14, <2>2, <3>1 DEF SendMsg
  <2>. QED  BY <1>1, <2>1, <2>2, HeldStep
<1>16. ASSUME NEW x \in ToSet(c), x.op = "pushinQue" PROVE task'[x.req] \notin ToSet(handed')
  <2>1. CASE x \in ToSet(calls)
    <3>1. x.req \in Used /\ x.req \in Owned(c)
      BY <1>4, <1>5, <1>16, <2>1 DEF Owning
    <3>2. task[x.req] \notin ToSet(handed)
      BY <1>16, <2>1 DEF HistoryInv
    <3>. QED  BY <1>13, <3>1, <3>2
  <2>2. ASSUME NEW m \in Msg, x.req \in Req, UserSends(m, x.req) PROVE task'[x.req] \notin ToSet(handed')
    BY <1>14, <2>2 DEF UserSends
  <2>3. ~Quiet(x)
    BY <1>16 DEF Quiet
  <2>. QED  BY <1>1, <1>3, <1>16, <2>1, <2>2, <2>3, CallsStep
<1>. QED  BY <1>3, <1>9, <1>10, <1>11, <1>12, <1>15, <1>16 DEF HistoryInv

-----------------------------------------------------------------------------
(* No send is forgotten.                                                    *)

\* A realSend is on its way: on the loop thread, in the loop's queue, or in a sender.
Coming ==
  \/ \E x \in ToSet(calls) : x.op = "realSend"
  \/ "realSend" \in ToSet(posted)
  \/ \E t \in Senders : pc[t] = "post"

\* It stays so until it runs.
LEMMA ComingStays == Types /\ [Next]_vars /\ Coming /\ ~SwapQue => Coming'
<1>. SUFFICES ASSUME Types, [Next]_vars, Coming, ~SwapQue PROVE Coming'
  OBVIOUS
<1>1. posted \in Seq({"realSend", "close"}) /\ pc \in [Senders -> {"idle", "push", "post", "postClose", "done"}]
  BY DEF Types, ThreadTypes
<1>2. PICK c, p : c = calls' /\ p = posted'
  OBVIOUS
<1>3. ASSUME NEW x \in ToSet(calls), x.op = "realSend" PROVE Coming'
  <2>1. x \in ToSet(c)
    BY <1>2, <1>3, CallsStep
  <2>. QED  BY <1>2, <1>3, <2>1 DEF Coming
\* What was posted is posted still, but for the head that runs.
<1>4. ASSUME UNCHANGED <<posted, pc>>, \A x \in ToSet(calls) : x.op # "realSend" PROVE Coming'
  BY <1>4 DEF Coming
<1>5. ASSUME NEW e \in {"realSend", "close"}, posted' = Append(posted, e)
      PROVE  "realSend" \in ToSet(posted) \/ e = "realSend" => Coming'
  <2>1. ToSet(p) = ToSet(posted) \cup {e}
    BY <1>1, <1>2, <1>5, Appending
  <2>. QED  BY <1>2, <2>1 DEF Coming
<1>6. CASE \E x \in ToSet(calls) : x.op = "realSend"
  BY <1>3, <1>6
<1>7. CASE ~\E x \in ToSet(calls) : x.op = "realSend"
  <2>1. CASE \/ UNCHANGED vars \/ UvConnected \/ UvConnectFails \/ UvWritten \/ UvWriteFails
             \/ UvFinishClose \/ UvRead \/ UvReadEnds \/ UserCloses \/ UserReconnects
             \/ UvFlush \/ UvWrite \/ UvWriteRefused \/ KeepUnsent \/ SendLoopEnds
             \/ AfterWriteUnbound \/ AfterWritePuts \/ AfterWriteKeeps \/ FreeConnection
             \/ AfterWrite \/ Close \/ OnConnect \/ OnClose \/ PushInQueInLoop \/ UserReturns
             \/ \E m \in Msg, r \in Req : UserSends(m, r)
    <3>1. UNCHANGED <<posted, pc>>
      BY <2>1 DEF vars, senderVars, UvConnected, UvConnectFails, UvWritten, UvWriteFails,
           UvFinishClose, UvRead, UvReadEnds, UserCloses, UserReconnects, UvFlush, UvWrite,
           UvWriteRefused, KeepUnsent, SendLoopEnds, AfterWriteUnbound, AfterWritePuts,
           AfterWriteKeeps, FreeConnection, AfterWrite, Close, OnConnect, OnClose,
           PushInQueInLoop, UserReturns, UserSends
    <3>. QED  BY <1>4, <1>7, <3>1
  <2>2. CASE RunPosted
    <3>1. PICK e, x : e = Head(posted) /\ x = Call(e)
      OBVIOUS
    <3>2. posted # <<>> /\ c = <<x>> /\ p = Tail(posted) /\ UNCHANGED pc
      BY <1>2, <2>2, <3>1 DEF RunPosted, Enters, senderVars
    <3>3. ToSet(posted) = ToSet(p) \cup {e}
      BY <1>1, <3>1, <3>2, Tailing
    <3>4. x \in ToSet(c) /\ x.op = e
      BY <3>1, <3>2, ToSetSome DEF Call
    <3>. QED  BY <1>2, <1>7, <3>2, <3>3, <3>4 DEF Coming
  <2>3. ASSUME NEW t \in Senders,
               SenderStep(t) \/ CloseSafe(t) \/ \E m \in Msg, r \in Req : SendMsg(t, m, r)
        PROVE  Coming'
    <3>1. CASE PostRealSend(t)
      BY <1>5, <3>1 DEF PostRealSend
    <3>2. ASSUME NEW u \in Senders, pc[u] = "post", pc'[u] = "post" PROVE Coming'
      BY <3>2 DEF Coming
    <3>3. CASE ~PostRealSend(t)
      <4>1. \A u \in Senders : pc[u] = "post" => pc'[u] = "post"
        BY <1>1, <2>3, <3>3 DEF SenderStep, SenderGoto, PushInQue, PostClose, CloseSafe, SendMsg
      <4>2. CASE PostClose(t)
        BY <1>5, <1>7, <3>2, <4>1, <4>2 DEF PostClose, Coming
      <4>3. CASE ~PostClose(t)
        <5>1. UNCHANGED posted
          BY <2>3, <3>3, <4>3 DEF SenderStep, PushInQue, CloseSafe, SendMsg
        <5>. QED  BY <1>7, <3>2, <4>1, <5>1 DEF Coming
      <4>. QED  BY <4>2, <4>3
    <3>. QED  BY <3>1, <3>3
  <2>. QED  BY <2>1, <2>2, <2>3 DEF Next, LoopCall, LoopEvent
<1>. QED  BY <1>6, <1>7

\* Who is in the queue after a step.
LEMMA SendQueStep ==
  ASSUME Inv, HistoryInv, [Next]_vars, NEW r \in ToSet(sendQue')
  PROVE  \/ r \in ToSet(sendQue) /\ ~SwapQue
         \/ Coming'
         \/ task[r] \in failed'
<1>. DEFINE Goal == \/ r \in ToSet(sendQue) /\ ~SwapQue
                    \/ Coming'
                    \/ task[r] \in failed'
<1>1. sendQue \in Seq(Req) /\ temp \in Seq(Req) /\ Types /\ Placed(calls) /\ calls \in Seq(CallType)
  BY DEF Inv, OKInv, Types, QueueTypes, ThreadTypes
<1>2. ASSUME sendQue' = sendQue \/ sendQue' = <<>>, ~SwapQue PROVE Goal
  BY <1>2, ToSetSome
<1>3. CASE \/ UNCHANGED vars \/ RunPosted \/ UvConnected \/ UvConnectFails \/ UvWritten \/ UvWriteFails
           \/ UvFinishClose \/ UvRead \/ UvReadEnds \/ UserCloses \/ UserReconnects
           \/ UvFlush \/ UvWrite \/ SendLoopEnds \/ AfterWriteUnbound \/ AfterWritePuts
           \/ FreeConnection \/ AfterWrite \/ Close \/ OnConnect \/ OnClose \/ UserReturns
           \/ \E m \in Msg, e \in Req : UserSends(m, e)
  <2>1. sendQue' = sendQue \/ sendQue' = <<>>
    BY <1>3
       DEF vars, queueVars, RunPosted, UvConnected, UvConnectFails, UvWritten, UvWriteFails,
         UvFinishClose, UvRead, UvReadEnds, UserCloses, UserReconnects, UvFlush, UvWrite,
         SendLoopEnds, AfterWriteUnbound, AfterWritePuts, FreeConnection, AfterWrite, Close,
         OnConnect, OnClose, UserReturns, UserSends, CancelWrites, Release, Destroy
  <2>. QED  BY <1>2, <2>1, ToSetSome DEF SwapQue
<1>4. CASE SwapQue
  BY <1>4, ToSetSome DEF SwapQue
<1>5. ASSUME NEW e \in Req, sendQue' = Append(sendQue, e), ~SwapQue, r # e PROVE Goal
  <2>1. PICK q : q = Append(sendQue, e)
    OBVIOUS
  <2>2. ToSet(q) = ToSet(sendQue) \cup {e} /\ sendQue' = q
    BY <1>1, <1>5, <2>1, Appending
  <2>. QED  BY <1>5, <2>2
<1>6. CASE UvWriteRefused \/ KeepUnsent
  <2>1. PICK e : e = Head(temp)
    OBVIOUS
  <2>2. e \in Req /\ sendQue' = Append(sendQue, e) /\ task[e] \in failed' /\ ~SwapQue
    BY <1>1, <1>6, <2>1 DEF UvWriteRefused, KeepUnsent, PushBackHead, Runs, SwapQue
  <2>. QED  BY <1>5, <2>2
<1>7. CASE PushInQueInLoop \/ AfterWriteKeeps
  <2>1. PICK x : x = Head(calls)
    OBVIOUS
  <2>2. calls # <<>> /\ x.op \in {"pushinQue", "pushbackQue"} /\ ~SwapQue
    BY <1>7, <2>1 DEF PushInQueInLoop, AfterWriteKeeps, Runs, Idle, SwapQue
  <2>3. x = calls[1] /\ 1 \in 1..Len(calls) /\ x \in ToSet(calls)
    BY <1>1, <2>1, <2>2, Tailing
  <2>4. CASE PushInQueInLoop
    <3>1. x.op = "pushinQue"
      BY <2>1, <2>4 DEF PushInQueInLoop, Runs
    <3>2. Len(calls) >= 2 /\ calls[2].op = "realSend"
      BY <1>1, <2>3, <3>1 DEF Placed
    <3>3. calls[2] \in ToSet(calls)
      BY <1>1, <3>2 DEF ToSet
    <3>4. Coming
      BY <3>2, <3>3 DEF Coming
    <3>. QED  BY <1>1, <2>2, <3>4, ComingStays
  <2>5. CASE AfterWriteKeeps
    <3>1. x.op = "pushbackQue" /\ sendQue' = Append(sendQue, x.req) /\ UNCHANGED history
      BY <2>1, <2>5 DEF AfterWriteKeeps, Runs
    <3>2. x.req \in Req
      BY <1>1, <2>3, <3>1 DEF Types, HeldInv, Owning
    <3>3. task[x.req] \in failed'
      BY <2>3, <3>1 DEF HistoryInv, Returned, history
    <3>. QED  BY <1>5, <2>2, <3>1, <3>2, <3>3
  <2>. QED  BY <1>7, <2>4, <2>5
<1>8. ASSUME NEW t \in Senders,
             SenderStep(t) \/ CloseSafe(t) \/ \E m \in Msg, e \in Req : SendMsg(t, m, e)
      PROVE  Goal
  <2>1. CASE PushInQue(t)
    <3>1. pc'[t] = "post"
      BY <1>1, <2>1 DEF PushInQue, SenderGoto, Types, ThreadTypes
    <3>. QED  BY <3>1 DEF Coming
  <2>2. CASE ~PushInQue(t)
    <3>1. sendQue' = sendQue \/ sendQue' = <<>>
      BY <1>8, <2>2 DEF SenderStep, PostRealSend, PostClose, CloseSafe, SendMsg, queueVars,
                        Release, Destroy
    <3>2. ~SwapQue \/ sendQue' = <<>>
      BY DEF SwapQue
    <3>. QED  BY <1>2, <3>1, <3>2, ToSetSome
  <2>. QED  BY <2>1, <2>2
<1>. QED  BY <1>3, <1>4, <1>6, <1>7, <1>8 DEF Next, LoopCall, LoopEvent

-----------------------------------------------------------------------------
(* The order of the tasks.                                                  *)

Seqs == INSTANCE SequenceTheorems

\* One more at the end of the second of two sequences; the operators have names of their
\* own so that the provers take the equation as it stands.
Joined(a, b) == a \o b
WithOneMore(a, e) == Append(a, e)

LEMMA AppendJoin ==
  ASSUME NEW A, NEW a \in Seq(A), NEW b \in Seq(A), NEW e \in A
  PROVE  WithOneMore(Joined(a, b), e) = Joined(a, WithOneMore(b, e))
BY DEF Joined, WithOneMore

\* The head of a sequence goes over to the end of the one before it.
LEMMA HeadOver ==
  ASSUME NEW A, NEW a \in Seq(A), NEW b \in Seq(A), NEW e \in A
  PROVE  Append(a, e) \o b = a \o (<<e>> \o b)
<1>1. PICK o : o = <<e>>
  OBVIOUS
<1>2. o \in Seq(A)
  BY <1>1
<1>3. Append(a, e) = a \o o
  BY <1>1, Seqs!AppendIsConcat
<1>4. (a \o o) \o b = a \o (o \o b)
  BY <1>2, Seqs!ConcatAssociative
<1>. QED  BY <1>1, <1>3, <1>4, Zenon

\* The tasks of a queue of requests.
TasksOf(k, q) == [i \in 1..Len(q) |-> k[q[i]]]

LEMMA TasksOfAll ==
  ASSUME NEW T, NEW k \in [Req -> T], NEW q \in Seq(Req)
  PROVE  /\ TasksOf(k, q) \in Seq(T) /\ Len(TasksOf(k, q)) = Len(q)
         /\ \A i \in 1..Len(q) : TasksOf(k, q)[i] = k[q[i]]
         /\ TasksOf(k, <<>>) = <<>>
<1>1. TasksOf(k, <<>>) = <<>>
  BY DEF TasksOf
<1>. QED  BY <1>1 DEF TasksOf

LEMMA TasksOfMore ==
  ASSUME NEW T, NEW k \in [Req -> T], NEW q \in Seq(Req), NEW r \in Req
  PROVE  TasksOf(k, Append(q, r)) = Append(TasksOf(k, q), k[r])
<1>1. PICK p : p = Append(q, r)
  OBVIOUS
<1>2. p \in Seq(Req) /\ Len(q) \in Nat /\ Len(p) = Len(q) + 1 /\ p[Len(q) + 1] = r /\ \A i \in 1..Len(q) : p[i] = q[i]
  BY <1>1
<1>3. PICK s, t : s = TasksOf(k, q) /\ t = TasksOf(k, p)
  OBVIOUS
<1>4. /\ s \in Seq(T) /\ Len(s) = Len(q) /\ \A i \in 1..Len(q) : s[i] = k[q[i]]
      /\ t \in Seq(T) /\ Len(t) = Len(p) /\ \A i \in 1..Len(p) : t[i] = k[p[i]]
  BY <1>2, <1>3, TasksOfAll
<1>5. PICK u : u = Append(s, k[r])
  OBVIOUS
<1>6. u \in Seq(T) /\ Len(u) = Len(s) + 1 /\ u[Len(s) + 1] = k[r] /\ \A i \in 1..Len(s) : u[i] = s[i]
  <2>1. k[r] \in T
    OBVIOUS
  <2>. QED  BY <1>4, <1>5, <2>1
<1>7. Len(t) = Len(u)
  BY <1>2, <1>4, <1>6
<1>8. ASSUME NEW i \in 1..Len(t) PROVE t[i] = u[i]
  <2>1. i \in 1..Len(q) \/ i = Len(q) + 1
    BY <1>2, <1>4
  <2>. QED  BY <1>2, <1>4, <1>6, <2>1
<1>9. t = u
  BY <1>4, <1>6, <1>7, <1>8, SeqEqual
<1>. QED  BY <1>1, <1>3, <1>5, <1>9

LEMMA TasksOfLess ==
  ASSUME NEW T, NEW k \in [Req -> T], NEW q \in Seq(Req), q # <<>>
  PROVE  TasksOf(k, q) = <<k[Head(q)]>> \o TasksOf(k, Tail(q))
<1>1. PICK p, r : p = Tail(q) /\ r = Head(q)
  OBVIOUS
<1>2. /\ p \in Seq(Req) /\ r \in Req /\ r = q[1] /\ Len(q) \in Nat \ {0} /\ Len(p) = Len(q) - 1
      /\ \A i \in 1..Len(p) : i + 1 \in 1..Len(q) /\ p[i] = q[i + 1]
  BY <1>1, Tailing
<1>3. PICK s, t : s = TasksOf(k, p) /\ t = TasksOf(k, q)
  OBVIOUS
<1>4. /\ s \in Seq(T) /\ Len(s) = Len(p) /\ \A i \in 1..Len(p) : s[i] = k[p[i]]
      /\ t \in Seq(T) /\ Len(t) = Len(q) /\ \A i \in 1..Len(q) : t[i] = k[q[i]]
  <2>1. s \in Seq(T) /\ Len(s) = Len(p) /\ \A i \in 1..Len(p) : s[i] = k[p[i]]
    BY <1>2, <1>3, TasksOfAll, Zenon
  <2>2. t \in Seq(T) /\ Len(t) = Len(q) /\ \A i \in 1..Len(q) : t[i] = k[q[i]]
    BY <1>3, TasksOfAll, Zenon
  <2>. QED  BY <2>1, <2>2
<1>5. PICK e, u : e = k[r] /\ u = <<e>> \o s
  OBVIOUS
<1>6. e \in T
  BY <1>2, <1>5
<1>7. u \in Seq(T) /\ Len(u) = 1 + Len(s) /\ u[1] = e /\ \A i \in 1..Len(s) : u[1 + i] = s[i]
  BY <1>4, <1>5, <1>6
<1>8. Len(t) = Len(u)
  BY <1>2, <1>4, <1>7
<1>9. ASSUME NEW i \in 1..Len(t) PROVE t[i] = u[i]
  <2>1. i = 1 \/ (i - 1 \in 1..Len(s) /\ 1 + (i - 1) = i)
    BY <1>2, <1>4
  <2>2. CASE i = 1
    BY <1>2, <1>4, <1>5, <1>7, <2>2
  <2>3. ASSUME NEW j \in 1..Len(s), 1 + j = i PROVE t[i] = u[i]
    <3>1. u[i] = s[j] /\ s[j] = k[p[j]] /\ p[j] = q[j + 1]
      BY <1>2, <1>4, <1>7, <2>3
    <3>2. j + 1 = i
      BY <1>2, <1>4, <2>3
    <3>. QED  BY <1>4, <3>1, <3>2
  <2>. QED  BY <2>1, <2>2, <2>3
<1>10. t = u
  BY <1>4, <1>7, <1>8, <1>9, SeqEqual
<1>. QED  BY <1>1, <1>3, <1>5, <1>10

LEMMA TasksOfSame ==
  ASSUME NEW T, NEW k \in [Req -> T], NEW l \in [Req -> T], NEW q \in Seq(Req),
         \A r \in ToSet(q) : k[r] = l[r]
  PROVE  TasksOf(k, q) = TasksOf(l, q)
<1>1. \A i \in 1..Len(q) : q[i] \in ToSet(q)
  BY DEF ToSet
<1>. QED  BY <1>1 DEF TasksOf

\* Nothing happens to the stream of a session that has been destroyed.
LEMMA FreedStays == [Next]_vars /\ stream = "freed" => stream' = "freed"
<1>. SUFFICES ASSUME [Next]_vars, stream = "freed" PROVE stream' = "freed"
  OBVIOUS
<1>1. ASSUME NEW op, Runs(op) PROVE FALSE
  BY <1>1 DEF Runs
<1>2. ~LoopCall
  BY <1>1 DEF LoopCall, UvFlush, SwapQue, UvWrite, UvWriteRefused, KeepUnsent, SendLoopEnds,
     AfterWriteUnbound, AfterWrite, AfterWritePuts, AfterWriteKeeps, Close, OnConnect, OnClose,
     FreeConnection, PushInQueInLoop, UserReturns, InUserCallback
<1>3. ~LoopEvent /\ ~UvRead /\ ~UvReadEnds
  BY DEF LoopEvent, RunPosted, UvConnected, UvConnectFails, UvWritten, UvWriteFails, UvFinishClose,
         UvRead, UvReadEnds
<1>4. ~UserCloses /\ ~UserReconnects /\ ~\E m \in Msg, r \in Req : UserSends(m, r)
  BY <1>1 DEF UserCloses, UserReconnects, UserSends, InUserCallback
<1>5. ASSUME NEW t \in Senders,
             SenderStep(t) \/ CloseSafe(t) \/ \E m \in Msg, r \in Req : SendMsg(t, m, r)
      PROVE  stream' = "freed"
  BY <1>5 DEF SenderStep, PushInQue, PostRealSend, PostClose, CloseSafe, SendMsg, Release, Destroy,
              streamVars
<1>6. CASE UNCHANGED vars
  BY <1>6 DEF vars, streamVars
<1>. QED  BY <1>2, <1>3, <1>4, <1>5, <1>6 DEF Next

LEMMA OrderNext ==
  ASSUME Inv, HistoryInv, SentInOrder, Inv', [Next]_vars
  PROVE  SentInOrder'
<1>1. /\ Types /\ PlaceInv /\ TaskInv /\ GhostTypes /\ TempInv /\ Placed(calls) /\ Types'
      /\ writes \in Seq(Req) /\ temp \in Seq(Req) /\ sendQue \in Seq(Req)
      /\ writes' \in Seq(Req) /\ temp' \in Seq(Req) /\ sendQue' \in Seq(Req)
      /\ handed \in Seq(Msg) /\ wire \in Seq(Msg) /\ calls \in Seq(CallType)
  BY DEF Inv, OKInv, GhostTypes, Types, QueueTypes, ThreadTypes
<1>2. SUFFICES ASSUME failed' = {}, stream' # "freed"
               PROVE  handed' = ((wire' \o Tasks(writes)') \o Tasks(temp)') \o Tasks(sendQue)'
  BY DEF SentInOrder
<1>3. failed = {} /\ stream # "freed"
  BY <1>1, <1>2, HistoryStep, FreedStays
<1>4. PICK k, l : k = task /\ l = task'
  OBVIOUS
<1>5. k \in [Req -> Msg \cup {None}] /\ l \in [Req -> Msg \cup {None}]
  BY <1>1, <1>4 DEF Types, QueueTypes
<1>6. PICK W, T, Q : W = TasksOf(k, writes) /\ T = TasksOf(k, temp) /\ Q = TasksOf(k, sendQue)
  OBVIOUS
<1>7. handed = ((wire \o W) \o T) \o Q
  BY <1>3, <1>4, <1>6 DEF SentInOrder, Tasks, TasksOf
<1>8. PICK M : M = Msg \cup {None}
  OBVIOUS
<1>9. W \in Seq(M) /\ T \in Seq(M) /\ Q \in Seq(M) /\ wire \in Seq(M)
  <2>1. wire \in Seq(M)
    BY <1>1, <1>8
  <2>. QED  BY <1>1, <1>5, <1>6, <1>8, <2>1, TasksOfAll
\* The tasks of what waits after the step are what they were.
<1>10. /\ Tasks(writes)' = TasksOf(k, writes') /\ Tasks(temp)' = TasksOf(k, temp')
       /\ Tasks(sendQue)' = TasksOf(k, sendQue')
  <2>1. ASSUME NEW r \in Queued' PROVE k[r] = l[r]
    <3>1. r \in Used
      BY QueuedWasUsed
    <3>2. r \in Used'
      BY DEF Used
    <3>. QED  BY <1>4, <3>1, <3>2, UsedKeeps
  <2>2. ASSUME NEW q \in Seq(Req), ToSet(q) \subseteq Queued' PROVE TasksOf(l, q) = TasksOf(k, q)
    <3>1. \A r \in ToSet(q) : l[r] = k[r]
      BY <2>1, <2>2
    <3>. QED  BY <1>5, <3>1, TasksOfSame
  <2>3. PICK w, t, q : w = writes' /\ t = temp' /\ q = sendQue'
    OBVIOUS
  <2>4. /\ w \in Seq(Req) /\ t \in Seq(Req) /\ q \in Seq(Req)
        /\ ToSet(w) \subseteq Queued' /\ ToSet(t) \subseteq Queued' /\ ToSet(q) \subseteq Queued'
    BY <1>1, <2>3 DEF Queued
  <2>5. TasksOf(l, w) = TasksOf(k, w) /\ TasksOf(l, t) = TasksOf(k, t) /\ TasksOf(l, q) = TasksOf(k, q)
    BY <2>2, <2>4
  <2>6. Tasks(writes)' = TasksOf(l, w) /\ Tasks(temp)' = TasksOf(l, t) /\ Tasks(sendQue)' = TasksOf(l, q)
    BY <1>4, <2>3 DEF Tasks, TasksOf
  <2>. QED  BY <2>3, <2>5, <2>6
<1>11. SUFFICES handed' = ((wire' \o TasksOf(k, writes')) \o TasksOf(k, temp')) \o TasksOf(k, sendQue')
  BY <1>10
<1>12. ASSUME UNCHANGED <<handed, wire, writes, temp, sendQue>>
       PROVE  handed' = ((wire' \o TasksOf(k, writes')) \o TasksOf(k, temp')) \o TasksOf(k, sendQue')
  BY <1>6, <1>7, <1>12
\* A task is appended to the queue and to what was handed over.
<1>13. ASSUME NEW e \in Req, sendQue' = Append(sendQue, e), handed' = Append(handed, task[e]),
              UNCHANGED <<wire, writes, temp>>
       PROVE  handed' = ((wire' \o TasksOf(k, writes')) \o TasksOf(k, temp')) \o TasksOf(k, sendQue')
  <2>1. PICK m : m = k[e]
    OBVIOUS
  <2>2. m \in M
    BY <1>5, <1>8, <2>1
  <2>3. TasksOf(k, sendQue') = Append(Q, m)
    BY <1>1, <1>5, <1>6, <1>13, <2>1, TasksOfMore
  <2>4. PICK a : a = (wire \o W) \o T
    OBVIOUS
  <2>5. a \in Seq(M)
    BY <1>9, <2>4, Joining
  <2>6. Append(a \o Q, m) = a \o Append(Q, m)
    <3>1. WithOneMore(Joined(a, Q), m) = Joined(a, WithOneMore(Q, m))
      BY <1>9, <2>2, <2>5, AppendJoin
    <3>. QED  BY <3>1 DEF Joined, WithOneMore
  <2>. QED  BY <1>4, <1>6, <1>7, <1>13, <2>1, <2>3, <2>4, <2>6, Zenon
<1>14. CASE UvWritten
  <2>1. PICK e, w : e = Head(writes) /\ w = Tail(writes)
    OBVIOUS
  <2>2. /\ writes # <<>> /\ writes' = w /\ wire' = Append(wire, k[e])
        /\ UNCHANGED <<handed, temp, sendQue>>
    BY <1>4, <1>14, <2>1 DEF UvWritten
  <2>3. e \in Req /\ w \in Seq(Req)
    BY <1>1, <2>1, <2>2, Tailing
  <2>4. PICK m, V : m = k[e] /\ V = TasksOf(k, w)
    OBVIOUS
  <2>5. m \in M /\ V \in Seq(M) /\ W = <<m>> \o V
    <3>1. V \in Seq(M) /\ m \in M
      BY <1>5, <1>8, <2>3, <2>4, TasksOfAll
    <3>2. W = <<m>> \o V
      BY <1>1, <1>5, <1>6, <2>1, <2>2, <2>4, TasksOfLess
    <3>. QED  BY <3>1, <3>2, Zenon
  <2>6. Append(wire, m) \o V = wire \o (<<m>> \o V)
    <3>1. wire \in Seq(M) /\ V \in Seq(M) /\ m \in M
      BY <1>9, <2>5
    <3>. QED  BY <3>1, HeadOver
  <2>. QED  BY <1>6, <1>7, <2>2, <2>4, <2>5, <2>6, Zenon
<1>15. CASE UvWrite
  <2>1. PICK e, t : e = Head(temp) /\ t = Tail(temp)
    OBVIOUS
  <2>2. /\ temp # <<>> /\ temp' = t /\ writes' = Append(writes, e)
        /\ UNCHANGED <<handed, wire, sendQue>>
    BY <1>15, <2>1 DEF UvWrite, history
  <2>3. e \in Req /\ t \in Seq(Req)
    BY <1>1, <2>1, <2>2, Tailing
  <2>4. PICK m, V : m = k[e] /\ V = TasksOf(k, t)
    OBVIOUS
  <2>5. m \in M /\ V \in Seq(M) /\ T = <<m>> \o V
    <3>1. V \in Seq(M) /\ m \in M
      BY <1>5, <1>8, <2>3, <2>4, TasksOfAll
    <3>2. T = <<m>> \o V
      BY <1>1, <1>5, <1>6, <2>1, <2>2, <2>4, TasksOfLess
    <3>. QED  BY <3>1, <3>2, Zenon
  <2>6. TasksOf(k, writes') = Append(W, m)
    BY <1>1, <1>5, <1>6, <2>2, <2>3, <2>4, TasksOfMore
  <2>7. PICK a : a = wire \o W
    OBVIOUS
  <2>8. Append(wire \o W, m) = wire \o Append(W, m)
    <3>1. WithOneMore(Joined(wire, W), m) = Joined(wire, WithOneMore(W, m))
      BY <1>9, <2>5, AppendJoin
    <3>. QED  BY <3>1 DEF Joined, WithOneMore
  <2>9. a \in Seq(M)
    BY <1>9, <2>7, Joining
  <2>10. Append(a, m) \o V = a \o (<<m>> \o V)
    <3>1. a \in Seq(M) /\ V \in Seq(M) /\ m \in M
      BY <2>5, <2>9
    <3>. QED  BY <3>1, HeadOver
  <2>. QED  BY <1>6, <1>7, <2>2, <2>4, <2>5, <2>6, <2>7, <2>8, <2>9, <2>10, Zenon
\* The queue is swapped out when realSend has nothing left from before.
<1>16. CASE SwapQue
  <2>1. calls # <<>> /\ Head(calls).op = "realSend" /\ Head(calls) = calls[1] /\ Len(calls) \in Nat \ {0}
    BY <1>1, <1>16, Tailing DEF SwapQue, Runs, Idle
  <2>2. ~LoopLeft(calls)
    BY <1>1, <2>1 DEF LoopLeft, Placed
  <2>3. temp = <<>> /\ temp' = sendQue /\ sendQue' = <<>> /\ UNCHANGED <<handed, wire, writes>>
    BY <1>1, <1>16, <2>2 DEF TempInv, SwapQue, history
  <2>4. T = <<>> /\ TasksOf(k, sendQue') = <<>>
    <3>1. TasksOf(k, <<>>) = <<>>
      BY <1>1, <1>5, TasksOfAll
    <3>. QED  BY <1>6, <2>3, <3>1
  <2>5. PICK a, b : a = wire \o W /\ b = a \o Q
    OBVIOUS
  <2>6. a \in Seq(M) /\ b \in Seq(M) /\ a \o <<>> = a /\ b \o <<>> = b
    <3>1. a \in Seq(M)
      BY <1>9, <2>5, Joining
    <3>2. b \in Seq(M)
      BY <1>9, <2>5, <3>1, Joining
    <3>. QED  BY <3>1, <3>2, Seqs!ConcatEmptySeq
  <2>. QED  BY <1>6, <1>7, <2>3, <2>4, <2>5, <2>6, Zenon
<1>17. CASE UvWriteFails \/ UvWriteRefused \/ KeepUnsent
  BY <1>2, <1>17 DEF UvWriteFails, UvWriteRefused, KeepUnsent, PushBackHead
<1>18. ASSUME CancelWrites PROVE writes' = writes
  <2>1. ASSUME writes # <<>> PROVE FALSE
    <3>1. 1 \in 1..Len(writes)
      BY <1>1, <2>1
    <3>. QED  BY <1>2, <1>18, <3>1 DEF CancelWrites
  <2>. QED  BY <1>18, <2>1 DEF CancelWrites
<1>19. CASE UvFlush \/ UvFinishClose
  <2>1. writes' = writes
    BY <1>18, <1>19 DEF UvFlush, UvFinishClose, queueVars
  <2>2. UNCHANGED <<handed, wire, temp, sendQue>>
    BY <1>19 DEF UvFlush, UvFinishClose, queueVars, history, CancelWrites
  <2>. QED  BY <1>12, <2>1, <2>2
<1>20. CASE PushInQueInLoop \/ AfterWriteKeeps
  <2>1. PICK x : x = Head(calls)
    OBVIOUS
  <2>2. calls # <<>> /\ x.op \in {"pushinQue", "pushbackQue"}
    BY <1>20, <2>1 DEF PushInQueInLoop, AfterWriteKeeps, Runs, Idle
  <2>3. x = calls[1] /\ 1 \in 1..Len(calls) /\ x \in ToSet(calls)
    BY <1>1, <2>1, <2>2, Tailing
  <2>4. CASE AfterWriteKeeps
    <3>1. Returned(x)
      BY <2>1, <2>4 DEF AfterWriteKeeps, Runs, Returned
    <3>. QED  BY <1>3, <2>3, <3>1 DEF HistoryInv
  <2>5. CASE PushInQueInLoop
    <3>1. x.req \in Req
      BY <1>1, <2>2, <2>3 DEF Types, HeldInv, Owning
    <3>2. /\ sendQue' = Append(sendQue, x.req) /\ handed' = Append(handed, task[x.req])
          /\ UNCHANGED <<wire, writes, temp>>
      BY <2>1, <2>5 DEF PushInQueInLoop
    <3>. QED  BY <1>13, <3>1, <3>2
  <2>. QED  BY <1>20, <2>4, <2>5
<1>21. CASE \/ UNCHANGED vars \/ RunPosted \/ UvConnected \/ UvConnectFails \/ UvRead \/ UvReadEnds
            \/ UserCloses \/ UserReconnects \/ SendLoopEnds \/ AfterWriteUnbound \/ AfterWritePuts
            \/ FreeConnection \/ AfterWrite \/ Close \/ OnConnect \/ OnClose \/ UserReturns
            \/ \E m \in Msg, e \in Req : UserSends(m, e)
  <2>1. UNCHANGED <<handed, wire, writes, temp, sendQue>>
    BY <1>2, <1>21
       DEF vars, queueVars, history, RunPosted, UvConnected, UvConnectFails, UvRead, UvReadEnds,
           UserCloses, UserReconnects, SendLoopEnds, AfterWriteUnbound, AfterWritePuts,
           FreeConnection, AfterWrite, Close, OnConnect, OnClose, UserReturns, UserSends, Release,
           Destroy
  <2>. QED  BY <1>12, <2>1
<1>22. ASSUME NEW t \in Senders,
              SenderStep(t) \/ CloseSafe(t) \/ \E m \in Msg, e \in Req : SendMsg(t, m, e)
       PROVE  handed' = ((wire' \o TasksOf(k, writes')) \o TasksOf(k, temp')) \o TasksOf(k, sendQue')
  <2>1. CASE PushInQue(t)
    <3>1. held[t] \in Req
      BY <1>1, <2>1 DEF PushInQue, SenderGoto, Types, ThreadTypes, HeldInv
    <3>. QED  BY <1>13, <2>1, <3>1 DEF PushInQue
  <2>2. CASE ~PushInQue(t)
    <3>1. UNCHANGED <<handed, wire, writes, temp, sendQue>>
      BY <1>2, <1>22, <2>2 DEF SenderStep, PostRealSend, PostClose, CloseSafe, SendMsg, queueVars,
                               history, Release, Destroy
    <3>. QED  BY <1>12, <3>1
  <2>. QED  BY <2>1, <2>2
<1>. QED  BY <1>14, <1>15, <1>16, <1>17, <1>19, <1>20, <1>21, <1>22 DEF Next, LoopCall, LoopEvent

-----------------------------------------------------------------------------
(* The theorems.                                                            *)

\* NoSendForgotten, with sets for indices.
SendInv == (\E r \in ToSet(sendQue) : task[r] \notin failed) => Coming

LEMMA SendInvMeans == Types => (SendInv <=> NoSendForgotten)
<1>. SUFFICES ASSUME Types PROVE SendInv <=> NoSendForgotten
  OBVIOUS
<1>1. DOMAIN sendQue = 1..Len(sendQue) /\ DOMAIN calls = 1..Len(calls) /\ DOMAIN posted = 1..Len(posted)
  BY DEF Types, QueueTypes, ThreadTypes
<1>2. (\E r \in ToSet(sendQue) : task[r] \notin failed)
        <=> \E i \in 1..Len(sendQue) : task[sendQue[i]] \notin failed
  BY <1>1 DEF ToSet
<1>3. (\E x \in ToSet(calls) : x.op = "realSend") <=> \E i \in 1..Len(calls) : calls[i].op = "realSend"
  BY <1>1 DEF ToSet
<1>4. "realSend" \in ToSet(posted) <=> \E i \in 1..Len(posted) : posted[i] = "realSend"
  BY <1>1 DEF ToSet
<1>. QED  BY <1>2, <1>3, <1>4 DEF SendInv, NoSendForgotten, Coming

LEMMA SendNext ==
  ASSUME Inv, HistoryInv, SendInv, Inv', [Next]_vars
  PROVE  SendInv'
<1>1. SUFFICES ASSUME NEW r \in ToSet(sendQue'), task'[r] \notin failed' PROVE Coming'
  BY DEF SendInv
<1>2. Types
  BY DEF Inv, OKInv
<1>3. task'[r] = task[r]
  <2>1. r \in Queued' /\ r \in Used'
    BY DEF Queued, Used
  <2>2. r \in Used
    BY <2>1, QueuedWasUsed
  <2>. QED  BY <2>1, <2>2, UsedKeeps
<1>4. failed \subseteq failed'
  BY <1>2, HistoryStep
<1>5. CASE r \in ToSet(sendQue) /\ ~SwapQue
  <2>1. Coming
    BY <1>1, <1>3, <1>4, <1>5 DEF SendInv
  <2>. QED  BY <1>2, <1>5, <2>1, ComingStays
<1>. QED  BY <1>1, <1>3, <1>5, SendQueStep

\* What holds of the histories and the queues.
OutboxInv == Inv /\ HistoryInv /\ SendInv /\ SentInOrder

LEMMA OutboxInit == Init => OutboxInv
<1>. SUFFICES ASSUME Init PROVE OutboxInv
  OBVIOUS
<1>1. SendInv
  <2>1. sendQue = <<>>
    BY DEF Init
  <2>. QED  BY <2>1, ToSetSome DEF SendInv
<1>2. SentInOrder
  <2>1. Tasks(<<>>) = <<>>
    BY DEF Tasks
  <2>2. ((<<>> \o <<>>) \o <<>>) \o <<>> = <<>>
    OBVIOUS
  <2>3. writes = <<>> /\ temp = <<>> /\ sendQue = <<>> /\ handed = <<>> /\ wire = <<>>
    BY DEF Init
  <2>. QED  BY <2>1, <2>2, <2>3, Zenon DEF SentInOrder
<1>. QED  BY <1>1, <1>2, InvInit, HistoryInit DEF OutboxInv

LEMMA OutboxNext == OutboxInv /\ [Next]_vars => OutboxInv'
<1>. SUFFICES ASSUME OutboxInv, [Next]_vars PROVE OutboxInv'
  OBVIOUS
<1>1. Inv /\ HistoryInv /\ SendInv /\ SentInOrder
  BY DEF OutboxInv
<1>2. Inv'
  BY <1>1, InvNext
<1>3. HistoryInv'
  BY <1>1, <1>2, HistoryNext
<1>4. SendInv'
  BY <1>1, <1>2, SendNext
<1>5. SentInOrder'
  BY <1>1, <1>2, OrderNext
<1>. QED  BY <1>2, <1>3, <1>4, <1>5 DEF OutboxInv

THEOREM OutboxInvariance == Spec => []OutboxInv
BY OutboxInit, OutboxNext, PTL DEF Spec

\* A task that has not been tried waits in the queue only while a realSend is on its
\* way, although a sender pushes while realSend runs and a realSend may be overtaken by
\* a close.
THEOREM SendIsComing == Spec => []NoSendForgotten
<1>1. OutboxInv => NoSendForgotten
  BY SendInvMeans DEF OutboxInv, Inv, OKInv
<1>. QED  BY <1>1, OutboxInvariance, PTL

\* Until a write fails or the session ends, what was handed over is what went out,
\* what libuv has, what realSend still holds and what is queued, in this order.
THEOREM SendsInOrder == Spec => []SentInOrder
<1>1. OutboxInv => SentInOrder
  BY DEF OutboxInv
<1>. QED  BY <1>1, OutboxInvariance, PTL

\* Only the tasks of requests that wait can come to fail.
LEMMA FailedStep ==
  ASSUME Inv, [Next]_vars, NEW m \in failed', m \notin failed
  PROVE  \E r \in Queued : m = task[r]
<1>. DEFINE Goal == \E r \in Queued : m = task[r]
<1>1. writes \in Seq(Req) /\ temp \in Seq(Req)
  BY DEF Inv, OKInv, Types, QueueTypes
<1>2. CASE UvWriteFails
  <2>1. Head(writes) \in ToSet(writes) /\ m = task[Head(writes)]
    BY <1>1, <1>2, Tailing DEF UvWriteFails
  <2>. QED  BY <2>1 DEF Queued
<1>3. CASE UvWriteRefused \/ KeepUnsent
  <2>1. Head(temp) \in ToSet(temp) /\ m = task[Head(temp)]
    BY <1>1, <1>3, Tailing DEF UvWriteRefused, KeepUnsent, PushBackHead
  <2>. QED  BY <2>1 DEF Queued
<1>4. CASE UvFlush \/ UvFinishClose
  <2>1. CancelWrites
    BY <1>4 DEF UvFlush, UvFinishClose, history
  <2>2. PICK i \in 1..Len(writes) : m = task[writes[i]]
    BY <2>1 DEF CancelWrites
  <2>3. writes[i] \in ToSet(writes)
    BY <1>1 DEF ToSet
  <2>. QED  BY <2>2, <2>3 DEF Queued
<1>5. CASE \/ UNCHANGED vars \/ RunPosted \/ UvConnected \/ UvConnectFails \/ UvRead \/ UvReadEnds
           \/ UvWritten \/ UserCloses \/ UserReconnects \/ SwapQue \/ UvWrite \/ SendLoopEnds
           \/ AfterWriteUnbound \/ AfterWritePuts \/ AfterWriteKeeps \/ FreeConnection \/ AfterWrite
           \/ Close \/ OnConnect \/ OnClose \/ PushInQueInLoop \/ UserReturns
           \/ \E t \in Msg, e \in Req : UserSends(t, e)
  <2>1. UNCHANGED failed
    BY <1>5 DEF vars, history, RunPosted, UvConnected, UvConnectFails, UvRead, UvReadEnds, UvWritten,
           UserCloses, UserReconnects, SwapQue, UvWrite, SendLoopEnds, AfterWriteUnbound,
           AfterWritePuts, AfterWriteKeeps, FreeConnection, AfterWrite, Close, OnConnect, OnClose,
           PushInQueInLoop, UserReturns, UserSends
  <2>. QED  BY <2>1
<1>6. ASSUME NEW t \in Senders,
             SenderStep(t) \/ CloseSafe(t) \/ \E n \in Msg, e \in Req : SendMsg(t, n, e)
      PROVE  FALSE
  BY <1>6 DEF SenderStep, PushInQue, PostRealSend, PostClose, CloseSafe, SendMsg, history
<1>. QED  BY <1>2, <1>3, <1>4, <1>5, <1>6 DEF Next, LoopCall, LoopEvent

\* What goes out first is the head of what libuv has.
LEMMA FirstOut ==
  ASSUME NEW A, NEW w \in Seq(A), NEW W \in Seq(A), NEW T \in Seq(A), NEW Q \in Seq(A), W # <<>>,
         NEW h, h = ((w \o W) \o T) \o Q
  PROVE  h[Len(w) + 1] = W[1]
<1>1. PICK a, b : a = w \o W /\ b = a \o T
  OBVIOUS
<1>2. /\ a \in Seq(A) /\ Len(a) = Len(w) + Len(W) /\ Len(w) \in Nat /\ Len(W) \in Nat \ {0}
      /\ a[Len(w) + 1] = W[1]
  BY <1>1
<1>3. b \in Seq(A) /\ Len(b) = Len(a) + Len(T) /\ Len(T) \in Nat /\ \A i \in 1..Len(a) : b[i] = a[i]
  BY <1>1, <1>2, Joining
<1>4. h = b \o Q /\ \A i \in 1..Len(b) : (b \o Q)[i] = b[i]
  BY <1>1, <1>3, Joining
<1>5. Len(w) + 1 \in 1..Len(a) /\ Len(w) + 1 \in 1..Len(b)
  BY <1>2, <1>3
<1>. QED  BY <1>2, <1>3, <1>4, <1>5

\* A connection keeps the promise of Outbox: each task goes out once at most, in the order
\* of the pushes until a write fails, and what went out is never reported as failed, also
\* not when it was kept after an error and sent on the next stream.
THEOREM Implementation == Spec => ImplementsOutbox
<1>1. Init => Box!Init
  BY DEF Init, Box!Init
<1>2. OutboxInv /\ OutboxInv' /\ [Next]_vars => [Box!Next]_Box!vars
  <2>. SUFFICES ASSUME OutboxInv, OutboxInv', [Next]_vars
                PROVE  Box!Next \/ UNCHANGED <<handed, wire, failed>>
    BY DEF Box!vars
  <2>1. Inv /\ HistoryInv /\ SentInOrder /\ Types /\ PlaceInv /\ TaskInv /\ GhostTypes /\ GhostTypes'
    BY DEF OutboxInv, Inv, OKInv
  <2>2. ASSUME NEW r \in Req, Pushes(r) PROVE Box!Next
    <3>1. task[r] \in Msg /\ task[r] \notin ToSet(handed)
      BY <2>1, <2>2, PushedIsNew
    <3>2. Box!Accept(task[r])
      BY <2>2, <3>1 DEF Pushes, Box!Accept, Box!ToSet, ToSet
    <3>. QED  BY <3>1, <3>2 DEF Box!Next
  <2>3. ASSUME UvWritten, UNCHANGED <<handed, task, failed>> PROVE Box!Next
    <3>1. PICK r, m : r = Head(writes) /\ m = task[r]
      OBVIOUS
    <3>2. r \in ToSet(writes) /\ writes # <<>> /\ wire' = Append(wire, m) /\ stream = "open"
      BY <2>1, <2>3, <3>1, HistoryGrows DEF UvWritten
    <3>3. m \in Undelivered /\ m \in Msg
      <4>1. r \in Queued /\ r \in Used
        BY <3>2 DEF Queued, Used
      <4>. QED  BY <2>1, <3>1, <4>1, UsedTasked DEF HistoryInv
    <3>4. ASSUME failed = {} PROVE m = handed[Len(wire) + 1]
      <4>1. PICK M : M = Msg \cup {None}
        OBVIOUS
      <4>2. PICK W, T, Q : W = TasksOf(task, writes) /\ T = TasksOf(task, temp) /\ Q = TasksOf(task, sendQue)
        OBVIOUS
      <4>3. writes \in Seq(Req) /\ temp \in Seq(Req) /\ sendQue \in Seq(Req) /\ task \in [Req -> M]
        BY <2>1, <4>1 DEF Types, QueueTypes
      <4>4. W \in Seq(M) /\ T \in Seq(M) /\ Q \in Seq(M)
        BY <4>2, <4>3, TasksOfAll
      <4>5. wire \in Seq(M)
        BY <2>1, <4>1 DEF GhostTypes
      <4>6. handed = ((wire \o W) \o T) \o Q
        BY <2>1, <3>2, <3>4, <4>2 DEF SentInOrder, Tasks, TasksOf
      <4>7. W # <<>> /\ W[1] = m
        <5>1. Len(writes) \in Nat \ {0} /\ Head(writes) = writes[1]
          BY <3>2, <4>3, Tailing
        <5>2. Len(W) = Len(writes) /\ \A i \in 1..Len(writes) : W[i] = task[writes[i]]
          BY <4>2, <4>3, TasksOfAll
        <5>. QED  BY <3>1, <4>4, <5>1, <5>2
      <4>. QED  BY <4>4, <4>5, <4>6, <4>7, FirstOut
    <3>5. Box!Deliver(m)
      BY <2>3, <3>2, <3>3, <3>4 DEF Box!Deliver, Box!Undelivered, Undelivered, Box!ToSet, ToSet
    <3>. QED  BY <3>3, <3>5 DEF Box!Next
  <2>4. ASSUME UNCHANGED <<handed, wire>> PROVE Box!Next
    <3>1. PICK lost : lost = failed' \ failed
      OBVIOUS
    <3>2. lost \subseteq Undelivered
      BY <2>1, <3>1, FailedStep DEF HistoryInv
    <3>3. failed' = failed \cup lost /\ lost \in SUBSET Msg
      BY <2>1, <3>1, HistoryStep DEF GhostTypes
    <3>4. Box!Fail(lost)
      BY <2>4, <3>2, <3>3 DEF Box!Fail, Box!Undelivered, Undelivered, Box!ToSet, ToSet
    <3>. QED  BY <3>3, <3>4 DEF Box!Next
  <2>. QED  BY <2>1, <2>2, <2>3, <2>4, HistoryStep
<1>. QED  BY <1>1, <1>2, OutboxInvariance, PTL DEF Spec, ImplementsOutbox, Box!Spec
=============================================================================
