---------------------------- MODULE TcpConnection ----------------------------
(***************************************************************************)
(* One robin::TcpConnection (src/src/TcpConnection.cpp): its send queue,   *)
(* the write requests it takes from the BufferPool (src/src/BufferPool.cpp)*)
(* and the life of its libuv stream, with the threads that send on it, the *)
(* network, and the user's callbacks.                                      *)
(*                                                                         *)
(* The loop thread runs one libuv callback at a time.  What is left of the *)
(* running callback is the sequence calls, the next call first, so a user  *)
(* callback that calls the connection again puts calls in front.  Steps    *)
(* are the units another thread can observe: one lock-protected block, one *)
(* store, one call of libuv.                                               *)
(*                                                                         *)
(* The EventLoop is what CallbackQueue promises: closures handed over with *)
(* runInLoopEn run once each, in order, on the loop thread.  libuv's       *)
(* stream is external and modelled from its contract: uv_write queues a    *)
(* request unless the stream has no descriptor; a failed connect reports   *)
(* the queued writes as cancelled after it has called onConnect, unless    *)
(* the callback closed the stream; a closed stream reports its connect     *)
(* and its writes as cancelled before it calls onClose.                    *)
(*                                                                         *)
(* A client is kept by its user.  A session is kept by the map until       *)
(* onClose has called freeConnection, and by the threads inside sendMsg or *)
(* closeSafe, which locked the task's weak_ptr.  The closures keep only    *)
(* `this': a closure that would run on a destroyed session is undefined    *)
(* and nothing is said of what follows.                                    *)
(***************************************************************************)
EXTENDS Naturals, Sequences, SequencesExt

CONSTANTS
  Senders,      \* the threads, other than the loop's, that use the connection
  Msg,          \* the tasks to send, each once
  Bound,        \* the tasks whose user called ITask::setConnection
  Req,          \* the write requests (write_req_vec_t) that can be allocated
  Pooled,       \* those the BufferPool has made at the start, a sequence
  None,         \* no task, no request
  Roles,        \* the values of bClient to consider: client, session of a server
  Closers,      \* bound: those of Senders that call closeSafe, each once
  MaxConnects   \* bound: calls of connect()

ASSUME BoundAssumption == Bound \subseteq Msg
ASSUME PooledAssumption ==
  Pooled \in Seq(Req) /\ \A i, j \in 1..Len(Pooled) : Pooled[i] = Pooled[j] => i = j
ASSUME NoneAssumption == None \notin Msg \cup Req \cup Senders
ASSUME ClosersAssumption == Closers \subseteq Senders
ASSUME RolesAssumption == Roles \subseteq BOOLEAN
ASSUME ConnectsAssumption == MaxConnects \in Nat \ {0}

VARIABLES
  bClient,    \* whether it connects itself
  stream,     \* libuv's state of the handle, local of a client, remote of a session;
              \* "freed" once the session has been destroyed
  connected,  \* bConnected
  closed,     \* bClosed
  connects,   \* how often connect() was called
  writes,     \* libuv's queue of the requests given to uv_write
  sendQue,    \* sendQue
  temp,       \* what is left of tempQue in realSend
  failing,    \* bError in realSend
  calls,      \* what the loop thread has left to do in the running callback
  posted,     \* the closures handed to the loop
  pc,         \* where each sender is
  held,       \* the request each sender is holding
  pool,       \* BufferPool::reqQueue
  allocated,  \* the requests that exist
  task,       \* taskPtr of each request
  handed,     \* history: the tasks pushed to sendQue by sendMsg, in order
  wire,       \* history: the tasks the network has taken, in order
  failed,     \* history: the tasks a write of which failed
  reported    \* history: the failed tasks whose user has been called back since

streamVars == <<bClient, stream, connected, closed, connects>>
queueVars == <<writes, sendQue, temp, failing>>
senderVars == <<pc, held>>
poolVars == <<pool, allocated, task>>
history == <<handed, wire, failed, reported>>
vars == <<streamVars, queueVars, calls, posted, senderVars, poolVars, history>>

-----------------------------------------------------------------------------
(* Calls on the loop thread.                                               *)

Call(op) == [op |-> op, req |-> None, ok |-> TRUE]
CallWith(op, r) == [op |-> op, req |-> r, ok |-> TRUE]
Outcome(op, r, ok) == [op |-> op, req |-> r, ok |-> ok]

Idle == calls = <<>>
Runs(op) == ~Idle /\ Head(calls).op = op /\ stream # "freed"
Returns == calls' = Tail(calls)
ReturnsTo(next) == calls' = next \o Tail(calls)
Enters(next) == Idle /\ calls' = next

\* afterWrite for every request of a stream that is being cancelled.
Cancelled == [i \in 1..Len(writes) |-> Outcome("afterWrite", writes[i], FALSE)]

Init ==
  /\ bClient \in Roles
  /\ stream \in IF bClient THEN {"connecting", "noFd"} ELSE {"open"}
  /\ connected = FALSE
  /\ closed = FALSE
  /\ connects = 1
  /\ writes = <<>> /\ sendQue = <<>> /\ temp = <<>>
  /\ failing = FALSE
  /\ calls = <<>>
  /\ posted = <<>>
  /\ pc = [t \in Senders |-> "idle"]
  /\ held = [t \in Senders |-> None]
  /\ pool = Pooled
  /\ allocated = ToSet(Pooled)
  /\ task = [r \in Req |-> None]
  /\ handed = <<>> /\ wire = <<>>
  /\ failed = {} /\ reported = {}

-----------------------------------------------------------------------------
(* BufferPool.                                                             *)

\* getWriteBuffer takes the head of the pool, or allocates.
GetWriteBuffer(r) ==
  \/ /\ pool # <<>> /\ r = Head(pool)
     /\ pool' = Tail(pool)
     /\ UNCHANGED allocated
  \/ /\ pool = <<>> /\ r \in Req \ allocated
     /\ allocated' = allocated \cup {r}
     /\ UNCHANGED pool

\* ~TcpConnection gives the queue back.
Destroy ==
  /\ stream' = "freed"
  /\ sendQue' = <<>>
  /\ pool' = pool \o sendQue
  /\ task' = [r \in Req |-> IF r \in ToSet(sendQue) THEN None ELSE task[r]]

\* A shared_ptr goes: the last one takes the session with it.
Release(last) ==
  IF last THEN Destroy ELSE UNCHANGED <<stream, sendQue, pool, task>>

\* Fault: the request goes back with its task.
PutWithTask(r) ==
  /\ pool' = Append(pool, r)
  /\ UNCHANGED <<allocated, task>>

PutWriteBuffer(r) ==
  /\ task' = [task EXCEPT ![r] = None]
  /\ pool' = Append(pool, r)
  /\ UNCHANGED allocated

Unsent(m) ==
  /\ \A i \in 1..Len(handed) : handed[i] # m
  /\ \A r \in Req : task[r] # m

\* Fault: the request does not keep the task.
EncodeOnly(m, r) ==
  /\ Unsent(m)
  /\ GetWriteBuffer(r)
  /\ UNCHANGED task

\* encodeTask
EncodeTask(m, r) ==
  /\ Unsent(m)
  /\ GetWriteBuffer(r)
  /\ task' = [task EXCEPT ![r] = m]

-----------------------------------------------------------------------------
(* sendMsg and closeSafe on a thread that is not the loop's.               *)

SenderGoto(t, from, to) == pc[t] = from /\ pc' = [pc EXCEPT ![t] = to]

Uses(t) == pc[t] \in {"push", "post", "postClose"}
Mapped == stream \notin {"closed", "freed"} \/ \E i \in 1..Len(calls) : calls[i].op = "freeConnection"

\* Fault: the tasks keep their session, as with a shared_ptr in ITask.
LastButTasks(user) == ~bClient /\ sendQue = <<>> /\ \A t \in Senders \ {user} : ~Uses(t)

\* Whether no thread but user holds a shared_ptr to the session; the tasks hold
\* a weak_ptr.
LastUser(user) == ~bClient /\ \A t \in Senders \ {user} : ~Uses(t)

SendMsg(t, m, r) ==
  /\ stream # "freed"
  /\ SenderGoto(t, "idle", "push")
  /\ EncodeTask(m, r)
  /\ held' = [held EXCEPT ![t] = r]
  /\ UNCHANGED <<streamVars, queueVars, calls, posted, history>>

\* Fault: the request is put in front of the queue.
PushInFront(t) ==
  /\ SenderGoto(t, "push", "post")
  /\ sendQue' = <<held[t]>> \o sendQue
  /\ handed' = Append(handed, task[held[t]])
  /\ held' = [held EXCEPT ![t] = None]
  /\ UNCHANGED <<streamVars, writes, temp, failing, calls, posted, poolVars,
                 wire, failed, reported>>

PushInQue(t) ==
  /\ SenderGoto(t, "push", "post")
  /\ sendQue' = Append(sendQue, held[t])
  /\ handed' = Append(handed, task[held[t]])
  /\ held' = [held EXCEPT ![t] = None]
  /\ UNCHANGED <<streamVars, writes, temp, failing, calls, posted, poolVars,
                 wire, failed, reported>>

\* Fault: nothing is scheduled before the connection is made.
PostWhenConnected(t) ==
  /\ SenderGoto(t, "post", "idle")
  /\ posted' = IF connected THEN Append(posted, "realSend") ELSE posted
  /\ UNCHANGED <<streamVars, queueVars, calls, held, poolVars, history>>

PostRealSend(t) ==
  /\ SenderGoto(t, "post", "idle")
  /\ posted' = Append(posted, "realSend")
  /\ Release(~Mapped /\ LastUser(t))
  /\ UNCHANGED <<bClient, connected, closed, connects, writes, temp, failing, calls, held,
                 allocated, history>>

CloseSafe(t) ==
  /\ stream # "freed" /\ t \in Closers
  /\ SenderGoto(t, "idle", "postClose")
  /\ connected' = FALSE
  /\ UNCHANGED <<bClient, stream, closed, connects, queueVars, calls, posted, held, poolVars, history>>

PostClose(t) ==
  /\ SenderGoto(t, "postClose", "done")
  /\ posted' = Append(posted, "close")
  /\ Release(~Mapped /\ LastUser(t))
  /\ UNCHANGED <<bClient, connected, closed, connects, writes, temp, failing, calls, held,
                 allocated, history>>

-----------------------------------------------------------------------------
(* Events of the loop.                                                     *)

RunPosted ==
  /\ posted # <<>> /\ stream # "freed"
  /\ Enters(<<Call(Head(posted))>>)
  /\ posted' = Tail(posted)
  /\ UNCHANGED <<streamVars, queueVars, senderVars, poolVars, history>>

UvConnected ==
  /\ stream = "connecting"
  /\ Enters(<<Outcome("onConnect", None, TRUE)>>)
  /\ stream' = "open"
  /\ UNCHANGED <<bClient, connected, closed, connects, queueVars, posted, senderVars, poolVars, history>>

UvConnectFails ==
  /\ stream = "connecting"
  /\ Enters(<<Outcome("onConnect", None, FALSE), Call("flush")>>)
  /\ stream' = "failed"
  /\ UNCHANGED <<bClient, connected, closed, connects, queueVars, posted, senderVars, poolVars, history>>

\* onRead with data: the dispatcher calls the user's onMessageParse.
UvRead ==
  /\ stream = "open"
  /\ Enters(<<Call("onMessageParse")>>)
  /\ UNCHANGED <<streamVars, queueVars, posted, senderVars, poolVars, history>>

\* onRead with an error or the end of the stream.
UvReadEnds ==
  /\ stream = "open"
  /\ Enters(<<Call("close")>>)
  /\ UNCHANGED <<streamVars, queueVars, posted, senderVars, poolVars, history>>

UvWritten ==
  /\ stream = "open" /\ writes # <<>>
  /\ Enters(<<Outcome("afterWrite", Head(writes), TRUE)>>)
  /\ writes' = Tail(writes)
  /\ wire' = Append(wire, task[Head(writes)])
  /\ UNCHANGED <<streamVars, sendQue, temp, failing, posted, senderVars, poolVars,
                 handed, failed, reported>>

UvWriteFails ==
  /\ stream \in {"open", "failed"} /\ writes # <<>>
  /\ Enters(<<Outcome("afterWrite", Head(writes), FALSE)>>)
  /\ writes' = Tail(writes)
  /\ failed' = failed \cup {task[Head(writes)]}
  /\ UNCHANGED <<streamVars, sendQue, temp, failing, posted, senderVars, poolVars,
                 handed, wire, reported>>

CancelWrites ==
  /\ writes' = <<>>
  /\ failed' = failed \cup {task[writes[i]] : i \in 1..Len(writes)}
  /\ UNCHANGED <<sendQue, temp, failing, handed, wire, reported>>

\* The end of a failed connect.
UvFlush ==
  /\ Runs("flush")
  /\ IF stream = "failed"
     THEN ReturnsTo(Cancelled) /\ CancelWrites
     ELSE Returns /\ UNCHANGED <<queueVars, history>>
  /\ UNCHANGED <<streamVars, posted, senderVars, poolVars>>

\* The closing phase of the loop.
UvFinishClose ==
  /\ stream \in {"closing", "aborting"}
  /\ LET aborted == IF stream = "aborting" THEN <<Outcome("onConnect", None, FALSE)>> ELSE <<>>
     IN  Enters(aborted \o Cancelled \o <<Call("onClose")>>)
  /\ stream' = "finishing"
  /\ CancelWrites
  /\ UNCHANGED <<bClient, connected, closed, connects, posted, senderVars, poolVars>>

-----------------------------------------------------------------------------
(* realSend                                                                *)

HasFd == stream \in {"connecting", "open", "failed"}

SwapQue ==
  /\ Runs("realSend")
  /\ temp' = sendQue /\ sendQue' = <<>>
  /\ failing' = FALSE
  /\ ReturnsTo(<<Call("sendLoop")>>)
  /\ UNCHANGED <<streamVars, writes, posted, senderVars, poolVars, history>>

UvWrite ==
  /\ Runs("sendLoop") /\ temp # <<>> /\ ~failing
  /\ HasFd
  /\ writes' = Append(writes, Head(temp))
  /\ temp' = Tail(temp)
  /\ UNCHANGED <<streamVars, sendQue, failing, calls, posted, senderVars, poolVars, history>>

\* Fault: the rest of tempQue is dropped.
DropHead ==
  /\ temp' = Tail(temp)
  /\ failed' = failed \cup {task[Head(temp)]}
  /\ UNCHANGED <<writes, sendQue, handed, wire, reported>>

\* pushbackQue of the request at the head of tempQue
PushBackHead ==
  /\ sendQue' = Append(sendQue, Head(temp))
  /\ temp' = Tail(temp)
  /\ failed' = failed \cup {task[Head(temp)]}
  /\ UNCHANGED <<writes, handed, wire, reported>>

\* uv_write refuses the request: keep it and close.
UvWriteRefused ==
  /\ Runs("sendLoop") /\ temp # <<>> /\ ~failing
  /\ ~HasFd
  /\ PushBackHead
  /\ failing' = TRUE
  /\ connected' = FALSE
  /\ calls' = <<Call("close")>> \o calls
  /\ UNCHANGED <<bClient, stream, closed, connects, posted, senderVars, poolVars>>

\* The rest of tempQue after a refused write.
KeepUnsent ==
  /\ Runs("sendLoop") /\ temp # <<>> /\ failing
  /\ PushBackHead
  /\ UNCHANGED <<streamVars, failing, calls, posted, senderVars, poolVars>>

SendLoopEnds ==
  /\ Runs("sendLoop") /\ temp = <<>>
  /\ Returns
  /\ UNCHANGED <<streamVars, queueVars, posted, senderVars, poolVars, history>>

-----------------------------------------------------------------------------
(* afterWrite                                                              *)

\* Fault: the early return forgets the request.
AfterWriteLeaks ==
  /\ Runs("afterWrite")
  /\ task[Head(calls).req] \notin Bound
  /\ Returns
  /\ UNCHANGED <<streamVars, queueVars, posted, senderVars, poolVars, history>>

\* The task of the request names no connection.
AfterWriteUnbound ==
  /\ Runs("afterWrite")
  /\ LET r == Head(calls).req
     IN task[r] \notin Bound /\ PutWriteBuffer(r)
  /\ Returns
  /\ UNCHANGED <<streamVars, queueVars, posted, senderVars, history>>

AfterWrite ==
  /\ Runs("afterWrite")
  /\ LET r == Head(calls).req
         ok == Head(calls).ok
     IN  /\ task[r] \in Bound
         /\ ReturnsTo(<<Outcome("sendCb", r, ok)>>
                      \o IF ok THEN <<Call("realSend"), CallWith("putWriteBuffer", r)>>
                               ELSE <<CallWith("pushbackQue", r), Call("close")>>)
         /\ reported' = IF ok THEN reported ELSE reported \cup {task[r]}
  /\ UNCHANGED <<streamVars, queueVars, posted, senderVars, poolVars, handed, wire, failed>>

\* Fault: a written request is queued again.
AfterWriteRequeues ==
  /\ Runs("putWriteBuffer")
  /\ sendQue' = Append(sendQue, Head(calls).req)
  /\ Returns
  /\ UNCHANGED <<streamVars, writes, temp, failing, posted, senderVars, poolVars, history>>

AfterWritePuts ==
  /\ Runs("putWriteBuffer")
  /\ PutWriteBuffer(Head(calls).req)
  /\ Returns
  /\ UNCHANGED <<streamVars, queueVars, posted, senderVars, history>>

AfterWriteKeeps ==
  /\ Runs("pushbackQue")
  /\ connected' = FALSE
  /\ sendQue' = Append(sendQue, Head(calls).req)
  /\ Returns
  /\ UNCHANGED <<bClient, stream, closed, connects, writes, temp, failing, posted, senderVars,
                 poolVars, history>>

-----------------------------------------------------------------------------
(* connect, onConnect, close, onClose                                      *)

UvIsClosing == stream \in {"closing", "aborting", "finishing", "closed"}

\* Fault: close leaves bConnected as it is.
CloseStaysOK ==
  /\ Runs("close")
  /\ stream' = IF UvIsClosing THEN stream
               ELSE IF stream = "connecting" THEN "aborting" ELSE "closing"
  /\ Returns
  /\ UNCHANGED <<bClient, connected, closed, connects, queueVars, posted, senderVars, poolVars, history>>

\* Fault: close returns at once if bConnected is false, as closeSafe has made it.
CloseConnected ==
  /\ Runs("close")
  /\ connected' = FALSE
  /\ stream' = IF ~connected \/ UvIsClosing THEN stream
               ELSE IF stream = "connecting" THEN "aborting" ELSE "closing"
  /\ Returns
  /\ UNCHANGED <<bClient, closed, connects, queueVars, posted, senderVars, poolVars, history>>

Close ==
  /\ Runs("close")
  /\ connected' = FALSE
  /\ stream' = IF UvIsClosing THEN stream
               ELSE IF stream = "connecting" THEN "aborting" ELSE "closing"
  /\ Returns
  /\ UNCHANGED <<bClient, closed, connects, queueVars, posted, senderVars, poolVars, history>>

OnConnect ==
  /\ Runs("onConnect")
  /\ connected' = Head(calls).ok
  /\ ReturnsTo(<<Outcome("connCb", None, Head(calls).ok)>>)
  /\ UNCHANGED <<bClient, stream, closed, connects, queueVars, posted, senderVars, poolVars, history>>

\* The close callback tells the user about all that is left in the queue.
OnClose ==
  /\ Runs("onClose")
  /\ stream' = "closed"
  /\ closed' = TRUE
  /\ ReturnsTo(<<Call("closeCb")>> \o IF bClient THEN <<>> ELSE <<Call("freeConnection")>>)
  /\ reported' = failed
  /\ UNCHANGED <<bClient, connected, connects, queueVars, posted, senderVars, poolVars,
                 handed, wire, failed>>

\* The end of onClose of a session: the map's shared_ptr goes, then its own.
FreeConnection ==
  /\ Runs("freeConnection")
  /\ Returns
  /\ Release(LastUser(None))
  /\ UNCHANGED <<bClient, connected, closed, connects, writes, temp, failing, posted, senderVars,
                 allocated, history>>

\* uv_tcp_connect reports a refused connection later, through onConnect, but a
\* socket it cannot open at once: connect() ignores that result.
Connect ==
  /\ connects < MaxConnects
  /\ connects' = connects + 1
  /\ stream' \in {"connecting", "noFd"}
  /\ UNCHANGED <<bClient, connected, closed>>

-----------------------------------------------------------------------------
(* The user's callbacks, which run on the loop thread.                     *)

UserOps == {"connCb", "sendCb", "closeCb", "onMessageParse"}
InUserCallback == ~Idle /\ Head(calls).op \in UserOps /\ stream # "freed"

UserReturns ==
  /\ InUserCallback
  /\ Returns
  /\ UNCHANGED <<streamVars, queueVars, posted, senderVars, poolVars, history>>

\* sendMsg on the loop thread pushes, then runs realSend itself.
UserSends(m, r) ==
  /\ InUserCallback
  /\ EncodeTask(m, r)
  /\ calls' = <<CallWith("pushinQue", r), Call("realSend")>> \o calls
  /\ UNCHANGED <<streamVars, queueVars, posted, senderVars, history>>

PushInQueInLoop ==
  /\ Runs("pushinQue")
  /\ LET r == Head(calls).req
     IN  sendQue' = Append(sendQue, r) /\ handed' = Append(handed, task[r])
  /\ Returns
  /\ UNCHANGED <<streamVars, writes, temp, failing, posted, senderVars, poolVars,
                 wire, failed, reported>>

\* closeSafe on the loop thread is close.
UserCloses ==
  /\ InUserCallback
  /\ ~UvIsClosing
  /\ calls' = <<Call("close")>> \o calls
  /\ UNCHANGED <<streamVars, queueVars, posted, senderVars, poolVars, history>>

\* reConnect from the close callback.
UserReconnects ==
  /\ Runs("closeCb")
  /\ bClient
  /\ stream = "closed"
  /\ Connect
  /\ UNCHANGED <<queueVars, calls, posted, senderVars, poolVars, history>>

-----------------------------------------------------------------------------

LoopCall ==
  \/ UvFlush \/ SwapQue \/ UvWrite \/ UvWriteRefused \/ KeepUnsent \/ SendLoopEnds
  \/ AfterWriteUnbound \/ AfterWrite \/ AfterWritePuts \/ AfterWriteKeeps
  \/ Close \/ OnConnect \/ OnClose \/ FreeConnection \/ PushInQueInLoop \/ UserReturns

LoopEvent == RunPosted \/ UvConnected \/ UvConnectFails \/ UvWritten \/ UvWriteFails \/ UvFinishClose

SenderStep(t) == PushInQue(t) \/ PostRealSend(t) \/ PostClose(t)

Next ==
  \/ LoopCall \/ LoopEvent \/ UvRead \/ UvReadEnds
  \/ UserCloses \/ UserReconnects
  \/ \E m \in Msg, r \in Req : UserSends(m, r)
  \/ \E t \in Senders :
       SenderStep(t) \/ CloseSafe(t) \/ \E m \in Msg, r \in Req : SendMsg(t, m, r)

Spec == Init /\ [][Next]_vars

\* A callback that was entered runs to its end and the user's callbacks
\* return, the loop gets to every event that is due, and a thread finishes the
\* sendMsg or closeSafe it is in.
Fairness ==
  /\ WF_vars(LoopCall)
  /\ SF_vars(RunPosted)
  /\ SF_vars(UvConnected \/ UvConnectFails)
  /\ SF_vars(UvWritten \/ UvWriteFails)
  /\ SF_vars(UvFinishClose)
  /\ \A t \in Senders : WF_vars(SenderStep(t))

FairSpec == Spec /\ Fairness

-----------------------------------------------------------------------------
(* Properties.                                                             *)

LoopOps == UserOps \cup {"realSend", "sendLoop", "close", "flush", "afterWrite",
  "putWriteBuffer", "pushbackQue", "pushinQue", "onConnect", "onClose", "freeConnection"}

\* The variables of the connection and of the pool hold values of their types.
TypeOK ==
  /\ stream \in {"noFd", "connecting", "open", "failed", "closing", "aborting",
                 "finishing", "closed", "freed"}
  /\ bClient \in Roles /\ connected \in BOOLEAN /\ closed \in BOOLEAN /\ failing \in BOOLEAN
  /\ connects \in 1..MaxConnects
  /\ writes \in Seq(Req) /\ sendQue \in Seq(Req) /\ temp \in Seq(Req)
  /\ calls \in Seq([op : LoopOps, req : Req \cup {None}, ok : BOOLEAN])
  /\ posted \in Seq({"realSend", "close"})
  /\ pc \in [Senders -> {"idle", "push", "post", "postClose", "done"}]
  /\ held \in [Senders -> Req \cup {None}]
  /\ pool \in Seq(Req) /\ allocated \subseteq Req
  /\ task \in [Req -> Msg \cup {None}]
  /\ handed \in Seq(Msg) /\ wire \in Seq(Msg)
  /\ failed \subseteq Msg /\ reported \subseteq Msg

Occurrences(r, s) == {i \in 1..Len(s) : s[i] = r}
\* Whether the loop thread itself owns r: a call will still hand it on.
Owning == {"afterWrite", "putWriteBuffer", "pushbackQue", "pushinQue"}
Owns(r) == {i \in 1..Len(calls) : calls[i].op \in Owning /\ calls[i].req = r}

\* The places a request can be in.
PlacesOf(r) ==
  ({"pool"} \X Occurrences(r, pool)) \cup ({"sendQue"} \X Occurrences(r, sendQue))
  \cup ({"tempQue"} \X Occurrences(r, temp)) \cup ({"libuv"} \X Occurrences(r, writes))
  \cup ({"loop"} \X Owns(r)) \cup ({"sender"} \X {t \in Senders : held[t] = r})

\* Every request that was allocated is in exactly one place: none is leaked,
\* given back twice, queued twice, or written while it is in the pool.
OwnedOnce ==
  \A r \in Req : IF r \in allocated THEN \E p \in PlacesOf(r) : PlacesOf(r) = {p}
                                    ELSE PlacesOf(r) = {}

\* A request that can be written carries a task, one in the pool does not: no
\* task is kept alive by the pool, none is dropped from the queue.
TaskWhileUsed ==
  \A r \in allocated : task[r] = None <=> Occurrences(r, pool) # {}

\* A task that has not been tried waits in the queue only while a realSend is
\* on its way: on the loop thread, in the loop's queue, or in a sender.
NoSendForgotten ==
  (\E i \in 1..Len(sendQue) : task[sendQue[i]] \notin failed) =>
    \/ \E i \in 1..Len(calls) : calls[i].op = "realSend"
    \/ \E i \in 1..Len(posted) : posted[i] = "realSend"
    \/ \E t \in Senders : pc[t] = "post"

Tasks(s) == [i \in 1..Len(s) |-> task[s[i]]]

\* Until a write fails or the session ends, the network gets the tasks in the
\* order in which sendMsg pushed them, whatever thread pushed them, and none is
\* missing between the queue, realSend and libuv.
SentInOrder ==
  failed = {} /\ stream # "freed" =>
    handed = wire \o Tasks(writes) \o Tasks(temp) \o Tasks(sendQue)

\* The connection implements Outbox: each task goes out once at most, in order
\* until a write fails, and what went out is never reported as failed, also not
\* when it was kept after an error and sent on the next stream.
Box == INSTANCE Outbox WITH Task <- Msg, accepted <- handed, delivered <- wire
ImplementsOutbox == Box!Spec

\* isOK() says true only of a stream that is open.
OKMeansOpen == connected => stream = "open"

\* A task handed to sendMsg is eventually written, or its write fails, unless
\* the session it is for ends first.
HandedIsTried ==
  \A m \in Msg :
    m \in ToSet(handed) ~> m \in failed \cup ToSet(wire) \/ stream = "freed"

\* closeSafe ends the stream it finds, or the stream of a later connect.
CloseSafeCloses ==
  \A t \in Senders : pc[t] = "postClose" ~> stream \in {"closed", "freed"}

\* A session that is closed is destroyed: the tasks its requests still carry do
\* not keep it alive (ITask.h:59 "must be weak pointer, or will leak memory").
ClosedIsFreed == ~bClient /\ stream = "closed" ~> stream = "freed"

\* A closed session is destroyed at the moment its last holder lets go of it: never
\* while the map has it or a thread is inside sendMsg or closeSafe, whichever of
\* them ends last, and at once after that, with tasks for it still in its queue.
DestroyedUnheld ==
  ~bClient /\ stream \in {"closed", "freed"} =>
    (stream = "freed" <=> ~Mapped /\ \A t \in Senders : ~Uses(t))

\* TcpConnection.h:51 "here send is usually beside of the loop thread,so post
\* event to send": what was posted finds the connection it was posted for.
PostedFindsConnection == posted # <<>> => stream # "freed"

\* TcpConnection.cpp:116 "on error, lib should return the packet to let user
\* know": once the stream is closed and the loop is idle, the user has been
\* called back, by sendCb or by closeCb, for every task still in the queue.
FailureReported ==
  Idle /\ stream = "closed" =>
    \A i \in 1..Len(sendQue) : task[sendQue[i]] \in failed => task[sendQue[i]] \in reported
=============================================================================
