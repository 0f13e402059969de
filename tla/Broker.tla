-------------------------------- MODULE Broker --------------------------------
(***************************************************************************)
(* The Broker of the distributed ping (src/samples/pingTest/distribute/    *)
(* broker.cpp): clients, each a TcpConnection on one of the loops, that    *)
(* connect again by themselves, at once when a connection is lost and by a *)
(* timer when a connect has failed, until stop() closes them all.          *)
(*                                                                         *)
(* The owner's thread calls start(), addNode() and stop().  Each loop's    *)
(* thread runs libuv callbacks; a callback is one step, but for onClose,   *)
(* where the owner may look between setClosed and the close callback.      *)
(* An iteration of libuv's loop runs the timers, polls, then finishes the  *)
(* closes.  A timer that closed itself is still closing while the loop     *)
(* polls; no timer fires while a stream, which closes in the poll, does.   *)
(*                                                                         *)
(* clients.clear() destroys the connections.  A callback that would then   *)
(* use one of them, or clients[idx], is undefined: nothing is said of what *)
(* follows.  That one thread adds nodes while another reads clients is     *)
(* left out: addNode is one step.                                          *)
(***************************************************************************)
EXTENDS Naturals, Sequences, UvTimer

CONSTANTS
  NLoops,    \* the loops start(n) creates
  NClients,  \* bound: the nodes that are added
  Timer,     \* bound: the timers that exist at a time
  None       \* no client

Loop == 0..(NLoops - 1)
Client == 0..(NClients - 1)

ASSUME LoopsAssumption == NLoops \in Nat \ {0}
ASSUME ClientsAssumption == NClients \in Nat
ASSUME NoneAssumption == None \notin Client

VARIABLES
  owner,     \* where the owner's thread is
  next,      \* the client or the loop its for statement is at
  size,      \* clients.size()
  bStop,
  status,    \* EventLoop::status of each loop
  posted,    \* the closures handed to each loop
  closeCb,   \* the client whose close callback each loop is about to call
  stream,    \* libuv's state of local, of each client
  bClosed,   \* bClosed of each client
  hasCb,     \* whether each client's callbacks are set
  timer,     \* the UvTimers
  idx        \* the client each timer is for

ownerVars == <<owner, next, size, bStop>>
loopVars == <<status, closeCb>>
clientVars == <<stream, bClosed, hasCb>>
timerVars == <<timer, idx>>
vars == <<ownerVars, loopVars, posted, clientVars, timerVars>>

\* addNode puts the clients on the loops in turn.
LoopOf(c) == c % NLoops
Job(op, c) == [op |-> op, client |-> c]
Post(l, job) == posted' = [posted EXCEPT ![l] = Append(@, job)]

Init ==
  /\ owner = "new" /\ next = 0 /\ size = 0
  /\ bStop = FALSE
  /\ status = [l \in Loop |-> "NotRun"]
  /\ posted = [l \in Loop |-> <<>>]
  /\ closeCb = [l \in Loop |-> None]
  /\ stream = [c \in Client |-> "none"]
  /\ bClosed = [c \in Client |-> FALSE]
  /\ hasCb = [c \in Client |-> FALSE]
  /\ timer = [t \in Timer |-> NoTimer]
  /\ idx = [t \in Timer |-> None]

-----------------------------------------------------------------------------
(* The owner's thread.                                                     *)

OwnerGoto(from, to) == owner = from /\ owner' = to

Start ==
  /\ OwnerGoto("new", "up")
  /\ bStop' = FALSE
  /\ UNCHANGED <<next, size, loopVars, posted, clientVars, timerVars>>

AddNode ==
  /\ owner = "up" /\ size \in Client
  /\ size' = size + 1
  /\ hasCb' = [hasCb EXCEPT ![size] = TRUE]
  /\ Post(LoopOf(size), Job("connect", size))
  /\ UNCHANGED <<owner, next, bStop, loopVars, stream, bClosed, timerVars>>

Stop ==
  /\ OwnerGoto("up", "closing")
  /\ bStop' = TRUE /\ next' = 0
  /\ UNCHANGED <<size, loopVars, posted, clientVars, timerVars>>

\* Fault: the first client is not closed.
CloseSafeButFirst ==
  /\ owner = "closing" /\ next < size
  /\ IF next = 0 THEN UNCHANGED posted ELSE Post(LoopOf(next), Job("close", next))
  /\ next' = next + 1
  /\ UNCHANGED <<owner, size, bStop, loopVars, clientVars, timerVars>>

CloseSafe ==
  /\ owner = "closing" /\ next < size
  /\ Post(LoopOf(next), Job("close", next))
  /\ next' = next + 1
  /\ UNCHANGED <<owner, size, bStop, loopVars, clientVars, timerVars>>

AllTold ==
  /\ next = size
  /\ OwnerGoto("closing", "waiting")
  /\ UNCHANGED <<next, size, bStop, loopVars, posted, clientVars, timerVars>>

\* isClosed() of every client, every 50 ms; then clients.clear().
Clear ==
  /\ \A c \in 0..(size - 1) : bClosed[c]
  /\ OwnerGoto("waiting", "cleared")
  /\ next' = 0
  /\ UNCHANGED <<size, bStop, loopVars, posted, clientVars, timerVars>>

StopLoop ==
  /\ owner = "cleared" /\ next \in Loop
  /\ IF status[next] = "Running" THEN Post(next, Job("stop", None)) ELSE UNCHANGED posted
  /\ next' = next + 1
  /\ UNCHANGED <<owner, size, bStop, loopVars, clientVars, timerVars>>

JoinThreads ==
  /\ next = NLoops
  /\ \A l \in Loop : status[l] = "Stop"
  /\ OwnerGoto("cleared", "joined")
  /\ UNCHANGED <<next, size, bStop, loopVars, posted, clientVars, timerVars>>

-----------------------------------------------------------------------------
(* TcpConnection on a loop's thread.                                       *)

Cleared == owner \in {"cleared", "joined"}
InLibuv(l) == status[l] = "Running" /\ closeCb[l] = None
PollsFor(c) == InLibuv(LoopOf(c)) /\ ~Cleared

\* connect() inits the handle, whatever its state, and ignores that
\* uv_tcp_connect could not open a socket.
Connect(c) == \E s \in {"connecting", "noFd"} : stream' = [stream EXCEPT ![c] = s]

IsClosing(c) == stream[c] \in {"closing", "aborting", "closed"}

Close(c) ==
  stream' = [stream EXCEPT ![c] = IF IsClosing(c) THEN @
                                  ELSE IF @ = "connecting" THEN "aborting" ELSE "closing"]

\* Fault: nobody looks at the status of the connect.
OnConnectIgnores(c) == UNCHANGED posted

\* Broker::onConnect with an error: reConnect(clients[index]).
OnConnectFails(c) ==
  IF hasCb[c] THEN Post(LoopOf(c), Job("newTimer", c)) ELSE UNCHANGED posted

UvConnected(c) ==
  /\ PollsFor(c) /\ stream[c] = "connecting"
  /\ stream' = [stream EXCEPT ![c] = "open"]
  /\ UNCHANGED <<ownerVars, loopVars, posted, bClosed, hasCb, timerVars>>

UvConnectFails(c) ==
  /\ PollsFor(c) /\ stream[c] = "connecting"
  /\ stream' = [stream EXCEPT ![c] = "failed"]
  /\ OnConnectFails(c)
  /\ UNCHANGED <<ownerVars, loopVars, bClosed, hasCb, timerVars>>

\* onRead or afterWrite with an error.
ConnectionLost(c) ==
  /\ PollsFor(c) /\ stream[c] = "open"
  /\ Close(c)
  /\ UNCHANGED <<ownerVars, loopVars, posted, bClosed, hasCb, timerVars>>

\* A connect that was aborted is reported before onClose.
OnClose(c) ==
  /\ InLibuv(LoopOf(c)) /\ ~Cleared
  /\ stream[c] \in {"closing", "aborting"}
  /\ stream' = [stream EXCEPT ![c] = "closed"]
  /\ IF stream[c] = "aborting" THEN OnConnectFails(c) ELSE UNCHANGED posted
  /\ bClosed' = [bClosed EXCEPT ![c] = TRUE]
  /\ closeCb' = [closeCb EXCEPT ![LoopOf(c)] = c]
  /\ UNCHANGED <<ownerVars, status, hasCb, timerVars>>

\* Fault: a lost connection is left alone.
CloseCbForgets(l) ==
  /\ closeCb[l] # None
  /\ closeCb' = [closeCb EXCEPT ![l] = None]
  /\ UNCHANGED <<ownerVars, status, posted, clientVars, timerVars>>

\* The close callback set by addNode; onClose holds the connection meanwhile.
CloseCb(l) ==
  /\ closeCb[l] # None
  /\ closeCb' = [closeCb EXCEPT ![l] = None]
  /\ LET c == closeCb[l]
     IN  \/ ~hasCb[c] /\ UNCHANGED <<stream, hasCb>>
         \/ hasCb[c] /\ bStop /\ hasCb' = [hasCb EXCEPT ![c] = FALSE] /\ UNCHANGED stream
         \/ hasCb[c] /\ ~bStop /\ Connect(c) /\ UNCHANGED hasCb
  /\ UNCHANGED <<ownerVars, status, posted, bClosed, timerVars>>

-----------------------------------------------------------------------------
(* The loops.                                                              *)

RunLoop(l) ==
  /\ owner # "new" /\ status[l] = "NotRun"
  /\ status' = [status EXCEPT ![l] = "Running"]
  /\ UNCHANGED <<ownerVars, closeCb, posted, clientVars, timerVars>>

Runs(l, op) ==
  /\ InLibuv(l) /\ posted[l] # <<>>
  /\ Head(posted[l]).op = op
  /\ posted' = [posted EXCEPT ![l] = Tail(@)]

RunConnect(l) ==
  /\ Runs(l, "connect")
  /\ Connect(Head(posted[l]).client)
  /\ UNCHANGED <<ownerVars, loopVars, bClosed, hasCb, timerVars>>

\* The closure of closeSafe has only `this'.
RunClose(l) ==
  /\ Runs(l, "close") /\ ~Cleared
  /\ Close(Head(posted[l]).client)
  /\ UNCHANGED <<ownerVars, loopVars, bClosed, hasCb, timerVars>>

Free == {t \in Timer : timer[t].life \in {"none", "deleted"}}

RunNewTimer(l) ==
  /\ Runs(l, "newTimer")
  /\ Free # {}
  /\ LET t == CHOOSE t \in Free : TRUE
     IN  /\ timer' = [timer EXCEPT ![t] = Started(Constructed)]
         /\ idx' = [idx EXCEPT ![t] = Head(posted[l]).client]
  /\ UNCHANGED <<ownerVars, loopVars, clientVars>>

RunStop(l) ==
  /\ Runs(l, "stop")
  /\ status' = [status EXCEPT ![l] = "Stop"]
  /\ UNCHANGED <<ownerVars, closeCb, clientVars, timerVars>>

\* Fault: the callback leaves the repeating timer armed.
OnTimerRepeats(t) ==
  /\ timer[t].active
  /\ InLibuv(LoopOf(idx[t])) /\ ~Cleared
  /\ Connect(idx[t])
  /\ UNCHANGED <<ownerVars, loopVars, posted, bClosed, hasCb, timerVars>>

\* The timer's callback: stop(), close(delete), reConnect(idx).
OnTimer(t) ==
  /\ timer[t].active
  /\ LET c == idx[t]
     IN  /\ InLibuv(LoopOf(c)) /\ ~Cleared
         /\ \A d \in Client : LoopOf(d) = LoopOf(c) => stream[d] \notin {"closing", "aborting"}
         /\ timer' = [timer EXCEPT ![t] = Closed(Stopped(Fired(@, TRUE)))]
         /\ Connect(c)
  /\ UNCHANGED <<ownerVars, loopVars, posted, bClosed, hasCb, idx>>

OnTimerClosed(t) ==
  /\ timer[t].life = "closing" /\ InLibuv(LoopOf(idx[t]))
  /\ timer' = [timer EXCEPT ![t] = Deleted(@)]
  /\ idx' = [idx EXCEPT ![t] = None]
  /\ UNCHANGED <<ownerVars, loopVars, posted, clientVars>>

-----------------------------------------------------------------------------

OwnerStep == Start \/ CloseSafe \/ AllTold \/ Clear \/ StopLoop \/ JoinThreads

RunPosted(l) == RunConnect(l) \/ RunClose(l) \/ RunNewTimer(l) \/ RunStop(l)

Connects(c) == UvConnected(c) \/ UvConnectFails(c)

Next ==
  \/ OwnerStep \/ AddNode \/ Stop
  \/ \E l \in Loop : RunLoop(l) \/ CloseCb(l) \/ RunPosted(l)
  \/ \E c \in Client : Connects(c) \/ ConnectionLost(c) \/ OnClose(c)
  \/ \E t \in Timer : OnTimer(t) \/ OnTimerClosed(t)

Spec == Init /\ [][Next]_vars

LoopStep(l) ==
  \/ RunLoop(l) \/ CloseCb(l)
  \/ \E c \in Client : LoopOf(c) = l /\ (Connects(c) \/ OnClose(c))
  \/ \E t \in Timer : idx[t] # None /\ LoopOf(idx[t]) = l /\ (OnTimer(t) \/ OnTimerClosed(t))

\* The owner finishes stop(); a loop does not stand still while something is
\* due, and every iteration gets to the closures handed to the loop and to the
\* timers that are closing.  (Clients that share a loop could starve each other:
\* with one client on each loop, this is all that is needed.)
Fairness ==
  /\ WF_vars(OwnerStep)
  /\ \A t \in Timer : SF_vars(OnTimerClosed(t))
  /\ \A l \in Loop : WF_vars(LoopStep(l) \/ RunPosted(l)) /\ SF_vars(RunPosted(l))

FairSpec == Spec /\ Fairness

-----------------------------------------------------------------------------
(* Properties.                                                             *)

\* The variables of the broker hold values of their types; in particular no
\* timer is deleted while libuv has its handle.
TypeOK ==
  /\ owner \in {"new", "up", "closing", "waiting", "cleared", "joined"}
  /\ next \in Nat /\ size \in 0..NClients /\ bStop \in BOOLEAN
  /\ status \in [Loop -> {"NotRun", "Running", "Stop"}]
  /\ posted \in [Loop -> Seq([op : {"connect", "close", "newTimer", "stop"},
                              client : Client \cup {None}])]
  /\ closeCb \in [Loop -> Client \cup {None}]
  /\ stream \in [Client -> {"none", "connecting", "noFd", "open", "failed", "closing",
                            "aborting", "closed"}]
  /\ bClosed \in [Client -> BOOLEAN] /\ hasCb \in [Client -> BOOLEAN]
  /\ timer \in [Timer -> TimerType]
  /\ idx \in [Timer -> Client \cup {None}]

\* A close never comes to a handle that connect() has not initialised, also when
\* stop() is called before the loops run.
ClosesInitialised ==
  [][\A c \in Client : stream[c] = "none" => stream'[c] \in {"none", "connecting", "noFd"}]_vars

\* The close callback and the timers never connect a client over a stream that
\* is connecting, open or closing: at most one of them is due at a time.
ReconnectsDead ==
  [][\A c \in Client : stream'[c] \in {"connecting", "noFd"} /\ stream'[c] # stream[c] =>
       stream[c] \in {"none", "failed", "closed"}]_vars

\* What connect() and close() owe libuv's handle, over the life of each client:
\* initialised before it is closed, and dead before it is initialised again.
HandleContract == ClosesInitialised /\ ReconnectsDead

\* What will connect client c: closures handed to its loop, armed timers, close
\* callbacks about to be called.
HandedOver(c) ==
  LET Queue == posted[LoopOf(c)]
  IN  {i \in 1..Len(Queue) : Queue[i].client = c /\ Queue[i].op \in {"connect", "newTimer"}}
Armed(c) == {t \in Timer : timer[t].active /\ idx[t] = c}
CalledBack(c) == {l \in Loop : closeCb[l] = c}
Ways(c) == ({"posted"} \X HandedOver(c)) \cup ({"timer"} \X Armed(c)) \cup ({"closeCb"} \X CalledBack(c))

\* While the broker runs, exactly one thing will connect a client that was never
\* connected, has failed or is closed, over all the hand-overs between its stream,
\* the loop's queue, the timer and the close callback; and nothing will connect any
\* other: no client is forgotten on the way, and none connected twice.
ReconnectsOnce ==
  ~bStop => \A c \in 0..(size - 1) :
    IF stream[c] \in {"none", "failed", "closed"}
    THEN \E w \in Ways(c) : Ways(c) = {w}
    ELSE Ways(c) = {}

\* A failed connect is tried again (broker.cpp:166 "client will reconnect to
\* server in 5 seconds") and a lost connection is made again, until the broker is
\* stopped.
LostIsReconnected ==
  \A c \in Client :
    stream[c] \in {"failed", "closing"} ~> stream[c] \in {"connecting", "noFd"} \/ bStop

\* stop() does not wait for ever for its clients, whatever they were doing and
\* also if their loops had not started to run.
StopClears == owner = "closing" ~> Cleared

\* stop() waits for no client but one whose close is on its way, in the queue of a
\* loop that still runs or will, or in libuv, whatever retry or connect the close met.
WaitsForClosing ==
  \A c \in 0..(size - 1) : owner = "waiting" \/ (owner = "closing" /\ c < next) =>
    \/ bClosed[c]
    \/ /\ status[LoopOf(c)] # "Stop"
       /\ \/ stream[c] \in {"closing", "aborting"}
          \/ \E i \in 1..Len(posted[LoopOf(c)]) : posted[LoopOf(c)][i] = Job("close", c)

\* broker.cpp:117 "check all sockets are closed": when stop() clears the
\* clients, libuv has let go of every one of their handles.
ClearsClosed ==
  owner = "cleared" /\ next = 0 => \A c \in 0..(size - 1) : stream[c] = "closed"
=============================================================================
