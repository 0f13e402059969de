-------------------------- MODULE ConnectionManager --------------------------
(***************************************************************************)
(* robin::ConnectionManager (src/src/ConnectionManager.cpp): the pool of   *)
(* EventLoops with a thread each, and the map that keeps the sessions      *)
(* accepted by a robin::TcpServer (src/src/TcpServer.cpp) alive.           *)
(*                                                                         *)
(* Three kinds of thread take part: the owner, which calls start() and     *)
(* stop(); the thread of the listening loop, which accepts; the threads of *)
(* the loops, each of which runs one callback at a time.  A loop keeps the *)
(* closures handed to it, in order, also those handed over before it runs: *)
(* that is what EventLoop provides.  A session is a TcpConnection, of      *)
(* which only the state of its libuv handle matters here.                  *)
(*                                                                         *)
(* The object of a session is destroyed with its last shared_ptr.  The map *)
(* holds one, onNewConnection holds one while it runs, and so do onRead    *)
(* and onClose; the closure that starts the reading and libuv hold none.   *)
(***************************************************************************)
EXTENDS Integers, Sequences, FiniteSets

CONSTANTS
  NLoops,     \* the number of loops start(n) creates
  IoLoops,    \* IO_LOOPS
  Conn,       \* the sessions, each accepted once
  Key,        \* the peers' addresses, "ip:port"
  None,       \* no session, no key
  ReuseKeys   \* whether a session may get the key of one that is not closed yet

ASSUME LoopsAssumption == NLoops \in Nat \ {0} /\ IoLoops \in 1..NLoops
ASSUME NoneAssumption == None \notin Conn \cup Key \cup (0..(NLoops - 1))
ASSUME ReuseAssumption == ReuseKeys \in BOOLEAN

VARIABLES
  owner,       \* where the owner is: stop() also counts the loops it has stopped
  stopping,
  status,      \* EventLoop::status of each loop
  posted,      \* the closures handed to each loop
  io,          \* the callback each loop is running
  spc,         \* where the listening thread is in onNewConnection
  cur,         \* the session it is creating
  round_robin,
  loopOf,      \* the loop of each session
  key,         \* infoKey of each session
  handle,      \* libuv's state of each session's handle
  peer,        \* the state of the peer's end
  connMap

poolVars == <<owner, stopping, status>>
serverVars == <<spc, cur, round_robin, loopOf>>
sessionVars == <<key, handle, peer>>
vars == <<poolVars, posted, io, serverVars, sessionVars, connMap>>

Loop == 0..(NLoops - 1)
Job(op, c) == [op |-> op, conn |-> c]
Polling == Job("poll", None)

Init ==
  /\ owner = "new" /\ stopping = 0
  /\ status = [l \in Loop |-> "NotRun"]
  /\ posted = [l \in Loop |-> <<>>]
  /\ io = [l \in Loop |-> Polling]
  /\ spc = "idle" /\ cur = None
  /\ round_robin = 0
  /\ loopOf = [c \in Conn |-> None]
  /\ key = [c \in Conn |-> None]
  /\ handle = [c \in Conn |-> "none"]
  /\ peer = [c \in Conn |-> "none"]
  /\ connMap = [k \in Key |-> None]

-----------------------------------------------------------------------------
(* start() and stop() on the owner's thread.                               *)

\* Every new loop gets a first closure that warms up libuv's thread pool.
Start ==
  /\ owner = "new"
  /\ owner' = "started"
  /\ posted' = [l \in Loop |-> Append(posted[l], Job("initWorkerPool", None))]
  /\ UNCHANGED <<stopping, status, io, serverVars, sessionVars, connMap>>

Stop ==
  /\ owner = "started"
  /\ owner' = "stopping"
  /\ UNCHANGED <<stopping, status, posted, io, serverVars, sessionVars, connMap>>

\* Fault: the first loop is not stopped.
StopLoopButFirst ==
  /\ owner = "stopping" /\ stopping \in Loop
  /\ posted' = IF status[stopping] = "Running" /\ stopping # 0
               THEN [posted EXCEPT ![stopping] = Append(@, Job("stop", None))]
               ELSE posted
  /\ stopping' = stopping + 1
  /\ UNCHANGED <<owner, status, io, serverVars, sessionVars, connMap>>

\* EventLoop::stop refuses a loop that is not running; its result is ignored.
StopLoop ==
  /\ owner = "stopping" /\ stopping \in Loop
  /\ posted' = IF status[stopping] = "Running"
               THEN [posted EXCEPT ![stopping] = Append(@, Job("stop", None))]
               ELSE posted
  /\ stopping' = stopping + 1
  /\ UNCHANGED <<owner, status, io, serverVars, sessionVars, connMap>>

JoinThreads ==
  /\ owner = "stopping" /\ stopping = NLoops
  /\ \A l \in Loop : status[l] = "Stop"
  /\ owner' = "stopped"
  /\ UNCHANGED <<stopping, status, posted, io, serverVars, sessionVars, connMap>>

-----------------------------------------------------------------------------
(* onNewConnection on the listening thread.                                *)

ServerGoto(from, to) == spc = from /\ spc' = to

\* Faults: the count is not wrapped, or wraps one loop too early.
NextLoopUnwrapped == round_robin + 1
NextLoopShort == (round_robin + 1) % (IoLoops - 1)

\* getNextLoop
NextLoop == (round_robin + 1) % IoLoops

\* TcpServer::start has started the manager.
OnNewConnection(c) ==
  /\ owner # "new"
  /\ handle[c] = "none"
  /\ ServerGoto("idle", "uv_tcp_init")
  /\ cur' = c
  /\ round_robin' = NextLoop
  /\ loopOf' = [loopOf EXCEPT ![c] = round_robin']
  /\ handle' = [handle EXCEPT ![c] = "raw"]
  /\ UNCHANGED <<poolVars, posted, io, key, peer, connMap>>

\* Enters the handle in the tables of a loop that another thread runs.
UvTcpInit ==
  /\ ServerGoto("uv_tcp_init", "uv_accept")
  /\ handle' = [handle EXCEPT ![cur] = "init"]
  /\ UNCHANGED <<poolVars, posted, io, cur, round_robin, loopOf, key, peer, connMap>>

\* A peer may come back from the address of a session that is closed.  From that
\* of one that is not it can come only by resetting the first connection.
FreeKey(k) ==
  \A c \in Conn : key[c] = k /\ handle[c] # "closed" => ReuseKeys /\ peer[c] = "gone"

\* uv_accept, then getKey().  It may fail, or the peer may have gone already: then
\* getpeername fails too, AddrToStr ignores that, and the key is made of what was
\* on the stack, perhaps the address of another session.
UvAccept(k) ==
  /\ ServerGoto("uv_accept", "addConnection")
  /\ key' = [key EXCEPT ![cur] = k]
  /\ \/ /\ FreeKey(k)
        /\ handle' = [handle EXCEPT ![cur] = "accepted"]
        /\ peer' = [peer EXCEPT ![cur] = "up"]
     \/ /\ FreeKey(k) \/ ReuseKeys
        /\ \E h \in {"accepted", "refused"} : handle' = [handle EXCEPT ![cur] = h]
        /\ peer' = [peer EXCEPT ![cur] = "gone"]
  /\ UNCHANGED <<poolVars, posted, io, cur, round_robin, loopOf, connMap>>

\* Fault: a session whose accept failed is not managed.
AddAccepted ==
  /\ ServerGoto("addConnection", "runInLoopEn")
  /\ connMap' = IF connMap[key[cur]] = None /\ handle[cur] = "accepted"
                THEN [connMap EXCEPT ![key[cur]] = cur] ELSE connMap
  /\ UNCHANGED <<poolVars, posted, io, cur, round_robin, loopOf, sessionVars>>

\* std::map::insert leaves an entry that is there as it is.
AddConnection ==
  /\ ServerGoto("addConnection", "runInLoopEn")
  /\ connMap' = IF connMap[key[cur]] = None THEN [connMap EXCEPT ![key[cur]] = cur]
                                            ELSE connMap
  /\ UNCHANGED <<poolVars, posted, io, cur, round_robin, loopOf, sessionVars>>

\* Fault: a session whose accept failed is left as it is.
RunAccepted ==
  /\ ServerGoto("runInLoopEn", "idle")
  /\ posted' = IF handle[cur] = "accepted"
               THEN [posted EXCEPT ![loopOf[cur]] = Append(@, Job("uv_read_start", cur))]
               ELSE posted
  /\ cur' = None
  /\ UNCHANGED <<poolVars, io, round_robin, loopOf, sessionVars, connMap>>

RunInLoopEn ==
  /\ ServerGoto("runInLoopEn", "idle")
  /\ posted' = [posted EXCEPT ![loopOf[cur]] = Append(@, Job("uv_read_start", cur))]
  /\ cur' = None
  /\ UNCHANGED <<poolVars, io, round_robin, loopOf, sessionVars, connMap>>

-----------------------------------------------------------------------------
(* The loops.                                                              *)

RunLoop(l) ==
  /\ owner # "new"
  /\ status[l] = "NotRun"
  /\ status' = [status EXCEPT ![l] = "Running"]
  /\ UNCHANGED <<owner, stopping, posted, io, serverVars, sessionVars, connMap>>

Enters(l, job) ==
  /\ status[l] = "Running" /\ io[l] = Polling
  /\ io' = [io EXCEPT ![l] = job]

EnterPosted(l) ==
  /\ posted[l] # <<>>
  /\ Enters(l, Head(posted[l]))
  /\ posted' = [posted EXCEPT ![l] = Tail(@)]
  /\ UNCHANGED <<poolVars, serverVars, sessionVars, connMap>>

\* libuv reports the end of the stream, or a reset, to onRead.
EnterOnRead(l, c) ==
  /\ loopOf[c] = l /\ handle[c] = "reading" /\ peer[c] = "gone"
  /\ Enters(l, Job("onRead", c))
  /\ UNCHANGED <<poolVars, posted, serverVars, sessionVars, connMap>>

EnterOnClose(l, c) ==
  /\ loopOf[c] = l /\ handle[c] = "closing"
  /\ Enters(l, Job("onClose", c))
  /\ UNCHANGED <<poolVars, posted, serverVars, sessionVars, connMap>>

Leaves(l, op) ==
  /\ io[l].op = op
  /\ io' = [io EXCEPT ![l] = Polling]

InitWorkerPool(l) ==
  /\ Leaves(l, "initWorkerPool")
  /\ UNCHANGED <<poolVars, posted, serverVars, sessionVars, connMap>>

\* uv_read_start, or uv_close if uv_accept had failed.
StartReading(l) ==
  /\ Leaves(l, "uv_read_start")
  /\ LET c == io[l].conn
     IN  handle' = [handle EXCEPT ![c] = IF @ = "accepted" THEN "reading" ELSE "closing"]
  /\ UNCHANGED <<poolVars, posted, serverVars, key, peer, connMap>>

\* TcpConnection::onRead with an error closes the session.
OnRead(l) ==
  /\ Leaves(l, "onRead")
  /\ handle' = [handle EXCEPT ![io[l].conn] = "closing"]
  /\ UNCHANGED <<poolVars, posted, serverVars, key, peer, connMap>>

\* Fault: the entry of a closed session stays.
OnCloseKeeps(l) ==
  /\ Leaves(l, "onClose")
  /\ handle' = [handle EXCEPT ![io[l].conn] = "closed"]
  /\ UNCHANGED <<poolVars, posted, serverVars, key, peer, connMap>>

\* TcpConnection::onClose with freeConnection, which erases by key.
OnClose(l) ==
  /\ Leaves(l, "onClose")
  /\ handle' = [handle EXCEPT ![io[l].conn] = "closed"]
  /\ connMap' = [connMap EXCEPT ![key[io[l].conn]] = None]
  /\ UNCHANGED <<poolVars, posted, serverVars, key, peer>>

\* The closure of EventLoop::stop closes the async handle and ends uv_run.
StopRunning(l) ==
  /\ Leaves(l, "stop")
  /\ status' = [status EXCEPT ![l] = "Stop"]
  /\ UNCHANGED <<owner, stopping, posted, serverVars, sessionVars, connMap>>

PeerGone(c) ==
  /\ peer[c] = "up"
  /\ peer' = [peer EXCEPT ![c] = "gone"]
  /\ UNCHANGED <<poolVars, posted, io, serverVars, key, handle, connMap>>

-----------------------------------------------------------------------------

OwnerStep == Start \/ StopLoop \/ JoinThreads

ServerStep ==
  UvTcpInit \/ AddConnection \/ RunInLoopEn \/ \E k \in Key : UvAccept(k)

LoopStep(l) ==
  \/ RunLoop(l)
  \/ InitWorkerPool(l) \/ StartReading(l) \/ OnRead(l) \/ OnClose(l) \/ StopRunning(l)

LoopEvent(l) == EnterPosted(l) \/ \E c \in Conn : EnterOnRead(l, c) \/ EnterOnClose(l, c)

Next ==
  \/ OwnerStep \/ Stop \/ ServerStep
  \/ \E l \in Loop : LoopStep(l) \/ LoopEvent(l)
  \/ \E c \in Conn : OnNewConnection(c) \/ PeerGone(c)

Spec == Init /\ [][Next]_vars

\* Threads finish what they are in, threads that were created get to run, and a
\* loop goes on as long as something is due.
Fairness ==
  /\ WF_vars(OwnerStep) /\ WF_vars(ServerStep)
  /\ \A l \in Loop : WF_vars(LoopStep(l) \/ LoopEvent(l))

FairSpec == Spec /\ Fairness

-----------------------------------------------------------------------------
(* Properties.                                                             *)

Jobs == {"poll", "initWorkerPool", "uv_read_start", "onRead", "onClose", "stop"}

\* The variables of the manager hold values of their types.
TypeOK ==
  /\ owner \in {"new", "started", "stopping", "stopped"}
  /\ stopping \in 0..NLoops
  /\ status \in [Loop -> {"NotRun", "Running", "Stop"}]
  /\ posted \in [Loop -> Seq([op : Jobs, conn : Conn \cup {None}])]
  /\ io \in [Loop -> [op : Jobs, conn : Conn \cup {None}]]
  /\ spc \in {"idle", "uv_tcp_init", "uv_accept", "addConnection", "runInLoopEn"}
  /\ cur \in Conn \cup {None}
  /\ round_robin \in 0..(IoLoops - 1)
  /\ loopOf \in [Conn -> Loop \cup {None}]
  /\ key \in [Conn -> Key \cup {None}]
  /\ handle \in [Conn -> {"none", "raw", "init", "accepted", "refused", "reading",
                          "closing", "closed"}]
  /\ peer \in [Conn -> {"none", "up", "gone"}]
  /\ connMap \in [Key -> Conn \cup {None}]

InMap(c) == \E k \in Key : connMap[k] = c

\* Somebody holds a shared_ptr to the session.
Alive(c) ==
  \/ InMap(c)
  \/ cur = c
  \/ \E l \in Loop : io[l].op \in {"onRead", "onClose"} /\ io[l].conn = c

InLibuv(c) == handle[c] \in {"raw", "init", "accepted", "refused", "reading", "closing"}

\* ConnectionManager.cpp:107 "add to map to manage it, and free Connection when
\* closed": the object that contains a handle lives as long as libuv knows the
\* handle, and the closure that starts the reading finds it.
SessionLives == \A c \in Conn : InLibuv(c) => Alive(c)

\* The map has each session once, under its own key, and not after its close.
MapIsSound ==
  \A k \in Key : connMap[k] # None =>
    /\ key[connMap[k]] = k
    /\ handle[connMap[k]] \in {"accepted", "refused", "reading", "closing"}

\* Where the closures that start the reading of session c are in the hands of loop
\* l: at a position of its queue, or running (0).
Starts(l, c) ==
  {i \in 0..Len(posted[l]) :
     (IF i = 0 THEN io[l] ELSE posted[l][i]) = Job("uv_read_start", c)}

\* A session that onNewConnection is done with and whose handle nobody has touched
\* since.
Waiting(l, c) == c # cur /\ loopOf[c] = l /\ handle[c] \in {"accepted", "refused"}

\* ConnectionManager.cpp:115: a waiting session, also a refused one, has one closure
\* that starts its reading or closes it, with its own loop; no other closure touches
\* a handle, so none comes twice or finds a session that was closed meanwhile.
StartsOnce ==
  \A l \in Loop : \A c \in Conn :
    IF Waiting(l, c) THEN \E i \in 0..Len(posted[l]) : Starts(l, c) = {i}
                     ELSE Starts(l, c) = {}

Sessions(l) == Cardinality({c \in Conn : loopOf[c] = l})

\* README.md:37 has the new connections share all the loops: the numbers of
\* sessions the loops have been given differ by at most one.
Balanced == \A l1, l2 \in Loop : Sessions(l1) <= Sessions(l2) + 1

\* A session whose peer has gone is eventually taken out of the map, unless the
\* manager is stopped.
GoneIsFreed ==
  \A c \in Conn : peer[c] = "gone" ~> ~Alive(c) \/ owner \in {"stopping", "stopped"}

\* stop() that is called when all the loops run returns.
StopReturns ==
  (owner = "stopping" /\ stopping = 0 /\ \A l \in Loop : status[l] = "Running")
    ~> owner = "stopped"

\* testEventLoop.h:33 calls stop() after start() and expects it to return.
StopAlwaysReturns == owner = "stopping" ~> owner = "stopped"
=============================================================================
