----------------------- MODULE ConnectionManager_proof -----------------------
(***************************************************************************)
(* Theorems about ConnectionManager, for any number of loops and any       *)
(* sessions and keys.  That sessions live is proved for peers that come    *)
(* back, as often as they like, from the addresses of sessions that are    *)
(* closed: ConnectionManagerReuse shows what happens if they come back     *)
(* from an address in use.                                                 *)
(***************************************************************************)
EXTENDS ConnectionManager, FiniteSetTheorems, TLAPS

-----------------------------------------------------------------------------
(* The type invariant.                                                     *)

JobType == [op : Jobs, conn : Conn \cup {None}]

\* getNextLoop returns one of the loops that start() created.
LEMMA NextLoopIsLoop ==
  ASSUME TypeOK
  PROVE  NextLoop \in 0..(IoLoops - 1) /\ NextLoop \in Loop
<1>1. /\ IoLoops \in Nat /\ IoLoops > 0 /\ NLoops \in Nat /\ IoLoops <= NLoops
      /\ round_robin \in Nat
  BY LoopsAssumption DEF TypeOK
<1>2. NextLoop \in 0..(IoLoops - 1)
  BY <1>1 DEF NextLoop
<1>. QED  BY <1>1, <1>2 DEF Loop

\* The manager is created with values of the types.
LEMMA TypeInit == Init => TypeOK
<1>. SUFFICES ASSUME Init PROVE TypeOK
  OBVIOUS
<1>1. stopping \in 0..NLoops /\ round_robin \in 0..(IoLoops - 1)
  BY LoopsAssumption DEF Init
<1>2. /\ posted \in [Loop -> Seq([op : Jobs, conn : Conn \cup {None}])]
      /\ io \in [Loop -> [op : Jobs, conn : Conn \cup {None}]]
  BY DEF Init, Polling, Job, Jobs
<1>3. /\ status \in [Loop -> {"NotRun", "Running", "Stop"}]
      /\ loopOf \in [Conn -> Loop \cup {None}] /\ key \in [Conn -> Key \cup {None}]
      /\ connMap \in [Key -> Conn \cup {None}]
  BY DEF Init
<1>. QED  BY <1>1, <1>2, <1>3 DEF Init, TypeOK

\* Handing a closure to a loop, and taking one, keep the type of the queues.
LEMMA QueueTypes ==
  ASSUME NEW S, NEW f \in [Loop -> Seq(S)], NEW l \in Loop
  PROVE  /\ \A e \in S : [f EXCEPT ![l] = Append(@, e)] \in [Loop -> Seq(S)]
         /\ f[l] # <<>> => /\ Head(f[l]) \in S
                           /\ [f EXCEPT ![l] = Tail(@)] \in [Loop -> Seq(S)]
<1>1. f[l] \in Seq(S)
  OBVIOUS
<1>2. /\ \A e \in S : Append(f[l], e) \in Seq(S)
      /\ f[l] # <<>> => Head(f[l]) \in S /\ Tail(f[l]) \in Seq(S)
  BY <1>1
<1>. HIDE <1>1
<1>3. \A q \in Seq(S) : [f EXCEPT ![l] = q] \in [Loop -> Seq(S)]
  OBVIOUS
<1>. QED  BY <1>2, <1>3, Zenon

\* The closures of start() and of onNewConnection are jobs.
LEMMA JobTypes ==
  /\ \A op \in Jobs : \A c \in Conn \cup {None} : Job(op, c) \in JobType
  /\ Polling \in JobType
BY DEF Job, Jobs, Polling, JobType

\* Every step keeps the types.
LEMMA TypeNext == TypeOK /\ [Next]_vars => TypeOK'
<1>. SUFFICES ASSUME TypeOK, [Next]_vars PROVE TypeOK'
  OBVIOUS
<1>. USE DEF poolVars, serverVars, sessionVars
<1>0. /\ posted \in [Loop -> Seq(JobType)] /\ io \in [Loop -> JobType]
      /\ NLoops \in Nat
  BY LoopsAssumption DEF TypeOK, JobType
<1>1. CASE Start
  <2>1. \A l \in Loop : Append(posted[l], Job("initWorkerPool", None)) \in Seq(JobType)
    BY <1>0, JobTypes DEF Jobs
  <2>2. posted' \in [Loop -> Seq(JobType)]
    BY <1>1, <2>1, Zenon DEF Start
  <2>. QED  BY <1>1, <2>2 DEF Start, TypeOK, JobType
<1>2. CASE Stop
  BY <1>2 DEF Stop, TypeOK
<1>3. CASE StopLoop
  <2>1. stopping + 1 \in 0..NLoops /\ stopping \in Loop
    BY <1>3, <1>0 DEF StopLoop, Loop
  <2>2. Job("stop", None) \in JobType
    BY JobTypes, Zenon DEF Jobs
  <2>3. posted' \in [Loop -> Seq(JobType)]
    BY <1>0, <1>3, <2>1, <2>2, QueueTypes, Zenon DEF StopLoop
  <2>. QED  BY <1>3, <2>1, <2>3 DEF StopLoop, TypeOK, JobType
<1>4. CASE JoinThreads
  BY <1>4 DEF JoinThreads, TypeOK
<1>5. ASSUME NEW c \in Conn, OnNewConnection(c) PROVE TypeOK'
  <2>1. round_robin' \in 0..(IoLoops - 1) /\ round_robin' \in Loop
    BY <1>5, NextLoopIsLoop DEF OnNewConnection
  <2>. QED  BY <1>5, <2>1 DEF OnNewConnection, ServerGoto, TypeOK
<1>6. CASE UvTcpInit
  BY <1>6 DEF UvTcpInit, ServerGoto, TypeOK
<1>7. ASSUME NEW k \in Key, UvAccept(k) PROVE TypeOK'
  BY <1>7 DEF UvAccept, ServerGoto, TypeOK
<1>8. CASE AddConnection
  BY <1>8 DEF AddConnection, ServerGoto, TypeOK
<1>9. CASE RunInLoopEn
  <2>1. Job("uv_read_start", cur) \in JobType
    BY JobTypes, Zenon DEF Jobs, TypeOK
  <2>2. posted' \in [Loop -> Seq(JobType)]
    <3>1. CASE loopOf[cur] \in Loop
      BY <1>0, <1>9, <2>1, <3>1, QueueTypes, Zenon DEF RunInLoopEn
    <3>2. CASE loopOf[cur] \notin Loop
      BY <1>0, <1>9, <3>2 DEF RunInLoopEn
    <3>. QED  BY <3>1, <3>2
  <2>. QED  BY <1>9, <2>2 DEF RunInLoopEn, ServerGoto, TypeOK, JobType
<1>10. ASSUME NEW l \in Loop, LoopStep(l) PROVE TypeOK'
  <2>1. Polling \in JobType
    BY JobTypes
  <2>2. [io EXCEPT ![l] = Polling] \in [Loop -> JobType]
    BY <1>0, <2>1
  <2>3. CASE RunLoop(l)
    BY <2>3 DEF RunLoop, TypeOK
  <2>4. CASE InitWorkerPool(l)
    BY <2>4, <2>2 DEF InitWorkerPool, Leaves, TypeOK, JobType
  <2>5. CASE StartReading(l)
    BY <2>5, <2>2 DEF StartReading, Leaves, TypeOK, JobType
  <2>6. CASE OnRead(l)
    BY <2>6, <2>2 DEF OnRead, Leaves, TypeOK, JobType
  <2>7. CASE OnClose(l)
    BY <2>7, <2>2 DEF OnClose, Leaves, TypeOK, JobType
  <2>8. CASE StopRunning(l)
    BY <2>8, <2>2 DEF StopRunning, Leaves, TypeOK, JobType
  <2>. QED  BY <1>10, <2>3, <2>4, <2>5, <2>6, <2>7, <2>8 DEF LoopStep
<1>11. ASSUME NEW l \in Loop, LoopEvent(l) PROVE TypeOK'
  <2>1. CASE EnterPosted(l)
    <3>1. /\ Head(posted[l]) \in JobType
          /\ posted' \in [Loop -> Seq(JobType)]
      BY <1>0, <2>1, QueueTypes, Zenon DEF EnterPosted
    <3>2. io' \in [Loop -> JobType]
      BY <1>0, <2>1, <3>1 DEF EnterPosted, Enters
    <3>. QED  BY <2>1, <3>1, <3>2 DEF EnterPosted, Enters, TypeOK, JobType
  <2>2. ASSUME NEW c \in Conn, NEW op \in {"onRead", "onClose"}, Enters(l, Job(op, c)),
               UNCHANGED <<poolVars, posted, serverVars, sessionVars, connMap>>
        PROVE  TypeOK'
    <3>1. Job(op, c) \in JobType
      BY JobTypes DEF Jobs
    <3>2. io' \in [Loop -> JobType]
      BY <1>0, <2>2, <3>1 DEF Enters
    <3>. QED  BY <2>2, <3>2 DEF TypeOK, JobType
  <2>. QED  BY <1>11, <2>1, <2>2 DEF LoopEvent, EnterOnRead, EnterOnClose
<1>12. ASSUME NEW c \in Conn, PeerGone(c) PROVE TypeOK'
  BY <1>12 DEF PeerGone, TypeOK
<1>13. CASE UNCHANGED vars
  BY <1>13 DEF vars, TypeOK
<1>. QED
  BY <1>1, <1>2, <1>3, <1>4, <1>5, <1>6, <1>7, <1>8, <1>9, <1>10, <1>11, <1>12, <1>13
  DEF Next, OwnerStep, ServerStep

\* The variables of the manager keep their types.
THEOREM TypeCorrect == Spec => []TypeOK
<1>. QED  BY TypeInit, TypeNext, PTL DEF Spec

-----------------------------------------------------------------------------
(* The inductive invariant.                                                *)

HandedOver == {"accepted", "refused", "reading", "closing"}

\* What onNewConnection has done so far with the session it creates.
ServerInv ==
  /\ spc = "idle" <=> cur = None
  /\ spc = "uv_tcp_init" => handle[cur] = "raw"
  /\ spc = "uv_accept" => handle[cur] = "init"
  /\ spc \in {"addConnection", "runInLoopEn"} =>
       handle[cur] \in {"accepted", "refused"} /\ key[cur] \in Key
  /\ cur # None => loopOf[cur] \in Loop
  /\ \A c \in Conn : handle[c] \in {"raw", "init"} => c = cur

\* A session is in the hands of the map from addConnection to onClose.
Managed(c) == handle[c] \in HandedOver /\ ~(c = cur /\ spc = "addConnection")

\* Two sessions that are not closed do not share an address.
KeepsKey(c) == key[c] # None /\ handle[c] # "closed"

KeyInv == \A c, d \in Conn : KeepsKey(c) /\ KeepsKey(d) /\ key[c] = key[d] => c = d

\* The map is exactly the managed sessions.
MapInv ==
  /\ \A c \in Conn : Managed(c) => key[c] \in Key /\ connMap[key[c]] = c
  /\ \A k \in Key : connMap[k] # None => Managed(connMap[k]) /\ key[connMap[k]] = k

\* A session that waits for the closure that starts its reading on loop l.
Waits(l, c) ==
  c \in Conn /\ c # cur /\ loopOf[c] = l /\ handle[c] \in {"accepted", "refused"}

\* The callback a loop is in is about one of its sessions, in the state in
\* which libuv called it.
RunningInv ==
  \A l \in Loop :
    /\ io[l].op = "uv_read_start" => Waits(l, io[l].conn)
    /\ io[l].op = "onRead" =>
         io[l].conn \in Conn /\ loopOf[io[l].conn] = l /\ handle[io[l].conn] = "reading"
    /\ io[l].op = "onClose" =>
         io[l].conn \in Conn /\ loopOf[io[l].conn] = l /\ handle[io[l].conn] = "closing"

\* The closures a loop still has to run: each waiting session has one.
QueuedInv ==
  \A l \in Loop : \A i \in 1..Len(posted[l]) :
    LET job == posted[l][i]
    IN  /\ job.op \in {"initWorkerPool", "uv_read_start", "stop"}
        /\ job.op = "uv_read_start" =>
             /\ Waits(l, job.conn)
             /\ io[l] # job
             /\ \A j \in 1..Len(posted[l]) : posted[l][j] = job => j = i

\* The part that does not depend on the keys, and the whole.
SessionInv == TypeOK /\ ServerInv /\ RunningInv /\ QueuedInv
IInv == SessionInv /\ KeyInv /\ MapInv

-----------------------------------------------------------------------------
(* Every step keeps each part of the invariant.                            *)

\* The manager starts with no session, an empty map and loops that have nothing
\* to do.
LEMMA InvInit == Init => IInv
<1>. SUFFICES ASSUME Init PROVE IInv
  OBVIOUS
<1>1. TypeOK
  BY TypeInit
<1>2. ServerInv
  BY NoneAssumption DEF Init, ServerInv
<1>3. KeyInv /\ MapInv
  BY DEF Init, KeyInv, KeepsKey, MapInv, Managed, HandedOver
<1>4. RunningInv
  BY DEF Init, RunningInv, Polling, Job
<1>5. QueuedInv
  BY DEF Init, QueuedInv
<1>. QED  BY <1>1, <1>2, <1>3, <1>4, <1>5 DEF IInv, SessionInv

\* The callback that a loop is in belongs to a session of that loop which the
\* listening thread is not creating, and no other loop is in a callback of it.
LEMMA RunningSession ==
  ASSUME SessionInv, NEW l \in Loop, io[l].op \in {"uv_read_start", "onRead", "onClose"}
  PROVE  /\ io[l].conn \in Conn /\ loopOf[io[l].conn] = l
         /\ handle[io[l].conn] \in {"accepted", "refused", "reading", "closing"}
         /\ io[l].conn # cur
<1>1. /\ io[l].conn \in Conn /\ loopOf[io[l].conn] = l
      /\ handle[io[l].conn] \in {"accepted", "refused", "reading", "closing"}
      /\ io[l].op = "uv_read_start" => io[l].conn # cur
      /\ io[l].op = "onRead" => handle[io[l].conn] = "reading"
      /\ io[l].op = "onClose" => handle[io[l].conn] = "closing"
  BY DEF SessionInv, RunningInv, Waits
<1>2. cur # None => handle[cur] \in {"raw", "init", "accepted", "refused"}
  BY DEF SessionInv, ServerInv, TypeOK
<1>3. io[l].conn # None
  BY <1>1, NoneAssumption
<1>. QED  BY <1>1, <1>2, <1>3

\* No step of another thread changes the session the listening thread creates.
LEMMA ServerNext == SessionInv /\ [Next]_vars => ServerInv'
<1>. SUFFICES ASSUME SessionInv, [Next]_vars PROVE ServerInv'
  OBVIOUS
<1>. USE DEF poolVars, serverVars, sessionVars, Leaves
<1>0. TypeOK /\ ServerInv
  BY DEF SessionInv
<1>1. CASE UNCHANGED <<spc, cur, loopOf, key, handle>>
  BY <1>0, <1>1 DEF ServerInv
<1>2. ASSUME NEW c \in Conn, OnNewConnection(c) PROVE ServerInv'
  <2>1. NextLoop \in Loop
    BY <1>0, NextLoopIsLoop
  <2>2. spc = "idle" /\ cur = None /\ c # None
    BY <1>0, <1>2, NoneAssumption DEF OnNewConnection, ServerGoto, ServerInv
  <2>3. /\ spc' = "uv_tcp_init" /\ cur' = c
        /\ handle' = [handle EXCEPT ![c] = "raw"]
        /\ loopOf' = [loopOf EXCEPT ![c] = NextLoop]
    BY <1>2 DEF OnNewConnection, ServerGoto
  <2>4. loopOf'[c] = NextLoop /\ handle'[c] = "raw"
    BY <1>0, <2>3 DEF TypeOK
  <2>5. \A d \in Conn : d # c => handle'[d] \notin {"raw", "init"}
    BY <1>0, <2>2, <2>3, NoneAssumption DEF ServerInv, TypeOK
  <2>. QED  BY <2>1, <2>2, <2>3, <2>4, <2>5 DEF ServerInv
<1>3. CASE UvTcpInit
  BY <1>0, <1>3 DEF UvTcpInit, ServerGoto, ServerInv, TypeOK
<1>4. ASSUME NEW k \in Key, UvAccept(k) PROVE ServerInv'
  BY <1>0, <1>4 DEF UvAccept, ServerGoto, ServerInv, TypeOK
<1>5. CASE AddConnection
  BY <1>0, <1>5 DEF AddConnection, ServerGoto, ServerInv, TypeOK
<1>6. CASE RunInLoopEn
  BY <1>0, <1>6 DEF RunInLoopEn, ServerGoto, ServerInv, TypeOK
<1>7. ASSUME NEW l \in Loop, StartReading(l) \/ OnRead(l) \/ OnClose(l) PROVE ServerInv'
  <2>1. io[l].conn \in Conn /\ io[l].conn # cur
    BY <1>7, RunningSession DEF StartReading, OnRead, OnClose
  <2>2. /\ UNCHANGED <<spc, cur, loopOf, key>>
        /\ \E h \in {"reading", "closing", "closed"} :
             handle' = [handle EXCEPT ![io[l].conn] = h]
    BY <1>7, <2>1 DEF StartReading, OnRead, OnClose
  <2>. QED  BY <1>0, <2>1, <2>2 DEF ServerInv, TypeOK
<1>8. CASE OwnerStep \/ Stop
  BY <1>1, <1>8 DEF OwnerStep, Start, Stop, StopLoop, JoinThreads
<1>9. ASSUME NEW l \in Loop, RunLoop(l) \/ InitWorkerPool(l) \/ StopRunning(l) PROVE ServerInv'
  BY <1>1, <1>9 DEF RunLoop, InitWorkerPool, StopRunning
<1>10. ASSUME NEW l \in Loop, LoopEvent(l) PROVE ServerInv'
  BY <1>1, <1>10 DEF LoopEvent, EnterPosted, EnterOnRead, EnterOnClose
<1>11. ASSUME NEW c \in Conn, PeerGone(c) PROVE ServerInv'
  BY <1>1, <1>11 DEF PeerGone
<1>12. CASE UNCHANGED vars
  BY <1>1, <1>12 DEF vars
<1>. QED
  BY <1>2, <1>3, <1>4, <1>5, <1>6, <1>7, <1>8, <1>9, <1>10, <1>11, <1>12
  DEF Next, ServerStep, LoopStep

\* If peers do not come back from an address in use, every step keeps the addresses
\* of the sessions that are not closed apart.
LEMMA KeyNext ==
  ASSUME ~ReuseKeys, IInv, [Next]_vars
  PROVE  KeyInv'
<1>. USE DEF poolVars, serverVars, sessionVars, Leaves
<1>0. TypeOK /\ ServerInv /\ KeyInv
  BY DEF IInv, SessionInv
<1>1. CASE UNCHANGED key /\ \A c \in Conn : handle[c] = "closed" => handle'[c] = "closed"
  BY <1>0, <1>1 DEF KeyInv, KeepsKey
<1>2. ASSUME NEW c \in Conn, OnNewConnection(c) PROVE KeyInv'
  BY <1>0, <1>1, <1>2 DEF OnNewConnection, TypeOK
<1>3. CASE UvTcpInit
  BY <1>0, <1>1, <1>3 DEF UvTcpInit, ServerGoto, ServerInv, TypeOK
<1>4. ASSUME NEW k \in Key, UvAccept(k) PROVE KeyInv'
  <2>1. /\ cur \in Conn
        /\ \E h \in {"accepted", "refused"} : handle' = [handle EXCEPT ![cur] = h]
        /\ key' = [key EXCEPT ![cur] = k]
    BY <1>0, <1>4 DEF UvAccept, ServerGoto, ServerInv, TypeOK
  <2>2. \A c \in Conn : KeepsKey(c) => key[c] # k
    BY <1>4 DEF UvAccept, FreeKey, KeepsKey
  <2>3. \A c \in Conn : c # cur => key'[c] = key[c] /\ (KeepsKey(c)' <=> KeepsKey(c))
    BY <1>0, <2>1 DEF KeepsKey, TypeOK
  <2>4. key'[cur] = k
    BY <1>0, <2>1 DEF TypeOK
  <2>. QED  BY <1>0, <2>2, <2>3, <2>4 DEF KeyInv
<1>5. ASSUME NEW l \in Loop, StartReading(l) \/ OnRead(l) \/ OnClose(l) PROVE KeyInv'
  <2>1. io[l].conn \in Conn /\ handle[io[l].conn] # "closed" /\ UNCHANGED key
    BY <1>5, RunningSession DEF IInv, StartReading, OnRead, OnClose
  <2>2. \E h : handle' = [handle EXCEPT ![io[l].conn] = h]
    BY <1>5 DEF StartReading, OnRead, OnClose
  <2>. QED  BY <1>0, <1>1, <2>1, <2>2 DEF TypeOK
<1>6. CASE OwnerStep \/ Stop \/ AddConnection \/ RunInLoopEn
  BY <1>1, <1>6 DEF OwnerStep, Start, Stop, StopLoop, JoinThreads, AddConnection, RunInLoopEn
<1>7. ASSUME NEW l \in Loop, RunLoop(l) \/ InitWorkerPool(l) \/ StopRunning(l) PROVE KeyInv'
  BY <1>1, <1>7 DEF RunLoop, InitWorkerPool, StopRunning
<1>8. ASSUME NEW l \in Loop, LoopEvent(l) PROVE KeyInv'
  BY <1>1, <1>8 DEF LoopEvent, EnterPosted, EnterOnRead, EnterOnClose
<1>9. ASSUME NEW c \in Conn, PeerGone(c) PROVE KeyInv'
  BY <1>1, <1>9 DEF PeerGone
<1>10. CASE UNCHANGED vars
  BY <1>1, <1>10 DEF vars
<1>. QED
  BY <1>2, <1>3, <1>4, <1>5, <1>6, <1>7, <1>8, <1>9, <1>10 DEF Next, ServerStep, LoopStep

\* Every step keeps the map and the managed sessions in agreement: no two sessions
\* that are managed at a time have the same address.
LEMMA MapNext ==
  ASSUME IInv, [Next]_vars
  PROVE  MapInv'
<1>. USE DEF poolVars, serverVars, sessionVars, Leaves
<1>0. TypeOK /\ ServerInv /\ MapInv
  BY DEF IInv, SessionInv
<1>14. \A c, d \in Conn :
        handle[c] \in HandedOver /\ key[c] \in Key /\ Managed(d) /\ key[c] = key[d] => c = d
  BY NoneAssumption DEF IInv, KeyInv, KeepsKey, Managed, HandedOver
<1>1. CASE UNCHANGED <<spc, cur, key, handle, connMap>>
  BY <1>0, <1>1 DEF MapInv, Managed
<1>2. ASSUME NEW c \in Conn, OnNewConnection(c) PROVE MapInv'
  <2>1. /\ spc = "idle" /\ spc' = "uv_tcp_init" /\ handle[c] = "none"
        /\ handle' = [handle EXCEPT ![c] = "raw"]
        /\ UNCHANGED <<key, connMap>>
    BY <1>2 DEF OnNewConnection, ServerGoto
  <2>2. \A d \in Conn : Managed(d)' <=> Managed(d)
    BY <1>0, <2>1 DEF Managed, HandedOver, TypeOK
  <2>. QED  BY <1>0, <2>1, <2>2 DEF MapInv, TypeOK
<1>3. CASE UvTcpInit
  <2>1. /\ spc = "uv_tcp_init" /\ spc' = "uv_accept" /\ cur \in Conn /\ handle[cur] = "raw"
        /\ handle' = [handle EXCEPT ![cur] = "init"]
        /\ UNCHANGED <<key, connMap>>
    BY <1>0, <1>3 DEF UvTcpInit, ServerGoto, ServerInv, TypeOK
  <2>2. \A d \in Conn : Managed(d)' <=> Managed(d)
    BY <1>0, <2>1 DEF Managed, HandedOver, TypeOK
  <2>. QED  BY <1>0, <2>1, <2>2 DEF MapInv, TypeOK
<1>4. ASSUME NEW k \in Key, UvAccept(k) PROVE MapInv'
  <2>1. /\ spc = "uv_accept" /\ spc' = "addConnection" /\ cur' = cur
        /\ cur \in Conn /\ handle[cur] = "init"
        /\ \E h \in {"accepted", "refused"} : handle' = [handle EXCEPT ![cur] = h]
        /\ key' = [key EXCEPT ![cur] = k]
        /\ UNCHANGED connMap
    BY <1>0, <1>4 DEF UvAccept, ServerGoto, ServerInv, TypeOK
  <2>2. ~Managed(cur) /\ \A d \in Conn : Managed(d)' <=> Managed(d)
    BY <1>0, <2>1 DEF Managed, HandedOver, TypeOK
  <2>3. \A d \in Conn : key'[d] = IF d = cur THEN k ELSE key[d]
    BY <1>0, <2>1 DEF TypeOK
  <2>4. \A c \in Conn : Managed(c)' => key'[c] \in Key /\ connMap'[key'[c]] = c
    BY <1>0, <2>1, <2>2, <2>3 DEF MapInv
  <2>5. \A n \in Key : connMap'[n] # None => Managed(connMap[n])' /\ key'[connMap'[n]] = n
    BY <1>0, <2>1, <2>2, <2>3 DEF MapInv, TypeOK
  <2>. QED  BY <2>1, <2>4, <2>5 DEF MapInv, Managed
<1>5. CASE AddConnection
  <2>1. /\ spc = "addConnection" /\ spc' = "runInLoopEn" /\ cur' = cur
        /\ cur \in Conn /\ handle[cur] \in HandedOver /\ key[cur] \in Key
        /\ UNCHANGED <<key, handle>>
    BY <1>0, <1>5 DEF AddConnection, ServerGoto, ServerInv, TypeOK, HandedOver
  <2>2. ~Managed(cur) /\ Managed(cur)' /\ \A d \in Conn : d # cur => (Managed(d)' <=> Managed(d))
    BY <2>1 DEF Managed
  <2>3. connMap[key[cur]] = None
    BY <1>0, <1>14, <2>1, <2>2, NoneAssumption DEF MapInv, TypeOK
  <2>4. connMap' = [connMap EXCEPT ![key[cur]] = cur]
    BY <1>5, <2>3 DEF AddConnection
  <2>5. \A n \in Key : connMap'[n] = IF n = key[cur] THEN cur ELSE connMap[n]
    BY <1>0, <2>4 DEF TypeOK
  <2>6. \A c \in Conn : Managed(c)' => key'[c] \in Key /\ connMap'[key'[c]] = c
    BY <1>0, <1>14, <2>1, <2>2, <2>5, NoneAssumption DEF MapInv
  <2>7. \A n \in Key : connMap'[n] # None => (Managed(connMap[n]) /\ key[connMap[n]] = n)'
    <3>. SUFFICES ASSUME NEW n \in Key, connMap'[n] # None
                  PROVE  (Managed(connMap[n]) /\ key[connMap[n]] = n)'
      OBVIOUS
    <3>1. CASE n = key[cur]
      BY <2>1, <2>2, <2>5, <3>1 DEF Managed
    <3>2. CASE n # key[cur]
      <4>1. PICK d \in Conn : d = connMap[n] /\ d # cur /\ connMap'[n] = d
        BY <1>0, <2>2, <2>5, <3>2 DEF MapInv, TypeOK
      <4>2. Managed(d)' /\ key[d] = n
        BY <1>0, <2>2, <2>5, <3>2, <4>1 DEF MapInv
      <4>. QED  BY <2>1, <4>1, <4>2 DEF Managed
    <3>. QED  BY <3>1, <3>2
  <2>. QED  BY <1>0, <2>1, <2>6, <2>7 DEF MapInv
<1>6. CASE RunInLoopEn
  <2>1. /\ spc = "runInLoopEn" /\ spc' = "idle" /\ UNCHANGED <<key, handle, connMap>>
    BY <1>6 DEF RunInLoopEn, ServerGoto
  <2>2. \A d \in Conn : Managed(d)' <=> Managed(d)
    BY <2>1 DEF Managed
  <2>. QED  BY <1>0, <2>1, <2>2 DEF MapInv, TypeOK
<1>7. ASSUME NEW l \in Loop, StartReading(l) \/ OnRead(l) PROVE MapInv'
  <2>1. io[l].conn \in Conn /\ io[l].conn # cur /\ handle[io[l].conn] \in HandedOver
    BY <1>7, RunningSession DEF IInv, StartReading, OnRead, HandedOver
  <2>2. /\ UNCHANGED <<spc, cur, key, connMap>>
        /\ \E h \in {"reading", "closing"} : handle' = [handle EXCEPT ![io[l].conn] = h]
    BY <1>7 DEF StartReading, OnRead
  <2>3. \A d \in Conn : Managed(d)' <=> Managed(d)
    BY <1>0, <2>1, <2>2 DEF Managed, HandedOver, TypeOK
  <2>. QED  BY <1>0, <2>2, <2>3 DEF MapInv, TypeOK
<1>8. ASSUME NEW l \in Loop, OnClose(l) PROVE MapInv'
  <2>1. PICK c \in Conn : c = io[l].conn /\ c # cur /\ handle[c] \in HandedOver /\ Managed(c)
    BY <1>8, RunningSession DEF IInv, OnClose, HandedOver, Managed
  <2>2. /\ UNCHANGED <<spc, cur, key>>
        /\ handle' = [handle EXCEPT ![c] = "closed"]
        /\ connMap' = [connMap EXCEPT ![key[c]] = None]
    BY <1>8, <2>1 DEF OnClose
  <2>3. ~Managed(c)' /\ \A d \in Conn : d # c => (Managed(d)' <=> Managed(d))
    BY <1>0, <2>1, <2>2 DEF Managed, HandedOver, TypeOK
  <2>4. \A n \in Key : connMap'[n] = IF n = key[c] THEN None ELSE connMap[n]
    BY <1>0, <2>2 DEF TypeOK
  <2>5. key[c] \in Key /\ connMap[key[c]] = c
    BY <1>0, <2>1 DEF MapInv
  <2>6. \A d \in Conn : Managed(d)' => key'[d] \in Key /\ connMap'[key'[d]] = d
    BY <1>0, <2>1, <2>2, <2>3, <2>4, <2>5, NoneAssumption DEF MapInv
  <2>7. \A n \in Key : connMap'[n] # None => (Managed(connMap[n]) /\ key[connMap[n]] = n)'
    <3>. SUFFICES ASSUME NEW n \in Key, connMap'[n] # None
                  PROVE  (Managed(connMap[n]) /\ key[connMap[n]] = n)'
      OBVIOUS
    <3>1. PICK d \in Conn : n # key[c] /\ connMap'[n] = d /\ connMap[n] = d
      BY <1>0, <2>4 DEF TypeOK
    <3>2. Managed(d) /\ key[d] = n /\ d # c
      BY <1>0, <3>1, NoneAssumption DEF MapInv
    <3>3. Managed(d)'
      BY <2>3, <3>1, <3>2
    <3>. QED  BY <2>2, <3>1, <3>2, <3>3 DEF Managed
  <2>. QED  BY <1>0, <2>2, <2>6, <2>7 DEF MapInv
<1>9. CASE OwnerStep \/ Stop
  BY <1>1, <1>9 DEF OwnerStep, Start, Stop, StopLoop, JoinThreads
<1>10. ASSUME NEW l \in Loop, RunLoop(l) \/ InitWorkerPool(l) \/ StopRunning(l) PROVE MapInv'
  BY <1>1, <1>10 DEF RunLoop, InitWorkerPool, StopRunning
<1>11. ASSUME NEW l \in Loop, LoopEvent(l) PROVE MapInv'
  BY <1>1, <1>11 DEF LoopEvent, EnterPosted, EnterOnRead, EnterOnClose
<1>12. ASSUME NEW c \in Conn, PeerGone(c) PROVE MapInv'
  BY <1>1, <1>12 DEF PeerGone
<1>13. CASE UNCHANGED vars
  BY <1>1, <1>13 DEF vars
<1>. QED
  BY <1>2, <1>3, <1>4, <1>5, <1>6, <1>7, <1>8, <1>9, <1>10, <1>11, <1>12, <1>13
  DEF Next, ServerStep, LoopStep

\* A step of the listening thread takes no session from the loops.
LEMMA ServerKeepsWaiting ==
  ASSUME SessionInv, NEW c \in Conn,
         OnNewConnection(c) \/ UvTcpInit \/ (\E k \in Key : UvAccept(k)) \/ RunInLoopEn
  PROVE  /\ \A l \in Loop : \A d \in Conn : Waits(l, d) => Waits(l, d)'
         /\ \A d \in Conn : d # cur /\ handle[d] # "none" =>
              UNCHANGED <<loopOf[d], handle[d]>>
         /\ UNCHANGED io
<1>. USE DEF poolVars, serverVars, sessionVars
<1>0. TypeOK /\ ServerInv
  BY DEF SessionInv
<1>1. CASE OnNewConnection(c)
  <2>1. /\ handle[c] = "none" /\ cur = None /\ cur' = c /\ UNCHANGED io
        /\ handle' = [handle EXCEPT ![c] = "raw"]
        /\ loopOf' = [loopOf EXCEPT ![c] = NextLoop]
    BY <1>0, <1>1 DEF OnNewConnection, ServerGoto, ServerInv
  <2>2. \A d \in Conn : d # c => UNCHANGED <<loopOf[d], handle[d]>>
    BY <1>0, <2>1 DEF TypeOK
  <2>. QED  BY <2>1, <2>2 DEF Waits
<1>2. CASE UvTcpInit \/ \E k \in Key : UvAccept(k)
  <2>1. /\ cur \in Conn /\ UNCHANGED <<cur, loopOf, io>>
        /\ \E h \in {"init", "accepted", "refused"} : handle' = [handle EXCEPT ![cur] = h]
    BY <1>0, <1>2 DEF UvTcpInit, UvAccept, ServerGoto, ServerInv, TypeOK
  <2>2. \A d \in Conn : d # cur => UNCHANGED <<loopOf[d], handle[d]>>
    BY <1>0, <2>1 DEF TypeOK
  <2>. QED  BY <2>1, <2>2 DEF Waits
<1>3. CASE RunInLoopEn
  <2>1. cur' = None /\ UNCHANGED <<loopOf, handle, io>>
    BY <1>3 DEF RunInLoopEn
  <2>. QED  BY <2>1, NoneAssumption DEF Waits
<1>. QED  BY <1>1, <1>2, <1>3

\* What a callback does to its session does not concern the sessions that wait
\* for other closures.
LEMMA LoopKeepsWaiting ==
  ASSUME SessionInv, NEW l \in Loop, StartReading(l) \/ OnRead(l) \/ OnClose(l)
  PROVE  /\ \A d \in Conn : d # io[l].conn => handle'[d] = handle[d]
         /\ UNCHANGED <<cur, loopOf, posted>>
         /\ io' = [io EXCEPT ![l] = Polling]
         /\ io[l].op \in {"uv_read_start", "onRead", "onClose"}
BY DEF SessionInv, TypeOK, StartReading, OnRead, OnClose, Leaves, poolVars, serverVars, sessionVars

\* Every step keeps the callbacks that run in agreement with their sessions.
LEMMA RunningNext == SessionInv /\ [Next]_vars => RunningInv'
<1>. SUFFICES ASSUME SessionInv, [Next]_vars PROVE RunningInv'
  OBVIOUS
<1>. USE DEF poolVars, serverVars, sessionVars
<1>0. TypeOK /\ RunningInv /\ QueuedInv
  BY DEF SessionInv
<1>1. CASE UNCHANGED <<cur, loopOf, handle, io>>
  BY <1>0, <1>1 DEF RunningInv, Waits
<1>2. ASSUME NEW c \in Conn,
             OnNewConnection(c) \/ UvTcpInit \/ (\E k \in Key : UvAccept(k)) \/ RunInLoopEn
      PROVE  RunningInv'
  <2>1. /\ \A l \in Loop : \A d \in Conn : Waits(l, d) => Waits(l, d)'
        /\ \A d \in Conn : d # cur /\ handle[d] # "none" =>
             UNCHANGED <<loopOf[d], handle[d]>>
        /\ UNCHANGED io
    BY <1>2, ServerKeepsWaiting
  <2>. SUFFICES ASSUME NEW l \in Loop
                PROVE  /\ io[l].op = "uv_read_start" => Waits(l, io[l].conn)'
                       /\ io[l].op = "onRead" => io[l].conn \in Conn
                            /\ loopOf'[io[l].conn] = l /\ handle'[io[l].conn] = "reading"
                       /\ io[l].op = "onClose" => io[l].conn \in Conn
                            /\ loopOf'[io[l].conn] = l /\ handle'[io[l].conn] = "closing"
    BY <2>1 DEF RunningInv, Waits
  <2>2. io[l].op \in {"uv_read_start", "onRead", "onClose"} =>
          io[l].conn \in Conn /\ loopOf'[io[l].conn] = loopOf[io[l].conn]
            /\ handle'[io[l].conn] = handle[io[l].conn]
    BY <2>1, RunningSession
  <2>3. io[l].op = "uv_read_start" => Waits(l, io[l].conn)'
    BY <1>0, <2>1, <2>2 DEF RunningInv, Waits
  <2>. QED  BY <1>0, <2>2, <2>3 DEF RunningInv
<1>3. ASSUME NEW l \in Loop, StartReading(l) \/ OnRead(l) \/ OnClose(l) PROVE RunningInv'
  <2>1. /\ \A d \in Conn : d # io[l].conn => handle'[d] = handle[d]
        /\ UNCHANGED <<cur, loopOf, posted>>
        /\ io' = [io EXCEPT ![l] = Polling]
        /\ io[l].op \in {"uv_read_start", "onRead", "onClose"}
    BY <1>3, LoopKeepsWaiting
  <2>2. io[l].conn \in Conn /\ loopOf[io[l].conn] = l
    BY <2>1, RunningSession
  <2>3. io'[l].op = "poll" /\ \A n \in Loop : n # l => io'[n] = io[n]
    BY <1>0, <2>1 DEF TypeOK, Polling, Job
  <2>4. \A n \in Loop : n # l /\ io[n].op \in {"uv_read_start", "onRead", "onClose"} =>
          io[n].conn \in Conn /\ handle'[io[n].conn] = handle[io[n].conn]
    BY <2>1, <2>2, RunningSession
  <2>. QED  BY <1>0, <2>1, <2>3, <2>4 DEF RunningInv, Waits
<1>4. ASSUME NEW l \in Loop, InitWorkerPool(l) \/ StopRunning(l) PROVE RunningInv'
  <2>1. io' = [io EXCEPT ![l] = Polling] /\ UNCHANGED <<cur, loopOf, handle>>
    BY <1>4 DEF InitWorkerPool, StopRunning, Leaves
  <2>2. io'[l].op = "poll" /\ \A n \in Loop : n # l => io'[n] = io[n]
    BY <1>0, <2>1 DEF TypeOK, Polling, Job
  <2>. QED  BY <1>0, <2>1, <2>2 DEF RunningInv, Waits
<1>5. ASSUME NEW l \in Loop, EnterPosted(l) PROVE RunningInv'
  <2>1. /\ posted[l] # <<>> /\ io' = [io EXCEPT ![l] = Head(posted[l])]
        /\ UNCHANGED <<cur, loopOf, handle>>
    BY <1>5 DEF EnterPosted, Enters
  <2>2. posted[l] \in Seq(JobType)
    BY <1>0 DEF TypeOK, JobType
  <2>3. 1 \in 1..Len(posted[l]) /\ Head(posted[l]) = posted[l][1]
    BY <2>1, <2>2
  <2>4. io'[l] = posted[l][1] /\ \A n \in Loop : n # l => io'[n] = io[n]
    BY <1>0, <2>1, <2>3 DEF TypeOK
  <2>5. /\ io'[l].op \in {"initWorkerPool", "uv_read_start", "stop"}
        /\ io'[l].op = "uv_read_start" => Waits(l, io'[l].conn)
    BY <1>0, <2>3, <2>4 DEF QueuedInv
  <2>. QED  BY <1>0, <2>1, <2>4, <2>5 DEF RunningInv, Waits
<1>6. ASSUME NEW l \in Loop, NEW c \in Conn, EnterOnRead(l, c) \/ EnterOnClose(l, c)
      PROVE  RunningInv'
  <2>1. /\ loopOf[c] = l /\ UNCHANGED <<cur, loopOf, handle>>
        /\ \E op \in {"onRead", "onClose"} :
             /\ io' = [io EXCEPT ![l] = Job(op, c)]
             /\ handle[c] = IF op = "onRead" THEN "reading" ELSE "closing"
    BY <1>6 DEF EnterOnRead, EnterOnClose, Enters
  <2>2. /\ io'[l].conn = c /\ io'[l].op \in {"onRead", "onClose"}
        /\ handle[c] = IF io'[l].op = "onRead" THEN "reading" ELSE "closing"
        /\ \A n \in Loop : n # l => io'[n] = io[n]
    BY <1>0, <2>1 DEF TypeOK, Job
  <2>. QED  BY <1>0, <2>1, <2>2 DEF RunningInv, Waits
<1>7. CASE OwnerStep \/ Stop \/ AddConnection
  BY <1>1, <1>7 DEF OwnerStep, Start, Stop, StopLoop, JoinThreads, AddConnection
<1>8. ASSUME NEW l \in Loop, RunLoop(l) PROVE RunningInv'
  BY <1>1, <1>8 DEF RunLoop
<1>9. ASSUME NEW c \in Conn, PeerGone(c) PROVE RunningInv'
  BY <1>1, <1>9 DEF PeerGone
<1>10. CASE UNCHANGED vars
  BY <1>1, <1>10 DEF vars
<1>11. CASE UvTcpInit \/ (\E k \in Key : UvAccept(k)) \/ RunInLoopEn
  <2>1. cur \in Conn
    BY <1>11 DEF SessionInv, ServerInv, TypeOK, UvTcpInit, UvAccept, RunInLoopEn, ServerGoto
  <2>. QED  BY <1>2, <1>11, <2>1
<1>. QED
  BY <1>2, <1>3, <1>4, <1>5, <1>6, <1>7, <1>8, <1>9, <1>10, <1>11
  DEF Next, ServerStep, LoopStep, LoopEvent

\* What a queue holds after its head is taken.
LEMMA AfterTail ==
  ASSUME NEW S, NEW q \in Seq(S), q # <<>>
  PROVE  /\ Len(Tail(q)) = Len(q) - 1 /\ Len(q) \in Nat \ {0}
         /\ Head(q) = q[1]
         /\ \A i \in 1..Len(Tail(q)) : i + 1 \in 1..Len(q) /\ Tail(q)[i] = q[i + 1]
<1>1. Len(q) \in Nat \ {0} /\ Len(Tail(q)) = Len(q) - 1
  OBVIOUS
<1>2. ASSUME NEW i \in 1..Len(Tail(q)) PROVE i + 1 \in 1..Len(q) /\ Tail(q)[i] = q[i + 1]
  BY <1>1
<1>. QED  BY <1>1, <1>2

\* What a queue holds after a closure is added.
LEMMA AfterAppend ==
  ASSUME NEW S, NEW q \in Seq(S), NEW e \in S
  PROVE  /\ Len(q) \in Nat /\ Len(Append(q, e)) = Len(q) + 1
         /\ \A i \in 1..Len(q) : Append(q, e)[i] = q[i]
         /\ Append(q, e)[Len(q) + 1] = e
         /\ \A i \in 1..Len(Append(q, e)) : i \in 1..Len(q) \/ i = Len(q) + 1
OBVIOUS

\* A closure is given by its operation and its session.
LEMMA SameJob ==
  ASSUME NEW r \in JobType, NEW s \in JobType, r.op = s.op, r.conn = s.conn
  PROVE  r = s
BY DEF JobType

\* Every step keeps the closures in the queues in agreement with the sessions
\* that wait for them.
LEMMA QueuedNext == SessionInv /\ [Next]_vars => QueuedInv'
<1>. SUFFICES ASSUME SessionInv, [Next]_vars PROVE QueuedInv'
  OBVIOUS
<1>. USE DEF poolVars, serverVars, sessionVars
<1>0. TypeOK /\ ServerInv /\ RunningInv /\ QueuedInv
  BY DEF SessionInv
<1>a. /\ posted \in [Loop -> Seq(JobType)] /\ io \in [Loop -> JobType]
  BY <1>0 DEF TypeOK, JobType
<1>1. CASE UNCHANGED <<cur, loopOf, handle, io, posted>>
  BY <1>0, <1>1 DEF QueuedInv, Waits
\* A closure that starts no reading is added to a queue, or to none.
<1>2. ASSUME NEW n \in SUBSET Loop, NEW job \in JobType, job.op \in {"initWorkerPool", "stop"},
             posted' = [l \in Loop |-> IF l \in n THEN Append(posted[l], job) ELSE posted[l]],
             UNCHANGED <<cur, loopOf, handle, io>>
      PROVE  QueuedInv'
  <2>1. SUFFICES ASSUME NEW l \in Loop, NEW q, q = posted'[l], NEW i \in 1..Len(q)
                 PROVE  /\ q[i].op \in {"initWorkerPool", "uv_read_start", "stop"}
                        /\ q[i].op = "uv_read_start" =>
                             /\ Waits(l, q[i].conn)
                             /\ io[l] # q[i]
                             /\ \A j \in 1..Len(q) : q[j] = q[i] => j = i
    BY <1>2 DEF QueuedInv, Waits
  <2>2. posted[l] \in Seq(JobType) /\ q = IF l \in n THEN Append(posted[l], job) ELSE posted[l]
    BY <1>a, <1>2, <2>1
  <2>3. CASE l \notin n
    BY <1>0, <2>2, <2>3 DEF QueuedInv
  <2>4. CASE l \in n
    <3>1. /\ \A j \in 1..Len(posted[l]) : q[j] = posted[l][j]
          /\ q[Len(posted[l]) + 1] = job
          /\ \A j \in 1..Len(q) : j \in 1..Len(posted[l]) \/ j = Len(posted[l]) + 1
      BY <2>2, <2>4, AfterAppend
    <3>2. CASE i = Len(posted[l]) + 1
      BY <1>2, <3>1, <3>2
    <3>3. CASE i \in 1..Len(posted[l])
      <4>1. q[i].op = "uv_read_start" => \A j \in 1..Len(q) : q[j] = q[i] => j \in 1..Len(posted[l])
        BY <1>2, <3>1
      <4>. QED  BY <1>0, <3>1, <3>3, <4>1 DEF QueuedInv
    <3>. QED  BY <3>1, <3>2, <3>3
  <2>. QED  BY <2>3, <2>4
<1>3. CASE Start
  <2>1. /\ posted' = [l \in Loop |-> Append(posted[l], Job("initWorkerPool", None))]
        /\ UNCHANGED <<cur, loopOf, handle, io>>
    BY <1>3 DEF Start
  <2>2. Job("initWorkerPool", None) \in JobType
    BY JobTypes DEF Jobs
  <2>3. Job("initWorkerPool", None).op = "initWorkerPool"
    BY DEF Job
  <2>4. posted' = [l \in Loop |-> IF l \in Loop THEN Append(posted[l], Job("initWorkerPool", None))
                                               ELSE posted[l]]
    BY <2>1, Zenon
  <2>. QED  BY <1>2, <2>1, <2>2, <2>3, <2>4
<1>4. CASE StopLoop
  <2>1. Job("stop", None) \in JobType /\ Job("stop", None).op = "stop"
    BY JobTypes DEF Jobs, Job
  <2>2. UNCHANGED <<cur, loopOf, handle, io>> /\ stopping \in Loop
    BY <1>4 DEF StopLoop
  <2>3. CASE status[stopping] = "Running"
    <3>1. posted' = [posted EXCEPT ![stopping] = Append(@, Job("stop", None))]
      BY <1>4, <2>3 DEF StopLoop
    <3>2. posted' = [l \in Loop |-> IF l \in {stopping} THEN Append(posted[l], Job("stop", None))
                                                       ELSE posted[l]]
      BY <1>a, <3>1, Zenon
    <3>. QED  BY <1>2, <2>1, <2>2, <3>2
  <2>4. CASE status[stopping] # "Running"
    BY <1>1, <1>4, <2>2, <2>4 DEF StopLoop
  <2>. QED  BY <2>3, <2>4
<1>5. CASE RunInLoopEn
  <2>1. /\ cur \in Conn /\ loopOf[cur] \in Loop /\ handle[cur] \in {"accepted", "refused"}
    BY <1>0, <1>5 DEF RunInLoopEn, ServerGoto, ServerInv, TypeOK
  <2>2. PICK job \in JobType : job = Job("uv_read_start", cur)
    BY <2>1, JobTypes DEF Jobs
  <2>3. job.op = "uv_read_start" /\ job.conn = cur
    BY <2>2 DEF Job
  <2>4. posted' = [posted EXCEPT ![loopOf[cur]] = Append(@, job)]
    BY <1>5, <2>2 DEF RunInLoopEn
  <2>5. \A l \in Loop : posted'[l] = IF l = loopOf[cur] THEN Append(posted[l], job) ELSE posted[l]
    BY <1>a, <2>4
  <2>6. cur' = None /\ UNCHANGED <<loopOf, handle, io>>
    BY <1>5 DEF RunInLoopEn
  <2>7. PICK c \in Conn, n \in Loop : c = cur /\ n = loopOf[cur]
    BY <2>1
  <2>8. Waits(n, c)' /\ \A l \in Loop : \A d \in Conn : Waits(l, d) => Waits(l, d)'
    BY <2>1, <2>6, <2>7, NoneAssumption DEF Waits
  <2>9. \A l \in Loop : io[l] # job /\ \A i \in 1..Len(posted[l]) : posted[l][i] # job
    BY <1>0, <2>1, <2>3 DEF RunningInv, QueuedInv, Waits
  <2>10. SUFFICES ASSUME NEW l \in Loop, NEW q, q = posted'[l], NEW i \in 1..Len(q),
                         NEW d, d = q[i].conn
                  PROVE  /\ q[i].op \in {"initWorkerPool", "uv_read_start", "stop"}
                         /\ q[i].op = "uv_read_start" =>
                              /\ Waits(l, d)'
                              /\ io[l] # q[i]
                              /\ \A j \in 1..Len(q) : q[j] = q[i] => j = i
    BY <2>6 DEF QueuedInv, Waits
  <2>11. /\ posted[l] \in Seq(JobType)
         /\ q = IF l = n THEN Append(posted[l], job) ELSE posted[l]
    BY <1>a, <2>5, <2>7, <2>10
  <2>12. CASE l # n
    <3>1. q = posted[l]
      BY <2>11, <2>12
    <3>2. q[i] \in JobType /\ (q[i].op = "uv_read_start" => d \in Conn /\ Waits(l, d))
      BY <1>0, <2>10, <2>11, <3>1 DEF QueuedInv, Waits
    <3>. QED  BY <1>0, <2>8, <3>1, <3>2 DEF QueuedInv
  <2>13. CASE l = n
    <3>1. /\ \A j \in 1..Len(posted[l]) : q[j] = posted[l][j]
          /\ q[Len(posted[l]) + 1] = job
          /\ \A j \in 1..Len(q) : j \in 1..Len(posted[l]) \/ j = Len(posted[l]) + 1
      BY <2>11, <2>13, AfterAppend
    <3>2. CASE i = Len(posted[l]) + 1
      <4>1. q[i] = job /\ d = c /\ q[i].op = "uv_read_start"
        BY <2>3, <2>7, <2>10, <3>1, <3>2
      <4>. QED  BY <2>8, <2>9, <2>13, <3>1, <3>2, <4>1
    <3>3. CASE i \in 1..Len(posted[l])
      <4>1. q[i] = posted[l][i] /\ posted[l][i] # job
        BY <2>9, <3>1, <3>3
      <4>2. q[i].op = "uv_read_start" => d \in Conn /\ Waits(l, d)
        BY <1>0, <2>10, <3>3, <4>1 DEF QueuedInv, Waits
      <4>3. \A j \in 1..Len(q) : q[j] = q[i] => j \in 1..Len(posted[l])
        BY <3>1, <4>1
      <4>4. q[i].op = "uv_read_start" => \A j \in 1..Len(q) : q[j] = q[i] => j = i
        BY <1>0, <3>1, <3>3, <4>1, <4>3 DEF QueuedInv
      <4>. QED  BY <1>0, <2>8, <3>3, <4>1, <4>2, <4>4 DEF QueuedInv
    <3>. QED  BY <3>1, <3>2, <3>3
  <2>. QED  BY <2>12, <2>13
<1>6. ASSUME NEW c \in Conn,
             OnNewConnection(c) \/ UvTcpInit \/ \E k \in Key : UvAccept(k)
      PROVE  QueuedInv'
  <2>1. \A l \in Loop : \A d \in Conn : Waits(l, d) => Waits(l, d)'
    BY <1>6, ServerKeepsWaiting
  <2>2. UNCHANGED <<io, posted>>
    BY <1>6 DEF OnNewConnection, UvTcpInit, UvAccept
  <2>. QED  BY <1>0, <2>1, <2>2 DEF QueuedInv, Waits
\* A callback that ends had been taken from the queue.
<1>7. ASSUME NEW l \in Loop, StartReading(l) \/ OnRead(l) \/ OnClose(l) PROVE QueuedInv'
  <2>1. /\ \A d \in Conn : d # io[l].conn => handle'[d] = handle[d]
        /\ UNCHANGED <<cur, loopOf, posted>>
        /\ io' = [io EXCEPT ![l] = Polling]
        /\ io[l].op \in {"uv_read_start", "onRead", "onClose"}
    BY <1>7, LoopKeepsWaiting
  <2>2. /\ io[l].conn \in Conn /\ loopOf[io[l].conn] = l
        /\ io[l].op # "uv_read_start" => handle[io[l].conn] \in {"reading", "closing"}
    BY <1>0, <2>1, RunningSession DEF RunningInv
  <2>3. io'[l].op = "poll" /\ \A n \in Loop : n # l => io'[n] = io[n]
    BY <1>0, <2>1 DEF TypeOK, Polling, Job
  <2>4. \A n \in Loop : \A i \in 1..Len(posted[n]) : posted[n][i] \in JobType
    BY <1>a
  <2>5. ASSUME NEW n \in Loop, NEW i \in 1..Len(posted[n]), posted[n][i].op = "uv_read_start"
        PROVE  posted[n][i].conn # io[l].conn
    <3>1. Waits(n, posted[n][i].conn) /\ io[n] # posted[n][i]
      BY <1>0, <2>5 DEF QueuedInv
    <3>2. io[l].op = "uv_read_start" /\ posted[n][i].conn = io[l].conn => posted[n][i] = io[l]
      <4>1. posted[n][i] \in JobType /\ io[l] \in JobType
        BY <1>a, <2>4, <2>5
      <4>. QED  BY <2>5, <4>1, SameJob
    <3>. QED  BY <2>1, <2>2, <3>1, <3>2 DEF Waits
  <2>. QED  BY <1>0, <2>1, <2>3, <2>5 DEF QueuedInv, Waits
<1>8. ASSUME NEW l \in Loop, InitWorkerPool(l) \/ StopRunning(l) PROVE QueuedInv'
  <2>1. io' = [io EXCEPT ![l] = Polling] /\ UNCHANGED <<cur, loopOf, handle, posted>>
    BY <1>8 DEF InitWorkerPool, StopRunning, Leaves
  <2>2. io'[l].op = "poll" /\ \A n \in Loop : n # l => io'[n] = io[n]
    BY <1>0, <2>1 DEF TypeOK, Polling, Job
  <2>. QED  BY <1>0, <2>1, <2>2 DEF QueuedInv, Waits
<1>9. ASSUME NEW l \in Loop, EnterPosted(l) PROVE QueuedInv'
  <2>1. /\ posted[l] # <<>> /\ io' = [io EXCEPT ![l] = Head(posted[l])]
        /\ posted' = [posted EXCEPT ![l] = Tail(@)]
        /\ UNCHANGED <<cur, loopOf, handle>>
    BY <1>9 DEF EnterPosted, Enters
  <2>2. posted[l] \in Seq(JobType) /\ posted'[l] = Tail(posted[l]) /\ io'[l] = Head(posted[l])
    BY <1>a, <2>1
  <2>3. /\ Len(posted'[l]) = Len(posted[l]) - 1 /\ Len(posted[l]) \in Nat
        /\ 1 \in 1..Len(posted[l]) /\ io'[l] = posted[l][1]
        /\ \A i \in 1..Len(posted'[l]) :
             i + 1 \in 1..Len(posted[l]) /\ posted'[l][i] = posted[l][i + 1]
    <3>1. PICK q \in Seq(JobType) : q = posted[l] /\ q # <<>>
      BY <2>1, <2>2
    <3>2. /\ Len(Tail(q)) = Len(q) - 1 /\ Len(q) \in Nat \ {0}
          /\ Head(q) = q[1]
          /\ \A i \in 1..Len(Tail(q)) : i + 1 \in 1..Len(q) /\ Tail(q)[i] = q[i + 1]
      BY <3>1, AfterTail
    <3>3. 1 \in 1..Len(q)
      BY <3>2
    <3>. QED  BY <2>2, <3>1, <3>2, <3>3, Zenon
  <2>4. \A n \in Loop : n # l => io'[n] = io[n] /\ posted'[n] = posted[n]
    BY <1>a, <2>1
  <2>5. ASSUME NEW i \in 1..Len(posted'[l])
        PROVE  /\ posted'[l][i].op \in {"initWorkerPool", "uv_read_start", "stop"}
               /\ posted'[l][i].op = "uv_read_start" =>
                    /\ Waits(l, posted'[l][i].conn)
                    /\ io'[l] # posted'[l][i]
                    /\ \A j \in 1..Len(posted'[l]) : posted'[l][j] = posted'[l][i] => j = i
    <3>1. i + 1 \in 1..Len(posted[l]) /\ posted'[l][i] = posted[l][i + 1] /\ i + 1 # 1
      BY <2>3, <2>5
    <3>2. /\ posted[l][i + 1].op \in {"initWorkerPool", "uv_read_start", "stop"}
          /\ posted[l][i + 1].op = "uv_read_start" =>
               /\ Waits(l, posted[l][i + 1].conn)
               /\ \A j \in 1..Len(posted[l]) : posted[l][j] = posted[l][i + 1] => j = i + 1
      BY <1>0, <3>1 DEF QueuedInv
    <3>3. \A j \in 1..Len(posted'[l]) : j + 1 = i + 1 => j = i
      OBVIOUS
    <3>. QED  BY <2>3, <3>1, <3>2, <3>3
  <2>. QED  BY <1>0, <2>1, <2>4, <2>5 DEF QueuedInv, Waits
<1>10. ASSUME NEW l \in Loop, NEW c \in Conn, EnterOnRead(l, c) \/ EnterOnClose(l, c)
       PROVE  QueuedInv'
  <2>1. /\ UNCHANGED <<cur, loopOf, handle, posted>>
        /\ \E op \in {"onRead", "onClose"} : io' = [io EXCEPT ![l] = Job(op, c)]
    BY <1>10 DEF EnterOnRead, EnterOnClose, Enters
  <2>2. io'[l].op \in {"onRead", "onClose"} /\ \A n \in Loop : n # l => io'[n] = io[n]
    BY <1>0, <2>1 DEF TypeOK, Job
  <2>. QED  BY <1>0, <2>1, <2>2 DEF QueuedInv, Waits
<1>11. CASE Stop \/ JoinThreads \/ AddConnection
  BY <1>1, <1>11 DEF Stop, JoinThreads, AddConnection
<1>12. ASSUME NEW l \in Loop, RunLoop(l) PROVE QueuedInv'
  BY <1>1, <1>12 DEF RunLoop
<1>13. ASSUME NEW c \in Conn, PeerGone(c) PROVE QueuedInv'
  BY <1>1, <1>13 DEF PeerGone
<1>14. CASE UNCHANGED vars
  BY <1>1, <1>14 DEF vars
<1>15. CASE UvTcpInit \/ \E k \in Key : UvAccept(k)
  <2>1. cur \in Conn
    BY <1>15 DEF SessionInv, ServerInv, TypeOK, UvTcpInit, UvAccept, ServerGoto
  <2>. QED  BY <1>6, <1>15, <2>1
<1>. QED
  BY <1>3, <1>4, <1>5, <1>6, <1>7, <1>8, <1>9, <1>10, <1>11, <1>12, <1>13, <1>14, <1>15
  DEF Next, OwnerStep, ServerStep, LoopStep, LoopEvent

-----------------------------------------------------------------------------
(* The theorems.                                                           *)

\* Every step keeps what does not depend on the keys.
LEMMA SessionNext == SessionInv /\ [Next]_vars => SessionInv'
BY TypeNext, ServerNext, RunningNext, QueuedNext DEF SessionInv

\* Every step keeps the whole, if peers do not come back from an address in use.
LEMMA InvNext ==
  ASSUME ~ReuseKeys
  PROVE  IInv /\ [Next]_vars => IInv'
BY SessionNext, KeyNext, MapNext DEF IInv

\* The invariant holds in every state, if peers do not come back from an
\* address in use.
THEOREM Invariance ==
  ASSUME ~ReuseKeys
  PROVE  Spec => []IInv
<1>. QED  BY InvInit, InvNext, PTL DEF Spec

\* ConnectionManager.cpp:107: the object of a session lives as long as libuv
\* knows its handle or a closure holds a pointer to it.
THEOREM SessionsLive ==
  ASSUME ~ReuseKeys
  PROVE  Spec => []SessionLives
<1>1. IInv => SessionLives
  <2>. SUFFICES ASSUME IInv, NEW c \in Conn, InLibuv(c) PROVE Alive(c)
    BY DEF SessionLives
  <2>1. CASE handle[c] \in {"raw", "init"} \/ c = cur
    BY <2>1 DEF IInv, SessionInv, ServerInv, Alive
  <2>2. CASE handle[c] \in HandedOver /\ c # cur
    <3>1. Managed(c)
      BY <2>2 DEF Managed
    <3>. QED  BY <3>1 DEF IInv, SessionInv, MapInv, Alive, InMap
  <2>. QED  BY <2>1, <2>2 DEF InLibuv, HandedOver
<1>. QED  BY Invariance, <1>1, PTL

\* The map holds no session that is closed, none under another's key, and none
\* that onNewConnection has not accepted.
THEOREM MapStaysSound ==
  ASSUME ~ReuseKeys
  PROVE  Spec => []MapIsSound
<1>1. IInv => MapIsSound
  BY DEF IInv, SessionInv, MapInv, MapIsSound, Managed, HandedOver
<1>. QED  BY Invariance, <1>1, PTL

-----------------------------------------------------------------------------
(* Every waiting session has its closure, whatever the keys.               *)

\* A closure is in a queue, or running.
Held(l, job) == io[l] = job \/ \E i \in 1..Len(posted[l]) : posted[l][i] = job

CoveredInv == \A l \in Loop : \A c \in Conn : Waits(l, c) => Held(l, Job("uv_read_start", c))

\* A closure that is in the hands of a loop stays there, or starts to run, until
\* it ends.
LEMMA HeldStays ==
  ASSUME SessionInv, [Next]_vars, NEW l \in Loop, NEW c \in Conn,
         Held(l, Job("uv_read_start", c)),
         ~(io[l] = Job("uv_read_start", c) /\ StartReading(l))
  PROVE  Held(l, Job("uv_read_start", c))'
<1>. USE DEF poolVars, serverVars, sessionVars
<1>. DEFINE job == Job("uv_read_start", c)
<1>0. /\ posted \in [Loop -> Seq(JobType)] /\ io \in [Loop -> JobType]
      /\ job.op = "uv_read_start" /\ Polling.op = "poll"
  BY DEF SessionInv, TypeOK, JobType, Job, Polling
<1>. HIDE DEF job
<1>1. CASE UNCHANGED <<io[l], posted[l]>>
  BY <1>1 DEF Held, job
\* What is added to a queue leaves what is in it where it is.
<1>2. ASSUME UNCHANGED io[l], NEW e \in JobType, posted'[l] = Append(posted[l], e)
      PROVE  Held(l, job)'
  <2>1. PICK q \in Seq(JobType) : q = posted[l]
    BY <1>0
  <2>2. Len(Append(q, e)) = Len(q) + 1 /\ Len(q) \in Nat /\ \A i \in 1..Len(q) : Append(q, e)[i] = q[i]
    BY AfterAppend
  <2>3. \A i \in 1..Len(q) : i \in 1..Len(Append(q, e))
    BY <2>2
  <2>. HIDE <1>0
  <2>. QED  BY <1>2, <2>1, <2>2, <2>3, Zenon DEF Held, job
\* A callback of another kind ends.
<1>3. ASSUME NEW n \in Loop, io[n].op # "uv_read_start" \/ n # l,
             io' = [io EXCEPT ![n] = Polling], UNCHANGED posted
      PROVE  Held(l, job)'
  <2>1. io[l] = job => io'[l] = job
    BY <1>0, <1>3
  <2>. QED  BY <1>3, <2>1 DEF Held, job
<1>4. CASE Start
  <2>1. Job("initWorkerPool", None) \in JobType
    BY JobTypes DEF Jobs
  <2>2. posted'[l] = Append(posted[l], Job("initWorkerPool", None)) /\ UNCHANGED io[l]
    BY <1>4 DEF Start
  <2>. QED  BY <1>2, <2>1, <2>2 DEF job
<1>5. CASE StopLoop
  <2>1. Job("stop", None) \in JobType
    BY JobTypes DEF Jobs
  <2>2. UNCHANGED io[l] /\ (posted'[l] = Append(posted[l], Job("stop", None)) \/ UNCHANGED posted[l])
    BY <1>0, <1>5 DEF StopLoop
  <2>. QED  BY <1>1, <1>2, <2>1, <2>2 DEF job
<1>6. CASE RunInLoopEn
  <2>1. Job("uv_read_start", cur) \in JobType
    BY JobTypes, Zenon DEF Jobs, SessionInv, TypeOK
  <2>2. UNCHANGED io[l] /\ (posted'[l] = Append(posted[l], Job("uv_read_start", cur)) \/ UNCHANGED posted[l])
    BY <1>0, <1>6 DEF RunInLoopEn
  <2>. QED  BY <1>1, <1>2, <2>1, <2>2 DEF job
<1>7. ASSUME NEW n \in Loop, LoopStep(n) PROVE Held(l, job)'
  <2>1. CASE RunLoop(n)
    BY <1>1, <2>1 DEF RunLoop, job
  <2>2. CASE StartReading(n)
    <3>1. n # l \/ io[l] # job
      BY <2>2 DEF job
    <3>2. CASE n # l
      BY <1>3, <2>2, <3>2 DEF StartReading, Leaves, job
    <3>3. CASE n = l /\ io[l] # job
      BY <2>2, <3>3 DEF StartReading, Held, job
    <3>. QED  BY <3>1, <3>2, <3>3 DEF job
  <2>3. CASE InitWorkerPool(n) \/ OnRead(n) \/ OnClose(n) \/ StopRunning(n)
    BY <1>3, <2>3 DEF InitWorkerPool, OnRead, OnClose, StopRunning, Leaves, job
  <2>. QED  BY <1>7, <2>1, <2>2, <2>3 DEF LoopStep, job
<1>8. ASSUME NEW n \in Loop, EnterPosted(n) PROVE Held(l, job)'
  <2>1. /\ posted[n] # <<>> /\ io[n] = Polling
        /\ io' = [io EXCEPT ![n] = Head(posted[n])]
        /\ posted' = [posted EXCEPT ![n] = Tail(@)]
    BY <1>8 DEF EnterPosted, Enters
  <2>2. CASE n # l
    BY <1>0, <1>1, <2>1, <2>2 DEF job
  <2>3. CASE n = l
    <3>1. PICK q \in Seq(JobType) : q = posted[l] /\ q # <<>>
      BY <1>0, <2>1, <2>3
    <3>2. posted'[l] = Tail(q) /\ io'[l] = Head(q)
      BY <1>0, <2>1, <2>3, <3>1
    <3>3. /\ Len(Tail(q)) = Len(q) - 1 /\ Len(q) \in Nat \ {0} /\ Head(q) = q[1]
          /\ \A i \in 1..Len(Tail(q)) : Tail(q)[i] = q[i + 1]
      BY <3>1, AfterTail
    <3>4. PICK i \in 1..Len(q) : q[i] = job
      BY <1>0, <2>1, <2>3, <3>1 DEF Held, job
    <3>5. CASE i = 1
      BY <3>2, <3>3, <3>4, <3>5 DEF Held, job
    <3>6. CASE i # 1
      <4>1. i - 1 \in 1..Len(Tail(q)) /\ (i - 1) + 1 = i
        BY <3>3, <3>6
      <4>2. Tail(q)[i - 1] = job
        BY <3>3, <3>4, <4>1
      <4>. QED  BY <3>2, <4>1, <4>2, Zenon DEF Held, job
    <3>. QED  BY <3>5, <3>6
  <2>. QED  BY <2>2, <2>3
<1>9. ASSUME NEW n \in Loop, NEW d \in Conn, EnterOnRead(n, d) \/ EnterOnClose(n, d)
      PROVE  Held(l, job)'
  <2>1. io[n] = Polling /\ UNCHANGED posted /\ \E e : io' = [io EXCEPT ![n] = e]
    BY <1>9 DEF EnterOnRead, EnterOnClose, Enters
  <2>2. io[l] = job => io'[l] = job
    BY <1>0, <2>1
  <2>. QED  BY <2>1, <2>2 DEF Held, job
<1>10. CASE Stop \/ JoinThreads \/ UvTcpInit \/ AddConnection \/ \E k \in Key : UvAccept(k)
  BY <1>1, <1>10 DEF Stop, JoinThreads, UvTcpInit, AddConnection, UvAccept, job
<1>11. ASSUME NEW d \in Conn, OnNewConnection(d) \/ PeerGone(d) PROVE Held(l, job)'
  BY <1>1, <1>11 DEF OnNewConnection, PeerGone, job
<1>12. CASE UNCHANGED vars
  BY <1>1, <1>12 DEF vars, job
<1>. QED
  BY <1>4, <1>5, <1>6, <1>7, <1>8, <1>9, <1>10, <1>11, <1>12
  DEF Next, OwnerStep, ServerStep, LoopEvent, job

\* Only the step that hands over its closure makes a session wait.
LEMMA WaitsComes ==
  ASSUME SessionInv, [Next]_vars, NEW l \in Loop, NEW c \in Conn, Waits(l, c)'
  PROVE  Waits(l, c) \/ (RunInLoopEn /\ c = cur)
<1>. USE DEF poolVars, serverVars, sessionVars, Waits
<1>0. TypeOK /\ ServerInv
  BY DEF SessionInv
<1>1. CASE UNCHANGED <<cur, loopOf, handle>>
  BY <1>1
<1>2. ASSUME NEW d \in Conn, OnNewConnection(d) PROVE Waits(l, c)
  <2>1. /\ cur = None /\ cur' = d /\ d # c
        /\ handle' = [handle EXCEPT ![d] = "raw"]
        /\ loopOf' = [loopOf EXCEPT ![d] = NextLoop]
    BY <1>0, <1>2 DEF OnNewConnection, ServerGoto, ServerInv
  <2>2. handle'[c] = handle[c] /\ loopOf'[c] = loopOf[c]
    BY <1>0, <2>1 DEF TypeOK
  <2>. QED  BY <2>1, <2>2, NoneAssumption
<1>3. CASE UvTcpInit \/ \E k \in Key : UvAccept(k)
  <2>1. /\ UNCHANGED <<cur, loopOf>> /\ c # cur
        /\ \E h : handle' = [handle EXCEPT ![cur] = h]
    BY <1>3 DEF UvTcpInit, UvAccept
  <2>2. handle'[c] = handle[c]
    BY <1>0, <2>1 DEF TypeOK
  <2>. QED  BY <2>1, <2>2
<1>4. CASE RunInLoopEn
  BY <1>4 DEF RunInLoopEn
<1>5. ASSUME NEW n \in Loop, StartReading(n) \/ OnRead(n) \/ OnClose(n) PROVE Waits(l, c)
  <2>1. /\ UNCHANGED <<cur, loopOf>>
        /\ \E h \in {"reading", "closing", "closed"} :
             handle' = [handle EXCEPT ![io[n].conn] = h]
    <3>1. handle[io[n].conn] = "accepted" \/ handle[io[n].conn] # "accepted"
      OBVIOUS
    <3>. QED  BY <1>0, <1>5 DEF StartReading, OnRead, OnClose, Leaves, TypeOK
  <2>2. handle'[c] \in {"accepted", "refused"} => handle'[c] = handle[c]
    BY <1>0, <2>1 DEF TypeOK
  <2>. QED  BY <2>1, <2>2
<1>6. CASE OwnerStep \/ Stop \/ AddConnection \/ UNCHANGED vars
  BY <1>1, <1>6 DEF OwnerStep, Start, Stop, StopLoop, JoinThreads, AddConnection, vars
<1>7. ASSUME NEW n \in Loop, RunLoop(n) \/ InitWorkerPool(n) \/ StopRunning(n) \/ LoopEvent(n)
      PROVE  Waits(l, c)
  BY <1>1, <1>7 DEF RunLoop, InitWorkerPool, StopRunning, LoopEvent, EnterPosted, EnterOnRead,
                    EnterOnClose
<1>8. ASSUME NEW d \in Conn, PeerGone(d) PROVE Waits(l, c)
  BY <1>1, <1>8 DEF PeerGone
<1>. QED
  BY <1>2, <1>3, <1>4, <1>5, <1>6, <1>7, <1>8 DEF Next, ServerStep, LoopStep

\* Every step keeps a closure for every waiting session.
LEMMA CoveredNext ==
  ASSUME SessionInv, CoveredInv, [Next]_vars
  PROVE  CoveredInv'
<1>. SUFFICES ASSUME NEW l \in Loop, NEW c \in Conn, Waits(l, c)'
              PROVE  Held(l, Job("uv_read_start", c))'
  BY DEF CoveredInv
<1>1. CASE Waits(l, c)
  <2>1. ~(io[l] = Job("uv_read_start", c) /\ StartReading(l))
    <3>1. SUFFICES ASSUME io[l] = Job("uv_read_start", c), StartReading(l) PROVE FALSE
      OBVIOUS
    <3>2. io[l].conn = c
      BY <3>1 DEF Job
    <3>3. handle'[c] \in {"reading", "closing"}
      BY <3>1, <3>2 DEF SessionInv, TypeOK, StartReading
    <3>. QED  BY <3>3 DEF Waits
  <2>2. Held(l, Job("uv_read_start", c))
    BY <1>1 DEF CoveredInv
  <2>. QED  BY <2>1, <2>2, HeldStays
<1>2. CASE RunInLoopEn /\ c = cur
  <2>1. PICK job \in JobType : job = Job("uv_read_start", c)
    BY JobTypes DEF Jobs
  <2>2. loopOf[c] = l
    BY <1>2 DEF RunInLoopEn, Waits
  <2>3. PICK q \in Seq(JobType) : q = posted[l]
    BY DEF SessionInv, TypeOK, JobType
  <2>4. posted'[l] = Append(q, job)
    BY <1>2, <2>1, <2>2, <2>3 DEF RunInLoopEn, SessionInv, TypeOK
  <2>5. Len(q) + 1 \in 1..Len(Append(q, job)) /\ Append(q, job)[Len(q) + 1] = job
    BY AfterAppend
  <2>. QED  BY <2>1, <2>4, <2>5, Zenon DEF Held
<1>. QED  BY <1>1, <1>2, WaitsComes

\* ConnectionManager.cpp:115: a session that onNewConnection is done with, also a
\* refused one, has one closure that starts its reading or closes it, for any
\* number of loops and sessions and whatever their keys; no other closure touches
\* a handle.
THEOREM SessionsStartOnce == Spec => []StartsOnce
<1>1. Init => SessionInv /\ CoveredInv
  <2>1. Init => CoveredInv
    BY DEF Init, CoveredInv, Waits
  <2>. QED  BY <2>1, InvInit DEF IInv
<1>2. SessionInv /\ CoveredInv => StartsOnce
  <2>. SUFFICES ASSUME SessionInv, CoveredInv, NEW l \in Loop, NEW c \in Conn
                PROVE  IF Waiting(l, c) THEN \E i \in 0..Len(posted[l]) : Starts(l, c) = {i}
                                        ELSE Starts(l, c) = {}
    BY DEF StartsOnce
  <2>. DEFINE job == Job("uv_read_start", c)
  <2>0. job.op = "uv_read_start" /\ job.conn = c
    BY DEF Job
  <2>. HIDE DEF job
  <2>1. PICK q \in Seq(JobType) : q = posted[l]
    BY DEF SessionInv, TypeOK, JobType
  <2>2. Len(q) \in Nat /\ (Waits(l, c) <=> Waiting(l, c))
    BY <2>1 DEF Waits, Waiting
  <2>3. Starts(l, c) = {i \in 0..Len(q) : (IF i = 0 THEN io[l] ELSE q[i]) = job}
    BY <2>1 DEF Starts, job
  <2>4. io[l] = job => Waits(l, c)
    BY <2>0 DEF SessionInv, RunningInv
  <2>5. \A i \in 1..Len(q) : q[i] = job =>
          Waits(l, c) /\ io[l] # job /\ \A j \in 1..Len(q) : q[j] = job => j = i
    BY <2>0, <2>1 DEF SessionInv, QueuedInv
  <2>6. Waits(l, c) => io[l] = job \/ \E i \in 1..Len(q) : q[i] = job
    BY <2>1 DEF CoveredInv, Held, job
  <2>7. CASE ~Waits(l, c)
    BY <2>2, <2>3, <2>4, <2>5, <2>7
  <2>8. CASE Waits(l, c) /\ io[l] = job
    <3>1. Starts(l, c) = {0}
      BY <2>2, <2>3, <2>5, <2>8
    <3>. QED  BY <2>1, <2>2, <2>8, <3>1
  <2>9. ASSUME Waits(l, c), NEW i \in 1..Len(q), q[i] = job
        PROVE  \E j \in 0..Len(q) : Starts(l, c) = {j}
    <3>1. Starts(l, c) = {i}
      BY <2>2, <2>3, <2>5, <2>9
    <3>. QED  BY <2>2, <3>1
  <2>. QED  BY <2>1, <2>2, <2>6, <2>7, <2>8, <2>9
<1>. QED  BY <1>1, <1>2, SessionNext, CoveredNext, PTL DEF Spec

-----------------------------------------------------------------------------
(* The balance, if the round robin counts modulo the number of loops.      *)

Given(l) == {c \in Conn : loopOf[c] = l}

\* The round robin has gone round base times, and once more up to round_robin;
\* loop 0 ends a round.
Round(base) ==
  \A l \in Loop : Sessions(l) = IF l \in 1..round_robin THEN base + 1 ELSE base

BalanceInv ==
  /\ \A c \in Conn : handle[c] = "none" => loopOf[c] = None
  /\ \A l \in Loop : IsFiniteSet(Given(l))
  /\ \E base \in Nat : Round(base)

\* A session of nobody's that is given to a loop counts there and nowhere else.
LEMMA GiveSession ==
  ASSUME TypeOK, NEW c \in Conn, loopOf[c] = None, NEW r \in Loop,
         loopOf' = [loopOf EXCEPT ![c] = r],
         \A l \in Loop : IsFiniteSet(Given(l))
  PROVE  \A l \in Loop : /\ IsFiniteSet(Given(l)')
                         /\ Sessions(l) \in Nat
                         /\ Sessions(l)' = IF l = r THEN Sessions(l) + 1 ELSE Sessions(l)
<1>. SUFFICES ASSUME NEW l \in Loop
              PROVE  /\ IsFiniteSet(Given(l)')
                     /\ Sessions(l) \in Nat
                     /\ Sessions(l)' = IF l = r THEN Sessions(l) + 1 ELSE Sessions(l)
  OBVIOUS
<1>1. Sessions(l) = Cardinality(Given(l)) /\ Sessions(l)' = Cardinality(Given(l)')
  BY DEF Sessions, Given
<1>2. IsFiniteSet(Given(l)) /\ Cardinality(Given(l)) \in Nat
  BY FS_CardinalityType
<1>3. CASE l = r
  <2>1. c \notin Given(l) /\ Given(l)' = Given(l) \cup {c}
    <3>1. loopOf[c] # l
      BY NoneAssumption DEF Loop
    <3>. QED  BY <1>3, <3>1 DEF Given, TypeOK
  <2>2. IsFiniteSet(Given(l) \cup {c})
        /\ Cardinality(Given(l) \cup {c}) = Cardinality(Given(l)) + 1
    BY <1>2, <2>1, FS_AddElement, Zenon
  <2>. QED  BY <1>1, <1>2, <1>3, <2>1, <2>2, Zenon
<1>4. CASE l # r
  <2>1. Given(l)' = Given(l)
    <3>1. loopOf[c] # l
      BY NoneAssumption DEF Loop
    <3>. QED  BY <1>4, <3>1 DEF Given, TypeOK
  <2>. QED  BY <1>1, <1>2, <1>4, <2>1, Zenon
<1>. QED  BY <1>3, <1>4

\* No session has been given to a loop when the manager is created.
LEMMA BalanceInit == Init => BalanceInv
<1>. SUFFICES ASSUME Init PROVE BalanceInv
  OBVIOUS
<1>1. \A l \in Loop : Given(l) = {}
  BY NoneAssumption DEF Init, Given, Loop
<1>2. \A l \in Loop : IsFiniteSet(Given(l)) /\ Cardinality(Given(l)) = 0
  BY <1>1, FS_EmptySet, Zenon
<1>3. Round(0)
  <2>1. \A l \in Loop : Sessions(l) = 0
    BY <1>2, Zenon DEF Sessions, Given
  <2>. QED  BY <2>1 DEF Round, Init
<1>4. \A c \in Conn : loopOf[c] = None
  BY DEF Init
<1>. QED  BY <1>2, <1>3, <1>4 DEF BalanceInv

\* onNewConnection gives the session to the loop that is next in the round: the
\* round goes on, or loop 0 ends it.
LEMMA BalanceGiven ==
  ASSUME IoLoops = NLoops, TypeOK, BalanceInv, NEW c \in Conn, OnNewConnection(c)
  PROVE  BalanceInv'
<1>1. round_robin' = (round_robin + 1) % NLoops /\ round_robin' \in Loop
  BY NextLoopIsLoop, Zenon DEF OnNewConnection, NextLoop
<1>2. /\ NLoops \in Nat /\ NLoops > 0
      /\ round_robin \in Nat /\ round_robin < NLoops
  BY LoopsAssumption DEF TypeOK
<1>3. \A l \in Loop :
        /\ IsFiniteSet(Given(l)')
        /\ Sessions(l) \in Nat
        /\ Sessions(l)' = IF l = round_robin' THEN Sessions(l) + 1 ELSE Sessions(l)
  <2>1. loopOf[c] = None /\ \A l \in Loop : IsFiniteSet(Given(l))
    BY DEF OnNewConnection, BalanceInv
  <2>2. loopOf' = [loopOf EXCEPT ![c] = round_robin']
    BY DEF OnNewConnection
  <2>. QED  BY <1>1, <2>1, <2>2, GiveSession, Zenon
<1>4. PICK base \in Nat : Round(base)
  BY DEF BalanceInv
<1>5. \E b \in Nat : Round(b)'
  <2>. DEFINE old == round_robin
              new == round_robin'
              S(l) == Sessions(l)
              T(l) == Sessions(l)'
  <2>1. /\ \A l \in Loop : S(l) = IF l \in 1..old THEN base + 1 ELSE base
        /\ \A l \in Loop : T(l) = IF l = new THEN S(l) + 1 ELSE S(l)
    BY <1>3, <1>4 DEF Round
  <2>2. CASE round_robin + 1 < NLoops
    <3>1. new = old + 1
      BY <1>1, <1>2, <2>2
    <3>. HIDE DEF old, new, S, T
    <3>2. \A l \in Loop : T(l) = IF l \in 1..new THEN base + 1 ELSE base
      BY <1>2, <2>1, <3>1 DEF Loop, old
    <3>3. Round(base)'
      BY <3>2, Zenon DEF Round, new, T
    <3>. QED  BY <3>3
  <2>3. CASE round_robin + 1 = NLoops
    <3>1. new = 0
      BY <1>1, <1>2, <2>3
    <3>. HIDE DEF new, S, T
    <3>2. \A l \in Loop : T(l) = base + 1
      BY <1>2, <2>1, <2>3, <3>1 DEF Loop
    <3>3. \A l \in Loop : T(l) = IF l \in 1..new THEN base + 1 + 1 ELSE base + 1
      BY <3>1, <3>2
    <3>4. Round(base + 1)'
      BY <3>3, Zenon DEF Round, new, T
    <3>. QED  BY <3>4
  <2>. QED  BY <1>2, <2>2, <2>3
<1>6. \A d \in Conn : handle'[d] = "none" => loopOf'[d] = None
  BY DEF OnNewConnection, BalanceInv, TypeOK
<1>. QED  BY <1>3, <1>5, <1>6 DEF BalanceInv

\* Nobody else gives a session to a loop, or takes one back.
LEMMA BalanceNext ==
  ASSUME IoLoops = NLoops, TypeOK, BalanceInv, [Next]_vars
  PROVE  BalanceInv'
<1>. USE DEF poolVars, serverVars, sessionVars
<1>1. ASSUME UNCHANGED <<loopOf, round_robin>>,
             \A c \in Conn : handle'[c] = "none" => handle[c] = "none"
      PROVE  BalanceInv'
  BY <1>1 DEF BalanceInv, Round, Given, Sessions
<1>2. ASSUME NEW c \in Conn, OnNewConnection(c) PROVE BalanceInv'
  BY <1>2, BalanceGiven
<1>3. CASE OwnerStep \/ Stop
  BY <1>1, <1>3 DEF OwnerStep, Start, StopLoop, JoinThreads, Stop
<1>4. CASE UvTcpInit
  BY <1>1, <1>4 DEF UvTcpInit, TypeOK
<1>5. ASSUME NEW k \in Key, UvAccept(k) PROVE BalanceInv'
  BY <1>1, <1>5 DEF UvAccept, TypeOK
<1>6. CASE AddConnection
  BY <1>1, <1>6 DEF AddConnection
<1>7. CASE RunInLoopEn
  BY <1>1, <1>7 DEF RunInLoopEn
<1>8. ASSUME NEW l \in Loop, RunLoop(l) \/ InitWorkerPool(l) \/ StopRunning(l)
      PROVE  BalanceInv'
  BY <1>1, <1>8 DEF RunLoop, InitWorkerPool, StopRunning
<1>9. ASSUME NEW l \in Loop, StartReading(l) \/ OnRead(l) \/ OnClose(l)
      PROVE  BalanceInv'
  BY <1>1, <1>9 DEF StartReading, OnRead, OnClose, TypeOK
<1>10. ASSUME NEW l \in Loop, LoopEvent(l) PROVE BalanceInv'
  BY <1>1, <1>10 DEF LoopEvent, EnterPosted, EnterOnRead, EnterOnClose
<1>11. ASSUME NEW c \in Conn, PeerGone(c) PROVE BalanceInv'
  BY <1>1, <1>11 DEF PeerGone
<1>12. CASE UNCHANGED vars
  BY <1>1, <1>12 DEF vars
<1>. QED
  BY <1>2, <1>3, <1>4, <1>5, <1>6, <1>7, <1>8, <1>9, <1>10, <1>11, <1>12
  DEF Next, ServerStep, LoopStep

\* README.md:37: whatever the sessions do, the numbers of sessions the loops have
\* been given differ by at most one, if IO_LOOPS is the number of the loops.
THEOREM SessionsBalanced ==
  ASSUME IoLoops = NLoops
  PROVE  Spec => []Balanced
<1>1. Init => BalanceInv
  BY BalanceInit
<1>2. TypeOK /\ BalanceInv /\ [Next]_vars => BalanceInv'
  BY BalanceNext
<1>3. BalanceInv => Balanced
  BY DEF BalanceInv, Round, Balanced
<1>. QED  BY TypeCorrect, <1>1, <1>2, <1>3, PTL DEF Spec
=============================================================================
