--------------------------- MODULE WorkerPool_proof ---------------------------
(***************************************************************************)
(* Theorems about WorkerPool, for any number of loops, sessions and tasks: *)
(* the pool leaves the sessions to the manager, and what the after-work    *)
(* callback finds is never a session that libuv has let go of.             *)
(***************************************************************************)
EXTENDS WorkerPool, ConnectionManager_proof

\* A task that was handed over belongs to a session of the manager.
TasksHaveSessions ==
  /\ work \in [Task -> {"none", "queued", "done", "deleted"}]
  /\ taskConn \in [Task -> Conn \cup {None}]
  /\ found \in [Task -> {"none", "gone", "open", "closed"}]
  /\ \A t \in Task : work[t] # "none" => taskConn[t] \in Conn

\* The steps of the pool are no steps of the manager.
LEMMA PoolStutters == [WorkNext]_<<vars, workVars>> => [Next]_vars
BY DEF WorkNext, UvWork, UvAfterWork, AddToWorkQueue

\* WorkerPool is the manager with more variables: everything proved of the
\* manager holds beside the pool.
THEOREM Composition == WorkSpec => Spec
<1>1. WorkInit => Init
  BY DEF WorkInit
<1>. QED  BY <1>1, PoolStutters, PTL DEF WorkSpec, Spec

\* Every step keeps the types of the pool's variables.
LEMMA TasksNext ==
  TasksHaveSessions /\ [WorkNext]_<<vars, workVars>> => TasksHaveSessions'
<1>. SUFFICES ASSUME TasksHaveSessions, [WorkNext]_<<vars, workVars>> PROVE TasksHaveSessions'
  OBVIOUS
<1>1. CASE UNCHANGED workVars
  BY <1>1 DEF TasksHaveSessions, workVars
<1>2. ASSUME NEW t \in Task, UvWork(t) PROVE TasksHaveSessions'
  BY <1>2 DEF UvWork, TasksHaveSessions
<1>3. ASSUME NEW t \in Task, UvAfterWork(t) PROVE TasksHaveSessions'
  <2>1. GetConnection(taskConn[t]) \in {"none", "gone", "open", "closed"}
    BY DEF GetConnection
  <2>. QED  BY <1>3, <2>1 DEF UvAfterWork, TasksHaveSessions
<1>4. ASSUME NEW t \in Task, NEW c \in Conn, AddToWorkQueue(c, t) PROVE TasksHaveSessions'
  BY <1>4 DEF AddToWorkQueue, TasksHaveSessions
<1>. QED  BY <1>1, <1>2, <1>3, <1>4 DEF WorkNext, workVars

\* While a loop polls, a session of that loop which somebody still holds is one
\* that libuv has not let go of.
LEMMA AliveIsOpen ==
  ASSUME IInv, NEW c \in Conn, Alive(c), io[loopOf[c]] = Polling
  PROVE  ~Closed(c)
<1>1. Polling.op = "poll" /\ Job("onClose", c).op = "onClose"
  BY DEF Polling, Job
<1>2. ASSUME NEW k \in Key, connMap[k] = c PROVE InLibuv(c)
  <2>1. c # None
    BY NoneAssumption
  <2>. QED  BY <1>2, <2>1 DEF IInv, SessionInv, MapInv, Managed, HandedOver, InLibuv
<1>3. CASE cur = c
  <2>1. spc # "idle" /\ spc \in {"idle", "uv_tcp_init", "uv_accept", "addConnection", "runInLoopEn"}
    BY <1>3, NoneAssumption DEF IInv, SessionInv, ServerInv, TypeOK
  <2>. QED  BY <1>1, <1>3, <2>1 DEF IInv, SessionInv, ServerInv, InLibuv, Closed
<1>4. ASSUME NEW l \in Loop, io[l].op \in {"onRead", "onClose"}, io[l].conn = c PROVE FALSE
  <2>1. loopOf[c] = l
    BY <1>4, RunningSession DEF IInv
  <2>. QED  BY <1>1, <1>4, <2>1
<1>. QED  BY <1>1, <1>2, <1>3, <1>4 DEF Alive, InMap, Closed

\* Every step keeps FoundIsOpen.
LEMMA FoundNext ==
  IInv /\ TasksHaveSessions /\ FoundIsOpen /\ [WorkNext]_<<vars, workVars>> => FoundIsOpen'
<1>. SUFFICES ASSUME IInv, TasksHaveSessions, FoundIsOpen, [WorkNext]_<<vars, workVars>>
              PROVE  FoundIsOpen'
  OBVIOUS
<1>1. CASE UNCHANGED found
  BY <1>1 DEF FoundIsOpen
<1>2. ASSUME NEW t \in Task, UvAfterWork(t) PROVE FoundIsOpen'
  <2>1. taskConn[t] \in Conn
    BY <1>2 DEF UvAfterWork, TasksHaveSessions
  <2>2. io[loopOf[taskConn[t]]] = Polling /\ status[loopOf[taskConn[t]]] = "Running"
    BY <1>2 DEF UvAfterWork, WorkLoop
  <2>3. GetConnection(taskConn[t]) # "closed"
    <3>1. CASE Alive(taskConn[t])
      BY <2>1, <2>2, <3>1, AliveIsOpen DEF GetConnection
    <3>2. CASE ~Alive(taskConn[t])
      BY <3>2 DEF GetConnection
    <3>. QED  BY <3>1, <3>2
  <2>4. found' = [found EXCEPT ![t] = GetConnection(taskConn[t])]
    BY <1>2 DEF UvAfterWork
  <2>. QED  BY <2>3, <2>4 DEF FoundIsOpen, TasksHaveSessions
<1>. QED  BY <1>1, <1>2 DEF WorkNext, workVars, UvWork, AddToWorkQueue

\* README.md:39: the session that the after-work callback gets is one libuv has
\* not let go of, if peers do not come back from an address in use.
THEOREM OnlyOpenIsFound ==
  ASSUME ~ReuseKeys
  PROVE  WorkSpec => []FoundIsOpen
<1>1. WorkInit => IInv /\ TasksHaveSessions /\ FoundIsOpen
  <2>1. WorkInit => TasksHaveSessions /\ FoundIsOpen
    BY DEF WorkInit, TasksHaveSessions, FoundIsOpen
  <2>. QED  BY <2>1, InvInit DEF WorkInit
<1>2. IInv /\ [Next]_vars => IInv'
  BY InvNext
<1>. QED  BY <1>1, <1>2, PoolStutters, TasksNext, FoundNext, PTL DEF WorkSpec

\* What is proved of the manager alone is true beside the pool: no session is
\* destroyed while libuv knows its handle, the map is exact, and every session is
\* started once.
THEOREM SessionsLiveBesideWork ==
  ASSUME ~ReuseKeys
  PROVE  WorkSpec => [](TypeOK /\ SessionLives /\ MapIsSound /\ StartsOnce)
<1>. QED  BY Composition, TypeCorrect, SessionsLive, MapStaysSound, SessionsStartOnce, PTL

\* The same for the balance of the loops: work in the pool does not disturb the
\* round robin.
THEOREM BalancedBesideWork ==
  ASSUME IoLoops = NLoops
  PROVE  WorkSpec => []Balanced
<1>. QED  BY Composition, SessionsBalanced, PTL
=============================================================================
