------------------------------ MODULE Broker_proof ------------------------------
(***************************************************************************)
(* Theorems about Broker, for any number of loops, clients and timers: no  *)
(* close reaches a handle that was never initialised, no reconnect a       *)
(* stream that is alive, every dead client is reconnected once, and stop() *)
(* waits for none whose close is not on its way.                           *)
(*                                                                         *)
(* The argument: what will connect a client again, its first connect, a    *)
(* retry that was handed to its loop, or an armed timer, exists at most    *)
(* once, and only while its stream is dead (IInv); and it is there as long *)
(* as the broker runs (ComingInv).                                         *)
(***************************************************************************)
EXTENDS Broker, TLAPS

-----------------------------------------------------------------------------
(* The inductive invariant.                                                *)

JobType == [op : {"connect", "close", "newTimer", "stop"}, client : Client \cup {None}]

\* The jobs that will connect a client.
Connecting == {"connect", "newTimer"}

JobsOf(p, l) == {p[l][i] : i \in 1..Len(p[l])}

\* Of two closures for one client not both will connect it, and its connect does
\* not come after its close.
Order(p) ==
  \A l \in Loop : \A i, j \in 1..Len(p[l]) :
    i < j /\ p[l][i].client = p[l][j].client =>
      /\ ~(p[l][i].op \in Connecting /\ p[l][j].op \in Connecting)
      /\ ~(p[l][i].op = "close" /\ p[l][j].op = "connect")

\* The streams a retry may find.
Retry(c) == stream[c] = "failed" \/ (bStop /\ stream[c] \in {"closing", "closed"})

Fits(l, job) ==
  /\ job.op # "stop" => job.client \in Client /\ job.client < size /\ LoopOf(job.client) = l
  /\ job.op = "connect" => stream[job.client] = "none"
  /\ job.op = "newTimer" =>
       Retry(job.client) /\ \A t \in Timer : timer[t].active => idx[t] # job.client
  /\ job.op = "close" => bStop

OwnerInv == bStop <=> owner \notin {"new", "up"}

QueueInv == Order(posted) /\ \A l \in Loop : \A job \in JobsOf(posted, l) : Fits(l, job)

TimerInv ==
  \A t \in Timer : timer[t].active =>
    /\ timer[t].life = "open"
    /\ idx[t] \in Client /\ idx[t] < size /\ Retry(idx[t])
    /\ \A u \in Timer : timer[u].active /\ idx[u] = idx[t] => u = t

StreamInv ==
  /\ \A c \in Client :
       /\ c >= size => stream[c] = "none"
       /\ c < size /\ stream[c] = "none" => Job("connect", c) \in JobsOf(posted, LoopOf(c))
       /\ stream[c] = "aborting" => bStop
  /\ \A l \in Loop : closeCb[l] # None =>
       stream[closeCb[l]] = "closed" /\ LoopOf(closeCb[l]) = l

IInv == TypeOK /\ OwnerInv /\ QueueInv /\ TimerInv /\ StreamInv

-----------------------------------------------------------------------------
(* Lemmas about the queues.                                                *)

\* A client's loop is one of the loops.
LEMMA LoopOfType == \A c \in Client : LoopOf(c) \in Loop
BY LoopsAssumption, ClientsAssumption DEF LoopOf, Loop, Client

\* The elements of a sequence to which one has been appended.
LEMMA AfterAppend ==
  ASSUME NEW S, NEW q \in Seq(S), NEW e \in S
  PROVE  /\ Append(q, e) \in Seq(S) /\ Len(q) \in Nat
         /\ Len(Append(q, e)) = Len(q) + 1 /\ Append(q, e)[Len(q) + 1] = e
         /\ \A i \in 1..Len(q) : Append(q, e)[i] = q[i]
OBVIOUS

\* The elements of a sequence the head of which has been taken.
LEMMA AfterTail ==
  ASSUME NEW S, NEW q \in Seq(S), q # <<>>
  PROVE  /\ Tail(q) \in Seq(S) /\ Head(q) \in S /\ Head(q) = q[1]
         /\ Len(q) \in Nat \ {0} /\ Len(Tail(q)) = Len(q) - 1
         /\ \A i \in 1..Len(Tail(q)) : i + 1 \in 1..Len(q) /\ Tail(q)[i] = q[i + 1]
OBVIOUS

\* The queues after a job was handed to a loop, and after a loop took one.
Appended(p, l, e) == [p EXCEPT ![l] = Append(@, e)]
Taken(p, l) == [p EXCEPT ![l] = Tail(@)]

\* A job that is handed to a loop is the last of its queue.
LEMMA JobsAppend ==
  ASSUME NEW p \in [Loop -> Seq(JobType)], NEW l \in Loop, NEW e \in JobType,
         NEW p2, p2 = Appended(p, l, e)
  PROVE  /\ p2 \in [Loop -> Seq(JobType)]
         /\ JobsOf(p2, l) = JobsOf(p, l) \cup {e}
         /\ \A n \in Loop : n # l => JobsOf(p2, n) = JobsOf(p, n)
         /\ /\ Order(p)
            /\ \A job \in JobsOf(p, l) : job.client = e.client =>
                 /\ ~(job.op \in Connecting /\ e.op \in Connecting)
                 /\ ~(job.op = "close" /\ e.op = "connect")
            => Order(p2)
<1>1. PICK q \in Seq(JobType) : q = p[l]
  OBVIOUS
<1>2. PICK r : r = Append(q, e)
  OBVIOUS
<1>3. /\ r \in Seq(JobType) /\ Len(q) \in Nat /\ Len(r) = Len(q) + 1 /\ r[Len(q) + 1] = e
      /\ \A i \in 1..Len(q) : r[i] = q[i]
  <2>1. /\ Append(q, e) \in Seq(JobType) /\ Len(q) \in Nat
        /\ Len(Append(q, e)) = Len(q) + 1 /\ Append(q, e)[Len(q) + 1] = e
        /\ \A i \in 1..Len(q) : Append(q, e)[i] = q[i]
    BY <1>1, AfterAppend
  <2>. QED  BY <1>2, <2>1, Zenon
<1>4. p2 \in [Loop -> Seq(JobType)] /\ p2[l] = r /\ \A n \in Loop : n # l => p2[n] = p[n]
  BY <1>1, <1>2, <1>3, Zenon DEF Appended
<1>5. 1..Len(r) = 1..Len(q) \cup {Len(q) + 1}
  BY <1>3
<1>6. JobsOf(p2, l) = JobsOf(p, l) \cup {e}
  <2>1. ASSUME NEW job \in JobsOf(p2, l) PROVE job \in JobsOf(p, l) \cup {e}
    <3>1. PICK i \in 1..Len(r) : job = r[i]
      BY <1>4, <2>1 DEF JobsOf
    <3>. QED  BY <1>1, <1>3, <1>5, <3>1 DEF JobsOf
  <2>2. ASSUME NEW job \in JobsOf(p, l) PROVE job \in JobsOf(p2, l)
    <3>1. PICK i \in 1..Len(q) : job = q[i]
      BY <1>1 DEF JobsOf
    <3>. QED  BY <1>3, <1>4, <1>5, <3>1 DEF JobsOf
  <2>3. e \in JobsOf(p2, l)
    BY <1>3, <1>4, <1>5 DEF JobsOf
  <2>. QED  BY <2>1, <2>2, <2>3
<1>7. \A n \in Loop : n # l => JobsOf(p2, n) = JobsOf(p, n)
  BY <1>4 DEF JobsOf
<1>8. ASSUME Order(p),
             \A job \in JobsOf(p, l) : job.client = e.client =>
                 /\ ~(job.op \in Connecting /\ e.op \in Connecting)
                 /\ ~(job.op = "close" /\ e.op = "connect")
      PROVE  Order(p2)
  <2>1. ASSUME NEW n \in Loop, NEW i \in 1..Len(p2[n]), NEW j \in 1..Len(p2[n]), i < j,
               p2[n][i].client = p2[n][j].client
        PROVE  /\ ~(p2[n][i].op \in Connecting /\ p2[n][j].op \in Connecting)
               /\ ~(p2[n][i].op = "close" /\ p2[n][j].op = "connect")
    <3>1. CASE n # l
      BY <1>4, <1>8, <2>1, <3>1 DEF Order
    <3>2. CASE n = l /\ j \in 1..Len(q)
      <4>1. i \in 1..Len(q)
        BY <1>3, <1>4, <2>1, <3>2
      <4>2. p2[n][i] = p[n][i] /\ p2[n][j] = p[n][j] /\ q = p[n]
        BY <1>1, <1>3, <1>4, <3>2, <4>1
      <4>. QED  BY <1>8, <2>1, <3>2, <4>1, <4>2 DEF Order
    <3>3. CASE n = l /\ j = Len(q) + 1
      <4>1. i \in 1..Len(q)
        BY <1>3, <1>4, <2>1, <3>3
      <4>2. p2[n][i] = q[i] /\ p2[n][j] = e /\ q[i] \in JobsOf(p, l)
        BY <1>1, <1>3, <1>4, <3>3, <4>1 DEF JobsOf
      <4>. QED  BY <1>8, <2>1, <4>2
    <3>. QED  BY <1>4, <1>5, <2>1, <3>1, <3>2, <3>3
  <2>. QED  BY <2>1 DEF Order
<1>. QED  BY <1>4, <1>6, <1>7, <1>8

\* A loop that takes a job leaves none that would connect its client too and, if
\* it closes, none that would connect it first.
LEMMA JobsTail ==
  ASSUME NEW p \in [Loop -> Seq(JobType)], NEW l \in Loop, p[l] # <<>>,
         NEW p2, p2 = Taken(p, l), Order(p)
  PROVE  /\ p2 \in [Loop -> Seq(JobType)] /\ Head(p[l]) \in JobType
         /\ JobsOf(p, l) = JobsOf(p2, l) \cup {Head(p[l])}
         /\ \A n \in Loop : n # l => JobsOf(p2, n) = JobsOf(p, n)
         /\ Order(p2)
         /\ \A job \in JobsOf(p2, l) : job.client = Head(p[l]).client =>
              /\ ~(Head(p[l]).op \in Connecting /\ job.op \in Connecting)
              /\ ~(Head(p[l]).op = "close" /\ job.op = "connect")
<1>1. PICK q \in Seq(JobType) : q = p[l] /\ q # <<>>
  OBVIOUS
<1>2. PICK r, e : r = Tail(q) /\ e = Head(q)
  OBVIOUS
<1>3. /\ r \in Seq(JobType) /\ e \in JobType /\ e = q[1]
      /\ Len(q) \in Nat \ {0} /\ Len(r) = Len(q) - 1
      /\ \A i \in 1..Len(r) : i + 1 \in 1..Len(q) /\ r[i] = q[i + 1]
  BY <1>1, <1>2, AfterTail, Zenon
<1>4. /\ p2 \in [Loop -> Seq(JobType)] /\ p2[l] = r /\ e = Head(p[l])
      /\ \A n \in Loop : n # l => p2[n] = p[n]
  BY <1>1, <1>2, <1>3, Zenon DEF Taken
<1>5. JobsOf(p, l) = JobsOf(p2, l) \cup {e}
  <2>1. ASSUME NEW job \in JobsOf(p, l) PROVE job \in JobsOf(p2, l) \cup {e}
    <3>1. PICK i \in 1..Len(q) : job = q[i]
      BY <1>1 DEF JobsOf
    <3>2. CASE i = 1
      BY <1>3, <3>1, <3>2
    <3>3. ASSUME NEW j \in 1..Len(r), j + 1 = i PROVE job \in JobsOf(p2, l)
      BY <1>3, <1>4, <3>1, <3>3 DEF JobsOf
    <3>4. i = 1 \/ (i - 1 \in 1..Len(r) /\ i - 1 + 1 = i)
      BY <1>3
    <3>. QED  BY <3>2, <3>3, <3>4
  <2>2. ASSUME NEW job \in JobsOf(p2, l) PROVE job \in JobsOf(p, l)
    <3>1. PICK i \in 1..Len(r) : job = r[i]
      BY <1>4 DEF JobsOf
    <3>. QED  BY <1>1, <1>3, <3>1 DEF JobsOf
  <2>3. e \in JobsOf(p, l)
    BY <1>1, <1>3 DEF JobsOf
  <2>. QED  BY <2>1, <2>2, <2>3
<1>6. \A n \in Loop : n # l => JobsOf(p2, n) = JobsOf(p, n)
  BY <1>4 DEF JobsOf
<1>7. Order(p2)
  <2>1. ASSUME NEW n \in Loop, NEW i \in 1..Len(p2[n]), NEW j \in 1..Len(p2[n]), i < j,
               p2[n][i].client = p2[n][j].client
        PROVE  /\ ~(p2[n][i].op \in Connecting /\ p2[n][j].op \in Connecting)
               /\ ~(p2[n][i].op = "close" /\ p2[n][j].op = "connect")
    <3>1. CASE n # l
      BY <1>4, <2>1, <3>1 DEF Order
    <3>2. CASE n = l
      <4>1. /\ i + 1 \in 1..Len(p[n]) /\ j + 1 \in 1..Len(p[n]) /\ i + 1 < j + 1
            /\ p2[n][i] = p[n][i + 1] /\ p2[n][j] = p[n][j + 1]
        BY <1>1, <1>3, <1>4, <2>1, <3>2
      <4>. QED  BY <2>1, <3>2, <4>1 DEF Order
    <3>. QED  BY <3>1, <3>2
  <2>. QED  BY <2>1 DEF Order
<1>8. ASSUME NEW job \in JobsOf(p2, l), job.client = e.client
      PROVE  /\ ~(e.op \in Connecting /\ job.op \in Connecting)
             /\ ~(e.op = "close" /\ job.op = "connect")
  <2>1. PICK i \in 1..Len(r) : job = r[i]
    BY <1>4 DEF JobsOf
  <2>2. 1 \in 1..Len(p[l]) /\ i + 1 \in 1..Len(p[l]) /\ 1 < i + 1
        /\ p[l][1] = e /\ p[l][i + 1] = job
    BY <1>1, <1>3, <2>1
  <2>. QED  BY <1>8, <2>2 DEF Order
<1>. QED  BY <1>3, <1>4, <1>5, <1>6, <1>7, <1>8

\* The jobs that the threads make are jobs.
LEMMA JobIsJob ==
  \A op \in {"connect", "close", "newTimer", "stop"} : \A c \in Client \cup {None} :
    /\ Job(op, c) \in JobType /\ Job(op, c).op = op /\ Job(op, c).client = c
BY DEF Job, JobType

-----------------------------------------------------------------------------
(* The type invariant.                                                     *)

\* The broker is created with values of the types.
LEMMA TypeInit == Init => TypeOK
<1>. SUFFICES ASSUME Init PROVE TypeOK
  OBVIOUS
<1>1. next \in Nat /\ size \in 0..NClients
  BY ClientsAssumption DEF Init
<1>2. posted \in [Loop -> Seq([op : {"connect", "close", "newTimer", "stop"},
                               client : Client \cup {None}])]
  BY DEF Init
<1>3. timer \in [Timer -> TimerType]
  BY DEF Init, NoTimer, TimerType
<1>. QED  BY <1>1, <1>2, <1>3 DEF Init, TypeOK

\* What the calls make of a timer, in the states in which the broker calls them.
LEMMA TimerTypes ==
  /\ Started(Constructed) = [life |-> "open", bStarted |-> TRUE, active |-> TRUE]
  /\ \A x \in TimerType : x.life = "open" =>
       Closed(Stopped(Fired(x, TRUE))) = [life |-> "closing", bStarted |-> FALSE, active |-> FALSE]
  /\ \A x \in TimerType : Deleted(x) \in TimerType /\ Deleted(x).active = x.active
<1>1. Started(Constructed) = [life |-> "open", bStarted |-> TRUE, active |-> TRUE]
  BY DEF Started, Constructed
<1>2. ASSUME NEW x \in TimerType, x.life = "open"
      PROVE  Closed(Stopped(Fired(x, TRUE))) = [life |-> "closing", bStarted |-> FALSE, active |-> FALSE]
  BY <1>2 DEF TimerType, Closed, Stopped, Fired
<1>3. ASSUME NEW x \in TimerType PROVE Deleted(x) \in TimerType /\ Deleted(x).active = x.active
  BY <1>3 DEF TimerType, Deleted
<1>. QED  BY <1>1, <1>2, <1>3

\* A job that is handed to a loop keeps the type of the queues.
LEMMA PostType ==
  ASSUME TypeOK, NEW l \in Loop, NEW job \in JobType, Post(l, job)
  PROVE  posted' \in [Loop -> Seq(JobType)]
<1>1. posted \in [Loop -> Seq(JobType)]
  BY DEF TypeOK, JobType
<1>. QED  BY <1>1, JobsAppend, Zenon DEF Post, Appended

\* So does a job that a loop takes, which is a job.
LEMMA RunsType ==
  ASSUME TypeOK, NEW l \in Loop, NEW op, Runs(l, op)
  PROVE  /\ posted' \in [Loop -> Seq(JobType)]
         /\ Head(posted[l]) \in JobType /\ Head(posted[l]).op = op
<1>1. posted \in [Loop -> Seq(JobType)] /\ posted[l] \in Seq(JobType) /\ posted[l] # <<>>
      /\ posted' = [posted EXCEPT ![l] = Tail(@)] /\ Head(posted[l]).op = op
  BY DEF TypeOK, JobType, Runs
<1>2. Head(posted[l]) \in JobType /\ Tail(posted[l]) \in Seq(JobType)
  BY <1>1, AfterTail, Zenon
<1>3. \A q \in Seq(JobType) : [posted EXCEPT ![l] = q] \in [Loop -> Seq(JobType)]
  BY <1>1
<1>. QED  BY <1>1, <1>2, <1>3, Zenon

\* A timer is armed on an open handle only.
ActiveIsOpen == \A t \in Timer : timer[t].active => timer[t].life = "open" /\ idx[t] \in Client

\* Every step of the owner keeps the types.
LEMMA OwnerType ==
  ASSUME TypeOK, OwnerStep \/ AddNode \/ Stop
  PROVE  TypeOK'
<1>. USE DEF OwnerGoto, loopVars, clientVars, timerVars, ownerVars
<1>1. CASE Start \/ Stop \/ AllTold \/ Clear \/ JoinThreads
  <2>1. CASE Start
    BY <2>1 DEF TypeOK, Start
  <2>2. CASE Stop
    BY <2>2 DEF TypeOK, Stop
  <2>3. CASE AllTold
    BY <2>3 DEF TypeOK, AllTold
  <2>4. CASE Clear
    BY <2>4 DEF TypeOK, Clear
  <2>5. CASE JoinThreads
    BY <2>5 DEF TypeOK, JoinThreads
  <2>. QED  BY <1>1, <2>1, <2>2, <2>3, <2>4, <2>5
<1>2. CASE AddNode
  <2>1. size + 1 \in 0..NClients /\ size \in Client \cup {None} /\ LoopOf(size) \in Loop
    BY <1>2, ClientsAssumption, LoopOfType DEF TypeOK, AddNode, Client
  <2>2. posted' \in [Loop -> Seq(JobType)]
    BY <1>2, <2>1, PostType, JobIsJob DEF AddNode
  <2>. QED  BY <1>2, <2>1, <2>2 DEF TypeOK, AddNode, JobType
<1>3. CASE CloseSafe
  <2>1. next \in Client \cup {None} /\ LoopOf(next) \in Loop /\ next + 1 \in Nat
    BY <1>3, ClientsAssumption, LoopOfType DEF TypeOK, CloseSafe, Client
  <2>2. posted' \in [Loop -> Seq(JobType)]
    BY <1>3, <2>1, PostType, JobIsJob DEF CloseSafe
  <2>. QED  BY <1>3, <2>1, <2>2 DEF TypeOK, CloseSafe, JobType
<1>4. CASE StopLoop
  <2>1. next \in Loop /\ next + 1 \in Nat
    BY <1>4 DEF StopLoop, TypeOK
  <2>2. posted' \in [Loop -> Seq(JobType)]
    <3>1. CASE status[next] = "Running"
      <4>1. Post(next, Job("stop", None)) /\ Job("stop", None) \in JobType
        BY <1>4, <3>1, JobIsJob DEF StopLoop
      <4>. QED  BY <2>1, <4>1, PostType
    <3>2. CASE status[next] # "Running"
      BY <1>4, <3>2 DEF StopLoop, TypeOK, JobType
    <3>. QED  BY <3>1, <3>2
  <2>. QED  BY <1>4, <2>1, <2>2 DEF TypeOK, StopLoop, JobType
<1>. QED  BY <1>1, <1>2, <1>3, <1>4 DEF OwnerStep

\* Every step of the connections keeps the types.
LEMMA ClientType ==
  ASSUME TypeOK, NEW c \in Client, Connects(c) \/ ConnectionLost(c) \/ OnClose(c)
  PROVE  TypeOK'
<1>. USE DEF loopVars, timerVars, ownerVars, PollsFor, InLibuv
<1>1. ASSUME OnConnectFails(c) \/ UNCHANGED posted PROVE posted' \in [Loop -> Seq(JobType)]
  <2>1. CASE UNCHANGED posted
    BY <2>1 DEF TypeOK, JobType
  <2>2. CASE Post(LoopOf(c), Job("newTimer", c))
    BY <2>2, PostType, JobIsJob, LoopOfType
  <2>. QED  BY <1>1, <2>1, <2>2 DEF OnConnectFails
<1>2. CASE UvConnected(c)
  BY <1>2 DEF TypeOK, UvConnected
<1>3. CASE UvConnectFails(c)
  BY <1>1, <1>3 DEF TypeOK, UvConnectFails, JobType
<1>4. CASE ConnectionLost(c)
  BY <1>4 DEF TypeOK, ConnectionLost, Close
<1>5. CASE OnClose(c)
  <2>1. closeCb' \in [Loop -> Client \cup {None}]
    BY <1>5 DEF OnClose, TypeOK
  <2>. QED  BY <1>1, <1>5, <2>1 DEF TypeOK, OnClose, JobType
<1>. QED  BY <1>2, <1>3, <1>4, <1>5 DEF Connects

\* Every step of a loop keeps the types.
LEMMA LoopType ==
  ASSUME TypeOK, NEW l \in Loop, RunLoop(l) \/ CloseCb(l) \/ RunPosted(l)
  PROVE  TypeOK'
<1>. USE DEF loopVars, clientVars, timerVars, ownerVars
<1>1. CASE RunLoop(l)
  BY <1>1 DEF TypeOK, RunLoop
<1>2. CASE CloseCb(l)
  BY <1>2 DEF TypeOK, CloseCb, Connect
<1>3. CASE RunConnect(l)
  <2>1. posted' \in [Loop -> Seq(JobType)]
    BY <1>3, RunsType DEF RunConnect
  <2>. QED  BY <1>3, <2>1 DEF TypeOK, RunConnect, Connect, JobType
<1>4. CASE RunClose(l)
  <2>1. posted' \in [Loop -> Seq(JobType)]
    BY <1>4, RunsType DEF RunClose
  <2>. QED  BY <1>4, <2>1 DEF TypeOK, RunClose, Close, JobType
<1>5. CASE RunNewTimer(l)
  <2>1. posted' \in [Loop -> Seq(JobType)] /\ Head(posted[l]).client \in Client \cup {None}
    BY <1>5, RunsType DEF RunNewTimer, JobType
  <2>2. Started(Constructed) \in TimerType
    BY TimerTypes DEF TimerType
  <2>. QED  BY <1>5, <2>1, <2>2 DEF TypeOK, RunNewTimer, JobType
<1>6. CASE RunStop(l)
  <2>1. posted' \in [Loop -> Seq(JobType)]
    BY <1>6, RunsType DEF RunStop
  <2>. QED  BY <1>6, <2>1 DEF TypeOK, RunStop, JobType
<1>. QED  BY <1>1, <1>2, <1>3, <1>4, <1>5, <1>6 DEF RunPosted

\* Every step of a timer keeps the types.
LEMMA TimerStepType ==
  ASSUME TypeOK, ActiveIsOpen, NEW t \in Timer, OnTimer(t) \/ OnTimerClosed(t)
  PROVE  TypeOK'
<1>. USE DEF loopVars, clientVars, ownerVars
<1>1. CASE OnTimer(t)
  <2>1. timer[t] \in TimerType /\ timer[t].life = "open"
    BY <1>1 DEF TypeOK, ActiveIsOpen, OnTimer
  <2>2. Closed(Stopped(Fired(timer[t], TRUE))) \in TimerType
    <3>1. Closed(Stopped(Fired(timer[t], TRUE)))
            = [life |-> "closing", bStarted |-> FALSE, active |-> FALSE]
      BY <2>1, TimerTypes
    <3>2. [life |-> "closing", bStarted |-> FALSE, active |-> FALSE] \in TimerType
      BY DEF TimerType
    <3>. QED  BY <3>1, <3>2, Zenon
  <2>3. timer' \in [Timer -> TimerType]
    BY <1>1, <2>2 DEF OnTimer, TypeOK
  <2>. QED  BY <1>1, <2>3 DEF TypeOK, OnTimer, Connect
<1>2. CASE OnTimerClosed(t)
  <2>1. Deleted(timer[t]) \in TimerType
    BY TimerTypes DEF TypeOK
  <2>. QED  BY <1>2, <2>1 DEF TypeOK, OnTimerClosed
<1>. QED  BY <1>1, <1>2

\* Every step keeps the types.
LEMMA TypeNext == TypeOK /\ ActiveIsOpen /\ [Next]_vars => TypeOK'
<1>1. TypeOK /\ UNCHANGED vars => TypeOK'
  BY DEF TypeOK, vars, loopVars, clientVars, timerVars, ownerVars
<1>. QED  BY <1>1, OwnerType, ClientType, LoopType, TimerStepType DEF Next

-----------------------------------------------------------------------------
(* What connects a client exists once, and while its stream is dead.       *)

NoConnectIn(p, c) ==
  \A l \in Loop : \A job \in JobsOf(p, l) : job.op \in Connecting => job.client # c
NoTimerFor(c) == \A t \in Timer : timer[t].active => idx[t] # c

\* Of the timers and closures in the queues p none will connect c.
Quiet(p, c) == NoConnectIn(p, c) /\ NoTimerFor(c)

Dead(s) == s \in {"none", "failed", "closing", "closed"}

\* Nothing is about to connect a client that is not dead, or that was lost while
\* the broker runs.
LEMMA AliveIsQuiet ==
  ASSUME IInv, NEW c \in Client,
         ~Dead(stream[c]) \/ (~bStop /\ stream[c] \in {"closing", "closed"})
  PROVE  Quiet(posted, c)
<1>1. NoConnectIn(posted, c)
  BY DEF IInv, QueueInv, Fits, Retry, Dead, Connecting, NoConnectIn
<1>2. NoTimerFor(c)
  BY DEF IInv, TimerInv, Retry, Dead, NoTimerFor
<1>. QED  BY <1>1, <1>2 DEF Quiet

\* The steps of a stream that something is about to connect.
StaysDead(c) ==
  \/ stream'[c] = stream[c]
  \/ /\ bStop' /\ stream[c] \in {"failed", "closing"}
     /\ stream'[c] \in {"closing", "closed"}

\* A job still fits its loop after a step, unless the step moves the stream of the
\* client it will connect, or arms a timer for it.
LEMMA FitsKept ==
  ASSUME NEW l \in Loop, NEW job, Fits(l, job), size \in Nat, size' \in Nat,
         bStop => bStop', size <= size', NClients \in Nat,
         job.op \in Connecting =>
           StaysDead(job.client),
         job.op = "newTimer" =>
           \A t \in Timer : timer'[t].active /\ idx'[t] = job.client =>
                              timer[t].active /\ idx[t] = job.client
  PROVE  Fits(l, job)'
<1>1. job.op # "stop" => job.client \in Client /\ job.client < size' /\ LoopOf(job.client) = l
  BY DEF Fits, Client
<1>2. job.op = "connect" => stream'[job.client] = "none"
  BY DEF Fits, Connecting, StaysDead
<1>3. job.op = "newTimer" =>
        Retry(job.client)' /\ \A t \in Timer : timer'[t].active => idx'[t] # job.client
  BY DEF Fits, Retry, Connecting, StaysDead
<1>4. job.op = "close" => bStop'
  BY DEF Fits
<1>. QED  BY <1>1, <1>2, <1>3, <1>4 DEF Fits, LoopOf

\* So are the timers after a step that arms none.
LEMMA TimersKept ==
  ASSUME TimerInv, size \in Nat, size' \in Nat, bStop => bStop', size <= size', NClients \in Nat,
         \A t \in Timer : timer'[t].active =>
           /\ timer[t].active /\ timer'[t].life = timer[t].life /\ idx'[t] = idx[t]
           /\ StaysDead(idx[t])
  PROVE  TimerInv'
<1>. SUFFICES ASSUME NEW t \in Timer, timer'[t].active
              PROVE  /\ timer'[t].life = "open"
                     /\ idx'[t] \in Client /\ idx'[t] < size' /\ Retry(idx[t])'
                     /\ \A u \in Timer : timer'[u].active /\ idx'[u] = idx'[t] => u = t
  BY DEF TimerInv, Retry
<1>1. timer[t].active /\ idx'[t] = idx[t] /\ timer'[t].life = timer[t].life
  OBVIOUS
<1>2. /\ timer[t].life = "open" /\ idx[t] \in Client /\ idx[t] < size /\ Retry(idx[t])
      /\ \A u \in Timer : timer[u].active /\ idx[u] = idx[t] => u = t
  BY <1>1 DEF TimerInv
<1>3. idx[t] < size'
  BY <1>2 DEF Client
<1>. QED  BY <1>1, <1>2, <1>3 DEF Retry, StaysDead

\* So are the queues, when every job in them is new and fits, or old and kept.
LEMMA QueueKept ==
  ASSUME QueueInv, Order(posted'), size \in Nat, size' \in Nat, bStop => bStop', size <= size',
         NClients \in Nat,
         \A l \in Loop : \A job \in JobsOf(posted', l) :
           \/ Fits(l, job)'
           \/ /\ job \in JobsOf(posted, l)
              /\ job.op \in Connecting => StaysDead(job.client)
              /\ job.op = "newTimer" =>
                   \A t \in Timer : timer'[t].active /\ idx'[t] = job.client =>
                                      timer[t].active /\ idx[t] = job.client
  PROVE  QueueInv'
<1>1. ASSUME NEW l \in Loop, NEW job \in JobsOf(posted', l) PROVE Fits(l, job)'
  <2>1. CASE job \in JobsOf(posted, l) /\ ~Fits(l, job)'
    <3>1. Fits(l, job)
      BY <2>1 DEF QueueInv
    <3>2. /\ job.op \in Connecting => StaysDead(job.client)
          /\ job.op = "newTimer" =>
               \A t \in Timer : timer'[t].active /\ idx'[t] = job.client =>
                                  timer[t].active /\ idx[t] = job.client
      BY <1>1, <2>1
    <3>. QED  BY <3>1, <3>2, FitsKept
  <2>. QED  BY <1>1, <2>1
<1>. QED  BY <1>1 DEF QueueInv

-----------------------------------------------------------------------------
(* Every step keeps the invariant.                                         *)

\* The sizes are numbers.
LEMMA Sizes == TypeOK => size \in Nat /\ NClients \in Nat /\ size <= NClients
BY ClientsAssumption DEF TypeOK

\* The invariant holds at first.
LEMMA InvInit == Init => IInv
<1>. SUFFICES ASSUME Init PROVE IInv
  OBVIOUS
<1>1. \A l \in Loop : Len(posted[l]) = 0 /\ 1..Len(posted[l]) = {}
  BY DEF Init
<1>2. QueueInv
  BY <1>1 DEF QueueInv, Order, JobsOf
<1>3. \A t \in Timer : ~timer[t].active
  BY DEF Init, NoTimer
<1>4. OwnerInv /\ StreamInv
  BY ClientsAssumption DEF Init, OwnerInv, StreamInv, Client
<1>. QED  BY TypeInit, <1>2, <1>3, <1>4 DEF IInv, TimerInv

\* So it does after a step that leaves the loops and the clients alone.
LEMMA OwnerAlone ==
  ASSUME IInv, Start \/ Stop \/ AllTold \/ Clear \/ JoinThreads
  PROVE  (QueueInv /\ TimerInv /\ StreamInv /\ OwnerInv)'
<1>. USE DEF OwnerGoto, loopVars, clientVars, timerVars, ownerVars
<1>1. /\ UNCHANGED <<size, posted, closeCb, stream, timer, idx>>
      /\ bStop => bStop'
      /\ OwnerInv'
  <2>1. CASE Start
    BY <2>1 DEF Start, IInv, OwnerInv
  <2>2. CASE Stop
    BY <2>2 DEF Stop, IInv, OwnerInv
  <2>3. CASE AllTold
    BY <2>3 DEF AllTold, IInv, OwnerInv
  <2>4. CASE Clear
    BY <2>4 DEF Clear, IInv, OwnerInv
  <2>5. CASE JoinThreads
    BY <2>5 DEF JoinThreads, IInv, OwnerInv
  <2>. QED  BY <2>1, <2>2, <2>3, <2>4, <2>5
<1>2. size \in Nat /\ NClients \in Nat
  BY Sizes DEF IInv
<1>3. \A c : StaysDead(c)
  BY <1>1 DEF StaysDead
<1>4. QueueInv'
  <2>1. Order(posted') /\ QueueInv
    BY <1>1 DEF IInv, QueueInv
  <2>. QED  BY <1>1, <1>2, <1>3, <2>1, QueueKept
<1>5. TimerInv'
  BY <1>1, <1>2, <1>3, TimersKept DEF IInv
<1>6. StreamInv'
  BY <1>1 DEF IInv, StreamInv, LoopOf
<1>. QED  BY <1>1, <1>4, <1>5, <1>6

\* A job that is handed over fits, and is in order with those before it.
LEMMA PostKept ==
  ASSUME IInv, NEW l \in Loop, NEW e \in JobType, Post(l, e), Fits(l, e)',
         size' \in Nat, bStop => bStop', size <= size',
         \A job \in JobsOf(posted, l) : job.client = e.client =>
           /\ ~(job.op \in Connecting /\ e.op \in Connecting)
           /\ ~(job.op = "close" /\ e.op = "connect"),
         \A n \in Loop : \A job \in JobsOf(posted, n) : job.op \in Connecting => StaysDead(job.client),
         UNCHANGED <<timer, idx>>
  PROVE  /\ QueueInv'
         /\ JobsOf(posted', l) = JobsOf(posted, l) \cup {e}
         /\ \A n \in Loop : n # l => JobsOf(posted', n) = JobsOf(posted, n)
<1>1. posted \in [Loop -> Seq(JobType)] /\ QueueInv /\ Order(posted)
  BY DEF IInv, TypeOK, JobType, QueueInv
<1>2. PICK p2 : p2 = posted'
  OBVIOUS
<1>3. p2 = Appended(posted, l, e)
  BY <1>2, Zenon DEF Post, Appended
<1>4. /\ JobsOf(p2, l) = JobsOf(posted, l) \cup {e}
      /\ \A n \in Loop : n # l => JobsOf(p2, n) = JobsOf(posted, n)
      /\ /\ Order(posted)
         /\ \A job \in JobsOf(posted, l) : job.client = e.client =>
              /\ ~(job.op \in Connecting /\ e.op \in Connecting)
              /\ ~(job.op = "close" /\ e.op = "connect")
         => Order(p2)
  BY <1>1, <1>3, JobsAppend
<1>5. ASSUME NEW n \in Loop, NEW job \in JobsOf(p2, n)
      PROVE  \/ Fits(n, job)'
             \/ /\ job \in JobsOf(posted, n)
                /\ job.op \in Connecting => StaysDead(job.client)
  <2>1. job \in JobsOf(posted, n) \/ (n = l /\ job = e)
    <3>1. CASE n = l
      BY <1>4, <1>5, <3>1
    <3>2. CASE n # l
      BY <1>4, <1>5, <3>2
    <3>. QED  BY <3>1, <3>2
  <2>2. CASE job \in JobsOf(posted, n)
    BY <2>2
  <2>3. CASE n = l /\ job = e
    BY <2>3
  <2>. QED  BY <2>1, <2>2, <2>3
<1>6. size \in Nat /\ NClients \in Nat
  BY Sizes DEF IInv
<1>7. QueueInv'
  BY <1>1, <1>2, <1>4, <1>5, <1>6, QueueKept
<1>. QED  BY <1>2, <1>4, <1>7

\* So it is after addNode, whose client has no closure yet.
LEMMA AddNodeKept ==
  ASSUME IInv, AddNode
  PROVE  (QueueInv /\ TimerInv /\ StreamInv /\ OwnerInv)'
<1>. USE DEF loopVars, timerVars
<1>0. PICK n, e : n = size /\ e = Job("connect", n)
  OBVIOUS
<1>1. /\ n \in Client /\ size' = n + 1 /\ LoopOf(n) \in Loop /\ size = n
      /\ n \in Nat /\ NClients \in Nat /\ e \in JobType
      /\ e.op = "connect" /\ e.client = n
  BY <1>0, Sizes, LoopOfType, JobIsJob DEF AddNode, IInv
<1>2. Post(LoopOf(n), e) /\ UNCHANGED <<stream, closeCb, bStop, timer, idx>>
  BY <1>0 DEF AddNode
<1>3. \A c : StaysDead(c)
  BY <1>2 DEF StaysDead
<1>4. ASSUME NEW l \in Loop, NEW job \in JobsOf(posted, l) PROVE job.client # n \/ job.op = "stop"
  BY <1>1, <1>4 DEF IInv, QueueInv, Fits
<1>5. stream[n] = "none" /\ stream'[n] = "none" /\ n < size'
  BY <1>1, <1>2 DEF IInv, StreamInv
<1>6. Fits(LoopOf(n), e)'
  BY <1>1, <1>5 DEF Fits, LoopOf
<1>7. /\ QueueInv'
      /\ JobsOf(posted', LoopOf(n)) = JobsOf(posted, LoopOf(n)) \cup {e}
      /\ \A l \in Loop : l # LoopOf(n) => JobsOf(posted', l) = JobsOf(posted, l)
  <2>1. \A job \in JobsOf(posted, LoopOf(n)) : job.client = e.client =>
           /\ ~(job.op \in Connecting /\ e.op \in Connecting)
           /\ ~(job.op = "close" /\ e.op = "connect")
    BY <1>1, <1>4 DEF Connecting
  <2>2. size' \in Nat /\ size <= size'
    BY <1>1
  <2>. QED  BY <1>1, <1>2, <1>3, <1>6, <2>1, <2>2, PostKept
<1>8. TimerInv'
  BY <1>1, <1>2, <1>3, TimersKept DEF IInv
<1>9. StreamInv'
  <2>1. ASSUME NEW c \in Client
        PROVE  /\ c >= size' => stream'[c] = "none"
               /\ c < size' /\ stream'[c] = "none" => Job("connect", c) \in JobsOf(posted', LoopOf(c))
               /\ stream'[c] = "aborting" => bStop'
    <3>1. c # n => (c < size' <=> c < size) /\ (c >= size' => c >= size)
      BY <1>1, ClientsAssumption DEF Client
    <3>2. CASE c = n
      BY <1>0, <1>1, <1>2, <1>5, <1>7, <3>2
    <3>3. CASE c # n
      BY <1>2, <1>7, <3>1, <3>3, LoopOfType DEF IInv, StreamInv
    <3>. QED  BY <3>2, <3>3
  <2>. QED  BY <1>2, <2>1 DEF IInv, StreamInv, LoopOf
<1>10. OwnerInv'
  BY DEF AddNode, IInv, OwnerInv
<1>. QED  BY <1>7, <1>8, <1>9, <1>10

\* So it is after stop()'s calls of closeSafe and of EventLoop::stop.
LEMMA TellKept ==
  ASSUME IInv, CloseSafe \/ StopLoop
  PROVE  (QueueInv /\ TimerInv /\ StreamInv /\ OwnerInv)'
<1>. USE DEF loopVars, timerVars, clientVars
<1>1. /\ UNCHANGED <<stream, closeCb, bStop, size, timer, idx>> /\ OwnerInv'
      /\ size \in Nat /\ NClients \in Nat
  BY Sizes DEF CloseSafe, StopLoop, IInv, OwnerInv
<1>2. \A c : StaysDead(c)
  BY <1>1 DEF StaysDead
<1>3. /\ QueueInv'
      /\ \A n \in Loop : JobsOf(posted, n) \subseteq JobsOf(posted', n)
  <2>1. CASE UNCHANGED posted
    <3>1. Order(posted') /\ QueueInv
      BY <2>1 DEF IInv, QueueInv
    <3>. QED  BY <1>1, <1>2, <2>1, <3>1, QueueKept
  <2>2. ASSUME NEW l \in Loop, NEW e \in JobType, e.op \in {"close", "stop"}, Post(l, e), Fits(l, e)'
        PROVE  QueueInv' /\ \A n \in Loop : JobsOf(posted, n) \subseteq JobsOf(posted', n)
    <3>1. \A job \in JobsOf(posted, l) : job.client = e.client =>
           /\ ~(job.op \in Connecting /\ e.op \in Connecting)
           /\ ~(job.op = "close" /\ e.op = "connect")
      BY <2>2 DEF Connecting
    <3>. QED  BY <1>1, <1>2, <2>2, <3>1, PostKept
  <2>3. CASE CloseSafe
    <3>1. PICK n, e : n = next /\ e = Job("close", n)
      OBVIOUS
    <3>2. n \in Client /\ n < size /\ bStop /\ Post(LoopOf(n), e)
      BY <2>3, <3>1, ClientsAssumption DEF CloseSafe, IInv, TypeOK, Client, OwnerInv
    <3>3. e \in JobType /\ e.op = "close" /\ e.client = n /\ LoopOf(n) \in Loop
      BY <3>1, <3>2, LoopOfType, JobIsJob
    <3>4. Fits(LoopOf(n), e)'
      BY <1>1, <3>2, <3>3 DEF Fits, LoopOf
    <3>. QED  BY <2>2, <3>2, <3>3, <3>4
  <2>4. CASE StopLoop
    <3>1. PICK n, e : n = next /\ e = Job("stop", None)
      OBVIOUS
    <3>2. n \in Loop /\ e \in JobType /\ e.op = "stop"
      BY <2>4, <3>1, JobIsJob DEF StopLoop
    <3>3. Fits(n, e)'
      BY <3>2 DEF Fits
    <3>4. Post(n, e) \/ UNCHANGED posted
      BY <2>4, <3>1 DEF StopLoop
    <3>. QED  BY <2>1, <2>2, <3>2, <3>3, <3>4
  <2>. QED  BY <2>3, <2>4
<1>4. TimerInv'
  BY <1>1, <1>2, TimersKept DEF IInv
<1>5. StreamInv'
  BY <1>1, <1>3, LoopOfType DEF IInv, StreamInv, LoopOf
<1>. QED  BY <1>1, <1>3, <1>4, <1>5

-----------------------------------------------------------------------------
(* The steps of one stream.                                                *)

\* The other streams stay as they are.
Only(c) == \A d \in Client : d # c => stream'[d] = stream[d]

\* A step of a stream on a thread that is not in a close callback finds the
\* close callbacks of others only.
LEMMA CallbacksKept ==
  ASSUME IInv, NEW c \in Client, closeCb[LoopOf(c)] = None, UNCHANGED closeCb, Only(c)
  PROVE  \A l \in Loop : closeCb'[l] # None =>
           stream'[closeCb'[l]] = "closed" /\ LoopOf(closeCb'[l]) = l
<1>. SUFFICES ASSUME NEW l \in Loop, closeCb'[l] # None
              PROVE  stream'[closeCb'[l]] = "closed" /\ LoopOf(closeCb'[l]) = l
  OBVIOUS
<1>1. PICK d : d = closeCb[l]
  OBVIOUS
<1>2. d \in Client /\ stream[d] = "closed" /\ LoopOf(d) = l /\ closeCb'[l] = d
  BY <1>1 DEF IInv, TypeOK, StreamInv
<1>3. d # c
  BY <1>1, <1>2
<1>. QED  BY <1>2, <1>3 DEF Only

\* The streams are as they should be after a step of one that is initialised.
LEMMA StreamKept ==
  ASSUME IInv, NEW c \in Client, UNCHANGED <<size, bStop>>, Only(c), c < size,
         stream'[c] # "none", stream'[c] = "aborting" => bStop,
         \A d \in Client : d # c /\ Job("connect", d) \in JobsOf(posted, LoopOf(d)) =>
                            Job("connect", d) \in JobsOf(posted', LoopOf(d)),
         \A l \in Loop : closeCb'[l] # None =>
           stream'[closeCb'[l]] = "closed" /\ LoopOf(closeCb'[l]) = l
  PROVE  StreamInv'
<1>1. ASSUME NEW d \in Client
      PROVE  /\ d >= size' => stream'[d] = "none"
             /\ d < size' /\ stream'[d] = "none" => Job("connect", d) \in JobsOf(posted', LoopOf(d))
             /\ stream'[d] = "aborting" => bStop'
  <2>1. CASE d = c
    <3>1. size \in Nat /\ c \in Nat
      BY Sizes, ClientsAssumption DEF IInv, Client
    <3>. QED  BY <2>1, <3>1
  <2>2. CASE d # c
    BY <2>2 DEF Only, IInv, StreamInv
  <2>. QED  BY <2>1, <2>2
<1>. QED  BY <1>1 DEF StreamInv, LoopOf

\* Nothing that would connect another stream is disturbed by a step of one that
\* nothing would connect.
LEMMA OthersStay ==
  ASSUME IInv, NEW c \in Client, Quiet(posted, c), Only(c)
  PROVE  /\ \A n \in Loop : \A job \in JobsOf(posted, n) : job.op \in Connecting => StaysDead(job.client)
         /\ \A t \in Timer : timer[t].active => StaysDead(idx[t])
<1>1. ASSUME NEW n \in Loop, NEW job \in JobsOf(posted, n), job.op \in Connecting
      PROVE  StaysDead(job.client)
  <2>1. job.client # c
    BY <1>1 DEF Quiet, NoConnectIn
  <2>2. job.client \in Client
    BY <1>1 DEF IInv, QueueInv, Fits, Connecting
  <2>. QED  BY <2>1, <2>2 DEF Only, StaysDead
<1>2. ASSUME NEW t \in Timer, timer[t].active PROVE StaysDead(idx[t])
  <2>1. idx[t] # c /\ idx[t] \in Client
    BY <1>2 DEF Quiet, NoTimerFor, IInv, TimerInv
  <2>. QED  BY <2>1 DEF Only, StaysDead
<1>. QED  BY <1>1, <1>2

\* A step of one stream that nothing would connect, and that posts nothing.
LEMMA QuietStep ==
  ASSUME IInv, NEW c \in Client, Quiet(posted, c), Only(c),
         UNCHANGED <<ownerVars, posted, timerVars>>
  PROVE  QueueInv' /\ TimerInv' /\ OwnerInv'
<1>1. /\ UNCHANGED <<owner, size, bStop, posted, timer, idx>>
      /\ size \in Nat /\ NClients \in Nat
  BY Sizes DEF ownerVars, timerVars, IInv
<1>2. Order(posted') /\ QueueInv
  BY <1>1 DEF IInv, QueueInv
<1>3. QueueInv'
  BY <1>1, <1>2, OthersStay, QueueKept
<1>4. TimerInv'
  BY <1>1, OthersStay, TimersKept DEF IInv
<1>. QED  BY <1>1, <1>3, <1>4 DEF IInv, OwnerInv

\* A step of one stream that nothing would connect, and that asks for a retry.
LEMMA RetryStep ==
  ASSUME IInv, NEW c \in Client, c < size, Quiet(posted, c), Only(c),
         OnConnectFails(c) \/ UNCHANGED posted, Retry(c)',
         UNCHANGED <<ownerVars, timerVars>>
  PROVE  /\ QueueInv' /\ TimerInv' /\ OwnerInv'
         /\ \A n \in Loop : JobsOf(posted, n) \subseteq JobsOf(posted', n)
<1>1. /\ UNCHANGED <<owner, size, bStop, timer, idx>>
      /\ size \in Nat /\ NClients \in Nat /\ LoopOf(c) \in Loop
  BY Sizes, LoopOfType DEF ownerVars, timerVars, IInv
<1>2. CASE UNCHANGED posted
  BY <1>2, QuietStep
<1>3. CASE Post(LoopOf(c), Job("newTimer", c))
  <2>1. PICK e : e = Job("newTimer", c)
    OBVIOUS
  <2>2. e \in JobType /\ e.op = "newTimer" /\ e.client = c /\ Post(LoopOf(c), e)
    BY <1>3, <2>1, JobIsJob
  <2>3. Fits(LoopOf(c), e)'
    <3>1. \A t \in Timer : timer'[t].active => idx'[t] # c
      BY <1>1 DEF Quiet, NoTimerFor
    <3>. QED  BY <1>1, <2>2, <3>1 DEF Fits, LoopOf
  <2>4. \A job \in JobsOf(posted, LoopOf(c)) : job.client = e.client =>
           /\ ~(job.op \in Connecting /\ e.op \in Connecting)
           /\ ~(job.op = "close" /\ e.op = "connect")
    BY <1>1, <2>2 DEF Quiet, NoConnectIn
  <2>5. /\ QueueInv'
        /\ JobsOf(posted', LoopOf(c)) = JobsOf(posted, LoopOf(c)) \cup {e}
        /\ \A n \in Loop : n # LoopOf(c) => JobsOf(posted', n) = JobsOf(posted, n)
    <3>1. size' \in Nat /\ size <= size'
      BY <1>1
    <3>. QED  BY <1>1, <2>2, <2>3, <2>4, <3>1, OthersStay, PostKept
  <2>6. TimerInv'
    BY <1>1, OthersStay, TimersKept DEF IInv
  <2>. QED  BY <1>1, <2>5, <2>6 DEF IInv, OwnerInv
<1>. QED  BY <1>2, <1>3 DEF OnConnectFails

\* The invariant holds after a step of a connection that libuv reports.
LEMMA ClientKept ==
  ASSUME IInv, NEW c \in Client, Connects(c) \/ ConnectionLost(c) \/ OnClose(c)
  PROVE  (QueueInv /\ TimerInv /\ StreamInv /\ OwnerInv)'
<1>. USE DEF loopVars
<1>1. c < size /\ stream[c] \in {"connecting", "open", "closing", "aborting"}
  <2>1. stream[c] \in {"connecting", "open", "closing", "aborting"}
    BY DEF Connects, UvConnected, UvConnectFails, ConnectionLost, OnClose
  <2>2. size \in Nat /\ c \in Nat
    BY Sizes, ClientsAssumption DEF IInv, Client
  <2>. QED  BY <2>1, <2>2 DEF IInv, StreamInv
<1>2. closeCb[LoopOf(c)] = None
  BY DEF Connects, UvConnected, UvConnectFails, ConnectionLost, OnClose, PollsFor, InLibuv
<1>3. stream[c] = "aborting" => bStop
  BY DEF IInv, StreamInv
<1>4. CASE UvConnected(c) \/ ConnectionLost(c)
  <2>1. /\ Only(c) /\ stream'[c] \in {"open", "closing"} /\ UNCHANGED closeCb
        /\ UNCHANGED <<ownerVars, posted, timerVars>> /\ UNCHANGED <<size, bStop>>
        /\ stream[c] \in {"connecting", "open"}
    <3>1. CASE UvConnected(c)
      BY <3>1 DEF UvConnected, Only, IInv, TypeOK, ownerVars
    <3>2. CASE ConnectionLost(c)
      BY <3>2 DEF ConnectionLost, Close, IsClosing, Only, IInv, TypeOK, ownerVars
    <3>. QED  BY <1>4, <3>1, <3>2
  <2>2. Quiet(posted, c)
    BY <2>1, AliveIsQuiet DEF Dead
  <2>3. QueueInv' /\ TimerInv' /\ OwnerInv'
    BY <2>1, <2>2, QuietStep
  <2>4. StreamInv'
    BY <1>1, <1>2, <2>1, CallbacksKept, StreamKept
  <2>. QED  BY <2>3, <2>4
<1>5. CASE UvConnectFails(c)
  <2>1. /\ Only(c) /\ stream'[c] = "failed" /\ UNCHANGED closeCb
        /\ UNCHANGED <<ownerVars, timerVars>> /\ UNCHANGED <<size, bStop>>
        /\ stream[c] = "connecting" /\ OnConnectFails(c)
    BY <1>5 DEF UvConnectFails, Only, IInv, TypeOK, ownerVars
  <2>2. Quiet(posted, c)
    BY <2>1, AliveIsQuiet DEF Dead
  <2>3. Retry(c)'
    BY <2>1 DEF Retry
  <2>4. /\ QueueInv' /\ TimerInv' /\ OwnerInv'
        /\ \A n \in Loop : JobsOf(posted, n) \subseteq JobsOf(posted', n)
    BY <1>1, <2>1, <2>2, <2>3, RetryStep
  <2>5. StreamInv'
    BY <1>1, <1>2, <2>1, <2>4, CallbacksKept, StreamKept, LoopOfType
  <2>. QED  BY <2>4, <2>5
<1>6. CASE OnClose(c)
  <2>1. /\ Only(c) /\ stream'[c] = "closed" /\ stream[c] \in {"closing", "aborting"}
        /\ UNCHANGED <<ownerVars, timerVars>> /\ UNCHANGED <<size, bStop, timer, idx>>
        /\ IF stream[c] = "aborting" THEN OnConnectFails(c) ELSE UNCHANGED posted
    BY <1>6 DEF OnClose, Only, IInv, TypeOK, ownerVars, timerVars
  <2>2. ASSUME stream[c] = "aborting"
        PROVE  QueueInv' /\ TimerInv' /\ OwnerInv'
               /\ \A n \in Loop : JobsOf(posted, n) \subseteq JobsOf(posted', n)
    <3>1. Quiet(posted, c) /\ OnConnectFails(c)
      BY <2>1, <2>2, AliveIsQuiet DEF Dead
    <3>2. Retry(c)'
      BY <1>3, <2>1, <2>2 DEF Retry
    <3>. QED  BY <1>1, <2>1, <3>1, <3>2, RetryStep
  <2>3. ASSUME stream[c] = "closing" /\ ~bStop
        PROVE  QueueInv' /\ TimerInv' /\ OwnerInv'
               /\ \A n \in Loop : JobsOf(posted, n) \subseteq JobsOf(posted', n)
    <3>1. Quiet(posted, c) /\ UNCHANGED posted
      BY <2>1, <2>3, AliveIsQuiet
    <3>. QED  BY <2>1, <3>1, QuietStep
  <2>4. ASSUME stream[c] = "closing" /\ bStop
        PROVE  QueueInv' /\ TimerInv' /\ OwnerInv'
               /\ \A n \in Loop : JobsOf(posted, n) \subseteq JobsOf(posted', n)
    <3>1. /\ UNCHANGED <<owner, posted>> /\ Order(posted') /\ QueueInv
          /\ size \in Nat /\ NClients \in Nat
      BY <2>1, <2>4, Sizes DEF ownerVars, IInv, QueueInv
    <3>2. \A d \in Client : StaysDead(d)
      BY <2>1, <2>4 DEF Only, StaysDead
    <3>3. \A n \in Loop : \A job \in JobsOf(posted, n) :
            job.op \in Connecting => job.client \in Client
      BY DEF IInv, QueueInv, Fits, Connecting
    <3>4. QueueInv'
      BY <2>1, <3>1, <3>2, <3>3, QueueKept
    <3>5. \A t \in Timer : timer[t].active => idx[t] \in Client
      BY DEF IInv, TimerInv
    <3>6. TimerInv'
      BY <2>1, <3>1, <3>2, <3>5, TimersKept DEF IInv
    <3>. QED  BY <2>1, <3>1, <3>4, <3>6 DEF IInv, OwnerInv
  <2>5. /\ QueueInv' /\ TimerInv' /\ OwnerInv'
        /\ \A n \in Loop : JobsOf(posted, n) \subseteq JobsOf(posted', n)
    BY <2>1, <2>2, <2>3, <2>4
  <2>6. \A l \in Loop : closeCb'[l] # None =>
          stream'[closeCb'[l]] = "closed" /\ LoopOf(closeCb'[l]) = l
    <3>. SUFFICES ASSUME NEW l \in Loop, closeCb'[l] # None
                  PROVE  stream'[closeCb'[l]] = "closed" /\ LoopOf(closeCb'[l]) = l
      OBVIOUS
    <3>1. CASE l = LoopOf(c)
      <4>1. closeCb'[l] = c
        BY <1>6, <3>1 DEF OnClose, IInv, TypeOK
      <4>. QED  BY <2>1, <3>1, <4>1
    <3>2. CASE l # LoopOf(c)
      <4>1. PICK d : d = closeCb[l]
        OBVIOUS
      <4>2. closeCb'[l] = d
        BY <1>6, <3>2, <4>1 DEF OnClose, IInv, TypeOK
      <4>3. d \in Client /\ stream[d] = "closed" /\ LoopOf(d) = l
        BY <4>1, <4>2 DEF IInv, TypeOK, StreamInv
      <4>4. d # c
        BY <2>1, <4>3
      <4>. QED  BY <2>1, <4>2, <4>3, <4>4 DEF Only
    <3>. QED  BY <3>1, <3>2
  <2>7. StreamInv'
    BY <1>1, <2>1, <2>5, <2>6, StreamKept, LoopOfType
  <2>. QED  BY <2>5, <2>7
<1>. QED  BY <1>4, <1>5, <1>6 DEF Connects

-----------------------------------------------------------------------------
(* The steps of the loops.                                                 *)

\* What a loop knows of the job it takes.
LEMMA RunsKept ==
  ASSUME IInv, NEW l \in Loop, NEW op, NEW e, Runs(l, op), e = Head(posted[l])
  PROVE  /\ e \in JobType /\ e.op = op /\ Fits(l, e)
         /\ Order(posted') /\ closeCb[l] = None
         /\ JobsOf(posted, l) = JobsOf(posted', l) \cup {e}
         /\ \A n \in Loop : n # l => JobsOf(posted', n) = JobsOf(posted, n)
         /\ \A job \in JobsOf(posted', l) : job.client = e.client =>
              /\ ~(e.op \in Connecting /\ job.op \in Connecting)
              /\ ~(e.op = "close" /\ job.op = "connect")
<1>1. posted \in [Loop -> Seq(JobType)] /\ QueueInv /\ Order(posted)
  BY DEF IInv, TypeOK, JobType, QueueInv
<1>2. posted[l] # <<>> /\ e.op = op /\ closeCb[l] = None
  BY DEF Runs, InLibuv
<1>3. PICK p2 : p2 = posted'
  OBVIOUS
<1>4. p2 = Taken(posted, l)
  BY <1>3, Zenon DEF Runs, Taken
<1>5. /\ e \in JobType /\ Order(p2)
      /\ JobsOf(posted, l) = JobsOf(p2, l) \cup {e}
      /\ \A n \in Loop : n # l => JobsOf(p2, n) = JobsOf(posted, n)
      /\ \A job \in JobsOf(p2, l) : job.client = e.client =>
           /\ ~(e.op \in Connecting /\ job.op \in Connecting)
           /\ ~(e.op = "close" /\ job.op = "connect")
  BY <1>1, <1>2, <1>4, JobsTail
<1>6. Fits(l, e)
  BY <1>1, <1>5 DEF QueueInv
<1>. QED  BY <1>2, <1>3, <1>5, <1>6

\* Another client's connect stays in its queue when a loop takes a job.
LEMMA ConnectStays ==
  ASSUME NEW l \in Loop, NEW e, NEW c \in Client, e.op # "connect" \/ e.client # c,
         JobsOf(posted, l) = JobsOf(posted', l) \cup {e},
         \A n \in Loop : n # l => JobsOf(posted', n) = JobsOf(posted, n),
         Job("connect", c) \in JobsOf(posted, LoopOf(c))
  PROVE  Job("connect", c) \in JobsOf(posted', LoopOf(c))
<1>1. Job("connect", c) # e
  BY JobIsJob
<1>2. CASE LoopOf(c) = l
  BY <1>1, <1>2
<1>3. CASE LoopOf(c) # l
  BY <1>3, LoopOfType
<1>. QED  BY <1>2, <1>3

\* Of the jobs left when a loop has taken one, none would connect another's client
\* of that loop.
LEMMA LeftIsOthers ==
  ASSUME IInv, NEW l \in Loop, NEW e, Fits(l, e), e.op # "stop",
         \A n \in Loop : n # l => JobsOf(posted', n) = JobsOf(posted, n),
         NEW n \in Loop, n # l, NEW job \in JobsOf(posted', n), job.op \in Connecting
  PROVE  job.client # e.client
<1>1. job \in JobsOf(posted, n) /\ QueueInv
  BY DEF IInv
<1>2. Fits(n, job) /\ job.op # "stop"
  BY <1>1 DEF QueueInv, Connecting
<1>. QED  BY <1>2 DEF Fits

\* The first connect of a client.
LEMMA RunConnectKept ==
  ASSUME IInv, NEW l \in Loop, RunConnect(l)
  PROVE  (QueueInv /\ TimerInv /\ StreamInv /\ OwnerInv)'
<1>. USE DEF loopVars, ownerVars, timerVars
<1>1. PICK e : e = Head(posted[l])
  OBVIOUS
<1>2. /\ e \in JobType /\ e.op = "connect" /\ Fits(l, e)
      /\ Order(posted') /\ closeCb[l] = None
      /\ JobsOf(posted, l) = JobsOf(posted', l) \cup {e}
      /\ \A n \in Loop : n # l => JobsOf(posted', n) = JobsOf(posted, n)
      /\ \A job \in JobsOf(posted', l) : job.client = e.client =>
           ~(e.op \in Connecting /\ job.op \in Connecting)
  BY <1>1, RunsKept DEF RunConnect
<1>3. PICK c : c = e.client
  OBVIOUS
<1>4. c \in Client /\ c < size /\ LoopOf(c) = l /\ stream[c] = "none"
  BY <1>2, <1>3 DEF Fits
<1>5. /\ Only(c) /\ stream'[c] \in {"connecting", "noFd"}
      /\ UNCHANGED <<owner, size, bStop, closeCb, timer, idx>>
      /\ size \in Nat /\ NClients \in Nat
  BY <1>1, <1>3, <1>4, Sizes DEF RunConnect, Connect, Only, IInv, TypeOK
<1>6. ASSUME NEW n \in Loop, NEW job \in JobsOf(posted', n), job.op \in Connecting
      PROVE  StaysDead(job.client)
  <2>1. job.client # c
    <3>1. CASE n = l
      BY <1>2, <1>3, <1>6, <3>1 DEF Connecting
    <3>2. CASE n # l
      BY <1>2, <1>3, <1>6, <3>2, LeftIsOthers
    <3>. QED  BY <3>1, <3>2
  <2>2. job \in JobsOf(posted, n)
    BY <1>2, <1>6
  <2>3. job.client \in Client
    BY <1>6, <2>2 DEF IInv, QueueInv, Fits, Connecting
  <2>. QED  BY <1>5, <2>1, <2>3 DEF Only, StaysDead
<1>7. QueueInv'
  <2>1. \A n \in Loop : JobsOf(posted', n) \subseteq JobsOf(posted, n)
    BY <1>2
  <2>2. QueueInv
    BY DEF IInv
  <2>. QED  BY <1>2, <1>5, <1>6, <2>1, <2>2, QueueKept
<1>8. TimerInv'
  <2>1. ASSUME NEW t \in Timer, timer[t].active PROVE StaysDead(idx[t])
    BY <1>4, <1>5, <2>1 DEF IInv, TimerInv, Retry, Only, StaysDead
  <2>. QED  BY <1>5, <2>1, TimersKept DEF IInv
<1>9. StreamInv'
  <2>1. \A d \in Client : d # c /\ Job("connect", d) \in JobsOf(posted, LoopOf(d)) =>
                            Job("connect", d) \in JobsOf(posted', LoopOf(d))
    BY <1>2, <1>3, ConnectStays
  <2>2. \A n \in Loop : closeCb'[n] # None =>
          stream'[closeCb'[n]] = "closed" /\ LoopOf(closeCb'[n]) = n
    BY <1>2, <1>4, <1>5, CallbacksKept
  <2>. QED  BY <1>4, <1>5, <2>1, <2>2, StreamKept
<1>. QED  BY <1>5, <1>7, <1>8, <1>9 DEF IInv, OwnerInv

\* A close finds a stream that connect() has initialised.
LEMMA CloseFindsStream ==
  ASSUME IInv, NEW l \in Loop, NEW e, Runs(l, "close"), e = Head(posted[l])
  PROVE  e.client \in Client /\ e.client < size /\ stream[e.client] # "none" /\ bStop
<1>1. /\ e.op = "close" /\ Fits(l, e)
      /\ JobsOf(posted, l) = JobsOf(posted', l) \cup {e}
      /\ \A job \in JobsOf(posted', l) : job.client = e.client => job.op # "connect"
  BY RunsKept
<1>2. PICK c : c = e.client
  OBVIOUS
<1>3. c \in Client /\ c < size /\ LoopOf(c) = l /\ bStop
  BY <1>1, <1>2 DEF Fits
<1>4. stream[c] # "none"
  <2>1. SUFFICES ASSUME stream[c] = "none" PROVE FALSE
    OBVIOUS
  <2>2. Job("connect", c) \in JobsOf(posted, l)
    BY <1>3, <2>1 DEF IInv, StreamInv
  <2>3. Job("connect", c).op = "connect" /\ Job("connect", c).client = c
    BY <1>3, JobIsJob
  <2>. QED  BY <1>1, <1>2, <2>2, <2>3
<1>. QED  BY <1>2, <1>3, <1>4

\* The close that stop() asked for.
LEMMA RunCloseKept ==
  ASSUME IInv, NEW l \in Loop, RunClose(l)
  PROVE  (QueueInv /\ TimerInv /\ StreamInv /\ OwnerInv)'
<1>. USE DEF loopVars, ownerVars, timerVars
<1>1. PICK e : e = Head(posted[l])
  OBVIOUS
<1>2. /\ e.op = "close" /\ Fits(l, e)
      /\ Order(posted') /\ closeCb[l] = None
      /\ JobsOf(posted, l) = JobsOf(posted', l) \cup {e}
      /\ \A n \in Loop : n # l => JobsOf(posted', n) = JobsOf(posted, n)
  BY <1>1, RunsKept DEF RunClose
<1>3. PICK c : c = e.client
  OBVIOUS
<1>4. c \in Client /\ c < size /\ LoopOf(c) = l /\ stream[c] # "none" /\ bStop
  <2>1. Runs(l, "close")
    BY DEF RunClose
  <2>2. c \in Client /\ c < size /\ stream[c] # "none" /\ bStop
    BY <1>1, <1>3, <2>1, CloseFindsStream
  <2>. QED  BY <1>2, <1>3, <2>2 DEF Fits
<1>5. /\ Only(c) /\ UNCHANGED <<owner, size, bStop, closeCb, timer, idx>>
      /\ stream' = [stream EXCEPT ![c] = IF IsClosing(c) THEN @
                      ELSE IF @ = "connecting" THEN "aborting" ELSE "closing"]
      /\ size \in Nat /\ NClients \in Nat
  BY <1>1, <1>3, <1>4, Sizes DEF RunClose, Close, Only, IInv, TypeOK
<1>6. /\ stream'[c] # "none"
      /\ stream[c] = "closed" => stream'[c] = "closed"
      /\ Retry(c) => StaysDead(c)
  <2>1. stream'[c] = IF IsClosing(c) THEN stream[c]
                     ELSE IF stream[c] = "connecting" THEN "aborting" ELSE "closing"
    BY <1>4, <1>5 DEF IInv, TypeOK
  <2>2. CASE IsClosing(c)
    BY <1>4, <2>1, <2>2 DEF StaysDead
  <2>3. CASE ~IsClosing(c)
    BY <1>4, <1>5, <2>1, <2>3 DEF StaysDead, Retry, IsClosing
  <2>. QED  BY <2>2, <2>3
<1>7. ASSUME NEW d \in Client, Retry(d) \/ stream[d] = "none" PROVE StaysDead(d)
  BY <1>4, <1>5, <1>6, <1>7 DEF Only, StaysDead
<1>8. ASSUME NEW n \in Loop, NEW job \in JobsOf(posted', n), job.op \in Connecting
      PROVE  job \in JobsOf(posted, n) /\ StaysDead(job.client)
  <2>1. job \in JobsOf(posted, n)
    BY <1>2, <1>8
  <2>2. Fits(n, job)
    BY <2>1 DEF IInv, QueueInv
  <2>3. job.client \in Client /\ (Retry(job.client) \/ stream[job.client] = "none")
    BY <1>8, <2>2 DEF Fits, Connecting
  <2>. QED  BY <1>7, <2>1, <2>3
<1>9. QueueInv'
  <2>1. \A n \in Loop : JobsOf(posted', n) \subseteq JobsOf(posted, n)
    BY <1>2
  <2>2. QueueInv
    BY DEF IInv
  <2>. QED  BY <1>2, <1>5, <1>8, <2>1, <2>2, QueueKept
<1>10. TimerInv'
  <2>1. ASSUME NEW t \in Timer, timer[t].active PROVE StaysDead(idx[t])
    BY <1>7, <2>1 DEF IInv, TimerInv
  <2>. QED  BY <1>5, <2>1, TimersKept DEF IInv
<1>11. StreamInv'
  <2>1. \A d \in Client : d # c /\ Job("connect", d) \in JobsOf(posted, LoopOf(d)) =>
                            Job("connect", d) \in JobsOf(posted', LoopOf(d))
    BY <1>2, <1>3, ConnectStays
  <2>2. \A n \in Loop : closeCb'[n] # None =>
          stream'[closeCb'[n]] = "closed" /\ LoopOf(closeCb'[n]) = n
    BY <1>2, <1>4, <1>5, CallbacksKept
  <2>. QED  BY <1>4, <1>5, <1>6, <2>1, <2>2, StreamKept
<1>. QED  BY <1>5, <1>9, <1>10, <1>11 DEF IInv, OwnerInv

\* A retry becomes a timer.
LEMMA RunNewTimerKept ==
  ASSUME IInv, NEW l \in Loop, RunNewTimer(l)
  PROVE  (QueueInv /\ TimerInv /\ StreamInv /\ OwnerInv)'
<1>. USE DEF loopVars, ownerVars, clientVars
<1>1. PICK e, s : e = Head(posted[l]) /\ s = (CHOOSE t \in Free : TRUE)
  OBVIOUS
<1>2. /\ e.op = "newTimer" /\ Fits(l, e)
      /\ Order(posted') /\ closeCb[l] = None
      /\ JobsOf(posted, l) = JobsOf(posted', l) \cup {e}
      /\ \A n \in Loop : n # l => JobsOf(posted', n) = JobsOf(posted, n)
      /\ \A job \in JobsOf(posted', l) : job.client = e.client =>
           ~(e.op \in Connecting /\ job.op \in Connecting)
  BY <1>1, RunsKept DEF RunNewTimer
<1>3. PICK c : c = e.client
  OBVIOUS
<1>4. /\ c \in Client /\ c < size /\ LoopOf(c) = l /\ Retry(c)
      /\ \A t \in Timer : timer[t].active => idx[t] # c
  BY <1>2, <1>3 DEF Fits
<1>5. /\ s \in Free /\ UNCHANGED <<owner, size, bStop, closeCb, stream>>
      /\ timer' = [timer EXCEPT ![s] = Started(Constructed)]
      /\ idx' = [idx EXCEPT ![s] = c]
      /\ size \in Nat /\ NClients \in Nat
  BY <1>1, <1>3, Sizes DEF RunNewTimer, IInv
<1>6. /\ s \in Timer /\ timer'[s].active /\ timer'[s].life = "open" /\ idx'[s] = c
      /\ \A t \in Timer : t # s => timer'[t] = timer[t] /\ idx'[t] = idx[t]
  <2>1. s \in Timer
    BY <1>5 DEF Free
  <2>. QED  BY <1>5, <2>1, TimerTypes DEF IInv, TypeOK
<1>7. \A d : StaysDead(d)
  BY <1>5 DEF StaysDead
<1>8. QueueInv'
  <2>1. ASSUME NEW n \in Loop, NEW job \in JobsOf(posted', n), job.op = "newTimer"
        PROVE  job.client # c
    <3>1. CASE n = l
      BY <1>2, <1>3, <2>1, <3>1 DEF Connecting
    <3>2. CASE n # l
      BY <1>2, <1>3, <2>1, <3>2, LeftIsOthers DEF Connecting
    <3>. QED  BY <3>1, <3>2
  <2>2. \A n \in Loop : \A job \in JobsOf(posted', n) : job.op = "newTimer" =>
          \A t \in Timer : timer'[t].active /\ idx'[t] = job.client =>
                             timer[t].active /\ idx[t] = job.client
    BY <1>6, <2>1
  <2>3. QueueInv /\ \A n \in Loop : JobsOf(posted', n) \subseteq JobsOf(posted, n)
    BY <1>2 DEF IInv
  <2>. QED  BY <1>2, <1>5, <1>7, <2>2, <2>3, QueueKept
<1>9. TimerInv'
  <2>. SUFFICES ASSUME NEW t \in Timer, timer'[t].active
                PROVE  /\ timer'[t].life = "open"
                       /\ idx'[t] \in Client /\ idx'[t] < size' /\ Retry(idx'[t])
                       /\ \A u \in Timer : timer'[u].active /\ idx'[u] = idx'[t] => u = t
    BY <1>5 DEF TimerInv, Retry
  <2>1. CASE t = s
    BY <1>4, <1>5, <1>6, <2>1
  <2>2. CASE t # s
    BY <1>4, <1>5, <1>6, <2>2 DEF IInv, TimerInv
  <2>. QED  BY <2>1, <2>2
<1>10. StreamInv'
  <2>1. \A d \in Client : Job("connect", d) \in JobsOf(posted, LoopOf(d)) =>
                            Job("connect", d) \in JobsOf(posted', LoopOf(d))
    BY <1>2, ConnectStays
  <2>. QED  BY <1>5, <2>1 DEF IInv, StreamInv, LoopOf
<1>. QED  BY <1>5, <1>8, <1>9, <1>10 DEF IInv, OwnerInv

\* A loop starts, or is told to stop.
LEMMA RunStopKept ==
  ASSUME IInv, NEW l \in Loop, RunLoop(l) \/ RunStop(l)
  PROVE  (QueueInv /\ TimerInv /\ StreamInv /\ OwnerInv)'
<1>. USE DEF loopVars, ownerVars, clientVars, timerVars
<1>1. /\ UNCHANGED <<owner, size, bStop, closeCb, stream, timer, idx>>
      /\ size \in Nat /\ NClients \in Nat
  BY Sizes DEF RunLoop, RunStop, IInv
<1>2. \A d : StaysDead(d)
  BY <1>1 DEF StaysDead
<1>3. /\ QueueInv /\ Order(posted') /\ \A n \in Loop : JobsOf(posted', n) \subseteq JobsOf(posted, n)
      /\ \A d \in Client : Job("connect", d) \in JobsOf(posted, LoopOf(d)) =>
                            Job("connect", d) \in JobsOf(posted', LoopOf(d))
  <2>1. CASE RunLoop(l)
    BY <2>1 DEF RunLoop, IInv, QueueInv
  <2>2. CASE RunStop(l)
    <3>1. PICK e : e = Head(posted[l])
      OBVIOUS
    <3>2. /\ e.op = "stop" /\ Order(posted')
          /\ JobsOf(posted, l) = JobsOf(posted', l) \cup {e}
          /\ \A n \in Loop : n # l => JobsOf(posted', n) = JobsOf(posted, n)
      BY <2>2, <3>1, RunsKept DEF RunStop
    <3>3. \A d \in Client : Job("connect", d) \in JobsOf(posted, LoopOf(d)) =>
                            Job("connect", d) \in JobsOf(posted', LoopOf(d))
      BY <3>2, ConnectStays
    <3>. QED  BY <3>2, <3>3 DEF IInv
  <2>. QED  BY <2>1, <2>2
<1>4. QueueInv'
  BY <1>1, <1>2, <1>3, QueueKept
<1>5. TimerInv'
  BY <1>1, <1>2, TimersKept DEF IInv
<1>6. StreamInv'
  BY <1>1, <1>3 DEF IInv, StreamInv, LoopOf
<1>. QED  BY <1>1, <1>4, <1>5, <1>6 DEF IInv, OwnerInv

\* A close callback finds its stream closed and, while the broker runs, nothing
\* else that will connect it.
LEMMA CloseCbKept ==
  ASSUME IInv, NEW l \in Loop, CloseCb(l)
  PROVE  (QueueInv /\ TimerInv /\ StreamInv /\ OwnerInv)'
<1>. USE DEF loopVars
<1>1. PICK c : c = closeCb[l]
  OBVIOUS
<1>2. c \in Client /\ stream[c] = "closed" /\ LoopOf(c) = l /\ c < size
  <2>1. c \in Client /\ stream[c] = "closed" /\ LoopOf(c) = l
    BY <1>1 DEF CloseCb, IInv, TypeOK, StreamInv
  <2>2. size \in Nat /\ c \in Nat
    BY <2>1, Sizes, ClientsAssumption DEF IInv, Client
  <2>. QED  BY <2>1, <2>2 DEF IInv, StreamInv
<1>3. /\ closeCb' = [closeCb EXCEPT ![l] = None]
      /\ UNCHANGED <<ownerVars, posted, timerVars>> /\ UNCHANGED <<size, bStop>>
      /\ UNCHANGED stream \/ (~bStop /\ Connect(c))
  BY <1>1 DEF CloseCb, ownerVars
<1>4. Only(c) /\ (stream'[c] = "closed" \/ (~bStop /\ stream'[c] \in {"connecting", "noFd"}))
  <2>1. CASE UNCHANGED stream
    BY <1>2, <2>1 DEF Only
  <2>2. CASE ~bStop /\ Connect(c)
    BY <1>2, <2>2 DEF Only, Connect, IInv, TypeOK
  <2>. QED  BY <1>3, <2>1, <2>2
<1>5. QueueInv' /\ TimerInv' /\ OwnerInv'
  <2>1. CASE ~bStop
    <3>1. Quiet(posted, c)
      BY <1>2, <2>1, AliveIsQuiet
    <3>. QED  BY <1>2, <1>3, <1>4, <3>1, QuietStep
  <2>2. CASE bStop
    <3>1. \A d \in Client : StaysDead(d)
      BY <1>2, <1>4, <2>2 DEF Only, StaysDead
    <3>2. /\ UNCHANGED <<owner, size, bStop, posted, timer, idx>> /\ Order(posted') /\ QueueInv
          /\ size \in Nat /\ NClients \in Nat
      BY <1>3, Sizes DEF ownerVars, timerVars, IInv, QueueInv
    <3>3. \A n \in Loop : \A job \in JobsOf(posted, n) :
            job.op \in Connecting => job.client \in Client
      BY DEF IInv, QueueInv, Fits, Connecting
    <3>4. QueueInv'
      BY <3>1, <3>2, <3>3, QueueKept
    <3>5. \A t \in Timer : timer[t].active => idx[t] \in Client
      BY DEF IInv, TimerInv
    <3>6. TimerInv'
      BY <3>1, <3>2, <3>5, TimersKept DEF IInv
    <3>. QED  BY <3>2, <3>4, <3>6 DEF IInv, OwnerInv
  <2>. QED  BY <2>1, <2>2
<1>6. \A n \in Loop : closeCb'[n] # None =>
        stream'[closeCb'[n]] = "closed" /\ LoopOf(closeCb'[n]) = n
  <2>. SUFFICES ASSUME NEW n \in Loop, closeCb'[n] # None
                PROVE  stream'[closeCb'[n]] = "closed" /\ LoopOf(closeCb'[n]) = n
    OBVIOUS
  <2>1. PICK d : d = closeCb[n]
    OBVIOUS
  <2>2. n # l /\ closeCb'[n] = d
    BY <1>3, <2>1 DEF IInv, TypeOK
  <2>3. d \in Client /\ stream[d] = "closed" /\ LoopOf(d) = n
    BY <2>1, <2>2 DEF IInv, TypeOK, StreamInv
  <2>4. d # c
    BY <1>2, <2>2, <2>3
  <2>. QED  BY <1>4, <2>2, <2>3, <2>4 DEF Only
<1>7. StreamInv'
  BY <1>2, <1>3, <1>4, <1>6, StreamKept
<1>. QED  BY <1>5, <1>7

\* A timer that fires connects the client it was for, which nothing else will.
LEMMA TimerFires ==
  ASSUME IInv, NEW t \in Timer, OnTimer(t)
  PROVE  /\ idx[t] \in Client /\ idx[t] < size /\ stream[idx[t]] \in {"failed", "closed"}
         /\ closeCb[LoopOf(idx[t])] = None
<1>1. idx[t] \in Client /\ idx[t] < size /\ Retry(idx[t])
  BY DEF OnTimer, IInv, TimerInv
<1>2. stream[idx[t]] \notin {"closing", "aborting"} /\ closeCb[LoopOf(idx[t])] = None
  BY <1>1 DEF OnTimer, InLibuv
<1>. QED  BY <1>1, <1>2 DEF Retry

LEMMA OnTimerKept ==
  ASSUME IInv, NEW t \in Timer, OnTimer(t)
  PROVE  (QueueInv /\ TimerInv /\ StreamInv /\ OwnerInv)'
<1>. USE DEF loopVars, ownerVars
<1>1. PICK c : c = idx[t]
  OBVIOUS
<1>2. /\ c \in Client /\ c < size /\ stream[c] \in {"failed", "closed"}
      /\ closeCb[LoopOf(c)] = None /\ timer[t].active /\ timer[t].life = "open"
  BY <1>1, TimerFires DEF OnTimer, IInv, TimerInv
<1>3. /\ Only(c) /\ stream'[c] \in {"connecting", "noFd"}
      /\ UNCHANGED <<owner, size, bStop, closeCb, posted, idx>>
      /\ size \in Nat /\ NClients \in Nat
  BY <1>1, <1>2, Sizes DEF OnTimer, Connect, Only, IInv, TypeOK
<1>4. ~timer'[t].active /\ \A u \in Timer : u # t => timer'[u] = timer[u]
  <2>1. timer \in [Timer -> TimerType] /\ timer[t] \in TimerType
    BY DEF IInv, TypeOK
  <2>2. PICK x : x = Closed(Stopped(Fired(timer[t], TRUE)))
    OBVIOUS
  <2>3. ~x.active
    <3>1. x = [life |-> "closing", bStarted |-> FALSE, active |-> FALSE]
      BY <1>2, <2>1, <2>2, TimerTypes, Zenon
    <3>. QED  BY <3>1
  <2>4. timer' = [timer EXCEPT ![t] = x]
    BY <2>2 DEF OnTimer
  <2>. QED  BY <2>1, <2>3, <2>4
<1>5. \A d \in Client : d # c => StaysDead(d)
  BY <1>3 DEF Only, StaysDead
<1>6. QueueInv'
  <2>1. ASSUME NEW n \in Loop, NEW job \in JobsOf(posted, n), job.op \in Connecting
        PROVE  StaysDead(job.client)
    <3>1. Fits(n, job)
      BY DEF IInv, QueueInv
    <3>2. job.client \in Client /\ job.client # c
      BY <1>1, <1>2, <2>1, <3>1 DEF Fits, Connecting
    <3>. QED  BY <1>5, <3>2
  <2>2. QueueInv /\ Order(posted')
    BY <1>3 DEF IInv, QueueInv
  <2>3. \A u \in Timer : timer'[u].active => timer[u].active /\ idx'[u] = idx[u]
    BY <1>3, <1>4
  <2>. QED  BY <1>3, <2>1, <2>2, <2>3, QueueKept
<1>7. TimerInv'
  <2>1. ASSUME NEW u \in Timer, timer'[u].active
        PROVE  timer[u].active /\ timer'[u].life = timer[u].life /\ idx'[u] = idx[u] /\ StaysDead(idx[u])
    <3>1. u # t /\ timer'[u] = timer[u] /\ idx'[u] = idx[u]
      BY <1>3, <1>4, <2>1
    <3>2. idx[u] \in Client /\ idx[u] # c
      BY <1>1, <1>2, <2>1, <3>1 DEF IInv, TimerInv
    <3>. QED  BY <1>5, <2>1, <3>1, <3>2
  <2>. QED  BY <1>3, <2>1, TimersKept DEF IInv
<1>8. StreamInv'
  <2>1. \A n \in Loop : closeCb'[n] # None =>
          stream'[closeCb'[n]] = "closed" /\ LoopOf(closeCb'[n]) = n
    BY <1>2, <1>3, CallbacksKept
  <2>. QED  BY <1>2, <1>3, <2>1, StreamKept
<1>. QED  BY <1>3, <1>6, <1>7, <1>8 DEF IInv, OwnerInv

LEMMA OnTimerClosedKept ==
  ASSUME IInv, NEW t \in Timer, OnTimerClosed(t)
  PROVE  (QueueInv /\ TimerInv /\ StreamInv /\ OwnerInv)'
<1>. USE DEF loopVars, ownerVars, clientVars
<1>1. /\ UNCHANGED <<owner, size, bStop, closeCb, posted, stream>>
      /\ timer' = [timer EXCEPT ![t] = Deleted(@)] /\ idx' = [idx EXCEPT ![t] = None]
      /\ size \in Nat /\ NClients \in Nat /\ timer[t].life = "closing"
  BY Sizes DEF OnTimerClosed, IInv
<1>2. \A d : StaysDead(d)
  BY <1>1 DEF StaysDead
<1>3. ~timer'[t].active /\ \A u \in Timer : u # t => timer'[u] = timer[u] /\ idx'[u] = idx[u]
  <2>1. timer \in [Timer -> TimerType] /\ timer[t] \in TimerType /\ ~timer[t].active
        /\ idx \in [Timer -> Client \cup {None}]
    BY <1>1 DEF IInv, TypeOK, TimerInv
  <2>2. PICK x : x = Deleted(timer[t])
    OBVIOUS
  <2>3. ~x.active
    BY <2>1, <2>2, TimerTypes
  <2>4. timer' = [timer EXCEPT ![t] = x]
    BY <1>1, <2>2
  <2>. QED  BY <1>1, <2>1, <2>3, <2>4
<1>4. QueueInv'
  <2>1. QueueInv /\ Order(posted')
    BY <1>1 DEF IInv, QueueInv
  <2>2. \A u \in Timer : timer'[u].active => timer[u].active /\ idx'[u] = idx[u]
    BY <1>3
  <2>. QED  BY <1>1, <1>2, <2>1, <2>2, QueueKept
<1>5. TimerInv'
  <2>1. \A u \in Timer : timer'[u].active =>
          timer[u].active /\ timer'[u].life = timer[u].life /\ idx'[u] = idx[u]
    BY <1>3
  <2>. QED  BY <1>1, <1>2, <2>1, TimersKept DEF IInv
<1>6. StreamInv'
  BY <1>1 DEF IInv, StreamInv, LoopOf
<1>. QED  BY <1>1, <1>4, <1>5, <1>6 DEF IInv, OwnerInv

-----------------------------------------------------------------------------
(* The theorems.                                                           *)

\* Every step keeps the invariant.
LEMMA InvNext == IInv /\ [Next]_vars => IInv'
<1>. SUFFICES ASSUME IInv, [Next]_vars PROVE IInv'
  OBVIOUS
<1>1. TypeOK'
  <2>1. ActiveIsOpen
    BY DEF IInv, TimerInv, ActiveIsOpen
  <2>. QED  BY <2>1, TypeNext DEF IInv
<1>2. CASE OwnerStep \/ AddNode \/ Stop
  BY <1>1, <1>2, OwnerAlone, AddNodeKept, TellKept DEF OwnerStep, IInv
<1>3. CASE \E l \in Loop : RunLoop(l) \/ CloseCb(l) \/ RunPosted(l)
  BY <1>1, <1>3, RunStopKept, CloseCbKept, RunConnectKept, RunCloseKept, RunNewTimerKept
     DEF RunPosted, IInv
<1>4. CASE \E c \in Client : Connects(c) \/ ConnectionLost(c) \/ OnClose(c)
  BY <1>1, <1>4, ClientKept DEF IInv
<1>5. CASE \E t \in Timer : OnTimer(t) \/ OnTimerClosed(t)
  BY <1>1, <1>5, OnTimerKept, OnTimerClosedKept DEF IInv
<1>6. CASE UNCHANGED vars
  <2>1. /\ UNCHANGED <<owner, size, bStop, closeCb, posted, stream, timer, idx>>
        /\ size \in Nat /\ NClients \in Nat /\ QueueInv /\ TimerInv /\ Order(posted')
    BY <1>6, Sizes DEF vars, ownerVars, loopVars, clientVars, timerVars, IInv, QueueInv
  <2>2. \A d : StaysDead(d)
    BY <2>1 DEF StaysDead
  <2>3. QueueInv'
    BY <2>1, <2>2, QueueKept
  <2>4. TimerInv'
    BY <2>1, <2>2, TimersKept
  <2>. QED  BY <1>1, <2>1, <2>3, <2>4 DEF IInv, OwnerInv, StreamInv, LoopOf
<1>. QED  BY <1>2, <1>3, <1>4, <1>5, <1>6 DEF Next

\* The invariant always holds.
LEMMA Invariant == Spec => []IInv
BY InvInit, InvNext, PTL DEF Spec

\* Type correctness: the variables always hold values of their types; no timer is
\* deleted while libuv has its handle.
THEOREM TypeCorrect == Spec => []TypeOK
<1>1. IInv => TypeOK
  BY DEF IInv
<1>. QED  BY <1>1, Invariant, PTL

\* The first thing that happens to a client's handle is its connect: no close comes
\* to memory that uv_tcp_init has not set, however stop() races addNode's closures.
THEOREM ConnectsFirst == Spec => ClosesInitialised
<1>1. ASSUME IInv, Next, NEW c \in Client, stream[c] = "none"
      PROVE  stream'[c] \in {"none", "connecting", "noFd"}
  <2>1. stream \in [Client -> {"none", "connecting", "noFd", "open", "failed", "closing",
                               "aborting", "closed"}]
    BY <1>1 DEF IInv, TypeOK
  <2>2. ASSUME NEW d \in Client, Connect(d) PROVE stream'[c] \in {"none", "connecting", "noFd"}
    BY <1>1, <2>1, <2>2 DEF Connect
  <2>3. CASE UNCHANGED stream
    BY <1>1, <2>3
  <2>4. CASE OwnerStep \/ AddNode \/ Stop
    BY <2>3, <2>4 DEF OwnerStep, AddNode, Stop, Start, CloseSafe, AllTold, Clear, StopLoop,
                      JoinThreads, clientVars
  <2>5. ASSUME NEW l \in Loop, RunLoop(l) \/ RunNewTimer(l) \/ RunStop(l)
        PROVE  stream'[c] \in {"none", "connecting", "noFd"}
    BY <2>3, <2>5 DEF RunLoop, RunNewTimer, RunStop, clientVars
  <2>6. ASSUME NEW l \in Loop, CloseCb(l) PROVE stream'[c] \in {"none", "connecting", "noFd"}
    <3>1. closeCb[l] \in Client
      BY <1>1, <2>6 DEF CloseCb, IInv, TypeOK
    <3>. QED  BY <2>2, <2>3, <2>6, <3>1 DEF CloseCb
  <2>7. ASSUME NEW l \in Loop, RunConnect(l) PROVE stream'[c] \in {"none", "connecting", "noFd"}
    <3>1. PICK e : e = Head(posted[l])
      OBVIOUS
    <3>2. e.client \in Client
      <4>1. e.op = "connect" /\ Fits(l, e)
        BY <1>1, <2>7, <3>1, RunsKept DEF RunConnect
      <4>. QED  BY <4>1 DEF Fits
    <3>. QED  BY <2>2, <2>7, <3>1, <3>2 DEF RunConnect
  <2>8. ASSUME NEW l \in Loop, RunClose(l) PROVE stream'[c] \in {"none", "connecting", "noFd"}
    <3>1. PICK d : d = Head(posted[l]).client
      OBVIOUS
    <3>2. d \in Client /\ d # c
      <4>1. PICK e : e = Head(posted[l])
        OBVIOUS
      <4>2. e.client \in Client /\ stream[e.client] # "none"
        BY <1>1, <2>8, <4>1, CloseFindsStream DEF RunClose
      <4>. QED  BY <1>1, <3>1, <4>1, <4>2
    <3>. QED  BY <1>1, <2>1, <2>8, <3>1, <3>2 DEF RunClose, Close
  <2>9. ASSUME NEW d \in Client, Connects(d) \/ ConnectionLost(d) \/ OnClose(d)
        PROVE  stream'[c] \in {"none", "connecting", "noFd"}
    BY <1>1, <2>1, <2>9 DEF Connects, UvConnected, UvConnectFails, ConnectionLost, Close, OnClose
  <2>10. ASSUME NEW t \in Timer, OnTimer(t) \/ OnTimerClosed(t)
         PROVE  stream'[c] \in {"none", "connecting", "noFd"}
    <3>1. CASE OnTimer(t)
      BY <1>1, <2>2, <3>1, TimerFires DEF OnTimer
    <3>2. CASE OnTimerClosed(t)
      BY <2>3, <3>2 DEF OnTimerClosed, clientVars
    <3>. QED  BY <2>10, <3>1, <3>2
  <2>. QED  BY <1>1, <2>4, <2>5, <2>6, <2>7, <2>8, <2>9, <2>10 DEF Next, RunPosted
<1>2. IInv /\ [Next]_vars =>
        [\A c \in Client : stream[c] = "none" => stream'[c] \in {"none", "connecting", "noFd"}]_vars
  BY <1>1
<1>. QED  BY <1>2, Invariant, PTL DEF Spec, ClosesInitialised

\* At most one of the things that connect a client is due at a time, and only for a
\* stream that is not alive: no reconnect initialises a handle in use.
THEOREM ConnectsDead == Spec => ReconnectsDead
<1>1. ASSUME IInv, Next, NEW c \in Client,
             stream'[c] \in {"connecting", "noFd"}, stream'[c] # stream[c]
      PROVE  stream[c] \in {"none", "failed", "closed"}
  <2>1. stream \in [Client -> {"none", "connecting", "noFd", "open", "failed", "closing",
                               "aborting", "closed"}]
    BY <1>1 DEF IInv, TypeOK
  <2>2. ASSUME NEW d \in Client, Connect(d) PROVE c = d
    BY <1>1, <2>1, <2>2 DEF Connect
  <2>3. ~UNCHANGED stream
    BY <1>1
  <2>4. ASSUME NEW d \in Client, Close(d) PROVE FALSE
    BY <1>1, <2>1, <2>4 DEF Close
  <2>5. CASE OwnerStep \/ AddNode \/ Stop
    BY <2>3, <2>5 DEF OwnerStep, AddNode, Stop, Start, CloseSafe, AllTold, Clear, StopLoop,
                      JoinThreads, clientVars
  <2>6. ASSUME NEW l \in Loop, RunLoop(l) \/ RunNewTimer(l) \/ RunStop(l) PROVE FALSE
    BY <2>3, <2>6 DEF RunLoop, RunNewTimer, RunStop, clientVars
  <2>7. ASSUME NEW l \in Loop, CloseCb(l) PROVE stream[c] = "closed"
    <3>1. closeCb[l] \in Client /\ stream[closeCb[l]] = "closed"
      BY <1>1, <2>7 DEF CloseCb, IInv, TypeOK, StreamInv
    <3>. QED  BY <2>2, <2>3, <2>7, <3>1 DEF CloseCb
  <2>8. ASSUME NEW l \in Loop, RunConnect(l) PROVE stream[c] = "none"
    <3>1. PICK e : e = Head(posted[l])
      OBVIOUS
    <3>2. e.client \in Client /\ stream[e.client] = "none"
      <4>1. e.op = "connect" /\ Fits(l, e)
        BY <1>1, <2>8, <3>1, RunsKept DEF RunConnect
      <4>. QED  BY <4>1 DEF Fits
    <3>. QED  BY <2>2, <2>8, <3>1, <3>2 DEF RunConnect
  <2>9. ASSUME NEW l \in Loop, RunClose(l) PROVE FALSE
    <3>1. PICK e : e = Head(posted[l])
      OBVIOUS
    <3>2. e.client \in Client
      BY <1>1, <2>9, <3>1, CloseFindsStream DEF RunClose
    <3>. QED  BY <2>4, <2>9, <3>1, <3>2 DEF RunClose
  <2>10. ASSUME NEW d \in Client, Connects(d) \/ ConnectionLost(d) \/ OnClose(d) PROVE FALSE
    <3>1. CASE ConnectionLost(d)
      BY <2>4, <3>1 DEF ConnectionLost
    <3>2. CASE Connects(d) \/ OnClose(d)
      BY <1>1, <2>1, <3>2 DEF Connects, UvConnected, UvConnectFails, OnClose
    <3>. QED  BY <2>10, <3>1, <3>2
  <2>11. ASSUME NEW t \in Timer, OnTimer(t) \/ OnTimerClosed(t)
         PROVE  stream[c] \in {"failed", "closed"}
    <3>1. CASE OnTimer(t)
      BY <1>1, <2>2, <3>1, TimerFires DEF OnTimer
    <3>2. CASE OnTimerClosed(t)
      BY <2>3, <3>2 DEF OnTimerClosed, clientVars
    <3>. QED  BY <2>11, <3>1, <3>2
  <2>. QED  BY <1>1, <2>5, <2>6, <2>7, <2>8, <2>9, <2>10, <2>11 DEF Next, RunPosted
<1>2. IInv /\ [Next]_vars =>
        [\A c \in Client : stream'[c] \in {"connecting", "noFd"} /\ stream'[c] # stream[c] =>
           stream[c] \in {"none", "failed", "closed"}]_vars
  BY <1>1
<1>. QED  BY <1>2, Invariant, PTL DEF Spec, ReconnectsDead

\* Whatever stop(), the timers and the close callbacks do at the same time, no
\* handle is closed before connect() initialised it or initialised in use.
THEOREM HandlesAreHonoured == Spec => HandleContract
  BY ConnectsFirst, ConnectsDead DEF HandleContract

-----------------------------------------------------------------------------
(* While the broker runs, what connects a dead client exists.              *)

\* A client's callbacks are set while the broker runs; a retry of its failed connect
\* is handed over or armed, its close callback is about to be called.
Comes(c) ==
  /\ hasCb[c]
  /\ stream[c] = "failed" => Job("newTimer", c) \in JobsOf(posted, LoopOf(c)) \/ ~NoTimerFor(c)
  /\ stream[c] = "closed" => closeCb[LoopOf(c)] = c

ComingInv == ~bStop => \A c \in Client : c < size => Comes(c)

\* What a step leaves alone for a client.
LeavesAlone(c) ==
  /\ UNCHANGED <<hasCb[c], stream[c]>>
  /\ Job("newTimer", c) \in JobsOf(posted, LoopOf(c)) =>
       Job("newTimer", c) \in JobsOf(posted', LoopOf(c)) \/ ~NoTimerFor(c)'
  /\ \A t \in Timer : timer[t].active /\ idx[t] = c => timer'[t].active /\ idx'[t] = c
  /\ closeCb[LoopOf(c)] = c => closeCb'[LoopOf(c)] = c

\* Then what will connect it still does.
LEMMA ComesKept ==
  ASSUME NEW c \in Client, Comes(c), LeavesAlone(c)
  PROVE  Comes(c)'
<1>1. hasCb'[c] /\ stream'[c] = stream[c]
  BY DEF Comes, LeavesAlone
<1>2. ~NoTimerFor(c) => ~NoTimerFor(c)'
  BY DEF NoTimerFor, LeavesAlone
<1>3. stream'[c] = "failed" => Job("newTimer", c) \in JobsOf(posted', LoopOf(c)) \/ ~NoTimerFor(c)'
  BY <1>1, <1>2 DEF Comes, LeavesAlone
<1>4. stream'[c] = "closed" => closeCb'[LoopOf(c)] = c
  BY <1>1 DEF Comes, LeavesAlone
<1>. QED  BY <1>1, <1>3, <1>4 DEF Comes, LoopOf, Job

\* stop() stops the broker for good.
LEMMA StopsForGood == IInv /\ Next /\ ~bStop' => ~bStop
<1>. SUFFICES ASSUME IInv, Next, ~bStop' PROVE ~bStop
  OBVIOUS
<1>1. CASE Start
  BY <1>1 DEF Start, OwnerGoto, IInv, OwnerInv
<1>2. CASE OwnerStep \/ AddNode \/ Stop
  BY <1>1, <1>2 DEF OwnerStep, CloseSafe, AllTold, Clear, StopLoop, JoinThreads, AddNode, Stop
<1>3. CASE ~(OwnerStep \/ AddNode \/ Stop)
  BY <1>3 DEF Next, RunPosted, RunLoop, CloseCb, RunConnect, RunClose, RunNewTimer, RunStop,
              Connects, UvConnected, UvConnectFails, ConnectionLost, OnClose, OnTimer,
              OnTimerClosed, ownerVars
<1>. QED  BY <1>2, <1>3

\* The owner takes nothing away, and a node that it adds is not connected yet.
LEMMA OwnerComes ==
  ASSUME IInv, ComingInv, OwnerStep \/ AddNode \/ Stop, ~bStop'
  PROVE  ComingInv'
<1>. USE DEF loopVars, clientVars, timerVars
<1>1. ~bStop /\ ~CloseSafe /\ ~StopLoop /\ ~Stop
  BY DEF IInv, OwnerInv, Start, OwnerGoto, Stop, CloseSafe, StopLoop, AllTold, Clear,
         JoinThreads, AddNode, OwnerStep
<1>2. CASE AddNode
  <2>1. PICK n, e : n = size /\ e = Job("connect", n)
    OBVIOUS
  <2>2. /\ n \in Client /\ size' = n + 1 /\ LoopOf(n) \in Loop /\ size = n /\ n \in Nat
        /\ e \in JobType /\ Post(LoopOf(n), e) /\ UNCHANGED <<stream, closeCb, timer, idx>>
        /\ stream[n] = "none" /\ hasCb' = [hasCb EXCEPT ![n] = TRUE]
    BY <1>2, <2>1, Sizes, LoopOfType, JobIsJob DEF AddNode, IInv, StreamInv
  <2>3. \A l \in Loop : JobsOf(posted, l) \subseteq JobsOf(posted', l)
    <3>1. PICK p2 : p2 = posted'
      OBVIOUS
    <3>2. p2 = Appended(posted, LoopOf(n), e)
      BY <2>2, <3>1, Zenon DEF Post, Appended
    <3>3. posted \in [Loop -> Seq(JobType)]
      BY DEF IInv, TypeOK, JobType
    <3>4. /\ JobsOf(p2, LoopOf(n)) = JobsOf(posted, LoopOf(n)) \cup {e}
          /\ \A l \in Loop : l # LoopOf(n) => JobsOf(p2, l) = JobsOf(posted, l)
      BY <2>2, <3>2, <3>3, JobsAppend
    <3>. QED  BY <3>1, <3>4
  <2>4. ASSUME NEW c \in Client, c < size' PROVE Comes(c)'
    <3>1. CASE c = n
      <4>1. hasCb'[c] /\ stream'[c] = "none"
        BY <2>2, <3>1 DEF IInv, TypeOK
      <4>. QED  BY <4>1 DEF Comes
    <3>2. CASE c # n
      <4>1. c < size
        BY <2>2, <2>4, <3>2, ClientsAssumption DEF Client
      <4>2. LeavesAlone(c)
        BY <2>2, <2>3, <3>2, LoopOfType DEF LeavesAlone, IInv, TypeOK
      <4>. QED  BY <1>1, <4>1, <4>2, ComesKept DEF ComingInv
    <3>. QED  BY <3>1, <3>2
  <2>. QED  BY <2>4 DEF ComingInv
<1>3. CASE Start \/ AllTold \/ Clear \/ JoinThreads
  <2>1. UNCHANGED <<size, posted, closeCb, stream, hasCb, timer, idx>>
    BY <1>3 DEF Start, AllTold, Clear, JoinThreads
  <2>. QED  BY <1>1, <2>1, ComesKept DEF ComingInv, LeavesAlone
<1>. QED  BY <1>1, <1>2, <1>3 DEF OwnerStep

\* A step of the stream of c leaves the other clients alone, unless it ends a close
\* callback or arms or fires a timer.
LEMMA StreamComes ==
  ASSUME IInv, ComingInv, NEW c \in Client, Only(c), Comes(c)', ~bStop,
         UNCHANGED <<size, hasCb, timer, idx>>,
         \A d \in Client : d # c /\ Job("newTimer", d) \in JobsOf(posted, LoopOf(d)) =>
                            Job("newTimer", d) \in JobsOf(posted', LoopOf(d)),
         \A d \in Client : d # c /\ closeCb[LoopOf(d)] = d => closeCb'[LoopOf(d)] = d
  PROVE  ComingInv'
<1>1. ASSUME NEW d \in Client, d < size, d # c PROVE Comes(d)'
  <2>1. LeavesAlone(d)
    BY <1>1 DEF LeavesAlone, Only
  <2>. QED  BY <1>1, <2>1, ComesKept DEF ComingInv
<1>. QED  BY <1>1 DEF ComingInv

\* A connect that fails is handed over, a stream that is closed is called back.
LEMMA ClientComes ==
  ASSUME IInv, ComingInv, NEW c \in Client, Connects(c) \/ ConnectionLost(c) \/ OnClose(c), ~bStop'
  PROVE  ComingInv'
<1>. USE DEF loopVars, ownerVars, timerVars
<1>1. /\ UNCHANGED <<size, bStop, hasCb, timer, idx>> /\ ~bStop
      /\ closeCb[LoopOf(c)] = None /\ LoopOf(c) \in Loop
  BY LoopOfType DEF Connects, UvConnected, UvConnectFails, ConnectionLost, OnClose, PollsFor, InLibuv
<1>2. hasCb[c]
  <2>1. stream[c] # "none"
    BY DEF Connects, UvConnected, UvConnectFails, ConnectionLost, OnClose
  <2>2. c < size
    BY <2>1, Sizes, ClientsAssumption DEF IInv, StreamInv, Client
  <2>. QED  BY <1>1, <2>2 DEF ComingInv, Comes
<1>3. CASE UvConnected(c) \/ ConnectionLost(c)
  <2>1. /\ Only(c) /\ UNCHANGED <<posted, closeCb>> /\ stream'[c] \in {"open", "closing"}
    BY <1>3 DEF UvConnected, ConnectionLost, Close, IsClosing, Only, IInv, TypeOK
  <2>2. Comes(c)'
    BY <1>1, <1>2, <2>1 DEF Comes
  <2>. QED  BY <1>1, <2>1, <2>2, StreamComes
<1>4. CASE UvConnectFails(c)
  <2>1. PICK e : e = Job("newTimer", c)
    OBVIOUS
  <2>2. /\ Only(c) /\ UNCHANGED closeCb /\ stream'[c] = "failed"
        /\ e \in JobType /\ Post(LoopOf(c), e)
    BY <1>2, <1>4, <2>1, JobIsJob DEF UvConnectFails, OnConnectFails, Only, IInv, TypeOK
  <2>3. /\ e \in JobsOf(posted', LoopOf(c))
        /\ \A l \in Loop : JobsOf(posted, l) \subseteq JobsOf(posted', l)
    <3>1. PICK p2 : p2 = posted'
      OBVIOUS
    <3>2. p2 = Appended(posted, LoopOf(c), e)
      BY <2>2, <3>1, Zenon DEF Post, Appended
    <3>3. posted \in [Loop -> Seq(JobType)]
      BY DEF IInv, TypeOK, JobType
    <3>4. /\ JobsOf(p2, LoopOf(c)) = JobsOf(posted, LoopOf(c)) \cup {e}
          /\ \A l \in Loop : l # LoopOf(c) => JobsOf(p2, l) = JobsOf(posted, l)
      BY <1>1, <2>2, <3>2, <3>3, JobsAppend
    <3>. QED  BY <3>1, <3>4
  <2>4. Comes(c)'
    <3>1. Job("newTimer", c) \in JobsOf(posted', LoopOf(c))
      BY <2>1, <2>3
    <3>. QED  BY <1>1, <1>2, <2>2, <3>1 DEF Comes, Job, LoopOf
  <2>. QED  BY <1>1, <2>2, <2>3, <2>4, StreamComes, LoopOfType
<1>5. CASE OnClose(c)
  <2>1. stream[c] = "closing"
    BY <1>1, <1>5 DEF OnClose, IInv, StreamInv
  <2>2. /\ Only(c) /\ stream'[c] = "closed" /\ UNCHANGED posted
        /\ closeCb' = [closeCb EXCEPT ![LoopOf(c)] = c]
    BY <1>5, <2>1 DEF OnClose, Only, IInv, TypeOK
  <2>3. closeCb'[LoopOf(c)] = c
    BY <1>1, <2>2 DEF IInv, TypeOK
  <2>4. Comes(c)'
    BY <1>1, <1>2, <2>2, <2>3 DEF Comes, LoopOf
  <2>5. ASSUME NEW d \in Client, closeCb[LoopOf(d)] = d PROVE closeCb'[LoopOf(d)] = d
    <3>1. LoopOf(d) # LoopOf(c)
      BY <1>1, <2>5, NoneAssumption
    <3>. QED  BY <2>2, <2>5, <3>1, LoopOfType DEF IInv, TypeOK
  <2>. QED  BY <1>1, <2>2, <2>4, <2>5, StreamComes
<1>. QED  BY <1>3, <1>4, <1>5 DEF Connects

\* A job for another client or of another kind stays in its queue when a loop takes one.
LEMMA JobStays ==
  ASSUME NEW l \in Loop, NEW e, NEW c \in Client, NEW op \in {"newTimer", "close"},
         e.op # op \/ e.client # c,
         JobsOf(posted, l) = JobsOf(posted', l) \cup {e},
         \A n \in Loop : n # l => JobsOf(posted', n) = JobsOf(posted, n),
         Job(op, c) \in JobsOf(posted, LoopOf(c))
  PROVE  Job(op, c) \in JobsOf(posted', LoopOf(c))
<1>1. Job(op, c) # e
  BY JobIsJob
<1>2. CASE LoopOf(c) = l
  BY <1>1, <1>2
<1>3. CASE LoopOf(c) # l
  BY <1>3, LoopOfType
<1>. QED  BY <1>2, <1>3

\* A loop that takes a job or ends a close callback does with it what was due.
LEMMA LoopComes ==
  ASSUME IInv, ComingInv, NEW l \in Loop, RunLoop(l) \/ CloseCb(l) \/ RunPosted(l), ~bStop'
  PROVE  ComingInv'
<1>. USE DEF loopVars, ownerVars, timerVars, clientVars
<1>1. /\ UNCHANGED <<size, bStop>> /\ ~bStop
  BY DEF RunLoop, CloseCb, RunPosted, RunConnect, RunClose, RunNewTimer, RunStop
<1>2. CASE RunLoop(l)
  <2>1. UNCHANGED <<size, posted, closeCb, stream, hasCb, timer, idx>>
    BY <1>2 DEF RunLoop
  <2>. QED  BY <1>1, <2>1, ComesKept DEF ComingInv, LeavesAlone
<1>3. CASE CloseCb(l)
  <2>1. PICK c : c = closeCb[l]
    OBVIOUS
  <2>2. c \in Client /\ stream[c] = "closed" /\ LoopOf(c) = l /\ c < size
    <3>1. c \in Client /\ stream[c] = "closed" /\ LoopOf(c) = l
      BY <1>3, <2>1 DEF CloseCb, IInv, TypeOK, StreamInv
    <3>. QED  BY <3>1, Sizes, ClientsAssumption DEF IInv, StreamInv, Client
  <2>3. hasCb[c]
    BY <1>1, <2>2 DEF ComingInv, Comes
  <2>4. /\ closeCb' = [closeCb EXCEPT ![l] = None] /\ Connect(c)
        /\ UNCHANGED <<posted, hasCb, timer, idx>>
    BY <1>1, <1>3, <2>1, <2>3 DEF CloseCb
  <2>5. Only(c) /\ stream'[c] \in {"connecting", "noFd"}
    BY <2>2, <2>4 DEF Connect, Only, IInv, TypeOK
  <2>6. Comes(c)'
    BY <2>3, <2>4, <2>5 DEF Comes
  <2>7. ASSUME NEW d \in Client, d # c, closeCb[LoopOf(d)] = d PROVE closeCb'[LoopOf(d)] = d
    <3>1. LoopOf(d) # l
      BY <2>1, <2>7
    <3>. QED  BY <2>4, <2>7, <3>1, LoopOfType DEF IInv, TypeOK
  <2>. QED  BY <1>1, <2>2, <2>4, <2>5, <2>6, <2>7, StreamComes
<1>4. CASE RunConnect(l)
  <2>1. PICK e : e = Head(posted[l])
    OBVIOUS
  <2>2. /\ e.op = "connect" /\ Fits(l, e)
        /\ JobsOf(posted, l) = JobsOf(posted', l) \cup {e}
        /\ \A n \in Loop : n # l => JobsOf(posted', n) = JobsOf(posted, n)
    BY <1>4, <2>1, RunsKept DEF RunConnect
  <2>3. PICK c : c = e.client
    OBVIOUS
  <2>4. c \in Client /\ c < size
    BY <2>2, <2>3 DEF Fits
  <2>5. /\ Only(c) /\ stream'[c] \in {"connecting", "noFd"}
        /\ UNCHANGED <<closeCb, hasCb, timer, idx>>
    BY <1>4, <2>1, <2>3, <2>4 DEF RunConnect, Connect, Only, IInv, TypeOK
  <2>6. Comes(c)'
    BY <1>1, <2>4, <2>5 DEF ComingInv, Comes
  <2>7. \A d \in Client : Job("newTimer", d) \in JobsOf(posted, LoopOf(d)) =>
                            Job("newTimer", d) \in JobsOf(posted', LoopOf(d))
    BY <2>2, JobStays
  <2>. QED  BY <1>1, <2>4, <2>5, <2>6, <2>7, StreamComes
<1>5. CASE RunClose(l)
  BY <1>1, <1>5, CloseFindsStream DEF RunClose
<1>6. CASE RunNewTimer(l)
  <2>1. PICK e, s : e = Head(posted[l]) /\ s = (CHOOSE t \in Free : TRUE)
    OBVIOUS
  <2>2. /\ e.op = "newTimer" /\ Fits(l, e)
        /\ JobsOf(posted, l) = JobsOf(posted', l) \cup {e}
        /\ \A n \in Loop : n # l => JobsOf(posted', n) = JobsOf(posted, n)
    BY <1>6, <2>1, RunsKept DEF RunNewTimer
  <2>3. PICK c : c = e.client
    OBVIOUS
  <2>4. /\ s \in Free /\ UNCHANGED <<closeCb, stream, hasCb>>
        /\ timer' = [timer EXCEPT ![s] = Started(Constructed)]
        /\ idx' = [idx EXCEPT ![s] = c]
    BY <1>6, <2>1, <2>3 DEF RunNewTimer
  <2>5. /\ s \in Timer /\ timer'[s].active /\ idx'[s] = c /\ ~timer[s].active
        /\ \A t \in Timer : t # s => timer'[t] = timer[t] /\ idx'[t] = idx[t]
    <3>1. s \in Timer /\ timer[s].life # "open"
      BY <2>4 DEF Free
    <3>. QED  BY <2>4, <3>1, TimerTypes DEF IInv, TypeOK, TimerInv
  <2>6. ASSUME NEW d \in Client, d < size PROVE Comes(d)'
    <3>1. \A t \in Timer : timer[t].active /\ idx[t] = d => timer'[t].active /\ idx'[t] = d
      BY <2>5
    <3>2. Job("newTimer", d) \in JobsOf(posted, LoopOf(d)) =>
            Job("newTimer", d) \in JobsOf(posted', LoopOf(d)) \/ ~NoTimerFor(d)'
      <4>1. CASE d = c
        BY <2>5, <4>1 DEF NoTimerFor
      <4>2. CASE d # c
        BY <2>2, <2>3, <4>2, JobStays
      <4>. QED  BY <4>1, <4>2
    <3>3. LeavesAlone(d)
      BY <2>4, <3>1, <3>2 DEF LeavesAlone
    <3>. QED  BY <1>1, <2>6, <3>3, ComesKept DEF ComingInv
  <2>. QED  BY <1>1, <2>6 DEF ComingInv
<1>7. CASE RunStop(l)
  <2>1. PICK e : e = Head(posted[l])
    OBVIOUS
  <2>2. /\ e.op = "stop"
        /\ JobsOf(posted, l) = JobsOf(posted', l) \cup {e}
        /\ \A n \in Loop : n # l => JobsOf(posted', n) = JobsOf(posted, n)
    BY <1>7, <2>1, RunsKept DEF RunStop
  <2>3. \A d \in Client : Job("newTimer", d) \in JobsOf(posted, LoopOf(d)) =>
                            Job("newTimer", d) \in JobsOf(posted', LoopOf(d))
    BY <2>2, JobStays
  <2>4. UNCHANGED <<closeCb, stream, hasCb, timer, idx>>
    BY <1>7 DEF RunStop
  <2>. QED  BY <1>1, <2>3, <2>4, ComesKept DEF ComingInv, LeavesAlone
<1>. QED  BY <1>2, <1>3, <1>4, <1>5, <1>6, <1>7 DEF RunPosted

\* A timer fires for a client that it connects; closed, it was not armed.
LEMMA TimerComes ==
  ASSUME IInv, ComingInv, NEW t \in Timer, OnTimer(t) \/ OnTimerClosed(t), ~bStop'
  PROVE  ComingInv'
<1>. USE DEF loopVars, ownerVars, clientVars
<1>1. /\ UNCHANGED <<size, bStop, closeCb, posted, hasCb>> /\ ~bStop
  <2>1. CASE OnTimer(t)
    BY <2>1 DEF OnTimer
  <2>2. CASE OnTimerClosed(t)
    BY <2>2 DEF OnTimerClosed
  <2>. QED  BY <2>1, <2>2
<1>2. \A u \in Timer : u # t => timer'[u] = timer[u] /\ idx'[u] = idx[u]
  BY DEF OnTimer, OnTimerClosed, IInv, TypeOK
<1>3. ASSUME NEW d \in Client, d < size, stream'[d] = stream[d], timer[t].active => idx[t] # d
      PROVE  Comes(d)'
  <2>1. LeavesAlone(d)
    BY <1>1, <1>2, <1>3 DEF LeavesAlone
  <2>. QED  BY <1>1, <1>3, <2>1, ComesKept DEF ComingInv
<1>4. CASE OnTimer(t)
  <2>1. PICK c : c = idx[t]
    OBVIOUS
  <2>2. c \in Client /\ c < size /\ Connect(c)
    BY <1>4, <2>1, TimerFires DEF OnTimer
  <2>3. Only(c) /\ stream'[c] \in {"connecting", "noFd"}
    BY <2>2 DEF Connect, Only, IInv, TypeOK
  <2>4. Comes(c)'
    BY <1>1, <2>2, <2>3 DEF ComingInv, Comes
  <2>. QED  BY <1>1, <1>3, <2>1, <2>3, <2>4 DEF ComingInv, Only
<1>5. CASE OnTimerClosed(t)
  <2>1. ~timer[t].active /\ UNCHANGED stream
    BY <1>5 DEF OnTimerClosed, IInv, TimerInv
  <2>. QED  BY <1>1, <1>3, <2>1 DEF ComingInv
<1>. QED  BY <1>4, <1>5

\* Every step keeps what will connect the clients.
LEMMA ComingNext == IInv /\ ComingInv /\ [Next]_vars => ComingInv'
<1>. SUFFICES ASSUME IInv, ComingInv, [Next]_vars, ~bStop' PROVE ComingInv'
  BY DEF ComingInv
<1>1. CASE OwnerStep \/ AddNode \/ Stop
  BY <1>1, OwnerComes
<1>2. CASE UNCHANGED vars
  <2>1. UNCHANGED <<size, bStop, posted, closeCb, stream, hasCb, timer, idx>>
    BY <1>2 DEF vars, ownerVars, loopVars, clientVars, timerVars
  <2>. QED  BY <2>1, ComesKept DEF ComingInv, LeavesAlone
<1>. QED  BY <1>1, <1>2, ClientComes, LoopComes, TimerComes DEF Next

\* What connects the clients is there at first, and always.
LEMMA ComingAlways == Spec => []ComingInv
<1>1. Init => ComingInv
  BY DEF Init, ComingInv, Client
<1>. QED  BY <1>1, ComingNext, Invariant, PTL DEF Spec

-----------------------------------------------------------------------------
(* Each client's way to connect.                                           *)

\* A client that nothing connects has no way, whichever loop it is on.
LEMMA QuietHasNoWay ==
  ASSUME NEW c \in Client, Quiet(posted, c), CalledBack(c) = {}
  PROVE  Ways(c) = {}
<1>1. HandedOver(c) = {}
  BY LoopOfType DEF Quiet, NoConnectIn, JobsOf, Connecting, HandedOver
<1>2. Armed(c) = {}
  BY DEF Quiet, NoTimerFor, Armed
<1>. QED  BY <1>1, <1>2 DEF Ways

\* A close callback finds its client closed, and on its own loop.
LEMMA CalledBackClosed ==
  ASSUME IInv, NEW c \in Client, NEW l \in CalledBack(c)
  PROVE  stream[c] = "closed" /\ l = LoopOf(c)
<1>1. l \in Loop /\ closeCb[l] = c /\ closeCb[l] # None
  BY NoneAssumption DEF CalledBack
<1>. QED  BY <1>1 DEF IInv, StreamInv

\* Of the closures handed over for a client at most one connects it, and no timer
\* is armed for it beside a retry.
LEMMA HandedOverOnce ==
  ASSUME IInv, NEW c \in Client, NEW i \in HandedOver(c)
  PROVE  /\ HandedOver(c) = {i}
         /\ posted[LoopOf(c)][i].op = "connect" => stream[c] = "none"
         /\ posted[LoopOf(c)][i].op = "newTimer" => Retry(c) /\ Armed(c) = {}
<1>1. PICK l, q : l = LoopOf(c) /\ q = posted[l]
  OBVIOUS
<1>2. /\ l \in Loop /\ i \in 1..Len(q) /\ q[i].client = c /\ q[i].op \in Connecting
      /\ Len(q) \in Nat
  BY <1>1, LoopOfType DEF HandedOver, Connecting, IInv, TypeOK
<1>3. ASSUME NEW j \in HandedOver(c) PROVE j = i
  <2>1. j \in 1..Len(q) /\ q[j].client = c /\ q[j].op \in Connecting
    BY <1>1, <1>3 DEF HandedOver, Connecting
  <2>2. ~(i < j) /\ ~(j < i)
    BY <1>1, <1>2, <2>1 DEF IInv, QueueInv, Order
  <2>. QED  BY <1>2, <2>1, <2>2
<1>4. q[i] \in JobsOf(posted, l)
  BY <1>1, <1>2 DEF JobsOf
<1>5. Fits(l, q[i])
  BY <1>2, <1>4 DEF IInv, QueueInv
<1>6. /\ q[i].op = "connect" => stream[c] = "none"
      /\ q[i].op = "newTimer" => Retry(c) /\ \A t \in Timer : timer[t].active => idx[t] # c
  BY <1>2, <1>5 DEF Fits
<1>7. q[i].op = "newTimer" => Armed(c) = {}
  BY <1>6 DEF Armed
<1>. QED  BY <1>1, <1>3, <1>6, <1>7

\* A job for a client in the queue of its loop is among those handed over.
LEMMA JobIsHandedOver ==
  ASSUME NEW c \in Client, NEW op \in Connecting, Job(op, c) \in JobsOf(posted, LoopOf(c))
  PROVE  \E i \in HandedOver(c) : posted[LoopOf(c)][i].op = op
<1>1. PICK i \in 1..Len(posted[LoopOf(c)]) : posted[LoopOf(c)][i] = Job(op, c)
  BY DEF JobsOf
<1>2. posted[LoopOf(c)][i].op = op /\ posted[LoopOf(c)][i].client = c
  BY <1>1 DEF Job
<1>. QED  BY <1>2 DEF HandedOver, Connecting

\* While the broker runs, exactly one thing will connect a dead client, and nothing
\* one that is alive.
LEMMA OneWay ==
  ASSUME IInv, ComingInv, ~bStop, NEW c \in Client, c < size
  PROVE  IF stream[c] \in {"none", "failed", "closed"}
         THEN \E w \in Ways(c) : Ways(c) = {w}
         ELSE Ways(c) = {}
<1>1. Comes(c)
  BY DEF ComingInv
<1>2. stream[c] # "closed" => CalledBack(c) = {}
  BY CalledBackClosed
<1>3. stream[c] # "failed" => Armed(c) = {}
  BY DEF Armed, IInv, TimerInv, Retry
<1>4. CASE stream[c] = "none"
  <2>1. PICK i \in HandedOver(c) : posted[LoopOf(c)][i].op = "connect"
    BY <1>4, JobIsHandedOver DEF IInv, StreamInv, Connecting
  <2>2. HandedOver(c) = {i}
    BY <2>1, HandedOverOnce
  <2>3. Ways(c) = {<<"posted", i>>}
    BY <1>2, <1>3, <1>4, <2>2 DEF Ways
  <2>. QED  BY <1>4, <2>3
<1>5. CASE stream[c] = "failed"
  <2>1. CASE HandedOver(c) # {}
    <3>1. PICK i : i \in HandedOver(c)
      BY <2>1
    <3>2. HandedOver(c) = {i} /\ Armed(c) = {}
      BY <1>5, <3>1, HandedOverOnce DEF HandedOver
    <3>3. Ways(c) = {<<"posted", i>>}
      BY <1>2, <1>5, <3>2 DEF Ways
    <3>. QED  BY <1>5, <3>3
  <2>2. CASE HandedOver(c) = {}
    <3>1. ~NoTimerFor(c)
      BY <1>1, <1>5, <2>2, JobIsHandedOver DEF Comes, Connecting
    <3>2. PICK t \in Timer : timer[t].active /\ idx[t] = c
      BY <3>1 DEF NoTimerFor
    <3>3. Armed(c) = {t}
      BY <3>2 DEF Armed, IInv, TimerInv
    <3>4. Ways(c) = {<<"timer", t>>}
      BY <1>2, <1>5, <2>2, <3>3 DEF Ways
    <3>. QED  BY <1>5, <3>4
  <2>. QED  BY <2>1, <2>2
<1>6. CASE stream[c] = "closed"
  <2>1. CalledBack(c) = {LoopOf(c)}
    BY <1>1, <1>6, CalledBackClosed, LoopOfType DEF Comes, CalledBack
  <2>2. HandedOver(c) = {}
    <3>1. Quiet(posted, c)
      BY <1>6, AliveIsQuiet
    <3>. QED  BY <3>1, LoopOfType DEF Quiet, NoConnectIn, JobsOf, Connecting, HandedOver
  <2>3. Ways(c) = {<<"closeCb", LoopOf(c)>>}
    BY <1>3, <1>6, <2>1, <2>2 DEF Ways
  <2>. QED  BY <1>6, <2>3
<1>7. CASE stream[c] \notin {"none", "failed", "closed"}
  <2>1. Quiet(posted, c)
    BY <1>7, AliveIsQuiet DEF Dead
  <2>. QED  BY <1>2, <1>7, <2>1, QuietHasNoWay
<1>. QED  BY <1>4, <1>5, <1>6, <1>7

\* Over all the hand-overs between a client's stream, its loop's queue, the timer and
\* the close callback no client is forgotten and none is connected twice: the safety
\* that LostIsReconnected rests on.
THEOREM ClientsReconnectOnce == Spec => []ReconnectsOnce
<1>1. IInv /\ ComingInv => ReconnectsOnce
  <2>. SUFFICES ASSUME IInv, ComingInv, ~bStop, NEW c \in 0..(size - 1)
                PROVE  IF stream[c] \in {"none", "failed", "closed"}
                       THEN \E w \in Ways(c) : Ways(c) = {w}
                       ELSE Ways(c) = {}
    BY DEF ReconnectsOnce
  <2>1. c \in Client /\ c < size
    BY Sizes, ClientsAssumption DEF IInv, Client
  <2>. QED  BY <2>1, OneWay
<1>. QED  BY <1>1, Invariant, ComingAlways, PTL

-----------------------------------------------------------------------------
(* The closes that stop() waits for.                                       *)

\* stop() has handed the close of c over, and waits or will wait for it.
Told(c) == c < size /\ (owner = "waiting" \/ (owner = "closing" /\ c < next))

\* The close of c is done, under way in libuv, or in the queue of its loop.
Closes(c) ==
  \/ bClosed[c]
  \/ stream[c] \in {"closing", "aborting"}
  \/ Job("close", c) \in JobsOf(posted, LoopOf(c))

NoStopFor(l) == status[l] # "Stop" /\ \A job \in JobsOf(posted, l) : job.op # "stop"

ClosesInv ==
  /\ \A c \in Client : stream[c] = "closed" => bClosed[c]
  /\ Cleared \/ \A l \in Loop : NoStopFor(l)
  /\ \A c \in Client : Told(c) => Closes(c)

\* What the owner does to the queues and to the state of a loop.
LEMMA OwnerCloses ==
  ASSUME IInv, ClosesInv, OwnerStep \/ AddNode \/ Stop
  PROVE  ClosesInv'
<1>. USE DEF loopVars, clientVars, timerVars
<1>1. /\ UNCHANGED <<stream, bClosed, status>>
      /\ size \in Nat /\ size <= NClients /\ NClients \in Nat /\ next \in Nat
      /\ posted \in [Loop -> Seq(JobType)]
  BY Sizes DEF OwnerStep, AddNode, Stop, Start, CloseSafe, AllTold, Clear, StopLoop, JoinThreads,
               IInv, TypeOK, JobType
<1>2. \A c \in Client : stream'[c] = "closed" => bClosed'[c]
  BY <1>1 DEF ClosesInv
\* A job other than `stop' is handed over.
<1>3. ASSUME NEW n \in Client, NEW op \in {"connect", "close"}, Post(LoopOf(n), Job(op, n))
      PROVE  /\ \A l \in Loop : JobsOf(posted, l) \subseteq JobsOf(posted', l)
             /\ Job(op, n) \in JobsOf(posted', LoopOf(n))
             /\ \A l \in Loop : NoStopFor(l) => NoStopFor(l)'
  <2>1. PICK p2, e : p2 = posted' /\ e = Job(op, n)
    OBVIOUS
  <2>2. p2 = Appended(posted, LoopOf(n), e) /\ e \in JobType /\ e.op # "stop" /\ LoopOf(n) \in Loop
    <3>1. p2 = Appended(posted, LoopOf(n), e)
      BY <1>3, <2>1, Zenon DEF Post, Appended
    <3>. QED  BY <2>1, <3>1, JobIsJob, LoopOfType
  <2>3. /\ JobsOf(p2, LoopOf(n)) = JobsOf(posted, LoopOf(n)) \cup {e}
        /\ \A l \in Loop : l # LoopOf(n) => JobsOf(p2, l) = JobsOf(posted, l)
    BY <1>1, <2>2, JobsAppend
  <2>4. \A l \in Loop : NoStopFor(l) => NoStopFor(l)'
    BY <1>1, <2>1, <2>2, <2>3 DEF NoStopFor
  <2>. QED  BY <2>1, <2>2, <2>3, <2>4
<1>4. CASE Start \/ Stop \/ AllTold \/ Clear \/ JoinThreads
  <2>1. UNCHANGED <<size, posted>>
    BY <1>4 DEF Start, Stop, AllTold, Clear, JoinThreads
  <2>2. Cleared' \/ \A l \in Loop : NoStopFor(l)'
    BY <1>1, <1>4, <2>1 DEF ClosesInv, Cleared, NoStopFor, Start, Stop, AllTold, Clear, JoinThreads,
                            OwnerGoto
  <2>3. ASSUME NEW c \in Client, Told(c)' PROVE Closes(c)'
    <3>1. c \in Nat
      BY ClientsAssumption DEF Client
    <3>2. Told(c)
      BY <1>1, <1>4, <2>1, <2>3, <3>1 DEF Told, Start, Stop, AllTold, Clear, JoinThreads, OwnerGoto
    <3>3. Closes(c)
      BY <3>2 DEF ClosesInv
    <3>. QED  BY <1>1, <2>1, <3>3 DEF Closes, LoopOf, Job
  <2>. QED  BY <1>2, <2>2, <2>3 DEF ClosesInv
<1>5. CASE AddNode
  <2>1. size \in Client /\ Post(LoopOf(size), Job("connect", size)) /\ UNCHANGED <<owner, next>> /\ owner = "up"
    BY <1>5 DEF AddNode
  <2>2. \A c \in Client : ~Told(c)'
    BY <2>1 DEF Told
  <2>3. Cleared' \/ \A l \in Loop : NoStopFor(l)'
    BY <1>3, <2>1 DEF ClosesInv, Cleared
  <2>. QED  BY <1>2, <2>2, <2>3 DEF ClosesInv
<1>6. CASE CloseSafe
  <2>1. /\ next \in Client /\ Post(LoopOf(next), Job("close", next)) /\ UNCHANGED <<owner, size>>
        /\ next' = next + 1
    BY <1>1, <1>6, ClientsAssumption DEF CloseSafe, Client
  <2>2. /\ \A l \in Loop : JobsOf(posted, l) \subseteq JobsOf(posted', l)
        /\ Job("close", next) \in JobsOf(posted', LoopOf(next))
        /\ \A l \in Loop : NoStopFor(l) => NoStopFor(l)'
    BY <1>3, <2>1
  <2>3. ASSUME NEW c \in Client, Told(c)' PROVE Closes(c)'
    <3>1. CASE c = next
      BY <2>2, <3>1 DEF Closes, LoopOf, Job
    <3>2. CASE c # next
      <4>1. c \in Nat
        BY ClientsAssumption DEF Client
      <4>2. Told(c)
        BY <1>1, <2>1, <2>3, <3>2, <4>1 DEF Told
      <4>3. Closes(c)
        BY <4>2 DEF ClosesInv
      <4>. QED  BY <1>1, <2>2, <4>3, LoopOfType DEF Closes, LoopOf, Job
    <3>. QED  BY <3>1, <3>2
  <2>4. Cleared' \/ \A l \in Loop : NoStopFor(l)'
    BY <2>1, <2>2 DEF ClosesInv, Cleared
  <2>. QED  BY <1>2, <2>3, <2>4 DEF ClosesInv
<1>7. CASE StopLoop
  BY <1>2, <1>7 DEF StopLoop, ClosesInv, Cleared, Told
<1>. QED  BY <1>4, <1>5, <1>6, <1>7 DEF OwnerStep

\* The streams do not lose a close: what connects again has been closed.
LEMMA StreamCloses ==
  ASSUME IInv, ClosesInv, NEW c \in Client, Only(c), UNCHANGED <<ownerVars, status>>,
         \A d \in Client : bClosed[d] => bClosed'[d],
         \A l \in Loop : NoStopFor(l) => NoStopFor(l)',
         \A d \in Client : d # c /\ Job("close", d) \in JobsOf(posted, LoopOf(d)) =>
                            Job("close", d) \in JobsOf(posted', LoopOf(d)),
         stream'[c] = "closed" => bClosed'[c],
         Closes(c) => Closes(c)'
  PROVE  ClosesInv'
<1>1. ASSUME NEW d \in Client, Told(d) PROVE Closes(d)'
  <2>1. Closes(d)
    BY <1>1 DEF ClosesInv
  <2>2. CASE d # c
    BY <2>1, <2>2 DEF Closes, Only, LoopOf, Job
  <2>. QED  BY <2>1, <2>2
<1>2. \A d \in Client : stream'[d] = "closed" => bClosed'[d]
  BY DEF ClosesInv, Only
<1>3. Cleared' \/ \A l \in Loop : NoStopFor(l)'
  BY DEF ClosesInv, Cleared, ownerVars
<1>4. \A d \in Client : Told(d)' => Told(d)
  BY DEF Told, ownerVars
<1>. QED  BY <1>1, <1>2, <1>3, <1>4 DEF ClosesInv

\* libuv closes a stream only after its close, and setClosed comes with it.
LEMMA ClientCloses ==
  ASSUME IInv, ClosesInv, NEW c \in Client, Connects(c) \/ ConnectionLost(c) \/ OnClose(c)
  PROVE  ClosesInv'
<1>. USE DEF loopVars
<1>1. UNCHANGED <<ownerVars, status>> /\ LoopOf(c) \in Loop
  BY LoopOfType DEF Connects, UvConnected, UvConnectFails, ConnectionLost, OnClose
<1>2. /\ \A l \in Loop : JobsOf(posted, l) \subseteq JobsOf(posted', l)
      /\ \A l \in Loop : NoStopFor(l) => NoStopFor(l)'
  <2>1. CASE UNCHANGED posted
    BY <1>1, <2>1 DEF NoStopFor
  <2>2. CASE Post(LoopOf(c), Job("newTimer", c))
    <3>1. PICK p2, e : p2 = posted' /\ e = Job("newTimer", c)
      OBVIOUS
    <3>2. p2 = Appended(posted, LoopOf(c), e)
      BY <2>2, <3>1, Zenon DEF Post, Appended
    <3>3. e \in JobType /\ e.op # "stop" /\ posted \in [Loop -> Seq(JobType)]
      BY <3>1, JobIsJob DEF IInv, TypeOK, JobType
    <3>4. /\ JobsOf(p2, LoopOf(c)) = JobsOf(posted, LoopOf(c)) \cup {e}
          /\ \A l \in Loop : l # LoopOf(c) => JobsOf(p2, l) = JobsOf(posted, l)
      BY <1>1, <3>2, <3>3, JobsAppend
    <3>. QED  BY <1>1, <3>1, <3>3, <3>4 DEF NoStopFor
  <2>3. UNCHANGED posted \/ Post(LoopOf(c), Job("newTimer", c))
    BY DEF Connects, UvConnected, UvConnectFails, ConnectionLost, OnClose, OnConnectFails
  <2>. QED  BY <2>1, <2>2, <2>3
<1>3. \A d \in Client : Job("close", d) \in JobsOf(posted, LoopOf(d)) =>
                         Job("close", d) \in JobsOf(posted', LoopOf(d))
  BY <1>2, LoopOfType
<1>4. CASE Connects(c)
  <2>1. /\ Only(c) /\ UNCHANGED bClosed /\ stream[c] = "connecting" /\ stream'[c] \in {"open", "failed"}
    BY <1>4 DEF Connects, UvConnected, UvConnectFails, Only, IInv, TypeOK
  <2>2. Closes(c) => Closes(c)'
    BY <1>3, <2>1 DEF Closes, LoopOf, Job
  <2>. QED  BY <1>1, <1>2, <1>3, <2>1, <2>2, StreamCloses
<1>5. CASE ConnectionLost(c)
  <2>1. /\ Only(c) /\ UNCHANGED bClosed /\ stream'[c] = "closing"
    BY <1>5 DEF ConnectionLost, Close, IsClosing, Only, IInv, TypeOK
  <2>2. Closes(c)'
    BY <2>1 DEF Closes
  <2>. QED  BY <1>1, <1>2, <1>3, <2>1, <2>2, StreamCloses
<1>6. CASE OnClose(c)
  <2>1. /\ Only(c) /\ bClosed'[c] /\ \A d \in Client : bClosed[d] => bClosed'[d]
    BY <1>6 DEF OnClose, Only, IInv, TypeOK
  <2>2. Closes(c)'
    BY <2>1 DEF Closes
  <2>. QED  BY <1>1, <1>2, <1>3, <2>1, <2>2, StreamCloses
<1>. QED  BY <1>4, <1>5, <1>6

\* A loop that takes a close closes the stream, whatever it was doing.
LEMMA LoopCloses ==
  ASSUME IInv, ClosesInv, NEW l \in Loop, RunLoop(l) \/ CloseCb(l) \/ RunPosted(l)
  PROVE  ClosesInv'
<1>. USE DEF loopVars, timerVars, clientVars
<1>1. UNCHANGED <<ownerVars, bClosed>>
  BY DEF RunLoop, CloseCb, RunPosted, RunConnect, RunClose, RunNewTimer, RunStop
\* No client's stream is touched.
<1>2. ASSUME UNCHANGED <<stream, bClosed>>, \A n \in Loop : NoStopFor(n) => NoStopFor(n)',
             \A d \in Client : Job("close", d) \in JobsOf(posted, LoopOf(d)) =>
                                Job("close", d) \in JobsOf(posted', LoopOf(d))
      PROVE  ClosesInv'
  <2>1. \A d \in Client : Closes(d) => Closes(d)'
    BY <1>2 DEF Closes, LoopOf, Job
  <2>. QED  BY <1>1, <1>2, <2>1 DEF ClosesInv, Told, Cleared, ownerVars
<1>3. CASE RunLoop(l)
  <2>1. \A n \in Loop : NoStopFor(n) => NoStopFor(n)'
    BY <1>3 DEF RunLoop, NoStopFor, IInv, TypeOK
  <2>. QED  BY <1>2, <1>3, <2>1 DEF RunLoop
<1>4. CASE CloseCb(l)
  <2>1. PICK c : c = closeCb[l]
    OBVIOUS
  <2>2. c \in Client /\ stream[c] = "closed"
    BY <1>4, <2>1 DEF CloseCb, IInv, TypeOK, StreamInv
  <2>3. /\ UNCHANGED <<status, posted>>
        /\ UNCHANGED stream \/ Connect(c)
    BY <1>4, <2>1 DEF CloseCb
  <2>4. Only(c)
    <3>1. CASE UNCHANGED stream
      BY <3>1 DEF Only
    <3>2. CASE Connect(c)
      BY <2>2, <3>2 DEF Only, Connect, IInv, TypeOK
    <3>. QED  BY <2>3, <3>1, <3>2
  <2>5. bClosed[c]
    BY <2>2 DEF ClosesInv
  <2>6. \A n \in Loop : NoStopFor(n) => NoStopFor(n)'
    BY <2>3 DEF NoStopFor
  <2>7. Closes(c)'
    BY <1>1, <2>5 DEF Closes
  <2>. QED  BY <1>1, <2>2, <2>3, <2>4, <2>5, <2>6, <2>7, StreamCloses
<1>5. ASSUME NEW op, Runs(l, op)
      PROVE  \E e : /\ e = Head(posted[l]) /\ e.op = op /\ Fits(l, e)
                    /\ JobsOf(posted, l) = JobsOf(posted', l) \cup {e}
                    /\ \A n \in Loop : n # l => JobsOf(posted', n) = JobsOf(posted, n)
  BY <1>5, RunsKept
<1>6. CASE RunConnect(l)
  <2>1. PICK e : /\ e = Head(posted[l]) /\ e.op = "connect" /\ Fits(l, e)
                 /\ JobsOf(posted, l) = JobsOf(posted', l) \cup {e}
                 /\ \A n \in Loop : n # l => JobsOf(posted', n) = JobsOf(posted, n)
    BY <1>5, <1>6 DEF RunConnect
  <2>2. PICK c : c = e.client
    OBVIOUS
  <2>3. c \in Client /\ stream[c] = "none"
    BY <2>1, <2>2 DEF Fits
  <2>4. Only(c) /\ stream'[c] \in {"connecting", "noFd"} /\ UNCHANGED status
    BY <1>6, <2>1, <2>2, <2>3 DEF RunConnect, Connect, Only, IInv, TypeOK
  <2>5. \A d \in Client : Job("close", d) \in JobsOf(posted, LoopOf(d)) =>
                            Job("close", d) \in JobsOf(posted', LoopOf(d))
    BY <2>1, JobStays
  <2>6. \A n \in Loop : NoStopFor(n) => NoStopFor(n)'
    BY <2>1, <2>4 DEF NoStopFor
  <2>7. Closes(c) => Closes(c)'
    BY <1>1, <2>3, <2>5 DEF Closes, LoopOf, Job
  <2>. QED  BY <1>1, <2>3, <2>4, <2>5, <2>6, <2>7, StreamCloses
<1>7. CASE RunClose(l)
  <2>1. PICK e : /\ e = Head(posted[l]) /\ e.op = "close" /\ Fits(l, e)
                 /\ JobsOf(posted, l) = JobsOf(posted', l) \cup {e}
                 /\ \A n \in Loop : n # l => JobsOf(posted', n) = JobsOf(posted, n)
    BY <1>5, <1>7 DEF RunClose
  <2>2. PICK c : c = e.client
    OBVIOUS
  <2>3. c \in Client
    BY <2>1, <2>2 DEF Fits
  <2>4. /\ Only(c) /\ stream'[c] \in {"closing", "aborting", "closed"} /\ UNCHANGED status
        /\ stream'[c] = "closed" => stream[c] = "closed"
    BY <1>7, <2>1, <2>2, <2>3 DEF RunClose, Close, IsClosing, Only, IInv, TypeOK
  <2>5. \A d \in Client : d # c /\ Job("close", d) \in JobsOf(posted, LoopOf(d)) =>
                            Job("close", d) \in JobsOf(posted', LoopOf(d))
    BY <2>1, <2>2, JobStays
  <2>6. \A n \in Loop : NoStopFor(n) => NoStopFor(n)'
    BY <2>1, <2>4 DEF NoStopFor
  <2>7. (stream'[c] = "closed" => bClosed'[c]) /\ Closes(c)'
    BY <1>1, <2>3, <2>4 DEF ClosesInv, Closes
  <2>. QED  BY <1>1, <2>3, <2>4, <2>5, <2>6, <2>7, StreamCloses
<1>8. CASE RunNewTimer(l)
  <2>1. PICK e : /\ e.op = "newTimer"
                 /\ JobsOf(posted, l) = JobsOf(posted', l) \cup {e}
                 /\ \A n \in Loop : n # l => JobsOf(posted', n) = JobsOf(posted, n)
    BY <1>5, <1>8 DEF RunNewTimer
  <2>2. \A d \in Client : Job("close", d) \in JobsOf(posted, LoopOf(d)) =>
                            Job("close", d) \in JobsOf(posted', LoopOf(d))
    BY <2>1, JobStays
  <2>3. UNCHANGED <<stream, bClosed, status>>
    BY <1>8 DEF RunNewTimer
  <2>4. \A n \in Loop : NoStopFor(n) => NoStopFor(n)'
    BY <2>1, <2>3 DEF NoStopFor
  <2>. QED  BY <1>2, <2>2, <2>3, <2>4
<1>9. CASE RunStop(l)
  <2>1. PICK e : /\ e.op = "stop"
                 /\ JobsOf(posted, l) = JobsOf(posted', l) \cup {e}
                 /\ \A n \in Loop : n # l => JobsOf(posted', n) = JobsOf(posted, n)
    BY <1>5, <1>9 DEF RunStop
  <2>2. \A d \in Client : Job("close", d) \in JobsOf(posted, LoopOf(d)) =>
                            Job("close", d) \in JobsOf(posted', LoopOf(d))
    BY <2>1, JobStays
  <2>3. UNCHANGED <<stream, bClosed>> /\ \A n \in Loop : n # l => status'[n] = status[n]
    BY <1>9 DEF RunStop, IInv, TypeOK
  <2>4. ~NoStopFor(l)
    BY <2>1 DEF NoStopFor
  <2>5. \A n \in Loop : NoStopFor(n) => NoStopFor(n)'
    BY <2>1, <2>3, <2>4 DEF NoStopFor
  <2>. QED  BY <1>2, <2>2, <2>3, <2>5
<1>. QED  BY <1>3, <1>4, <1>6, <1>7, <1>8, <1>9 DEF RunPosted

\* A timer fires for a client that has failed or been closed.
LEMMA TimerCloses ==
  ASSUME IInv, ClosesInv, NEW t \in Timer, OnTimer(t) \/ OnTimerClosed(t)
  PROVE  ClosesInv'
<1>. USE DEF loopVars, clientVars
<1>1. UNCHANGED <<ownerVars, status, posted, bClosed>>
  <2>1. CASE OnTimer(t)
    BY <2>1 DEF OnTimer
  <2>2. CASE OnTimerClosed(t)
    BY <2>2 DEF OnTimerClosed
  <2>. QED  BY <2>1, <2>2
<1>2. CASE OnTimer(t)
  <2>1. PICK c : c = idx[t]
    OBVIOUS
  <2>2. c \in Client /\ stream[c] \in {"failed", "closed"} /\ Connect(c)
    BY <1>2, <2>1, TimerFires DEF OnTimer
  <2>3. Only(c) /\ stream'[c] \in {"connecting", "noFd"}
    BY <2>2 DEF Connect, Only, IInv, TypeOK
  <2>4. Closes(c) => Closes(c)'
    BY <1>1, <2>2 DEF Closes, LoopOf, Job
  <2>. QED  BY <1>1, <2>2, <2>3, <2>4, StreamCloses DEF NoStopFor
<1>3. CASE OnTimerClosed(t)
  <2>1. UNCHANGED stream
    BY <1>3 DEF OnTimerClosed
  <2>. QED  BY <1>1, <2>1 DEF ClosesInv, Told, Closes, NoStopFor, Cleared, ownerVars, LoopOf, Job
<1>. QED  BY <1>2, <1>3

LEMMA ClosesNext == IInv /\ ClosesInv /\ [Next]_vars => ClosesInv'
<1>. SUFFICES ASSUME IInv, ClosesInv, [Next]_vars PROVE ClosesInv'
  OBVIOUS
<1>1. CASE UNCHANGED vars
  BY <1>1 DEF vars, ownerVars, loopVars, clientVars, timerVars, ClosesInv, Told, Closes, NoStopFor,
              Cleared, LoopOf, Job
<1>. QED  BY <1>1, OwnerCloses, ClientCloses, LoopCloses, TimerCloses DEF Next

\* stop() waits for a client only while its close is in the queue of a loop that has
\* not been stopped, or in libuv, however the close met retries, connects and loops
\* that had not started: the safe half of StopClears.
THEOREM StopWaitsForClosing == Spec => []WaitsForClosing
<1>1. Init => ClosesInv
  <2>. SUFFICES ASSUME Init PROVE ClosesInv
    OBVIOUS
  <2>1. \A l \in Loop : status[l] = "NotRun" /\ Len(posted[l]) = 0 /\ 1..Len(posted[l]) = {}
    BY DEF Init
  <2>2. \A l \in Loop : NoStopFor(l)
    BY <2>1 DEF NoStopFor, JobsOf
  <2>. QED  BY <2>2 DEF Init, ClosesInv, Told
<1>2. IInv /\ ClosesInv => WaitsForClosing
  <2>. SUFFICES ASSUME IInv, ClosesInv, NEW c \in 0..(size - 1),
                       owner = "waiting" \/ (owner = "closing" /\ c < next), ~bClosed[c]
                PROVE  /\ status[LoopOf(c)] # "Stop"
                       /\ \/ stream[c] \in {"closing", "aborting"}
                          \/ \E i \in 1..Len(posted[LoopOf(c)]) : posted[LoopOf(c)][i] = Job("close", c)
    BY DEF WaitsForClosing
  <2>1. c \in Client /\ Told(c) /\ ~Cleared
    BY Sizes, ClientsAssumption DEF IInv, Client, Told, Cleared
  <2>2. NoStopFor(LoopOf(c)) /\ Closes(c)
    BY <2>1, LoopOfType DEF ClosesInv
  <2>. QED  BY <2>2 DEF NoStopFor, Closes, JobsOf
<1>. QED  BY <1>1, <1>2, ClosesNext, Invariant, PTL DEF Spec
=============================================================================
