------------------------------ MODULE WorkerPool ------------------------------
(***************************************************************************)
(* robin::WorkerPool (src/src/WorkerPool.cpp) beside the sessions of the   *)
(* ConnectionManager: a message that a session reads becomes an ITask      *)
(* (src/include/ITask.h), which a thread of libuv's pool works on and      *)
(* whose after-work callback runs on the loop of its session.              *)
(*                                                                         *)
(* A task holds a weak_ptr to its session, so the session may be gone when *)
(* the work ends: Alive, the holders of a shared_ptr, does not mention     *)
(* tasks.  Nor does it mention a shared_ptr that a thread of the pool gets *)
(* from getConnection() while it works: no work in the repository asks for *)
(* one.  What the work computes, the reply, which the source has as a      *)
(* comment, and the work that warms the pool up are left out.              *)
(***************************************************************************)
EXTENDS ConnectionManager

CONSTANT Task  \* the messages that are given to the pool

VARIABLES
  work,      \* where each task's uv_work_task_t is
  taskConn,  \* ITask::conn of each task
  found      \* history: what the after-work callback got from getConnection()

workVars == <<work, taskConn, found>>

WorkInit ==
  /\ Init
  /\ work = [t \in Task |-> "none"]
  /\ taskConn = [t \in Task |-> None]
  /\ found = [t \in Task |-> "none"]

\* onRead with a message: onMessageParse makes a task of it.
AddToWorkQueue(c, t) ==
  /\ work[t] = "none"
  /\ handle[c] = "reading"
  /\ status[loopOf[c]] = "Running" /\ io[loopOf[c]] = Polling
  /\ work' = [work EXCEPT ![t] = "queued"]
  /\ taskConn' = [taskConn EXCEPT ![t] = c]
  /\ UNCHANGED <<vars, found>>

\* In a thread of the pool.
UvWork(t) ==
  /\ work[t] = "queued"
  /\ work' = [work EXCEPT ![t] = "done"]
  /\ UNCHANGED <<vars, taskConn, found>>

\* Fault: all work is queued on the first loop.
FirstLoop(t) == 0

\* The loop given to uv_queue_work.
WorkLoop(t) == loopOf[taskConn[t]]

\* Whether libuv has let go of the session: it calls onClose afterwards.
Closed(c) == ~InLibuv(c) \/ io[loopOf[c]] = Job("onClose", c)

GetConnection(c) ==
  IF ~Alive(c) THEN "gone" ELSE IF Closed(c) THEN "closed" ELSE "open"

\* Fault: the request is deleted only if the connection is there.
AfterWorkReturns(t) ==
  /\ work[t] = "done"
  /\ status[WorkLoop(t)] = "Running" /\ io[WorkLoop(t)] = Polling
  /\ Alive(taskConn[t])
  /\ work' = [work EXCEPT ![t] = "deleted"]
  /\ found' = [found EXCEPT ![t] = GetConnection(taskConn[t])]
  /\ UNCHANGED <<vars, taskConn>>

UvAfterWork(t) ==
  /\ work[t] = "done"
  /\ status[WorkLoop(t)] = "Running" /\ io[WorkLoop(t)] = Polling
  /\ work' = [work EXCEPT ![t] = "deleted"]
  /\ found' = [found EXCEPT ![t] = GetConnection(taskConn[t])]
  /\ UNCHANGED <<vars, taskConn>>

WorkNext ==
  \/ Next /\ UNCHANGED workVars
  \/ \E t \in Task : UvWork(t) \/ UvAfterWork(t) \/ \E c \in Conn : AddToWorkQueue(c, t)

\* Nothing is assumed of the pool: a task may be worked on for ever.  An iteration
\* of a loop gets to the work that is done.
WorkSpec ==
  /\ WorkInit /\ [][WorkNext]_<<vars, workVars>>
  /\ Fairness
  /\ \A t \in Task : SF_<<vars, workVars>>(UvAfterWork(t))

-----------------------------------------------------------------------------
(* Properties, beside those of ConnectionManager.                          *)

\* README.md:39 has the after-work callback be the place to send the reply: the
\* session it gets, if any, is one whose stream libuv still has.
FoundIsOpen == \A t \in Task : found[t] # "closed"

\* Work that is done is deleted, also if its session has gone meanwhile, unless
\* the manager is stopped.
DoneIsDeleted ==
  \A t \in Task : work[t] = "done" ~> work[t] = "deleted" \/ owner \in {"stopping", "stopped"}
=============================================================================
