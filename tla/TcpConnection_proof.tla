------------------------- MODULE TcpConnection_proof -------------------------
(***************************************************************************)
(* Theorems about TcpConnection, for any threads, tasks and requests.      *)
(***************************************************************************)
EXTENDS TcpConnection, TLAPS

-----------------------------------------------------------------------------
(* Sequences.                                                              *)

\* No two elements are the same.
Once(s) == \A i, j \in 1..Len(s) : s[i] = s[j] => i = j

\* A sequence to which an element has been appended.
LEMMA Appending ==
  ASSUME NEW S, NEW s \in Seq(S), NEW e \in S
  PROVE  /\ Append(s, e) \in Seq(S) /\ Append(s, e) # <<>>
         /\ Len(Append(s, e)) = Len(s) + 1 /\ Append(s, e)[Len(s) + 1] = e
         /\ \A i \in 1..Len(s) : Append(s, e)[i] = s[i]
         /\ ToSet(Append(s, e)) = ToSet(s) \cup {e}
         /\ Once(s) /\ e \notin ToSet(s) => Once(Append(s, e))
<1>1. PICK t : t = Append(s, e)
  OBVIOUS
<1>2. /\ t \in Seq(S) /\ t # <<>> /\ Len(s) \in Nat /\ Len(t) = Len(s) + 1 /\ t[Len(s) + 1] = e
      /\ \A i \in 1..Len(s) : t[i] = s[i]
      /\ DOMAIN t = 1..Len(t) /\ DOMAIN s = 1..Len(s)
  BY <1>1
<1>3. ToSet(t) = ToSet(s) \cup {e}
  BY <1>2 DEF ToSet
<1>4. ASSUME Once(s), e \notin ToSet(s) PROVE Once(t)
  <2>1. \A i \in 1..Len(s) : s[i] # e
    BY <1>2, <1>4 DEF ToSet
  <2>. QED  BY <1>2, <1>4, <2>1 DEF Once
<1>. QED  BY <1>1, <1>2, <1>3, <1>4

\* A sequence without its head.
LEMMA Tailing ==
  ASSUME NEW S, NEW s \in Seq(S), s # <<>>
  PROVE  /\ Tail(s) \in Seq(S) /\ Head(s) \in S /\ Head(s) = s[1]
         /\ Len(s) \in Nat \ {0} /\ Len(Tail(s)) = Len(s) - 1
         /\ \A i \in 1..Len(Tail(s)) : i + 1 \in 1..Len(s) /\ Tail(s)[i] = s[i + 1]
         /\ ToSet(s) = ToSet(Tail(s)) \cup {Head(s)}
         /\ Once(s) => Once(Tail(s)) /\ Head(s) \notin ToSet(Tail(s))
<1>1. PICK t, e : t = Tail(s) /\ e = Head(s)
  OBVIOUS
<1>2. /\ t \in Seq(S) /\ e \in S /\ e = s[1] /\ Len(s) \in Nat \ {0} /\ Len(t) = Len(s) - 1
      /\ \A i \in 1..Len(t) : i + 1 \in 1..Len(s) /\ t[i] = s[i + 1]
      /\ DOMAIN t = 1..Len(t) /\ DOMAIN s = 1..Len(s)
  BY <1>1
<1>3. ToSet(s) = ToSet(t) \cup {e}
  <2>1. ASSUME NEW x \in ToSet(s) PROVE x \in ToSet(t) \cup {e}
    <3>1. PICK i \in 1..Len(s) : x = s[i]
      BY <1>2 DEF ToSet
    <3>2. ASSUME NEW j \in 1..Len(t), j + 1 = i PROVE x \in ToSet(t)
      BY <1>2, <3>1, <3>2 DEF ToSet
    <3>3. i = 1 \/ (i - 1 \in 1..Len(t) /\ (i - 1) + 1 = i)
      BY <1>2
    <3>. QED  BY <1>2, <3>1, <3>2, <3>3
  <2>2. ASSUME NEW x \in ToSet(t) PROVE x \in ToSet(s)
    BY <1>2, <2>2 DEF ToSet
  <2>3. e \in ToSet(s)
    BY <1>2 DEF ToSet
  <2>. QED  BY <2>1, <2>2, <2>3
<1>4. ASSUME Once(s) PROVE Once(t) /\ e \notin ToSet(t)
  <2>1. Once(t)
    <3>1. ASSUME NEW i \in 1..Len(t), NEW j \in 1..Len(t), t[i] = t[j] PROVE i = j
      <4>1. i + 1 = j + 1
        BY <1>2, <1>4, <3>1 DEF Once
      <4>. QED  BY <1>2, <4>1
    <3>. QED  BY <3>1 DEF Once
  <2>2. ASSUME NEW i \in 1..Len(t), t[i] = e PROVE FALSE
    <3>1. i + 1 \in 1..Len(s) /\ 1 \in 1..Len(s) /\ s[i + 1] = s[1]
      BY <1>2, <2>2
    <3>2. i + 1 = 1
      BY <1>4, <3>1 DEF Once
    <3>. QED  BY <1>2, <3>2
  <2>. QED  BY <1>2, <2>1, <2>2 DEF ToSet
<1>. QED  BY <1>1, <1>2, <1>3, <1>4

\* Two sequences, one after the other.
LEMMA Joining ==
  ASSUME NEW S, NEW s \in Seq(S), NEW t \in Seq(S)
  PROVE  /\ s \o t \in Seq(S) /\ Len(s) \in Nat /\ Len(t) \in Nat
         /\ Len(s \o t) = Len(s) + Len(t)
         /\ \A i \in 1..Len(s) : (s \o t)[i] = s[i]
         /\ \A i \in 1..Len(t) : (s \o t)[Len(s) + i] = t[i]
         /\ ToSet(s \o t) = ToSet(s) \cup ToSet(t)
         /\ Once(s) /\ Once(t) /\ ToSet(s) \cap ToSet(t) = {} => Once(s \o t)
<1>1. PICK u : u = s \o t
  OBVIOUS
<1>2. /\ u \in Seq(S) /\ Len(s) \in Nat /\ Len(t) \in Nat /\ Len(u) = Len(s) + Len(t)
      /\ \A i \in 1..Len(s) : u[i] = s[i]
      /\ DOMAIN t = 1..Len(t) /\ DOMAIN s = 1..Len(s) /\ DOMAIN u = 1..Len(u)
  BY <1>1
<1>3. ASSUME NEW i \in 1..Len(t) PROVE u[Len(s) + i] = t[i] /\ Len(s) + i \in 1..Len(u)
  BY <1>1, <1>2, <1>3
<1>4. ASSUME NEW i \in 1..Len(u), i \notin 1..Len(s)
      PROVE  i - Len(s) \in 1..Len(t) /\ Len(s) + (i - Len(s)) = i
  BY <1>2, <1>4
<1>5. ASSUME NEW i \in 1..Len(u) PROVE i \in 1..Len(s) \/ \E j \in 1..Len(t) : Len(s) + j = i
  BY <1>4
<1>6. ToSet(u) = ToSet(s) \cup ToSet(t)
  <2>1. ASSUME NEW x \in ToSet(u) PROVE x \in ToSet(s) \cup ToSet(t)
    <3>1. PICK i \in 1..Len(u) : x = u[i]
      BY <1>2 DEF ToSet
    <3>2. CASE i \in 1..Len(s)
      BY <1>2, <3>1, <3>2 DEF ToSet
    <3>3. ASSUME NEW j \in 1..Len(t), Len(s) + j = i PROVE x \in ToSet(t)
      BY <1>2, <1>3, <3>1, <3>3 DEF ToSet
    <3>. QED  BY <1>5, <3>2, <3>3
  <2>2. ASSUME NEW x \in ToSet(s) PROVE x \in ToSet(u)
    <3>1. PICK i \in 1..Len(s) : x = s[i]
      BY <1>2 DEF ToSet
    <3>2. i \in 1..Len(u)
      BY <1>2
    <3>. QED  BY <1>2, <3>1, <3>2 DEF ToSet
  <2>3. ASSUME NEW x \in ToSet(t) PROVE x \in ToSet(u)
    <3>1. PICK i \in 1..Len(t) : x = t[i]
      BY <1>2 DEF ToSet
    <3>. QED  BY <1>2, <1>3, <3>1 DEF ToSet
  <2>. QED  BY <2>1, <2>2, <2>3
<1>7. ASSUME Once(s), Once(t), ToSet(s) \cap ToSet(t) = {} PROVE Once(u)
  <2>1. ASSUME NEW i \in 1..Len(s), NEW j \in 1..Len(t) PROVE s[i] # t[j]
    BY <1>2, <1>7 DEF ToSet
  <2>2. ASSUME NEW i \in 1..Len(u), NEW j \in 1..Len(u), u[i] = u[j] PROVE i = j
    <3>1. CASE i \in 1..Len(s) /\ j \in 1..Len(s)
      BY <1>2, <1>7, <2>2, <3>1 DEF Once
    <3>2. ASSUME i \in 1..Len(s), NEW k \in 1..Len(t), Len(s) + k = j PROVE FALSE
      BY <1>2, <1>3, <2>1, <2>2, <3>2
    <3>3. ASSUME j \in 1..Len(s), NEW k \in 1..Len(t), Len(s) + k = i PROVE FALSE
      BY <1>2, <1>3, <2>1, <2>2, <3>3
    <3>4. ASSUME NEW k \in 1..Len(t), NEW m \in 1..Len(t), Len(s) + k = i, Len(s) + m = j
          PROVE  i = j
      BY <1>3, <1>7, <2>2, <3>4 DEF Once
    <3>. QED  BY <1>5, <3>1, <3>2, <3>3, <3>4
  <2>. QED  BY <2>2 DEF Once
<1>. QED  BY <1>1, <1>2, <1>3, <1>6, <1>7

LEMMA SeqEqual ==
  ASSUME NEW S, NEW s \in Seq(S), NEW t \in Seq(S), Len(s) = Len(t),
         \A i \in 1..Len(s) : s[i] = t[i]
  PROVE  s = t
OBVIOUS

-----------------------------------------------------------------------------
(* Types, but for what the ghosts say of the tasks.                        *)

CallType == [op : LoopOps, req : Req \cup {None}, ok : BOOLEAN]

StreamTypes ==
  /\ stream \in {"noFd", "connecting", "open", "failed", "closing", "aborting",
                 "finishing", "closed", "freed"}
  /\ bClient \in Roles /\ connected \in BOOLEAN /\ closed \in BOOLEAN /\ failing \in BOOLEAN
  /\ connects \in 1..MaxConnects

QueueTypes ==
  /\ writes \in Seq(Req) /\ sendQue \in Seq(Req) /\ temp \in Seq(Req)
  /\ pool \in Seq(Req) /\ allocated \subseteq Req
  /\ task \in [Req -> Msg \cup {None}]

ThreadTypes ==
  /\ calls \in Seq(CallType)
  /\ posted \in Seq({"realSend", "close"})
  /\ pc \in [Senders -> {"idle", "push", "post", "postClose", "done"}]
  /\ held \in [Senders -> Req \cup {None}]

\* A sender holds a request just while it is about to push it, and the loop has one
\* for every call that will hand one on.
HeldInv ==
  /\ \A t \in Senders : pc[t] = "push" <=> held[t] # None
  /\ \A i \in 1..Len(calls) : calls[i].op \in Owning => calls[i].req \in Req

Types == StreamTypes /\ QueueTypes /\ ThreadTypes /\ HeldInv

\* What the loop's thread puts in calls are calls.
LEMMA CallsAreCalls ==
  /\ \A op \in LoopOps : Call(op) \in CallType /\ Call(op).op = op
  /\ \A op \in LoopOps : \A r \in Req \cup {None} :
       /\ CallWith(op, r) \in CallType /\ CallWith(op, r).op = op /\ CallWith(op, r).req = r
       /\ Outcome(op, r, TRUE) \in CallType /\ Outcome(op, r, TRUE).op = op
       /\ Outcome(op, r, TRUE).req = r /\ Outcome(op, r, TRUE).ok
       /\ Outcome(op, r, FALSE) \in CallType /\ Outcome(op, r, FALSE).op = op
       /\ Outcome(op, r, FALSE).req = r /\ ~Outcome(op, r, FALSE).ok
BY DEF Call, CallWith, Outcome, CallType

\* The calls that will hand a request on have one.
WithReq(s) == \A i \in 1..Len(s) : s[i].op \in Owning => s[i].req \in Req

\* Calls stay calls when some are put in front, and when one has returned.
LEMMA WithReqJoin ==
  ASSUME NEW s \in Seq(CallType), NEW t \in Seq(CallType), WithReq(s), WithReq(t)
  PROVE  s \o t \in Seq(CallType) /\ WithReq(s \o t)
<1>1. ToSet(s \o t) = ToSet(s) \cup ToSet(t) /\ s \o t \in Seq(CallType)
  BY Joining
<1>2. \A u \in Seq(CallType) : WithReq(u) <=> \A x \in ToSet(u) : x.op \in Owning => x.req \in Req
  <2>1. \A u \in Seq(CallType) : DOMAIN u = 1..Len(u)
    OBVIOUS
  <2>. QED  BY <2>1 DEF WithReq, ToSet
<1>. QED  BY <1>1, <1>2

LEMMA WithReqTail ==
  ASSUME NEW s \in Seq(CallType), s # <<>>, WithReq(s)
  PROVE  /\ Tail(s) \in Seq(CallType) /\ WithReq(Tail(s)) /\ Head(s) \in CallType
         /\ Head(s).op \in Owning => Head(s).req \in Req
<1>1. /\ Tail(s) \in Seq(CallType) /\ Head(s) \in CallType /\ Head(s) = s[1] /\ 1 \in 1..Len(s)
      /\ \A i \in 1..Len(Tail(s)) : i + 1 \in 1..Len(s) /\ Tail(s)[i] = s[i + 1]
  <2>1. /\ Tail(s) \in Seq(CallType) /\ Head(s) \in CallType /\ Head(s) = s[1]
        /\ Len(s) \in Nat \ {0}
        /\ \A i \in 1..Len(Tail(s)) : i + 1 \in 1..Len(s) /\ Tail(s)[i] = s[i + 1]
    OBVIOUS
  <2>. QED  BY <2>1
<1>2. PICK t : t = Tail(s)
  OBVIOUS
<1>3. \A i \in 1..Len(t) : t[i].op \in Owning => t[i].req \in Req
  BY <1>1, <1>2 DEF WithReq
<1>. QED  BY <1>1, <1>2, <1>3 DEF WithReq

\* One call, and the calls for what is cancelled.
LEMMA WithReqOne ==
  /\ \A x \in CallType : (x.op \in Owning => x.req \in Req) => <<x>> \in Seq(CallType) /\ WithReq(<<x>>)
  /\ <<>> \in Seq(CallType) /\ WithReq(<<>>)
<1>1. ASSUME NEW x \in CallType, x.op \in Owning => x.req \in Req
      PROVE  <<x>> \in Seq(CallType) /\ WithReq(<<x>>)
  <2>1. Len(<<x>>) = 1 /\ <<x>>[1] = x /\ <<x>> \in Seq(CallType)
    OBVIOUS
  <2>. QED  BY <1>1, <2>1 DEF WithReq
<1>. QED  BY <1>1 DEF WithReq

LEMMA CancelledCalls ==
  ASSUME writes \in Seq(Req)
  PROVE  /\ Cancelled \in Seq(CallType) /\ Len(Cancelled) = Len(writes) /\ Len(writes) \in Nat
         /\ WithReq(Cancelled)
         /\ \A i \in 1..Len(writes) : Cancelled[i] = Outcome("afterWrite", writes[i], FALSE)
<1>1. \A i \in 1..Len(writes) : writes[i] \in Req
  OBVIOUS
<1>2. \A i \in 1..Len(writes) : /\ Outcome("afterWrite", writes[i], FALSE) \in CallType
                                /\ Outcome("afterWrite", writes[i], FALSE).req = writes[i]
  BY <1>1 DEF Outcome, CallType, LoopOps
<1>3. Len(writes) \in Nat
  OBVIOUS
<1>4. PICK c : c = Cancelled
  OBVIOUS
<1>5. c = [i \in 1..Len(writes) |-> Outcome("afterWrite", writes[i], FALSE)]
  BY <1>4 DEF Cancelled
<1>6. c \in [1..Len(writes) -> CallType]
  BY <1>2, <1>5, Zenon
<1>7. c \in Seq(CallType) /\ Len(c) = Len(writes)
  BY <1>3, <1>6
<1>8. \A i \in 1..Len(writes) : c[i] = Outcome("afterWrite", writes[i], FALSE)
  BY <1>5, Zenon
<1>9. WithReq(c)
  BY <1>1, <1>2, <1>7, <1>8 DEF WithReq
<1>. QED  BY <1>3, <1>4, <1>7, <1>8, <1>9

LEMMA WithReqTwo ==
  ASSUME NEW x \in CallType, NEW y \in CallType,
         x.op \in Owning => x.req \in Req, y.op \in Owning => y.req \in Req
  PROVE  <<x, y>> \in Seq(CallType) /\ WithReq(<<x, y>>)
<1>1. /\ Len(<<x, y>>) = 2 /\ <<x, y>>[1] = x /\ <<x, y>>[2] = y /\ <<x, y>> \in Seq(CallType)
      /\ 1..2 = {1, 2}
  OBVIOUS
<1>. QED  BY <1>1 DEF WithReq

\* The forms in which an action changes calls.
LEMMA CallsKept ==
  ASSUME Types
  PROVE  /\ WithReq(calls) /\ calls \in Seq(CallType)
         /\ ~Idle => /\ Head(calls) \in CallType
                     /\ Head(calls).op \in Owning => Head(calls).req \in Req
         /\ Returns /\ ~Idle => (calls \in Seq(CallType) /\ WithReq(calls))'
         /\ \A n \in Seq(CallType) : WithReq(n) =>
              /\ ReturnsTo(n) /\ ~Idle => (calls \in Seq(CallType) /\ WithReq(calls))'
              /\ Enters(n) => (calls \in Seq(CallType) /\ WithReq(calls))'
              /\ calls' = n \o calls => (calls \in Seq(CallType) /\ WithReq(calls))'
<1>1. WithReq(calls) /\ calls \in Seq(CallType)
  BY DEF Types, HeldInv, ThreadTypes, WithReq
<1>2. ASSUME ~Idle
      PROVE  /\ Head(calls) \in CallType /\ Head(calls).op \in Owning => Head(calls).req \in Req
             /\ Tail(calls) \in Seq(CallType) /\ WithReq(Tail(calls))
  BY <1>1, <1>2, WithReqTail DEF Idle
<1>3. ASSUME NEW n \in Seq(CallType), WithReq(n)
      PROVE  /\ ReturnsTo(n) /\ ~Idle => (calls \in Seq(CallType) /\ WithReq(calls))'
             /\ Enters(n) => (calls \in Seq(CallType) /\ WithReq(calls))'
             /\ calls' = n \o calls => (calls \in Seq(CallType) /\ WithReq(calls))'
  <2>1. ASSUME ReturnsTo(n), ~Idle PROVE (calls \in Seq(CallType) /\ WithReq(calls))'
    <3>1. PICK t : t = Tail(calls)
      OBVIOUS
    <3>2. n \o t \in Seq(CallType) /\ WithReq(n \o t)
      BY <1>2, <1>3, <2>1, <3>1, WithReqJoin
    <3>3. PICK u : u = n \o t
      OBVIOUS
    <3>4. calls' = u
      BY <2>1, <3>1, <3>3 DEF ReturnsTo
    <3>. QED  BY <3>2, <3>3, <3>4 DEF WithReq
  <2>2. ASSUME calls' = n \o calls PROVE (calls \in Seq(CallType) /\ WithReq(calls))'
    <3>1. n \o calls \in Seq(CallType) /\ WithReq(n \o calls)
      BY <1>1, <1>3, WithReqJoin
    <3>2. PICK u : u = n \o calls
      OBVIOUS
    <3>. QED  BY <2>2, <3>1, <3>2 DEF WithReq
  <2>3. ASSUME Enters(n) PROVE (calls \in Seq(CallType) /\ WithReq(calls))'
    BY <1>3, <2>3 DEF Enters, WithReq
  <2>. QED  BY <2>1, <2>2, <2>3
<1>4. ASSUME Returns, ~Idle PROVE (calls \in Seq(CallType) /\ WithReq(calls))'
  <2>1. PICK u : u = Tail(calls)
    OBVIOUS
  <2>. QED  BY <1>2, <1>4, <2>1 DEF Returns, WithReq
<1>. QED  BY <1>1, <1>2, <1>3, <1>4

\* The connection is created with values of the types.
LEMMA TypesInit == Init => Types
<1>. SUFFICES ASSUME Init PROVE Types
  OBVIOUS
<1>1. StreamTypes
  <2>1. stream \in {"connecting", "noFd", "open"}
    BY DEF Init
  <2>2. connects \in 1..MaxConnects
    BY ConnectsAssumption DEF Init
  <2>. QED  BY <2>1, <2>2 DEF Init, StreamTypes
<1>2. QueueTypes
  BY PooledAssumption DEF Init, QueueTypes, ToSet
<1>3. ThreadTypes /\ HeldInv
  BY DEF Init, ThreadTypes, HeldInv
<1>. QED  BY <1>1, <1>2, <1>3 DEF Types

\* What the operations on the pool and on the session keep.
LEMMA PoolTypes ==
  ASSUME QueueTypes
  PROVE  /\ \A m \in Msg, r \in Req : EncodeTask(m, r) =>
              pool' \in Seq(Req) /\ allocated' \subseteq Req /\ task' \in [Req -> Msg \cup {None}]
         /\ \A r \in Req : PutWriteBuffer(r) =>
              pool' \in Seq(Req) /\ allocated' \subseteq Req /\ task' \in [Req -> Msg \cup {None}]
         /\ \A last : Release(last) =>
              pool' \in Seq(Req) /\ sendQue' \in Seq(Req) /\ task' \in [Req -> Msg \cup {None}]
              /\ stream' \in {stream, "freed"}
<1>1. ASSUME NEW m \in Msg, NEW r \in Req, EncodeTask(m, r)
      PROVE  pool' \in Seq(Req) /\ allocated' \subseteq Req /\ task' \in [Req -> Msg \cup {None}]
  <2>1. pool # <<>> => Tail(pool) \in Seq(Req)
    BY DEF QueueTypes
  <2>2. pool' \in Seq(Req) /\ allocated' \subseteq Req
    BY <1>1, <2>1 DEF EncodeTask, GetWriteBuffer, QueueTypes
  <2>. QED  BY <1>1, <2>2 DEF EncodeTask, QueueTypes
<1>2. ASSUME NEW r \in Req, PutWriteBuffer(r)
      PROVE  pool' \in Seq(Req) /\ allocated' \subseteq Req /\ task' \in [Req -> Msg \cup {None}]
  BY <1>2 DEF PutWriteBuffer, QueueTypes
<1>3. ASSUME NEW last, Release(last)
      PROVE  /\ pool' \in Seq(Req) /\ sendQue' \in Seq(Req) /\ task' \in [Req -> Msg \cup {None}]
             /\ stream' \in {stream, "freed"}
  <2>1. CASE last
    <3>1. Destroy
      BY <1>3, <2>1, Zenon DEF Release
    <3>2. task' \in [Req -> Msg \cup {None}]
      BY <3>1 DEF Destroy, QueueTypes
    <3>3. pool \o sendQue \in Seq(Req) /\ <<>> \in Seq(Req)
      BY DEF QueueTypes
    <3>. QED  BY <3>1, <3>2, <3>3, Zenon DEF Destroy
  <2>2. CASE ~last
    BY <1>3, <2>2 DEF Release, QueueTypes
  <2>. QED  BY <2>1, <2>2
<1>. QED  BY <1>1, <1>2, <1>3

\* Every step of a sender keeps the types.
LEMMA SenderTypes ==
  ASSUME Types, NEW t \in Senders,
         SenderStep(t) \/ CloseSafe(t) \/ \E m \in Msg, r \in Req : SendMsg(t, m, r)
  PROVE  Types'
<1>. USE DEF streamVars, queueVars, senderVars, poolVars, history, SenderGoto,
            StreamTypes, QueueTypes, ThreadTypes
<1>1. ASSUME NEW m \in Msg, NEW r \in Req, SendMsg(t, m, r) PROVE Types'
  <2>1. pool' \in Seq(Req) /\ allocated' \subseteq Req /\ task' \in [Req -> Msg \cup {None}]
    BY <1>1, PoolTypes DEF SendMsg, Types
  <2>2. HeldInv'
    BY <1>1, NoneAssumption DEF SendMsg, Types, HeldInv
  <2>. QED  BY <1>1, <2>1, <2>2 DEF SendMsg, Types
<1>2. CASE PushInQue(t)
  <2>1. held[t] \in Req
    BY <1>2 DEF PushInQue, Types, HeldInv
  <2>2. HeldInv'
    BY <1>2 DEF PushInQue, Types, HeldInv
  <2>. QED  BY <1>2, <2>1, <2>2 DEF PushInQue, Types
<1>3. CASE PostRealSend(t)
  <2>1. /\ pool' \in Seq(Req) /\ sendQue' \in Seq(Req) /\ task' \in [Req -> Msg \cup {None}]
        /\ stream' \in {stream, "freed"}
    BY <1>3, PoolTypes DEF PostRealSend, Types
  <2>2. HeldInv'
    BY <1>3 DEF PostRealSend, Types, HeldInv
  <2>. QED  BY <1>3, <2>1, <2>2 DEF PostRealSend, Types
<1>4. CASE PostClose(t)
  <2>1. /\ pool' \in Seq(Req) /\ sendQue' \in Seq(Req) /\ task' \in [Req -> Msg \cup {None}]
        /\ stream' \in {stream, "freed"}
    BY <1>4, PoolTypes DEF PostClose, Types
  <2>2. HeldInv'
    BY <1>4 DEF PostClose, Types, HeldInv
  <2>. QED  BY <1>4, <2>1, <2>2 DEF PostClose, Types
<1>5. CASE CloseSafe(t)
  <2>1. HeldInv'
    BY <1>5 DEF CloseSafe, Types, HeldInv
  <2>. QED  BY <1>5, <2>1 DEF CloseSafe, Types
<1>. QED  BY <1>1, <1>2, <1>3, <1>4, <1>5 DEF SenderStep

\* Every event of the loop keeps the types.
LEMMA EventTypes ==
  ASSUME Types, LoopEvent \/ UvRead \/ UvReadEnds
  PROVE  Types'
<1>. USE DEF streamVars, queueVars, senderVars, poolVars, history,
            StreamTypes, QueueTypes, ThreadTypes
<1>1. ASSUME NEW op \in LoopOps \ Owning
      PROVE  /\ <<Call(op)>> \in Seq(CallType) /\ WithReq(<<Call(op)>>)
             /\ <<Outcome(op, None, TRUE)>> \in Seq(CallType) /\ WithReq(<<Outcome(op, None, TRUE)>>)
             /\ <<Outcome(op, None, FALSE)>> \in Seq(CallType) /\ WithReq(<<Outcome(op, None, FALSE)>>)
  <2>1. /\ Call(op) \in CallType /\ Call(op).op = op
        /\ Outcome(op, None, TRUE) \in CallType /\ Outcome(op, None, TRUE).op = op
        /\ Outcome(op, None, FALSE) \in CallType /\ Outcome(op, None, FALSE).op = op
    BY CallsAreCalls
  <2>. QED  BY <2>1, WithReqOne
<1>2. ASSUME NEW n \in Seq(CallType), WithReq(n), Enters(n), UNCHANGED senderVars
      PROVE  calls' \in Seq(CallType) /\ HeldInv'
  <2>1. calls' \in Seq(CallType) /\ WithReq(calls)'
    BY <1>2, CallsKept
  <2>. QED  BY <1>2, <2>1 DEF HeldInv, Types, WithReq
<1>3. CASE RunPosted
  <2>1. Head(posted) \in {"realSend", "close"} /\ Tail(posted) \in Seq({"realSend", "close"})
    BY <1>3 DEF RunPosted, Types
  <2>2. Head(posted) \in LoopOps \ Owning
    BY <2>1 DEF LoopOps, Owning
  <2>3. calls' \in Seq(CallType) /\ HeldInv'
    BY <1>1, <1>2, <1>3, <2>2 DEF RunPosted
  <2>. QED  BY <1>3, <2>1, <2>3 DEF RunPosted, Types
<1>4. CASE UvConnected \/ UvRead \/ UvReadEnds
  <2>1. "onConnect" \in LoopOps \ Owning /\ "onMessageParse" \in LoopOps \ Owning
        /\ "close" \in LoopOps \ Owning
    BY DEF LoopOps, Owning, UserOps
  <2>2. calls' \in Seq(CallType) /\ HeldInv'
    <3>1. \E n \in Seq(CallType) : WithReq(n) /\ Enters(n)
      BY <1>1, <1>4, <2>1 DEF UvConnected, UvRead, UvReadEnds
    <3>2. UNCHANGED senderVars
      BY <1>4 DEF UvConnected, UvRead, UvReadEnds
    <3>. QED  BY <1>2, <3>1, <3>2
  <2>. QED  BY <1>4, <2>2 DEF UvConnected, UvRead, UvReadEnds, Types
<1>5. CASE UvConnectFails
  <2>1. Outcome("onConnect", None, FALSE) \in CallType /\ Call("flush") \in CallType
        /\ Outcome("onConnect", None, FALSE).op = "onConnect" /\ Call("flush").op = "flush"
    BY CallsAreCalls DEF LoopOps
  <2>2. /\ <<Outcome("onConnect", None, FALSE), Call("flush")>> \in Seq(CallType)
        /\ WithReq(<<Outcome("onConnect", None, FALSE), Call("flush")>>)
    BY <2>1, WithReqTwo DEF Owning
  <2>3. calls' \in Seq(CallType) /\ HeldInv'
    BY <1>2, <1>5, <2>2 DEF UvConnectFails
  <2>. QED  BY <1>5, <2>3 DEF UvConnectFails, Types
<1>6. CASE UvWritten \/ UvWriteFails
  <2>1. Head(writes) \in Req /\ Tail(writes) \in Seq(Req)
    BY <1>6 DEF UvWritten, UvWriteFails, Types
  <2>2. PICK r : r = Head(writes)
    OBVIOUS
  <2>3. /\ <<Outcome("afterWrite", r, TRUE)>> \in Seq(CallType)
        /\ WithReq(<<Outcome("afterWrite", r, TRUE)>>)
        /\ <<Outcome("afterWrite", r, FALSE)>> \in Seq(CallType)
        /\ WithReq(<<Outcome("afterWrite", r, FALSE)>>)
    <3>1. "afterWrite" \in LoopOps /\ r \in Req /\ r \in Req \cup {None}
      BY <2>1, <2>2 DEF LoopOps
    <3>2. /\ Outcome("afterWrite", r, TRUE) \in CallType /\ Outcome("afterWrite", r, TRUE).req = r
          /\ Outcome("afterWrite", r, FALSE) \in CallType /\ Outcome("afterWrite", r, FALSE).req = r
      BY <3>1, CallsAreCalls
    <3>. QED  BY <3>1, <3>2, WithReqOne
  <2>4. calls' \in Seq(CallType) /\ HeldInv'
    <3>1. Enters(<<Outcome("afterWrite", r, TRUE)>>) \/ Enters(<<Outcome("afterWrite", r, FALSE)>>)
      BY <1>6, <2>2 DEF UvWritten, UvWriteFails
    <3>2. UNCHANGED senderVars
      BY <1>6 DEF UvWritten, UvWriteFails
    <3>. QED  BY <1>2, <2>3, <3>1, <3>2
  <2>. QED  BY <1>6, <2>1, <2>4 DEF UvWritten, UvWriteFails, Types
<1>7. CASE UvFinishClose
  <2>1. PICK aborted, done : /\ aborted = IF stream = "aborting" THEN <<Outcome("onConnect", None, FALSE)>> ELSE <<>>
                             /\ done = <<Call("onClose")>>
    OBVIOUS
  <2>2. aborted \in Seq(CallType) /\ WithReq(aborted) /\ done \in Seq(CallType) /\ WithReq(done)
    BY <1>1, <2>1, WithReqOne DEF LoopOps, Owning
  <2>3. PICK c : c = Cancelled
    OBVIOUS
  <2>4. c \in Seq(CallType) /\ WithReq(c)
    BY <2>3, CancelledCalls DEF Types
  <2>5. aborted \o c \in Seq(CallType) /\ WithReq(aborted \o c)
    BY <2>2, <2>4, WithReqJoin
  <2>6. (aborted \o c) \o done \in Seq(CallType) /\ WithReq((aborted \o c) \o done)
    BY <2>2, <2>5, WithReqJoin
  <2>7. Enters((aborted \o c) \o done)
    BY <1>7, <2>1, <2>3, Zenon DEF UvFinishClose
  <2>8. calls' \in Seq(CallType) /\ HeldInv'
    <3>1. UNCHANGED senderVars
      BY <1>7 DEF UvFinishClose
    <3>. QED  BY <1>2, <2>6, <2>7, <3>1
  <2>. QED  BY <1>7, <2>8 DEF UvFinishClose, CancelWrites, Types
<1>. QED  BY <1>3, <1>4, <1>5, <1>6, <1>7 DEF LoopEvent

\* Every step of a callback keeps the types.
LEMMA LoopCallTypes ==
  ASSUME Types,
         LoopCall \/ UserCloses \/ UserReconnects \/ \E m \in Msg, r \in Req : UserSends(m, r)
  PROVE  Types'
<1>. USE DEF streamVars, queueVars, senderVars, poolVars, history, Runs,
            StreamTypes, QueueTypes, ThreadTypes
<1>1. ASSUME WithReq(calls)', calls' \in Seq(CallType), UNCHANGED senderVars
      PROVE  HeldInv'
  BY <1>1 DEF HeldInv, Types, WithReq
<1>2. ASSUME NEW op \in LoopOps \ Owning PROVE <<Call(op)>> \in Seq(CallType) /\ WithReq(<<Call(op)>>)
  BY CallsAreCalls, WithReqOne
<1>3. ASSUME Returns, ~Idle PROVE calls' \in Seq(CallType) /\ WithReq(calls)'
  BY <1>3, CallsKept
<1>4. ASSUME NEW n \in Seq(CallType), WithReq(n), (ReturnsTo(n) /\ ~Idle) \/ calls' = n \o calls
      PROVE  calls' \in Seq(CallType) /\ WithReq(calls)'
  BY <1>4, CallsKept
<1>5. /\ ~Idle => Head(calls) \in CallType
      /\ ~Idle /\ Head(calls).op \in Owning => Head(calls).req \in Req
  BY CallsKept
<1>6. CASE UvFlush
  <2>1. calls' \in Seq(CallType) /\ WithReq(calls)'
    <3>1. CASE stream = "failed"
      <4>1. PICK c : c = Cancelled
        OBVIOUS
      <4>2. ReturnsTo(c) /\ ~Idle
        BY <1>6, <3>1, <4>1 DEF UvFlush
      <4>. QED  BY <1>4, <4>1, <4>2, CancelledCalls DEF Types
    <3>2. CASE stream # "failed"
      BY <1>3, <1>6, <3>2 DEF UvFlush
    <3>. QED  BY <3>1, <3>2
  <2>2. /\ writes' \in Seq(Req) /\ UNCHANGED <<sendQue, temp, failing>>
    <3>1. CASE stream = "failed"
      BY <1>6, <3>1 DEF UvFlush, CancelWrites, Types
    <3>2. CASE stream # "failed"
      BY <1>6, <3>2 DEF UvFlush, Types
    <3>. QED  BY <3>1, <3>2
  <2>. QED  BY <1>1, <1>6, <2>1, <2>2 DEF UvFlush, Types
<1>7. CASE SwapQue
  <2>1. calls' \in Seq(CallType) /\ WithReq(calls)'
    <3>1. "sendLoop" \in LoopOps \ Owning
      BY DEF LoopOps, Owning
    <3>. QED  BY <1>2, <1>4, <1>7, <3>1 DEF SwapQue
  <2>2. StreamTypes'
    BY <1>7 DEF SwapQue, Types
  <2>3. QueueTypes'
    BY <1>7 DEF SwapQue, Types
  <2>. QED  BY <1>1, <1>7, <2>1, <2>2, <2>3 DEF SwapQue, Types
<1>8. CASE UvWrite
  <2>1. Head(temp) \in Req /\ Tail(temp) \in Seq(Req)
    BY <1>8 DEF UvWrite, Types
  <2>2. WithReq(calls)'
    BY <1>8, CallsKept DEF UvWrite, WithReq
  <2>. QED  BY <1>1, <1>8, <2>1, <2>2 DEF UvWrite, Types
<1>9. CASE UvWriteRefused
  <2>1. Head(temp) \in Req /\ Tail(temp) \in Seq(Req)
    BY <1>9 DEF UvWriteRefused, Types
  <2>2. calls' \in Seq(CallType) /\ WithReq(calls)'
    <3>1. "close" \in LoopOps \ Owning
      BY DEF LoopOps, Owning
    <3>. QED  BY <1>2, <1>4, <1>9, <3>1 DEF UvWriteRefused
  <2>3. StreamTypes'
    BY <1>9 DEF UvWriteRefused, Types
  <2>4. QueueTypes'
    BY <1>9, <2>1 DEF UvWriteRefused, PushBackHead, Types
  <2>. QED  BY <1>1, <1>9, <2>2, <2>3, <2>4 DEF UvWriteRefused, Types
<1>10. CASE KeepUnsent
  <2>1. Head(temp) \in Req /\ Tail(temp) \in Seq(Req)
    BY <1>10 DEF KeepUnsent, Types
  <2>2. WithReq(calls)'
    BY <1>10, CallsKept DEF KeepUnsent, WithReq
  <2>. QED  BY <1>1, <1>10, <2>1, <2>2 DEF KeepUnsent, PushBackHead, Types
<1>11. CASE SendLoopEnds \/ UserReturns
  <2>1. calls' \in Seq(CallType) /\ WithReq(calls)'
    BY <1>3, <1>11 DEF SendLoopEnds, UserReturns, InUserCallback
  <2>. QED  BY <1>1, <1>11, <2>1 DEF SendLoopEnds, UserReturns, Types
<1>12. CASE AfterWriteUnbound \/ AfterWritePuts
  <2>1. PICK r : r = Head(calls).req
    OBVIOUS
  <2>2. r \in Req /\ PutWriteBuffer(r) /\ Returns /\ ~Idle
    BY <1>5, <1>12, <2>1 DEF AfterWriteUnbound, AfterWritePuts, Owning
  <2>3. pool' \in Seq(Req) /\ allocated' \subseteq Req /\ task' \in [Req -> Msg \cup {None}]
    BY <2>2, PoolTypes DEF Types
  <2>4. calls' \in Seq(CallType) /\ WithReq(calls)'
    BY <1>3, <2>2
  <2>5. UNCHANGED <<streamVars, queueVars, posted, senderVars>>
    BY <1>12 DEF AfterWriteUnbound, AfterWritePuts
  <2>. QED  BY <1>1, <2>3, <2>4, <2>5 DEF Types
<1>13. CASE AfterWrite
  <2>1. PICK r, ok : r = Head(calls).req /\ ok = Head(calls).ok
    OBVIOUS
  <2>2. r \in Req /\ ok \in BOOLEAN /\ ~Idle
    BY <1>5, <1>13, <2>1 DEF AfterWrite, Owning, CallType
  <2>3. /\ Outcome("sendCb", r, ok) \in CallType /\ Outcome("sendCb", r, ok).op = "sendCb"
    BY <2>2 DEF Outcome, CallType, LoopOps, UserOps
  <2>4. PICK n, o : /\ n = <<Outcome("sendCb", r, ok)>>
                    /\ o = IF ok THEN <<Call("realSend"), CallWith("putWriteBuffer", r)>>
                                 ELSE <<CallWith("pushbackQue", r), Call("close")>>
    OBVIOUS
  <2>5. n \in Seq(CallType) /\ WithReq(n)
    BY <2>3, <2>4, WithReqOne DEF Owning
  <2>6. o \in Seq(CallType) /\ WithReq(o)
    <3>1. /\ Call("realSend") \in CallType /\ CallWith("putWriteBuffer", r) \in CallType
          /\ Call("close") \in CallType /\ CallWith("pushbackQue", r) \in CallType
          /\ Call("realSend").op = "realSend" /\ Call("close").op = "close"
          /\ CallWith("putWriteBuffer", r).req = r /\ CallWith("pushbackQue", r).req = r
      <4>1. /\ "putWriteBuffer" \in LoopOps /\ "realSend" \in LoopOps /\ r \in Req \cup {None}
            /\ "close" \in LoopOps /\ "pushbackQue" \in LoopOps
        BY <2>2 DEF LoopOps
      <4>. QED  BY <4>1 DEF Call, CallWith, CallType
    <3>2. CASE ok
      BY <2>2, <2>4, <3>1, <3>2, WithReqTwo DEF Owning
    <3>3. CASE ~ok
      BY <2>2, <2>4, <3>1, <3>3, WithReqTwo DEF Owning
    <3>. QED  BY <3>2, <3>3
  <2>7. n \o o \in Seq(CallType) /\ WithReq(n \o o) /\ ReturnsTo(n \o o)
    <3>1. ReturnsTo(n \o o)
      BY <1>13, <2>1, <2>4, Zenon DEF AfterWrite
    <3>. QED  BY <2>5, <2>6, <3>1, WithReqJoin
  <2>8. calls' \in Seq(CallType) /\ WithReq(calls)'
    BY <1>4, <2>2, <2>7
  <2>9. UNCHANGED <<streamVars, queueVars, posted, senderVars, poolVars>>
    BY <1>13 DEF AfterWrite
  <2>. QED  BY <1>1, <2>8, <2>9 DEF Types
<1>14. CASE AfterWriteKeeps
  <2>1. Head(calls).req \in Req
    BY <1>5, <1>14 DEF AfterWriteKeeps, Owning
  <2>2. calls' \in Seq(CallType) /\ WithReq(calls)'
    BY <1>3, <1>14 DEF AfterWriteKeeps
  <2>3. StreamTypes'
    BY <1>14 DEF AfterWriteKeeps, Types
  <2>4. QueueTypes'
    BY <1>14, <2>1 DEF AfterWriteKeeps, Types
  <2>. QED  BY <1>1, <1>14, <2>2, <2>3, <2>4 DEF AfterWriteKeeps, Types
<1>15. CASE Close
  <2>1. calls' \in Seq(CallType) /\ WithReq(calls)'
    BY <1>3, <1>15 DEF Close
  <2>. QED  BY <1>1, <1>15, <2>1 DEF Close, Types
<1>16. CASE OnConnect
  <2>1. PICK ok : ok = Head(calls).ok
    OBVIOUS
  <2>2. ok \in BOOLEAN
    BY <1>5, <1>16, <2>1 DEF OnConnect, CallType
  <2>3. /\ Outcome("connCb", None, ok) \in CallType /\ Outcome("connCb", None, ok).op = "connCb"
    BY <2>2 DEF Outcome, CallType, LoopOps, UserOps
  <2>4. calls' \in Seq(CallType) /\ WithReq(calls)'
    <3>1. <<Outcome("connCb", None, ok)>> \in Seq(CallType) /\ WithReq(<<Outcome("connCb", None, ok)>>)
      BY <2>3, WithReqOne DEF Owning
    <3>. QED  BY <1>4, <1>16, <2>1, <3>1 DEF OnConnect
  <2>. QED  BY <1>1, <1>16, <2>1, <2>2, <2>4 DEF OnConnect, Types
<1>17. CASE OnClose
  <2>1. PICK n, o : /\ n = <<Call("closeCb")>>
                    /\ o = IF bClient THEN <<>> ELSE <<Call("freeConnection")>>
    OBVIOUS
  <2>2. n \in Seq(CallType) /\ WithReq(n) /\ o \in Seq(CallType) /\ WithReq(o)
    <3>1. "closeCb" \in LoopOps \ Owning /\ "freeConnection" \in LoopOps \ Owning
      BY DEF LoopOps, UserOps, Owning
    <3>2. CASE bClient
      BY <1>2, <2>1, <3>1, <3>2, WithReqOne
    <3>3. CASE ~bClient
      BY <1>2, <2>1, <3>1, <3>3
    <3>. QED  BY <3>2, <3>3
  <2>3. n \o o \in Seq(CallType) /\ WithReq(n \o o) /\ ReturnsTo(n \o o)
    <3>1. ReturnsTo(n \o o)
      BY <1>17, <2>1, Zenon DEF OnClose
    <3>. QED  BY <2>2, <3>1, WithReqJoin
  <2>4. calls' \in Seq(CallType) /\ WithReq(calls)'
    BY <1>4, <1>17, <2>3 DEF OnClose
  <2>. QED  BY <1>1, <1>17, <2>4 DEF OnClose, Types
<1>18. CASE FreeConnection
  <2>1. calls' \in Seq(CallType) /\ WithReq(calls)'
    BY <1>3, <1>18 DEF FreeConnection
  <2>2. /\ pool' \in Seq(Req) /\ sendQue' \in Seq(Req) /\ task' \in [Req -> Msg \cup {None}]
        /\ stream' \in {stream, "freed"}
    BY <1>18, PoolTypes DEF FreeConnection, Types
  <2>. QED  BY <1>1, <1>18, <2>1, <2>2 DEF FreeConnection, Types
<1>19. CASE PushInQueInLoop
  <2>1. Head(calls).req \in Req
    BY <1>5, <1>19 DEF PushInQueInLoop, Owning
  <2>2. calls' \in Seq(CallType) /\ WithReq(calls)'
    BY <1>3, <1>19 DEF PushInQueInLoop
  <2>. QED  BY <1>1, <1>19, <2>1, <2>2 DEF PushInQueInLoop, Types
<1>20. CASE UserCloses
  <2>1. calls' \in Seq(CallType) /\ WithReq(calls)'
    <3>1. "close" \in LoopOps \ Owning
      BY DEF LoopOps, Owning
    <3>. QED  BY <1>2, <1>4, <1>20, <3>1 DEF UserCloses
  <2>. QED  BY <1>1, <1>20, <2>1 DEF UserCloses, Types
<1>21. CASE UserReconnects
  <2>1. WithReq(calls)'
    BY <1>21, CallsKept DEF UserReconnects, WithReq
  <2>2. connects + 1 \in 1..MaxConnects
    BY <1>21, ConnectsAssumption DEF UserReconnects, Connect, Types
  <2>. QED  BY <1>1, <1>21, <2>1, <2>2 DEF UserReconnects, Connect, Types
<1>22. ASSUME NEW m \in Msg, NEW r \in Req, UserSends(m, r) PROVE Types'
  <2>1. pool' \in Seq(Req) /\ allocated' \subseteq Req /\ task' \in [Req -> Msg \cup {None}]
    BY <1>22, PoolTypes DEF UserSends, Types
  <2>2. PICK n : n = <<CallWith("pushinQue", r), Call("realSend")>>
    OBVIOUS
  <2>3. n \in Seq(CallType) /\ WithReq(n)
    <3>1. /\ CallWith("pushinQue", r) \in CallType /\ Call("realSend") \in CallType
          /\ CallWith("pushinQue", r).req = r /\ Call("realSend").op = "realSend"
      <4>1. "pushinQue" \in LoopOps /\ "realSend" \in LoopOps /\ r \in Req \cup {None}
        BY DEF LoopOps
      <4>. QED  BY <4>1, CallsAreCalls
    <3>. QED  BY <2>2, <3>1, WithReqTwo DEF Owning
  <2>4. calls' \in Seq(CallType) /\ WithReq(calls)'
    BY <1>4, <1>22, <2>2, <2>3 DEF UserSends
  <2>. QED  BY <1>1, <1>22, <2>1, <2>4 DEF UserSends, Types
<1>. QED  BY <1>6, <1>7, <1>8, <1>9, <1>10, <1>11, <1>12, <1>13, <1>14, <1>15, <1>16, <1>17,
             <1>18, <1>19, <1>20, <1>21, <1>22 DEF LoopCall

\* Every step keeps the types.
LEMMA TypesNext == Types /\ [Next]_vars => Types'
<1>1. CASE UNCHANGED vars
  BY <1>1 DEF vars, Types, streamVars, queueVars, senderVars, poolVars, StreamTypes, QueueTypes,
              ThreadTypes, HeldInv
<1>. QED  BY <1>1, SenderTypes, EventTypes, LoopCallTypes DEF Next

-----------------------------------------------------------------------------
(* The order of the calls.                                                 *)

\* The calls that may stand behind any other: the end of a session is last, and no
\* connection is still to be reported, no push and no loop over tempQue to be done.
Behind(s) ==
  \A i \in 1..Len(s) :
    /\ s[i].op \in {"onClose", "freeConnection"} => i = Len(s)
    /\ s[i].op \notin {"pushinQue", "sendLoop"}
    /\ s[i].op = "onConnect" => ~s[i].ok

\* The calls that may stand in front.
InFront(s) ==
  \A i \in 1..Len(s) :
    /\ s[i].op \notin {"onClose", "freeConnection", "pushinQue", "sendLoop"}
    /\ s[i].op = "onConnect" => ~s[i].ok

\* A connection is reported at once, a push is followed by its realSend, and the loop
\* over tempQue is only ever delayed by a close.
Placed(s) ==
  \A i \in 1..Len(s) :
    /\ s[i].op \in {"onClose", "freeConnection"} => i = Len(s)
    /\ s[i].op = "onConnect" /\ s[i].ok => Len(s) = 1
    /\ s[i].op = "pushinQue" => i = 1 /\ Len(s) >= 2 /\ s[2].op = "realSend"
    /\ s[i].op = "sendLoop" => i = 1 \/ (i = 2 /\ s[1].op = "close")

LEMMA BehindIsPlaced ==
  ASSUME NEW s, Behind(s) PROVE Placed(s)
BY DEF Behind, Placed

\* What is left when a call has returned.
LEMMA PlacedTail ==
  ASSUME NEW s \in Seq(CallType), s # <<>>, Placed(s)
  PROVE  /\ Tail(s) \in Seq(CallType) /\ Placed(Tail(s))
         /\ Head(s).op \notin {"close", "pushinQue"} => Behind(Tail(s))
         /\ Head(s).op \in {"onClose", "freeConnection"} => Tail(s) = <<>>
         /\ Head(s).op = "onConnect" /\ Head(s).ok => Tail(s) = <<>>
         /\ Head(s).op \in UserOps => Behind(s)
<1>1. PICK t, e : t = Tail(s) /\ e = Head(s)
  OBVIOUS
<1>2. /\ t \in Seq(CallType) /\ e \in CallType /\ e = s[1] /\ Len(s) \in Nat \ {0}
      /\ Len(t) = Len(s) - 1 /\ 1 \in 1..Len(s)
      /\ \A i \in 1..Len(t) : i + 1 \in 1..Len(s) /\ t[i] = s[i + 1]
  BY <1>1
<1>3. Placed(t)
  <2>1. ASSUME NEW i \in 1..Len(t)
        PROVE  /\ t[i].op \in {"onClose", "freeConnection"} => i = Len(t)
               /\ ~(t[i].op = "onConnect" /\ t[i].ok)
               /\ t[i].op # "pushinQue"
               /\ t[i].op = "sendLoop" => i = 1
    <3>1. i + 1 \in 1..Len(s) /\ t[i] = s[i + 1] /\ i \in Nat /\ i >= 1
      BY <1>2
    <3>2. /\ s[i + 1].op \in {"onClose", "freeConnection"} => i + 1 = Len(s)
          /\ s[i + 1].op = "onConnect" /\ s[i + 1].ok => Len(s) = 1
          /\ s[i + 1].op = "pushinQue" => i + 1 = 1
          /\ s[i + 1].op = "sendLoop" => i + 1 = 1 \/ i + 1 = 2
      BY <1>2 DEF Placed
    <3>. QED  BY <1>2, <3>1, <3>2
  <2>. QED  BY <2>1 DEF Placed
<1>4. ASSUME e.op \notin {"close", "pushinQue"} PROVE Behind(t)
  <2>1. ASSUME NEW i \in 1..Len(t)
        PROVE  /\ t[i].op \in {"onClose", "freeConnection"} => i = Len(t)
               /\ t[i].op \notin {"pushinQue", "sendLoop"}
               /\ t[i].op = "onConnect" => ~t[i].ok
    <3>1. i + 1 \in 1..Len(s) /\ t[i] = s[i + 1] /\ i \in Nat /\ i >= 1
      BY <1>2
    <3>2. /\ s[i + 1].op \in {"onClose", "freeConnection"} => i + 1 = Len(s)
          /\ s[i + 1].op = "onConnect" /\ s[i + 1].ok => Len(s) = 1
          /\ s[i + 1].op = "pushinQue" => i + 1 = 1
          /\ s[i + 1].op = "sendLoop" => i + 1 = 1
      BY <1>2, <1>4 DEF Placed
    <3>. QED  BY <1>2, <3>1, <3>2
  <2>. QED  BY <2>1 DEF Behind
<1>5. ASSUME \/ e.op \in {"onClose", "freeConnection"}
             \/ e.op = "onConnect" /\ e.ok
      PROVE  t = <<>>
  <2>1. Len(s) = 1
    BY <1>2, <1>5 DEF Placed
  <2>. QED  BY <1>2, <2>1
<1>6. ASSUME e.op \in UserOps PROVE Behind(s)
  <2>1. ASSUME NEW i \in 1..Len(s)
        PROVE  /\ s[i].op \in {"onClose", "freeConnection"} => i = Len(s)
               /\ s[i].op \notin {"pushinQue", "sendLoop"}
               /\ s[i].op = "onConnect" => ~s[i].ok
    <3>1. /\ s[i].op \in {"onClose", "freeConnection"} => i = Len(s)
          /\ s[i].op = "onConnect" /\ s[i].ok => Len(s) = 1
          /\ s[i].op = "pushinQue" => i = 1
          /\ s[i].op = "sendLoop" => i = 1 \/ s[1].op = "close"
      BY DEF Placed
    <3>2. s[1].op \notin {"close", "pushinQue", "sendLoop", "onConnect"}
      BY <1>2, <1>6 DEF UserOps
    <3>3. Len(s) = 1 => i = 1
      BY <1>2
    <3>. QED  BY <3>1, <3>2, <3>3
  <2>. QED  BY <2>1 DEF Behind
<1>. QED  BY <1>1, <1>2, <1>3, <1>4, <1>5, <1>6

\* Calls put in front.
LEMMA BehindJoin ==
  ASSUME NEW s \in Seq(CallType), NEW t \in Seq(CallType), InFront(s), Behind(t)
  PROVE  Behind(s \o t)
<1>1. PICK u : u = s \o t
  OBVIOUS
<1>2. /\ Len(s) \in Nat /\ Len(t) \in Nat /\ Len(u) = Len(s) + Len(t)
      /\ \A i \in 1..Len(s) : u[i] = s[i]
      /\ \A i \in 1..Len(t) : u[Len(s) + i] = t[i]
  BY <1>1, Joining
<1>3. ASSUME NEW i \in 1..Len(u)
      PROVE  /\ u[i].op \in {"onClose", "freeConnection"} => i = Len(u)
             /\ u[i].op \notin {"pushinQue", "sendLoop"}
             /\ u[i].op = "onConnect" => ~u[i].ok
  <2>1. CASE i \in 1..Len(s)
    BY <1>2, <2>1 DEF InFront
  <2>2. ASSUME NEW j \in 1..Len(t), Len(s) + j = i
        PROVE  /\ u[i].op \in {"onClose", "freeConnection"} => i = Len(u)
               /\ u[i].op \notin {"pushinQue", "sendLoop"}
               /\ u[i].op = "onConnect" => ~u[i].ok
    <3>1. u[i] = t[j]
      BY <1>2, <2>2
    <3>2. j = Len(t) => i = Len(u)
      BY <1>2, <2>2
    <3>. QED  BY <3>1, <3>2 DEF Behind
  <2>3. i \in 1..Len(s) \/ (i - Len(s) \in 1..Len(t) /\ Len(s) + (i - Len(s)) = i)
    BY <1>2
  <2>. QED  BY <2>1, <2>2, <2>3
<1>. QED  BY <1>1, <1>3 DEF Behind

\* A call put in front of others.
LEMMA OneInFront ==
  ASSUME NEW e \in CallType, NEW t \in Seq(CallType)
  PROVE  /\ <<e>> \o t \in Seq(CallType) /\ Len(<<e>> \o t) = Len(t) + 1 /\ (<<e>> \o t)[1] = e
         /\ Len(t) \in Nat
         /\ \A i \in 1..Len(<<e>> \o t) : i # 1 => i - 1 \in 1..Len(t) /\ (<<e>> \o t)[i] = t[i - 1]
OBVIOUS

LEMMA TwoInFront ==
  ASSUME NEW e \in CallType, NEW f \in CallType, NEW t \in Seq(CallType)
  PROVE  <<e, f>> \o t = <<e>> \o (<<f>> \o t)
<1>1. PICK u, v, w : u = <<e, f>> \o t /\ w = <<f>> \o t /\ v = <<e>> \o w
  OBVIOUS
<1>2. /\ u \in Seq(CallType) /\ Len(u) = Len(t) + 2 /\ Len(t) \in Nat
      /\ u[1] = e /\ u[2] = f /\ \A i \in 1..Len(u) : i > 2 => u[i] = t[i - 2]
  BY <1>1
<1>3. /\ v \in Seq(CallType) /\ w \in Seq(CallType) /\ Len(v) = Len(t) + 2 /\ v[1] = e
      /\ \A i \in 1..Len(v) : i > 1 => v[i] = w[i - 1]
      /\ Len(w) = Len(t) + 1 /\ w[1] = f /\ \A i \in 1..Len(w) : i > 1 => w[i] = t[i - 1]
  BY <1>1, OneInFront
<1>4. ASSUME NEW i \in 1..Len(u) PROVE u[i] = v[i]
  <2>1. CASE i > 2
    <3>1. i - 1 \in 1..Len(w) /\ i - 1 > 1 /\ (i - 1) - 1 = i - 2
      BY <1>2, <1>3, <2>1
    <3>2. PICK k : k = i - 1
      OBVIOUS
    <3>3. w[k] = t[i - 2]
      BY <1>3, <3>1, <3>2
    <3>4. v[i] = w[k] /\ u[i] = t[i - 2]
      BY <1>2, <1>3, <2>1, <3>2
    <3>. QED  BY <3>3, <3>4
  <2>2. CASE i = 2
    BY <1>2, <1>3, <2>2
  <2>. QED  BY <1>2, <1>3, <2>1, <2>2
<1>5. u = v
  BY <1>2, <1>3, <1>4, SeqEqual
<1>. QED  BY <1>1, <1>5

\* The places where the calls that may not stand anywhere are put.
LEMMA PlacedInFront ==
  ASSUME NEW e \in CallType, NEW t \in Seq(CallType)
  PROVE  /\ e.op = "sendLoop" /\ Behind(t) => Placed(<<e>> \o t)
         /\ e.op = "close" /\ Placed(t) /\ t # <<>> /\ t[1].op = "sendLoop" => Placed(<<e>> \o t)
         /\ e.op = "pushinQue" /\ Behind(t) /\ t # <<>> /\ t[1].op = "realSend" => Placed(<<e>> \o t)
<1>1. PICK u : u = <<e>> \o t
  OBVIOUS
<1>2. /\ Len(u) = Len(t) + 1 /\ u[1] = e /\ Len(t) \in Nat
      /\ \A i \in 1..Len(u) : i # 1 => i - 1 \in 1..Len(t) /\ u[i] = t[i - 1]
  BY <1>1, OneInFront
<1>3. ASSUME e.op \in {"sendLoop", "pushinQue"}, Behind(t),
             e.op = "pushinQue" => t # <<>> /\ t[1].op = "realSend"
      PROVE  Placed(u)
  <2>1. ASSUME NEW i \in 1..Len(u)
        PROVE  /\ u[i].op \in {"onClose", "freeConnection"} => i = Len(u)
               /\ ~(u[i].op = "onConnect" /\ u[i].ok)
               /\ u[i].op = "pushinQue" => i = 1 /\ Len(u) >= 2 /\ u[2].op = "realSend"
               /\ u[i].op = "sendLoop" => i = 1
    <3>1. CASE i = 1
      <4>1. e.op = "pushinQue" => Len(u) >= 2 /\ u[2] = t[1]
        <5>1. t # <<>> => Len(t) >= 1
          OBVIOUS
        <5>2. Len(u) >= 2 => 2 \in 1..Len(u) /\ 2 - 1 = 1
          BY <1>2
        <5>. QED  BY <1>2, <1>3, <5>1, <5>2
      <4>. QED  BY <1>2, <1>3, <3>1, <4>1
    <3>2. CASE i # 1
      <4>1. PICK j : j = i - 1
        OBVIOUS
      <4>2. j \in 1..Len(t) /\ u[i] = t[j] /\ (j = Len(t) => i = Len(u))
        BY <1>2, <3>2, <4>1
      <4>. QED  BY <1>3, <4>2 DEF Behind
    <3>. QED  BY <3>1, <3>2
  <2>. QED  BY <2>1 DEF Placed
<1>4. ASSUME e.op = "close", Placed(t), t # <<>>, t[1].op = "sendLoop"
      PROVE  Placed(u)
  <2>1. ASSUME NEW i \in 1..Len(u)
        PROVE  /\ u[i].op \in {"onClose", "freeConnection"} => i = Len(u)
               /\ ~(u[i].op = "onConnect" /\ u[i].ok)
               /\ u[i].op # "pushinQue"
               /\ u[i].op = "sendLoop" => (i = 2 /\ u[1].op = "close")
    <3>1. CASE i = 1
      BY <1>2, <1>4, <3>1
    <3>2. CASE i # 1
      <4>1. PICK j : j = i - 1
        OBVIOUS
      <4>2. j \in 1..Len(t) /\ u[i] = t[j] /\ (j = Len(t) => i = Len(u)) /\ (j = 1 => i = 2)
        BY <1>2, <3>2, <4>1
      <4>3. /\ t[j].op \in {"onClose", "freeConnection"} => j = Len(t)
            /\ t[j].op = "onConnect" /\ t[j].ok => Len(t) = 1
            /\ t[j].op = "pushinQue" => j = 1
            /\ t[j].op = "sendLoop" => j = 1 \/ t[1].op = "close"
        BY <1>4, <4>2 DEF Placed
      <4>4. Len(t) = 1 => j = 1
        BY <1>2, <4>2
      <4>. QED  BY <1>2, <1>4, <4>2, <4>3, <4>4
    <3>. QED  BY <3>1, <3>2
  <2>. QED  BY <2>1 DEF Placed
<1>. QED  BY <1>1, <1>3, <1>4

\* Calls in front of others, one, two and joined.
LEMMA InFrontSome ==
  /\ \A x \in CallType :
       (x.op \notin {"onClose", "freeConnection", "pushinQue", "sendLoop"}
        /\ (x.op = "onConnect" => ~x.ok)) => <<x>> \in Seq(CallType) /\ InFront(<<x>>)
  /\ \A x \in CallType, y \in CallType :
       (/\ x.op \notin {"onClose", "freeConnection", "pushinQue", "sendLoop"}
        /\ x.op = "onConnect" => ~x.ok
        /\ y.op \notin {"onClose", "freeConnection", "pushinQue", "sendLoop", "onConnect"})
          => <<x, y>> \in Seq(CallType) /\ InFront(<<x, y>>)
  /\ \A x \in CallType : x.op # "pushinQue" => Placed(<<x>>)
  /\ \A x \in CallType : x.op \in {"onClose", "freeConnection"} => Behind(<<x>>)
  /\ <<>> \in Seq(CallType) /\ InFront(<<>>) /\ Behind(<<>>)
<1>1. \A x : Len(<<x>>) = 1 /\ <<x>>[1] = x /\ 1..1 = {1}
  OBVIOUS
<1>2. \A x, y : Len(<<x, y>>) = 2 /\ <<x, y>>[1] = x /\ <<x, y>>[2] = y /\ 1..2 = {1, 2}
  OBVIOUS
<1>3. \A x \in CallType, y \in CallType : <<x>> \in Seq(CallType) /\ <<x, y>> \in Seq(CallType)
  OBVIOUS
<1>4. ASSUME NEW x \in CallType
      PROVE  /\ x.op # "pushinQue" => Placed(<<x>>)
             /\ x.op \in {"onClose", "freeConnection"} => Behind(<<x>>)
             /\ (/\ x.op \notin {"onClose", "freeConnection", "pushinQue", "sendLoop"}
                 /\ x.op = "onConnect" => ~x.ok) => InFront(<<x>>)
  BY <1>1 DEF Placed, Behind, InFront
<1>5. ASSUME NEW x \in CallType, NEW y \in CallType,
             x.op \notin {"onClose", "freeConnection", "pushinQue", "sendLoop"},
             x.op = "onConnect" => ~x.ok,
             y.op \notin {"onClose", "freeConnection", "pushinQue", "sendLoop", "onConnect"}
      PROVE  InFront(<<x, y>>)
  BY <1>2, <1>5 DEF InFront
<1>6. <<>> \in Seq(CallType) /\ InFront(<<>>) /\ Behind(<<>>)
  BY DEF InFront, Behind
<1>. QED  BY <1>3, <1>4, <1>5, <1>6

LEMMA InFrontJoin ==
  ASSUME NEW s \in Seq(CallType), NEW t \in Seq(CallType), InFront(s), InFront(t)
  PROVE  s \o t \in Seq(CallType) /\ InFront(s \o t)
<1>1. ToSet(s \o t) = ToSet(s) \cup ToSet(t) /\ s \o t \in Seq(CallType)
  BY Joining
<1>2. \A u \in Seq(CallType) :
        InFront(u) <=> \A x \in ToSet(u) :
                         /\ x.op \notin {"onClose", "freeConnection", "pushinQue", "sendLoop"}
                         /\ x.op = "onConnect" => ~x.ok
  <2>1. \A u \in Seq(CallType) : DOMAIN u = 1..Len(u)
    OBVIOUS
  <2>. QED  BY <2>1 DEF InFront, ToSet
<1>. QED  BY <1>1, <1>2

LEMMA CancelledInFront ==
  ASSUME writes \in Seq(Req)
  PROVE  Cancelled \in Seq(CallType) /\ InFront(Cancelled) /\ Behind(Cancelled)
<1>1. PICK c : c = Cancelled
  OBVIOUS
<1>2. c \in Seq(CallType) /\ Len(c) = Len(writes)
      /\ \A i \in 1..Len(writes) : c[i] = Outcome("afterWrite", writes[i], FALSE)
  BY <1>1, CancelledCalls
<1>3. \A i \in 1..Len(c) : c[i].op = "afterWrite"
  <2>1. ASSUME NEW i \in 1..Len(writes) PROVE c[i].op = "afterWrite"
    <3>1. c[i] = Outcome("afterWrite", writes[i], FALSE)
      BY <1>2
    <3>. QED  BY <3>1 DEF Outcome
  <2>. QED  BY <1>2, <2>1
<1>. QED  BY <1>1, <1>2, <1>3 DEF InFront, Behind

\* The forms in which an action changes calls.
LEMMA PlacedKept ==
  ASSUME Types, Placed(calls)
  PROVE  /\ Returns /\ ~Idle => Placed(calls)'
         /\ \A n \in Seq(CallType) : Enters(n) /\ Placed(n) => Placed(calls)'
         /\ \A n \in Seq(CallType) : InFront(n) =>
              /\ ReturnsTo(n) /\ ~Idle /\ Head(calls).op \notin {"close", "pushinQue"} => Placed(calls)'
              /\ ~Idle /\ Head(calls).op \in UserOps /\ calls' = n \o calls => Placed(calls)'
<1>1. calls \in Seq(CallType)
  BY DEF Types, ThreadTypes
<1>2. PICK t : t = Tail(calls)
  OBVIOUS
<1>3. ~Idle => /\ t \in Seq(CallType) /\ Placed(t)
               /\ Head(calls).op \notin {"close", "pushinQue"} => Behind(t)
               /\ Head(calls).op \in UserOps => Behind(calls)
  BY <1>1, <1>2, PlacedTail DEF Idle
<1>4. Returns /\ ~Idle => Placed(calls)'
  BY <1>2, <1>3 DEF Returns, Placed
<1>5. ASSUME NEW n \in Seq(CallType), InFront(n), ReturnsTo(n), ~Idle,
             Head(calls).op \notin {"close", "pushinQue"}
      PROVE  Placed(calls)'
  <2>1. PICK u : u = n \o t
    OBVIOUS
  <2>2. Placed(u)
    BY <1>3, <1>5, <2>1, BehindJoin, BehindIsPlaced
  <2>3. calls' = u
    BY <1>2, <1>5, <2>1 DEF ReturnsTo
  <2>. QED  BY <2>2, <2>3 DEF Placed
<1>6. ASSUME NEW n \in Seq(CallType), InFront(n), ~Idle, Head(calls).op \in UserOps, calls' = n \o calls
      PROVE  Placed(calls)'
  <2>1. PICK u : u = n \o calls
    OBVIOUS
  <2>2. Placed(u)
    BY <1>1, <1>3, <1>6, <2>1, BehindJoin, BehindIsPlaced
  <2>3. calls' = u
    BY <1>6, <2>1
  <2>. QED  BY <2>2, <2>3 DEF Placed
<1>7. ASSUME NEW n \in Seq(CallType), Enters(n), Placed(n) PROVE Placed(calls)'
  BY <1>7 DEF Enters, Placed
<1>. QED  BY <1>4, <1>5, <1>6, <1>7

\* Every step of the loop keeps the calls placed.
LEMMA PlacedEvent ==
  ASSUME Types, Placed(calls), LoopEvent \/ UvRead \/ UvReadEnds
  PROVE  Placed(calls)'
<1>1. ASSUME NEW op \in LoopOps, NEW r \in Req \cup {None}, NEW ok \in BOOLEAN, op # "pushinQue",
             Enters(<<Call(op)>>) \/ Enters(<<Outcome(op, r, ok)>>)
      PROVE  Placed(calls)'
  <2>1. /\ Call(op) \in CallType /\ Outcome(op, r, ok) \in CallType
        /\ Call(op).op # "pushinQue" /\ Outcome(op, r, ok).op # "pushinQue"
    BY <1>1 DEF Call, Outcome, CallType
  <2>2. /\ Placed(<<Call(op)>>) /\ Placed(<<Outcome(op, r, ok)>>)
        /\ <<Call(op)>> \in Seq(CallType) /\ <<Outcome(op, r, ok)>> \in Seq(CallType)
    BY <2>1, InFrontSome
  <2>. QED  BY <1>1, <2>2, PlacedKept
<1>2. /\ {"realSend", "close", "onConnect", "onMessageParse", "afterWrite"} \subseteq LoopOps \ {"pushinQue"}
      /\ None \in Req \cup {None} /\ TRUE \in BOOLEAN /\ FALSE \in BOOLEAN
  BY DEF LoopOps, UserOps
<1>3. CASE RunPosted
  <2>1. Head(posted) \in {"realSend", "close"}
    BY <1>3 DEF RunPosted, Types, ThreadTypes
  <2>. QED  BY <1>1, <1>2, <1>3, <2>1 DEF RunPosted
<1>4. CASE UvConnected \/ UvRead \/ UvReadEnds
  BY <1>1, <1>2, <1>4 DEF UvConnected, UvRead, UvReadEnds
<1>5. CASE UvConnectFails
  <2>1. PICK n : n = <<Outcome("onConnect", None, FALSE), Call("flush")>>
    OBVIOUS
  <2>2. n \in Seq(CallType) /\ InFront(n)
    <3>1. /\ Outcome("onConnect", None, FALSE) \in CallType /\ Call("flush") \in CallType
          /\ ~Outcome("onConnect", None, FALSE).ok /\ Call("flush").op = "flush"
          /\ Outcome("onConnect", None, FALSE).op = "onConnect"
      BY DEF Call, Outcome, CallType, LoopOps
    <3>. QED  BY <2>1, <3>1, InFrontSome
  <2>3. Placed(n)
    BY <2>2 DEF InFront, Placed
  <2>. QED  BY <1>5, <2>1, <2>2, <2>3, PlacedKept DEF UvConnectFails
<1>6. CASE UvWritten \/ UvWriteFails
  <2>1. Head(writes) \in Req \cup {None}
    BY <1>6 DEF UvWritten, UvWriteFails, Types, QueueTypes
  <2>. QED  BY <1>1, <1>2, <1>6, <2>1 DEF UvWritten, UvWriteFails
<1>7. CASE UvFinishClose
  <2>1. PICK aborted, done, c :
          /\ aborted = IF stream = "aborting" THEN <<Outcome("onConnect", None, FALSE)>> ELSE <<>>
          /\ done = <<Call("onClose")>> /\ c = Cancelled
    OBVIOUS
  <2>2. Call("onClose") \in CallType /\ Call("onClose").op = "onClose"
        /\ Outcome("onConnect", None, FALSE) \in CallType /\ ~Outcome("onConnect", None, FALSE).ok
        /\ Outcome("onConnect", None, FALSE).op = "onConnect"
    BY DEF Call, Outcome, CallType, LoopOps
  <2>3. aborted \in Seq(CallType) /\ InFront(aborted)
    BY <2>1, <2>2, InFrontSome
  <2>4. done \in Seq(CallType) /\ Behind(done)
    <3>1. <<Call("onClose")>> \in Seq(CallType)
      BY <2>2
    <3>. QED  BY <2>1, <2>2, <3>1, InFrontSome
  <2>5. c \in Seq(CallType) /\ InFront(c)
    BY <2>1, CancelledInFront DEF Types, QueueTypes
  <2>6. PICK u : u = aborted \o c
    OBVIOUS
  <2>7. u \in Seq(CallType) /\ InFront(u)
    BY <2>3, <2>5, <2>6, InFrontJoin
  <2>8. u \o done \in Seq(CallType) /\ Placed(u \o done)
    BY <2>4, <2>7, BehindJoin, BehindIsPlaced, Joining
  <2>9. Enters(u \o done)
    BY <1>7, <2>1, <2>6, Zenon DEF UvFinishClose
  <2>. QED  BY <2>8, <2>9, PlacedKept
<1>. QED  BY <1>3, <1>4, <1>5, <1>6, <1>7 DEF LoopEvent

\* What afterWrite leaves to do.
LEMMA AfterWriteForm ==
  ASSUME Types, AfterWrite
  PROVE  \E n \in Seq(CallType) : InFront(n) /\ ReturnsTo(n)
<1>1. ~Idle /\ Head(calls) \in CallType
  <2>1. calls \in Seq(CallType) /\ ~Idle
    BY DEF Types, ThreadTypes, AfterWrite, Runs
  <2>. QED  BY <2>1 DEF Idle
<1>2. PICK r, ok : r = Head(calls).req /\ ok = Head(calls).ok
  OBVIOUS
<1>3. r \in Req \cup {None} /\ ok \in BOOLEAN /\ ~Idle
  BY <1>1, <1>2 DEF AfterWrite, CallType
<1>4. PICK n, o : /\ n = <<Outcome("sendCb", r, ok)>>
                  /\ o = IF ok THEN <<Call("realSend"), CallWith("putWriteBuffer", r)>>
                               ELSE <<CallWith("pushbackQue", r), Call("close")>>
  OBVIOUS
<1>5. /\ Outcome("sendCb", r, ok) \in CallType /\ Outcome("sendCb", r, ok).op = "sendCb"
      /\ Call("realSend") \in CallType /\ Call("realSend").op = "realSend"
      /\ CallWith("putWriteBuffer", r) \in CallType /\ CallWith("putWriteBuffer", r).op = "putWriteBuffer"
      /\ CallWith("pushbackQue", r) \in CallType /\ CallWith("pushbackQue", r).op = "pushbackQue"
      /\ Call("close") \in CallType /\ Call("close").op = "close"
  BY <1>3 DEF Outcome, Call, CallWith, CallType, LoopOps, UserOps
<1>6. n \in Seq(CallType) /\ InFront(n)
  BY <1>4, <1>5, InFrontSome
<1>7. o \in Seq(CallType) /\ InFront(o)
  <2>1. CASE ok
    BY <1>4, <1>5, <2>1, InFrontSome
  <2>2. CASE ~ok
    BY <1>4, <1>5, <2>2, InFrontSome
  <2>. QED  BY <2>1, <2>2
<1>8. n \o o \in Seq(CallType) /\ InFront(n \o o)
  BY <1>6, <1>7, InFrontJoin
<1>9. ReturnsTo(n \o o)
  BY <1>2, <1>4, Zenon DEF AfterWrite
<1>. QED  BY <1>8, <1>9

LEMMA PlacedLoopCall ==
  ASSUME Types, Placed(calls),
         LoopCall \/ UserCloses \/ UserReconnects \/ \E m \in Msg, r \in Req : UserSends(m, r)
  PROVE  Placed(calls)'
<1>. USE DEF Runs
<1>1. calls \in Seq(CallType) /\ (~Idle => calls # <<>> /\ Head(calls) \in CallType /\ Head(calls) = calls[1])
  BY DEF Types, ThreadTypes, Idle
<1>2. PICK t : t = Tail(calls)
  OBVIOUS
<1>3. ~Idle => /\ t \in Seq(CallType) /\ Placed(t)
               /\ Head(calls).op \notin {"close", "pushinQue"} => Behind(t)
               /\ Head(calls).op \in {"onClose", "freeConnection"} => t = <<>>
               /\ Head(calls).op \in UserOps => Behind(calls)
  BY <1>1, <1>2, PlacedTail DEF Idle
<1>4. CASE Returns /\ ~Idle
  BY <1>4, PlacedKept
<1>5. ASSUME UNCHANGED calls PROVE Placed(calls)'
  BY <1>5 DEF Placed
<1>6. ASSUME NEW n \in Seq(CallType), InFront(n), ~Idle,
             \/ ReturnsTo(n) /\ Head(calls).op \notin {"close", "pushinQue"}
             \/ Head(calls).op \in UserOps /\ calls' = n \o calls
      PROVE  Placed(calls)'
  BY <1>6, PlacedKept
<1>7. CASE UvFlush
  <2>1. CASE stream = "failed"
    <3>1. PICK c : c = Cancelled
      OBVIOUS
    <3>2. c \in Seq(CallType) /\ InFront(c)
      BY <3>1, CancelledInFront DEF Types, QueueTypes
    <3>. QED  BY <1>6, <1>7, <2>1, <3>1, <3>2 DEF UvFlush
  <2>2. CASE stream # "failed"
    BY <1>4, <1>7, <2>2 DEF UvFlush
  <2>. QED  BY <2>1, <2>2
<1>8. CASE SwapQue
  <2>1. PICK e : e = Call("sendLoop")
    OBVIOUS
  <2>2. e \in CallType /\ e.op = "sendLoop"
    BY <2>1 DEF Call, CallType, LoopOps
  <2>3. PICK u : u = <<e>> \o t
    OBVIOUS
  <2>4. Behind(t) /\ t \in Seq(CallType)
    BY <1>3, <1>8 DEF SwapQue
  <2>5. Placed(u)
    BY <2>2, <2>3, <2>4, PlacedInFront
  <2>6. calls' = u
    BY <1>2, <1>8, <2>1, <2>3 DEF SwapQue, ReturnsTo
  <2>. QED  BY <2>5, <2>6 DEF Placed
<1>9. CASE UvWriteRefused
  <2>1. PICK e : e = Call("close")
    OBVIOUS
  <2>2. e \in CallType /\ e.op = "close"
    BY <2>1 DEF Call, CallType, LoopOps
  <2>3. PICK u : u = <<e>> \o calls
    OBVIOUS
  <2>4. Placed(u)
    <3>1. calls # <<>> /\ calls[1].op = "sendLoop"
      BY <1>1, <1>9 DEF UvWriteRefused
    <3>. QED  BY <1>1, <2>2, <2>3, <3>1, PlacedInFront
  <2>5. calls' = u
    BY <1>9, <2>1, <2>3 DEF UvWriteRefused
  <2>. QED  BY <2>4, <2>5 DEF Placed
<1>10. CASE AfterWrite
  <2>1. ~Idle /\ Head(calls).op = "afterWrite"
    BY <1>10 DEF AfterWrite
  <2>. QED  BY <1>6, <1>10, <2>1, AfterWriteForm
<1>11. CASE OnConnect
  <2>1. PICK e : e = Outcome("connCb", None, Head(calls).ok)
    OBVIOUS
  <2>2. e \in CallType /\ e.op = "connCb"
    BY <1>1, <1>11, <2>1 DEF OnConnect, Outcome, CallType, LoopOps, UserOps
  <2>3. <<e>> \in Seq(CallType) /\ InFront(<<e>>)
    BY <2>2, InFrontSome
  <2>. QED  BY <1>6, <1>11, <2>1, <2>3 DEF OnConnect
<1>12. CASE OnClose
  <2>1. PICK e, o : /\ e = Call("closeCb")
                    /\ o = IF bClient THEN <<>> ELSE <<Call("freeConnection")>>
    OBVIOUS
  <2>2. /\ e \in CallType /\ e.op = "closeCb"
        /\ Call("freeConnection") \in CallType /\ Call("freeConnection").op = "freeConnection"
    BY <2>1 DEF Call, CallType, LoopOps, UserOps
  <2>3. <<e>> \in Seq(CallType) /\ InFront(<<e>>)
    BY <2>2, InFrontSome
  <2>4. o \in Seq(CallType) /\ Behind(o)
    <3>1. <<Call("freeConnection")>> \in Seq(CallType)
      BY <2>2
    <3>2. CASE bClient
      BY <2>1, <3>2, InFrontSome
    <3>3. CASE ~bClient
      BY <2>1, <2>2, <3>1, <3>3, InFrontSome
    <3>. QED  BY <3>2, <3>3
  <2>5. PICK u : u = <<e>> \o o
    OBVIOUS
  <2>6. Placed(u) /\ u \in Seq(CallType)
    BY <2>3, <2>4, <2>5, BehindJoin, BehindIsPlaced, Joining
  <2>7. u \o <<>> = u
    BY <2>6
  <2>8. calls' = u \o t
    BY <1>2, <1>12, <2>1, <2>5, Zenon DEF OnClose, ReturnsTo
  <2>9. t = <<>>
    BY <1>3, <1>12 DEF OnClose
  <2>10. calls' = u
    BY <2>7, <2>8, <2>9, Zenon
  <2>. QED  BY <2>6, <2>10 DEF Placed
<1>13. CASE UserCloses
  <2>1. PICK e : e = Call("close")
    OBVIOUS
  <2>2. e \in CallType /\ e.op = "close"
    BY <2>1 DEF Call, CallType, LoopOps
  <2>3. <<e>> \in Seq(CallType) /\ InFront(<<e>>)
    BY <2>2, InFrontSome
  <2>. QED  BY <1>6, <1>13, <2>1, <2>3 DEF UserCloses, InUserCallback
<1>14. ASSUME NEW m \in Msg, NEW r \in Req, UserSends(m, r) PROVE Placed(calls)'
  <2>1. PICK e, f : e = CallWith("pushinQue", r) /\ f = Call("realSend")
    OBVIOUS
  <2>2. e \in CallType /\ e.op = "pushinQue" /\ f \in CallType /\ f.op = "realSend"
    BY <2>1 DEF Call, CallWith, CallType, LoopOps
  <2>3. Behind(calls)
    BY <1>3, <1>14 DEF UserSends, InUserCallback
  <2>4. PICK u, v : u = <<f>> \o calls /\ v = <<e>> \o u
    OBVIOUS
  <2>5. u \in Seq(CallType) /\ u # <<>> /\ u[1] = f
    BY <1>1, <2>2, <2>4
  <2>6. Behind(u)
    BY <1>1, <2>2, <2>3, <2>4, InFrontSome, BehindJoin
  <2>7. Placed(v)
    BY <2>2, <2>4, <2>5, <2>6, PlacedInFront
  <2>8. <<e, f>> \o calls = v
    BY <1>1, <2>2, <2>4, TwoInFront
  <2>9. calls' = v
    BY <1>14, <2>1, <2>8 DEF UserSends
  <2>. QED  BY <2>7, <2>9 DEF Placed
<1>15. CASE UvWrite \/ KeepUnsent \/ UserReconnects
  BY <1>5, <1>15 DEF UvWrite, KeepUnsent, UserReconnects
<1>16. CASE \/ SendLoopEnds \/ AfterWriteUnbound \/ AfterWritePuts \/ AfterWriteKeeps
            \/ Close \/ FreeConnection \/ PushInQueInLoop \/ UserReturns
  <2>1. Returns /\ ~Idle
    BY <1>16 DEF SendLoopEnds, AfterWriteUnbound, AfterWritePuts, AfterWriteKeeps, Close,
                 FreeConnection, PushInQueInLoop, UserReturns, InUserCallback
  <2>. QED  BY <2>1, <1>4
<1>. QED  BY <1>7, <1>8, <1>9, <1>10, <1>11, <1>12, <1>13, <1>14, <1>15, <1>16 DEF LoopCall

LEMMA PlacedNext == Types /\ Placed(calls) /\ [Next]_vars => Placed(calls)'
<1>. SUFFICES ASSUME Types, Placed(calls), [Next]_vars PROVE Placed(calls)'
  OBVIOUS
<1>1. UNCHANGED calls => Placed(calls)'
  BY DEF Placed
<1>2. CASE UNCHANGED vars
  BY <1>1, <1>2 DEF vars
<1>3. ASSUME NEW t \in Senders,
             SenderStep(t) \/ CloseSafe(t) \/ \E m \in Msg, r \in Req : SendMsg(t, m, r)
      PROVE  Placed(calls)'
  BY <1>1, <1>3 DEF SenderStep, CloseSafe, SendMsg, PushInQue, PostRealSend, PostClose
<1>. QED  BY <1>2, <1>3, PlacedEvent, PlacedLoopCall DEF Next

-----------------------------------------------------------------------------
(* isOK.                                                                   *)

\* What the loop still has to do says what the stream is: a connection is reported on
\* an open one, onClose runs on one that has been closed, a session is freed after it.
StreamOf(s, of, client) ==
  \A i \in 1..Len(s) :
    /\ s[i].op = "onConnect" /\ s[i].ok => of = "open"
    /\ s[i].op = "onClose" => of = "finishing"
    /\ s[i].op = "freeConnection" => of = "closed" /\ ~client

OKInv == Types /\ Placed(calls) /\ StreamOf(calls, stream, bClient) /\ OKMeansOpen

LEMMA OKInit == Init => OKInv
<1>. SUFFICES ASSUME Init PROVE OKInv
  OBVIOUS
<1>1. calls = <<>> /\ connected = FALSE
  BY DEF Init
<1>. QED  BY <1>1, TypesInit DEF OKInv, Placed, StreamOf, OKMeansOpen

LEMMA StreamOfParts ==
  ASSUME NEW s \in Seq(CallType), NEW t \in Seq(CallType), NEW of, NEW client
  PROVE  /\ StreamOf(s \o t, of, client) <=> StreamOf(s, of, client) /\ StreamOf(t, of, client)
         /\ s # <<>> /\ StreamOf(s, of, client) => StreamOf(Tail(s), of, client)
         /\ InFront(s) => StreamOf(s, of, client)
<1>1. \A u \in Seq(CallType) :
        StreamOf(u, of, client) <=> \A x \in ToSet(u) :
                          /\ x.op = "onConnect" /\ x.ok => of = "open"
                          /\ x.op = "onClose" => of = "finishing"
                          /\ x.op = "freeConnection" => of = "closed" /\ ~client
  <2>1. \A u \in Seq(CallType) : DOMAIN u = 1..Len(u)
    OBVIOUS
  <2>. QED  BY <2>1 DEF StreamOf, ToSet
<1>2. StreamOf(s \o t, of, client) <=> StreamOf(s, of, client) /\ StreamOf(t, of, client)
  <2>1. ToSet(s \o t) = ToSet(s) \cup ToSet(t) /\ s \o t \in Seq(CallType)
    BY Joining
  <2>. QED  BY <1>1, <2>1
<1>3. s # <<>> /\ StreamOf(s, of, client) => StreamOf(Tail(s), of, client)
  <2>1. s # <<>> => ToSet(s) = ToSet(Tail(s)) \cup {Head(s)} /\ Tail(s) \in Seq(CallType)
    BY Tailing
  <2>. QED  BY <1>1, <2>1
<1>4. InFront(s) => StreamOf(s, of, client)
  BY DEF InFront, StreamOf
<1>. QED  BY <1>2, <1>3, <1>4

\* One call that says nothing of the stream, or just what it is.
LEMMA StreamOfOne ==
  ASSUME NEW x \in CallType, NEW of, NEW client,
         x.op = "onConnect" /\ x.ok => of = "open",
         x.op = "onClose" => of = "finishing",
         x.op = "freeConnection" => of = "closed" /\ ~client
  PROVE  StreamOf(<<x>>, of, client) /\ StreamOf(<<>>, of, client) /\ <<x>> \in Seq(CallType)
<1>1. Len(<<x>>) = 1 /\ <<x>>[1] = x /\ <<x>> \in Seq(CallType)
  OBVIOUS
<1>. QED  BY <1>1 DEF StreamOf

\* The forms in which an action changes calls.
LEMMA StreamOfKept ==
  ASSUME Types, StreamOf(calls, stream, bClient), UNCHANGED bClient
  PROVE  /\ Returns /\ ~Idle => StreamOf(calls', stream, bClient)
         /\ \A n \in Seq(CallType) : StreamOf(n, stream, bClient) =>
              /\ ReturnsTo(n) /\ ~Idle => StreamOf(calls', stream, bClient)
              /\ calls' = n \o calls => StreamOf(calls', stream, bClient)
<1>1. calls \in Seq(CallType)
  BY DEF Types, ThreadTypes
<1>2. PICK t, c : t = Tail(calls) /\ c = calls'
  OBVIOUS
<1>3. ~Idle => t \in Seq(CallType) /\ StreamOf(t, stream, bClient)
  <2>1. ~Idle => calls # <<>>
    BY DEF Idle
  <2>. QED  BY <1>1, <1>2, <2>1, Tailing, StreamOfParts
<1>4. Returns /\ ~Idle => StreamOf(c, stream, bClient)
  BY <1>2, <1>3 DEF Returns
<1>5. ASSUME NEW n \in Seq(CallType), StreamOf(n, stream, bClient)
      PROVE  /\ ReturnsTo(n) /\ ~Idle => StreamOf(c, stream, bClient)
             /\ calls' = n \o calls => StreamOf(c, stream, bClient)
  <2>1. ReturnsTo(n) => c = n \o t
    BY <1>2 DEF ReturnsTo
  <2>2. PICK u, v : u = n \o t /\ v = n \o calls
    OBVIOUS
  <2>3. ~Idle => StreamOf(u, stream, bClient)
    BY <1>3, <1>5, <2>2, StreamOfParts
  <2>4. StreamOf(v, stream, bClient)
    BY <1>1, <1>5, <2>2, StreamOfParts
  <2>. QED  BY <1>2, <2>1, <2>2, <2>3, <2>4
<1>. QED  BY <1>2, <1>4, <1>5

\* Where the stream stays as it is.
LEMMA StreamKept ==
  ASSUME Types, StreamOf(calls, stream, bClient),
         \/ RunPosted \/ UvRead \/ UvReadEnds \/ UvWritten \/ UvWriteFails
         \/ (LoopCall /\ ~OnClose) \/ UserCloses \/ UserReconnects
         \/ \E m \in Msg, r \in Req : UserSends(m, r)
  PROVE  StreamOf(calls', stream, bClient)
<1>. USE DEF Runs, streamVars
<1>1. ASSUME NEW op \in LoopOps \ {"onConnect", "onClose", "freeConnection"}, NEW r \in Req \cup {None},
             NEW ok \in BOOLEAN
      PROVE  /\ StreamOf(<<Call(op)>>, stream, bClient)
             /\ StreamOf(<<Outcome(op, r, ok)>>, stream, bClient)
             /\ <<Call(op)>> \in Seq(CallType) /\ <<Outcome(op, r, ok)>> \in Seq(CallType)
  <2>1. /\ Call(op) \in CallType /\ Outcome(op, r, ok) \in CallType
        /\ Call(op).op = op /\ Outcome(op, r, ok).op = op
    BY <1>1 DEF Call, Outcome, CallType
  <2>. QED  BY <2>1, StreamOfOne
<1>2. /\ {"realSend", "close", "onMessageParse", "afterWrite", "sendLoop", "connCb"}
            \subseteq LoopOps \ {"onConnect", "onClose", "freeConnection"}
      /\ None \in Req \cup {None} /\ TRUE \in BOOLEAN /\ FALSE \in BOOLEAN
  BY DEF LoopOps, UserOps
<1>3. ASSUME NEW n \in Seq(CallType), StreamOf(n, stream, bClient), Enters(n)
      PROVE  StreamOf(calls', stream, bClient)
  BY <1>3 DEF Enters
<1>4. ASSUME NEW n \in Seq(CallType), StreamOf(n, stream, bClient), UNCHANGED bClient,
             (ReturnsTo(n) /\ ~Idle) \/ calls' = n \o calls
      PROVE  StreamOf(calls', stream, bClient)
  BY <1>4, StreamOfKept
<1>5. CASE RunPosted
  <2>1. Head(posted) \in {"realSend", "close"}
    BY <1>5 DEF RunPosted, Types, ThreadTypes
  <2>. QED  BY <1>1, <1>2, <1>3, <1>5, <2>1 DEF RunPosted
<1>6. CASE UvRead \/ UvReadEnds
  BY <1>1, <1>2, <1>3, <1>6 DEF UvRead, UvReadEnds
<1>7. CASE UvWritten \/ UvWriteFails
  <2>1. Head(writes) \in Req \cup {None}
    BY <1>7 DEF UvWritten, UvWriteFails, Types, QueueTypes
  <2>. QED  BY <1>1, <1>2, <1>3, <1>7, <2>1 DEF UvWritten, UvWriteFails
<1>8. CASE Returns /\ ~Idle /\ UNCHANGED bClient
  BY <1>8, StreamOfKept
<1>9. CASE UvFlush
  <2>1. CASE stream = "failed"
    <3>1. PICK c : c = Cancelled
      OBVIOUS
    <3>2. c \in Seq(CallType) /\ InFront(c)
      BY <3>1, CancelledInFront DEF Types, QueueTypes
    <3>3. StreamOf(c, stream, bClient)
      BY <3>2, StreamOfParts
    <3>. QED  BY <1>4, <1>9, <2>1, <3>1, <3>2, <3>3 DEF UvFlush
  <2>2. CASE stream # "failed"
    BY <1>8, <1>9, <2>2 DEF UvFlush
  <2>. QED  BY <2>1, <2>2
<1>10. CASE SwapQue
  BY <1>1, <1>2, <1>4, <1>10 DEF SwapQue
<1>11. CASE UvWriteRefused
  BY <1>1, <1>2, <1>4, <1>11 DEF UvWriteRefused
<1>12. CASE AfterWrite
  <2>1. PICK n \in Seq(CallType) : InFront(n) /\ ReturnsTo(n)
    BY <1>12, AfterWriteForm
  <2>2. StreamOf(n, stream, bClient)
    BY <2>1, StreamOfParts
  <2>. QED  BY <1>4, <1>12, <2>1, <2>2 DEF AfterWrite
<1>13. CASE OnConnect
  <2>1. Head(calls).ok \in BOOLEAN
    <3>1. calls \in Seq(CallType) /\ calls # <<>>
      BY <1>13 DEF OnConnect, Idle, Types, ThreadTypes
    <3>2. Head(calls) \in CallType
      BY <3>1, Tailing
    <3>. QED  BY <3>2 DEF CallType
  <2>. QED  BY <1>1, <1>2, <1>4, <1>13, <2>1 DEF OnConnect
<1>14. CASE UserCloses
  BY <1>1, <1>2, <1>4, <1>14 DEF UserCloses
<1>15. ASSUME NEW m \in Msg, NEW r \in Req, UserSends(m, r)
       PROVE  StreamOf(calls', stream, bClient)
  <2>1. PICK n : n = <<CallWith("pushinQue", r), Call("realSend")>>
    OBVIOUS
  <2>2. n \in Seq(CallType) /\ StreamOf(n, stream, bClient)
    <3>1. /\ CallWith("pushinQue", r) \in CallType /\ Call("realSend") \in CallType
          /\ CallWith("pushinQue", r).op = "pushinQue" /\ Call("realSend").op = "realSend"
      BY DEF Call, CallWith, CallType, LoopOps
    <3>2. n \in Seq(CallType) /\ Len(n) = 2 /\ 1..2 = {1, 2}
          /\ n[1].op = "pushinQue" /\ n[2].op = "realSend"
      BY <2>1, <3>1
    <3>. QED  BY <3>2 DEF StreamOf
  <2>. QED  BY <1>4, <1>15, <2>1, <2>2 DEF UserSends
<1>16. CASE UvWrite \/ KeepUnsent \/ UserReconnects
  BY <1>16 DEF UvWrite, KeepUnsent, UserReconnects
<1>17. CASE \/ SendLoopEnds \/ AfterWriteUnbound \/ AfterWritePuts \/ AfterWriteKeeps
            \/ Close \/ FreeConnection \/ PushInQueInLoop \/ UserReturns
  <2>1. Returns /\ ~Idle /\ UNCHANGED bClient
    BY <1>17 DEF SendLoopEnds, AfterWriteUnbound, AfterWritePuts, AfterWriteKeeps, Close,
                 FreeConnection, PushInQueInLoop, UserReturns, InUserCallback
  <2>. QED  BY <2>1, <1>8
<1>. QED  BY <1>5, <1>6, <1>7, <1>9, <1>10, <1>11, <1>12, <1>13, <1>14, <1>15, <1>16, <1>17 DEF LoopCall

\* Every step keeps the invariant.
LEMMA OKNext == OKInv /\ [Next]_vars => OKInv'
<1>. SUFFICES ASSUME OKInv, [Next]_vars PROVE OKInv'
  OBVIOUS
<1>. USE DEF Runs, streamVars
<1>1. Types' /\ Placed(calls)'
  BY TypesNext, PlacedNext DEF OKInv
<1>2. /\ Types /\ Placed(calls) /\ StreamOf(calls, stream, bClient) /\ OKMeansOpen
      /\ calls \in Seq(CallType)
  BY DEF OKInv, Types, ThreadTypes
<1>3. PICK c : c = calls'
  OBVIOUS
<1>4. ASSUME StreamOf(c, stream', bClient'), OKMeansOpen' PROVE OKInv'
  <2>1. StreamOf(calls, stream, bClient)'
    BY <1>3, <1>4 DEF StreamOf
  <2>. QED  BY <1>1, <1>4, <2>1 DEF OKInv
<1>5. ASSUME StreamOf(c, stream, bClient), UNCHANGED <<stream, bClient>>, connected' \in {connected, FALSE}
      PROVE  OKInv'
  <2>1. StreamOf(c, stream', bClient')
    BY <1>5 DEF StreamOf
  <2>2. OKMeansOpen'
    BY <1>2, <1>5 DEF OKMeansOpen
  <2>. QED  BY <1>4, <2>1, <2>2
<1>6. CASE UNCHANGED vars
  BY <1>2, <1>3, <1>5, <1>6 DEF vars
\* A connection still to be reported is all there is to do.
<1>7. ASSUME NEW i \in 1..Len(calls), calls[i].op = "onConnect" /\ calls[i].ok
      PROVE  Head(calls) = calls[i]
  <2>1. Len(calls) = 1
    BY <1>2, <1>7 DEF Placed
  <2>. QED  BY <1>2, <2>1
\* A session ends when it is closed.
<1>8. ASSUME UNCHANGED <<bClient, connected, calls>>, NEW last, Release(last),
             last => stream \in {"closed", "freed"} /\ \A i \in 1..Len(calls) : calls[i].op # "freeConnection"
      PROVE  OKInv'
  <2>1. CASE last
    <3>1. stream' = "freed" /\ ~connected
      BY <1>2, <1>8, <2>1 DEF Release, Destroy, OKMeansOpen
    <3>2. StreamOf(c, stream', bClient')
      BY <1>2, <1>3, <1>8, <2>1, <3>1 DEF StreamOf
    <3>. QED  BY <1>4, <1>8, <3>1, <3>2 DEF OKMeansOpen
  <2>2. CASE ~last
    BY <1>2, <1>3, <1>5, <1>8, <2>2 DEF Release
  <2>. QED  BY <2>1, <2>2
<1>9. ASSUME NEW t \in Senders,
             SenderStep(t) \/ CloseSafe(t) \/ \E m \in Msg, r \in Req : SendMsg(t, m, r)
      PROVE  OKInv'
  <2>1. CASE PostRealSend(t) \/ PostClose(t)
    BY <1>8, <2>1 DEF PostRealSend, PostClose, Mapped
  <2>2. CASE PushInQue(t) \/ CloseSafe(t) \/ \E m \in Msg, r \in Req : SendMsg(t, m, r)
    BY <1>2, <1>3, <1>5, <2>2 DEF PushInQue, CloseSafe, SendMsg
  <2>. QED  BY <1>9, <2>1, <2>2 DEF SenderStep
<1>10. CASE UvConnected
  <2>1. Outcome("onConnect", None, TRUE) \in CallType /\ Outcome("onConnect", None, TRUE).op = "onConnect"
    BY DEF Outcome, CallType, LoopOps
  <2>2. stream' = "open" /\ c = <<Outcome("onConnect", None, TRUE)>>
    BY <1>3, <1>10 DEF UvConnected, Enters
  <2>3. StreamOf(c, stream', bClient')
    BY <2>1, <2>2, StreamOfOne
  <2>. QED  BY <1>4, <2>2, <2>3 DEF OKMeansOpen
<1>11. CASE UvConnectFails
  <2>1. c = <<Outcome("onConnect", None, FALSE), Call("flush")>> /\ stream' = "failed" /\ ~connected'
    BY <1>2, <1>3, <1>11 DEF UvConnectFails, Enters, OKMeansOpen
  <2>2. /\ Outcome("onConnect", None, FALSE) \in CallType /\ Call("flush") \in CallType
        /\ ~Outcome("onConnect", None, FALSE).ok /\ Call("flush").op = "flush"
        /\ Outcome("onConnect", None, FALSE).op = "onConnect"
    BY DEF Call, Outcome, CallType, LoopOps
  <2>3. c \in Seq(CallType) /\ InFront(c)
    BY <2>1, <2>2, InFrontSome
  <2>4. StreamOf(c, stream', bClient')
    BY <2>3, StreamOfParts
  <2>. QED  BY <1>4, <2>1, <2>4 DEF OKMeansOpen
<1>12. CASE UvFinishClose
  <2>1. PICK aborted, done, n :
          /\ aborted = IF stream = "aborting" THEN <<Outcome("onConnect", None, FALSE)>> ELSE <<>>
          /\ done = <<Call("onClose")>> /\ n = Cancelled
    OBVIOUS
  <2>2. PICK of, client : of = stream' /\ client = bClient'
    OBVIOUS
  <2>3. of = "finishing" /\ ~connected'
    BY <1>2, <1>12, <2>2 DEF UvFinishClose, OKMeansOpen
  <2>4. aborted \in Seq(CallType) /\ InFront(aborted)
    <3>1. /\ Outcome("onConnect", None, FALSE) \in CallType /\ ~Outcome("onConnect", None, FALSE).ok
          /\ Outcome("onConnect", None, FALSE).op = "onConnect"
      BY DEF Outcome, CallType, LoopOps
    <3>. QED  BY <2>1, <3>1, InFrontSome
  <2>5. done \in Seq(CallType) /\ StreamOf(done, of, client)
    <3>1. Call("onClose") \in CallType /\ Call("onClose").op = "onClose"
      BY DEF Call, CallType, LoopOps
    <3>. QED  BY <2>1, <2>3, <3>1, StreamOfOne
  <2>6. n \in Seq(CallType) /\ InFront(n)
    BY <1>2, <2>1, CancelledInFront DEF Types, QueueTypes
  <2>7. PICK u : u = aborted \o n
    OBVIOUS
  <2>8. u \in Seq(CallType) /\ StreamOf(u, of, client)
    <3>1. u \in Seq(CallType) /\ InFront(u)
      BY <2>4, <2>6, <2>7, InFrontJoin
    <3>. QED  BY <3>1, StreamOfParts
  <2>9. StreamOf(u \o done, of, client)
    BY <2>5, <2>8, StreamOfParts
  <2>10. c = u \o done
    BY <1>3, <1>12, <2>1, <2>7, Zenon DEF UvFinishClose, Enters
  <2>. QED  BY <1>4, <2>2, <2>3, <2>9, <2>10 DEF OKMeansOpen
<1>13. CASE OnConnect
  <2>1. StreamOf(c, stream, bClient)
    BY <1>2, <1>3, <1>13, StreamKept DEF LoopCall, OnClose, OnConnect
  <2>2. connected' => stream = "open"
    <3>1. Head(calls) = calls[1] /\ 1 \in 1..Len(calls)
      BY <1>2, <1>13, Tailing DEF OnConnect, Idle
    <3>. QED  BY <1>2, <1>13, <3>1 DEF OnConnect, StreamOf
  <2>. QED  BY <1>4, <1>13, <2>1, <2>2 DEF OnConnect, OKMeansOpen
<1>14. CASE OnClose
  <2>1. calls # <<>> /\ Head(calls).op = "onClose" /\ Head(calls) = calls[1] /\ 1 \in 1..Len(calls)
    BY <1>2, <1>14, Tailing DEF OnClose, Idle
  <2>2. stream = "finishing" /\ ~connected'
    BY <1>2, <1>14, <2>1 DEF OnClose, StreamOf, OKMeansOpen
  <2>3. PICK e, o, of, client :
          /\ e = Call("closeCb") /\ o = IF bClient THEN <<>> ELSE <<Call("freeConnection")>>
          /\ of = stream' /\ client = bClient'
    OBVIOUS
  <2>4. of = "closed" /\ client = bClient
    BY <1>14, <2>3 DEF OnClose
  <2>5. <<e>> \in Seq(CallType) /\ StreamOf(<<e>>, of, client)
    <3>1. e \in CallType /\ e.op = "closeCb"
      BY <2>3 DEF Call, CallType, LoopOps, UserOps
    <3>. QED  BY <3>1, StreamOfOne
  <2>6. o \in Seq(CallType) /\ StreamOf(o, of, client)
    <3>1. Call("freeConnection") \in CallType /\ Call("freeConnection").op = "freeConnection"
      BY DEF Call, CallType, LoopOps
    <3>2. CASE bClient
      BY <2>3, <3>1, <3>2 DEF StreamOf
    <3>3. CASE ~bClient
      BY <2>3, <2>4, <3>1, <3>3, StreamOfOne
    <3>. QED  BY <3>2, <3>3
  <2>7. PICK u : u = <<e>> \o o
    OBVIOUS
  <2>8. u \in Seq(CallType) /\ StreamOf(u, of, client)
    BY <2>5, <2>6, <2>7, StreamOfParts, Joining
  <2>9. Tail(calls) = <<>>
    BY <1>2, <2>1, PlacedTail
  <2>10. c = u \o <<>>
    BY <1>3, <1>14, <2>3, <2>7, <2>9, Zenon DEF OnClose, ReturnsTo
  <2>11. c = u
    BY <2>8, <2>10
  <2>. QED  BY <1>4, <2>2, <2>3, <2>8, <2>11 DEF OKMeansOpen
<1>15. CASE Close
  <2>1. StreamOf(c, stream, bClient)
    BY <1>2, <1>3, <1>15, StreamKept DEF LoopCall, OnClose, Close
  <2>2. CASE stream' = stream
    BY <1>5, <1>15, <2>1, <2>2 DEF Close
  <2>3. CASE stream' # stream
    <3>1. stream \notin {"finishing", "closed"}
      BY <1>15, <2>3 DEF Close, UvIsClosing
    <3>2. \A i \in 1..Len(calls) : ~(calls[i].op = "onConnect" /\ calls[i].ok)
      BY <1>7, <1>15 DEF Close
    <3>3. PICK t : t = Tail(calls)
      OBVIOUS
    <3>4. c = t /\ calls # <<>>
      BY <1>3, <1>15, <3>3 DEF Close, Returns, Idle
    <3>5. \A i \in 1..Len(t) : i + 1 \in 1..Len(calls) /\ t[i] = calls[i + 1]
      BY <1>2, <3>3, <3>4, Tailing
    <3>6. \A i \in 1..Len(c) : ~(c[i].op = "onConnect" /\ c[i].ok)
      BY <3>2, <3>4, <3>5
    <3>7. StreamOf(c, stream', bClient')
      BY <2>1, <3>1, <3>6 DEF StreamOf
    <3>. QED  BY <1>4, <1>15, <3>7 DEF Close, OKMeansOpen
  <2>. QED  BY <2>2, <2>3
<1>16. CASE FreeConnection
  <2>1. calls # <<>> /\ Head(calls).op = "freeConnection" /\ Head(calls) = calls[1] /\ 1 \in 1..Len(calls)
    BY <1>2, <1>16, Tailing DEF FreeConnection, Idle
  <2>2. stream = "closed" /\ ~connected'
    BY <1>2, <1>16, <2>1 DEF FreeConnection, StreamOf, OKMeansOpen
  <2>3. Tail(calls) = <<>>
    BY <1>2, <2>1, PlacedTail
  <2>4. c = <<>>
    BY <1>3, <1>16, <2>3 DEF FreeConnection, Returns
  <2>5. StreamOf(c, stream', bClient')
    BY <2>4 DEF StreamOf
  <2>. QED  BY <1>4, <2>2, <2>5 DEF OKMeansOpen
<1>17. CASE UserReconnects
  <2>1. StreamOf(c, stream, bClient)
    BY <1>2, <1>3, <1>17, StreamKept
  <2>2. stream = "closed" /\ bClient /\ connected' = connected
    BY <1>17 DEF UserReconnects, Connect
  <2>3. StreamOf(c, stream', bClient')
    BY <2>1, <2>2 DEF StreamOf
  <2>. QED  BY <1>2, <1>4, <2>2, <2>3 DEF OKMeansOpen
<1>18. CASE \/ RunPosted \/ UvRead \/ UvReadEnds \/ UvWritten \/ UvWriteFails \/ UserCloses
            \/ \E m \in Msg, r \in Req : UserSends(m, r)
            \/ (LoopCall /\ ~OnConnect /\ ~OnClose /\ ~Close /\ ~FreeConnection)
  <2>1. StreamOf(c, stream, bClient)
    BY <1>2, <1>3, <1>18, StreamKept
  <2>2. UNCHANGED <<stream, bClient>> /\ connected' \in {connected, FALSE}
    BY <1>18 DEF LoopCall, RunPosted, UvRead, UvReadEnds, UvWritten, UvWriteFails, UserCloses, UserSends,
                 UvFlush, SwapQue, UvWrite, UvWriteRefused, KeepUnsent, SendLoopEnds, AfterWriteUnbound,
                 AfterWrite, AfterWritePuts, AfterWriteKeeps, PushInQueInLoop, UserReturns
  <2>. QED  BY <1>5, <2>1, <2>2
<1>. QED  BY <1>6, <1>9, <1>10, <1>11, <1>12, <1>13, <1>14, <1>15, <1>16, <1>17, <1>18 DEF Next, LoopEvent

\* isOK() says true only of an open stream: every way out of a connection, a refused
\* write, a close or an error of the peer, has cleared bConnected before, and a
\* connection is reported before anything else can happen to the stream.
THEOREM OnlyOpenIsOK == Spec => []OKMeansOpen
<1>1. OKInv => OKMeansOpen
  BY DEF OKInv
<1>. QED  BY <1>1, OKInit, OKNext, PTL DEF Spec

-----------------------------------------------------------------------------
(* Where the requests are.                                                 *)

\* The requests that calls own, and that senders hold.
Owned(s) == {s[i].req : i \in {j \in 1..Len(s) : s[j].op \in Owning}}
OnceOwned(s) ==
  \A i, j \in 1..Len(s) :
    s[i].op \in Owning /\ s[j].op \in Owning /\ s[i].req = s[j].req => i = j

HeldReqs(h) == {h[t] : t \in Senders} \ {None}
OnceHeld(h) == \A t, u \in Senders : h[t] = h[u] /\ h[t] # None => t = u

LEMMA OwnedJoin ==
  ASSUME NEW s \in Seq(CallType), NEW t \in Seq(CallType)
  PROVE  /\ Owned(s \o t) = Owned(s) \cup Owned(t)
         /\ OnceOwned(s) /\ OnceOwned(t) /\ Owned(s) \cap Owned(t) = {} => OnceOwned(s \o t)
<1>1. PICK u : u = s \o t
  OBVIOUS
<1>2. /\ Len(s) \in Nat /\ Len(t) \in Nat /\ Len(u) = Len(s) + Len(t)
      /\ \A i \in 1..Len(s) : u[i] = s[i] /\ i \in 1..Len(u)
      /\ \A i \in 1..Len(t) : u[Len(s) + i] = t[i] /\ Len(s) + i \in 1..Len(u)
  BY <1>1, Joining
<1>3. ASSUME NEW i \in 1..Len(u)
      PROVE  i \in 1..Len(s) \/ \E j \in 1..Len(t) : Len(s) + j = i
  <2>1. i \in 1..Len(s) \/ (i - Len(s) \in 1..Len(t) /\ Len(s) + (i - Len(s)) = i)
    BY <1>2
  <2>. QED  BY <2>1
<1>4. Owned(u) = Owned(s) \cup Owned(t)
  <2>1. ASSUME NEW x \in Owned(u) PROVE x \in Owned(s) \cup Owned(t)
    <3>1. PICK i \in 1..Len(u) : u[i].op \in Owning /\ x = u[i].req
      BY DEF Owned
    <3>2. CASE i \in 1..Len(s)
      BY <1>2, <3>1, <3>2 DEF Owned
    <3>3. ASSUME NEW j \in 1..Len(t), Len(s) + j = i PROVE x \in Owned(t)
      <4>1. u[i] = t[j]
        BY <1>2, <3>3
      <4>. QED  BY <3>1, <4>1 DEF Owned
    <3>. QED  BY <1>3, <3>2, <3>3
  <2>2. ASSUME NEW x \in Owned(s) PROVE x \in Owned(u)
    <3>1. PICK i \in 1..Len(s) : s[i].op \in Owning /\ x = s[i].req
      BY DEF Owned
    <3>. QED  BY <1>2, <3>1 DEF Owned
  <2>3. ASSUME NEW x \in Owned(t) PROVE x \in Owned(u)
    <3>1. PICK i \in 1..Len(t) : t[i].op \in Owning /\ x = t[i].req
      BY DEF Owned
    <3>2. PICK k : k = Len(s) + i
      OBVIOUS
    <3>3. k \in 1..Len(u) /\ u[k] = t[i]
      BY <1>2, <3>2
    <3>. QED  BY <3>1, <3>3 DEF Owned
  <2>. QED  BY <2>1, <2>2, <2>3
<1>5. ASSUME OnceOwned(s), OnceOwned(t), Owned(s) \cap Owned(t) = {} PROVE OnceOwned(u)
  <2>1. ASSUME NEW i \in 1..Len(s), NEW j \in 1..Len(t), s[i].op \in Owning, t[j].op \in Owning
        PROVE  s[i].req # t[j].req
    <3>1. s[i].req \in Owned(s) /\ t[j].req \in Owned(t)
      BY <2>1 DEF Owned
    <3>. QED  BY <1>5, <3>1
  <2>2. ASSUME NEW i \in 1..Len(u), NEW j \in 1..Len(u),
               u[i].op \in Owning, u[j].op \in Owning, u[i].req = u[j].req
        PROVE  i = j
    <3>1. CASE i \in 1..Len(s) /\ j \in 1..Len(s)
      BY <1>2, <1>5, <2>2, <3>1 DEF OnceOwned
    <3>2. ASSUME i \in 1..Len(s), NEW k \in 1..Len(t), Len(s) + k = j PROVE FALSE
      <4>1. u[i] = s[i] /\ u[j] = t[k]
        BY <1>2, <3>2
      <4>. QED  BY <2>1, <2>2, <3>2, <4>1
    <3>3. ASSUME j \in 1..Len(s), NEW k \in 1..Len(t), Len(s) + k = i PROVE FALSE
      <4>1. u[j] = s[j] /\ u[i] = t[k]
        BY <1>2, <3>3
      <4>. QED  BY <2>1, <2>2, <3>3, <4>1
    <3>4. ASSUME NEW k \in 1..Len(t), NEW m \in 1..Len(t), Len(s) + k = i, Len(s) + m = j
          PROVE  i = j
      <4>1. u[i] = t[k] /\ u[j] = t[m]
        BY <1>2, <3>4
      <4>2. k = m
        BY <1>5, <2>2, <4>1 DEF OnceOwned
      <4>. QED  BY <3>4, <4>2
    <3>. QED  BY <1>3, <3>1, <3>2, <3>3, <3>4
  <2>. QED  BY <2>2 DEF OnceOwned
<1>. QED  BY <1>1, <1>4, <1>5

LEMMA OwnedTail ==
  ASSUME NEW s \in Seq(CallType), s # <<>>
  PROVE  /\ Owned(s) = Owned(Tail(s)) \cup (IF Head(s).op \in Owning THEN {Head(s).req} ELSE {})
         /\ OnceOwned(s) => /\ OnceOwned(Tail(s))
                            /\ Head(s).op \in Owning => Head(s).req \notin Owned(Tail(s))
<1>1. PICK t, e : t = Tail(s) /\ e = Head(s)
  OBVIOUS
<1>2. /\ e = s[1] /\ 1 \in 1..Len(s) /\ Len(s) \in Nat /\ Len(t) = Len(s) - 1
      /\ \A i \in 1..Len(t) : i + 1 \in 1..Len(s) /\ t[i] = s[i + 1]
  BY <1>1, Tailing
<1>3. Owned(s) = Owned(t) \cup (IF e.op \in Owning THEN {e.req} ELSE {})
  <2>1. ASSUME NEW x \in Owned(s) PROVE x \in Owned(t) \/ (e.op \in Owning /\ x = e.req)
    <3>1. PICK i \in 1..Len(s) : s[i].op \in Owning /\ x = s[i].req
      BY DEF Owned
    <3>2. ASSUME NEW j \in 1..Len(t), j + 1 = i PROVE x \in Owned(t)
      BY <1>2, <3>1, <3>2 DEF Owned
    <3>3. i = 1 \/ (i - 1 \in 1..Len(t) /\ (i - 1) + 1 = i)
      BY <1>2
    <3>. QED  BY <1>2, <3>1, <3>2, <3>3
  <2>2. ASSUME NEW x \in Owned(t) PROVE x \in Owned(s)
    <3>1. PICK i \in 1..Len(t) : t[i].op \in Owning /\ x = t[i].req
      BY DEF Owned
    <3>2. PICK k : k = i + 1
      OBVIOUS
    <3>3. k \in 1..Len(s) /\ s[k] = t[i]
      BY <1>2, <3>2
    <3>. QED  BY <3>1, <3>3 DEF Owned
  <2>3. e.op \in Owning => e.req \in Owned(s)
    BY <1>2 DEF Owned
  <2>. QED  BY <2>1, <2>2, <2>3
<1>4. ASSUME OnceOwned(s) PROVE OnceOwned(t) /\ (e.op \in Owning => e.req \notin Owned(t))
  <2>1. OnceOwned(t)
    <3>1. ASSUME NEW i \in 1..Len(t), NEW j \in 1..Len(t),
                 t[i].op \in Owning, t[j].op \in Owning, t[i].req = t[j].req
          PROVE  i = j
      <4>1. i + 1 = j + 1
        BY <1>2, <1>4, <3>1 DEF OnceOwned
      <4>. QED  BY <1>2, <4>1
    <3>. QED  BY <3>1 DEF OnceOwned
  <2>2. ASSUME NEW i \in 1..Len(t), t[i].op \in Owning, e.op \in Owning, t[i].req = e.req PROVE FALSE
    <3>1. i + 1 \in 1..Len(s) /\ s[i + 1] = t[i]
      BY <1>2
    <3>2. i + 1 = 1
      BY <1>2, <1>4, <2>2, <3>1 DEF OnceOwned
    <3>. QED  BY <1>2, <3>2
  <2>. QED  BY <2>1, <2>2 DEF Owned
<1>. QED  BY <1>1, <1>3, <1>4

LEMMA OwnedSome ==
  /\ \A x \in CallType : /\ Owned(<<x>>) = IF x.op \in Owning THEN {x.req} ELSE {}
                         /\ OnceOwned(<<x>>)
  /\ \A x \in CallType, y \in CallType :
       /\ y.op \notin Owning => Owned(<<x, y>>) = (IF x.op \in Owning THEN {x.req} ELSE {})
                                /\ OnceOwned(<<x, y>>)
       /\ x.op \notin Owning => Owned(<<x, y>>) = (IF y.op \in Owning THEN {y.req} ELSE {})
                                /\ OnceOwned(<<x, y>>)
  /\ Owned(<<>>) = {} /\ OnceOwned(<<>>)
<1>1. \A x : Len(<<x>>) = 1 /\ <<x>>[1] = x /\ 1..1 = {1}
  OBVIOUS
<1>2. \A x, y : Len(<<x, y>>) = 2 /\ <<x, y>>[1] = x /\ <<x, y>>[2] = y /\ 1..2 = {1, 2}
  OBVIOUS
<1>3. ASSUME NEW x \in CallType
      PROVE  Owned(<<x>>) = (IF x.op \in Owning THEN {x.req} ELSE {}) /\ OnceOwned(<<x>>)
  BY <1>1 DEF Owned, OnceOwned
<1>4. ASSUME NEW x \in CallType, NEW y \in CallType
      PROVE  /\ y.op \notin Owning => Owned(<<x, y>>) = (IF x.op \in Owning THEN {x.req} ELSE {})
                                      /\ OnceOwned(<<x, y>>)
             /\ x.op \notin Owning => Owned(<<x, y>>) = (IF y.op \in Owning THEN {y.req} ELSE {})
                                      /\ OnceOwned(<<x, y>>)
  BY <1>2 DEF Owned, OnceOwned
<1>5. Owned(<<>>) = {} /\ OnceOwned(<<>>)
  BY DEF Owned, OnceOwned
<1>. QED  BY <1>3, <1>4, <1>5

LEMMA OwnedCancelled ==
  ASSUME writes \in Seq(Req)
  PROVE  Owned(Cancelled) = ToSet(writes) /\ (Once(writes) => OnceOwned(Cancelled))
<1>1. PICK c : c = Cancelled
  OBVIOUS
<1>2. /\ Len(c) = Len(writes) /\ DOMAIN writes = 1..Len(writes)
      /\ \A i \in 1..Len(writes) : c[i] = Outcome("afterWrite", writes[i], FALSE)
  <2>1. DOMAIN writes = 1..Len(writes)
    OBVIOUS
  <2>. QED  BY <1>1, <2>1, CancelledCalls
<1>3. ASSUME NEW i \in 1..Len(writes) PROVE c[i].op \in Owning /\ c[i].req = writes[i]
  <2>1. c[i] = Outcome("afterWrite", writes[i], FALSE)
    BY <1>2
  <2>. QED  BY <2>1 DEF Outcome, Owning
<1>4. Owned(c) = ToSet(writes)
  BY <1>2, <1>3 DEF Owned, ToSet
<1>5. Once(writes) => OnceOwned(c)
  BY <1>2, <1>3 DEF Once, OnceOwned
<1>. QED  BY <1>1, <1>4, <1>5

\* A sender takes a request, and gives it on.
LEMMA HeldTakes ==
  ASSUME NEW h \in [Senders -> Req \cup {None}], NEW t \in Senders, OnceHeld(h), h[t] = None,
         NEW r \in Req \ HeldReqs(h), NEW g, g[t] = r, \A u \in Senders \ {t} : g[u] = h[u]
  PROVE  HeldReqs(g) = HeldReqs(h) \cup {r} /\ OnceHeld(g)
<1>1. r # None
  BY NoneAssumption
<1>2. \A u \in Senders : h[u] # r
  BY <1>1 DEF HeldReqs
<1>. QED  BY <1>1, <1>2 DEF HeldReqs, OnceHeld

LEMMA HeldGives ==
  ASSUME NEW h \in [Senders -> Req \cup {None}], NEW t \in Senders, OnceHeld(h),
         h[t] # None, NEW g, g = [h EXCEPT ![t] = None]
  PROVE  HeldReqs(h) = HeldReqs(g) \cup {h[t]} /\ h[t] \notin HeldReqs(g) /\ OnceHeld(g)
<1>1. g[t] = None /\ \A u \in Senders \ {t} : g[u] = h[u]
  OBVIOUS
<1>2. \A u \in Senders \ {t} : h[u] # h[t]
  BY DEF OnceHeld
<1>. QED  BY <1>1, <1>2 DEF HeldReqs, OnceHeld

\* tempQue is filled only while its loop is still to be done.
LoopLeft(s) == \E i \in 1..Len(s) : s[i].op = "sendLoop"
TempInv == temp # <<>> => LoopLeft(calls)

LEMMA LoopLeftKept ==
  ASSUME NEW s \in Seq(CallType), NEW t \in Seq(CallType)
  PROVE  /\ LoopLeft(s \o t) <=> LoopLeft(s) \/ LoopLeft(t)
         /\ s # <<>> => (LoopLeft(s) <=> LoopLeft(Tail(s)) \/ Head(s).op = "sendLoop")
<1>1. \A u \in Seq(CallType) : LoopLeft(u) <=> \E x \in ToSet(u) : x.op = "sendLoop"
  <2>1. \A u \in Seq(CallType) : DOMAIN u = 1..Len(u)
    OBVIOUS
  <2>. QED  BY <2>1 DEF LoopLeft, ToSet
<1>2. s \o t \in Seq(CallType) /\ ToSet(s \o t) = ToSet(s) \cup ToSet(t)
  BY Joining
<1>3. s # <<>> => Tail(s) \in Seq(CallType) /\ ToSet(s) = ToSet(Tail(s)) \cup {Head(s)}
  BY Tailing
<1>. QED  BY <1>1, <1>2, <1>3

LEMMA TempNext == Types /\ TempInv /\ [Next]_vars => TempInv'
<1>. SUFFICES ASSUME Types, TempInv, [Next]_vars PROVE TempInv'
  OBVIOUS
<1>. USE DEF queueVars, Runs
<1>1. calls \in Seq(CallType)
  BY DEF Types, ThreadTypes
<1>2. PICK c, t : c = calls' /\ t = Tail(calls)
  OBVIOUS
<1>3. ~Idle => t \in Seq(CallType) /\ (LoopLeft(calls) <=> LoopLeft(t) \/ Head(calls).op = "sendLoop")
  BY <1>1, <1>2, LoopLeftKept, Tailing DEF Idle
<1>4. ASSUME temp' = temp \/ temp' = <<>> \/ (temp # <<>> /\ temp' = Tail(temp)),
             LoopLeft(calls) => LoopLeft(c)
      PROVE  TempInv'
  BY <1>2, <1>4 DEF TempInv
<1>5. ASSUME Idle, UNCHANGED temp PROVE TempInv'
  <2>1. temp = <<>>
    BY <1>5 DEF Idle, LoopLeft, TempInv
  <2>. QED  BY <1>5, <2>1 DEF TempInv
<1>6. ASSUME ~Idle, Head(calls).op # "sendLoop", UNCHANGED temp,
             Returns \/ \E n \in Seq(CallType) : ReturnsTo(n)
      PROVE  TempInv'
  <2>1. LoopLeft(t) => LoopLeft(c)
    <3>1. CASE Returns
      BY <1>2, <3>1 DEF Returns
    <3>2. ASSUME NEW n \in Seq(CallType), ReturnsTo(n) PROVE LoopLeft(t) => LoopLeft(c)
      <4>1. c = n \o t
        BY <1>2, <3>2 DEF ReturnsTo
      <4>. QED  BY <1>3, <1>6, <4>1, LoopLeftKept
    <3>. QED  BY <1>6, <3>1, <3>2
  <2>. QED  BY <1>3, <1>4, <1>6, <2>1
<1>7. ASSUME NEW n \in Seq(CallType), calls' = n \o calls, temp' = temp \/ (temp # <<>> /\ temp' = Tail(temp))
      PROVE  TempInv'
  <2>1. LoopLeft(calls) => LoopLeft(c)
    <3>1. c = n \o calls
      BY <1>2, <1>7
    <3>. QED  BY <1>1, <3>1, LoopLeftKept
  <2>. QED  BY <1>4, <1>7, <2>1
<1>8. CASE UNCHANGED vars
  BY <1>2, <1>4, <1>8 DEF vars
<1>9. ASSUME NEW u \in Senders,
             SenderStep(u) \/ CloseSafe(u) \/ \E m \in Msg, r \in Req : SendMsg(u, m, r)
      PROVE  TempInv'
  BY <1>2, <1>4, <1>9 DEF SenderStep, PostRealSend, PostClose, PushInQue, CloseSafe, SendMsg
<1>10. CASE LoopEvent \/ UvRead \/ UvReadEnds
  BY <1>5, <1>10 DEF LoopEvent, RunPosted, UvConnected, UvConnectFails, UvRead, UvReadEnds, UvWritten,
                     UvWriteFails, UvFinishClose, CancelWrites, Enters
<1>11. CASE UvFlush
  <2>1. UNCHANGED temp /\ ~Idle /\ Head(calls).op # "sendLoop"
    BY <1>11 DEF UvFlush, CancelWrites
  <2>2. Returns \/ \E n \in Seq(CallType) : ReturnsTo(n)
    <3>1. Cancelled \in Seq(CallType)
      BY CancelledInFront DEF Types, QueueTypes
    <3>2. Returns \/ ReturnsTo(Cancelled)
      BY <1>11 DEF UvFlush
    <3>. QED  BY <3>1, <3>2
  <2>. QED  BY <1>6, <2>1, <2>2
<1>12. CASE SwapQue
  <2>1. c = <<Call("sendLoop")>> \o t
    BY <1>2, <1>12 DEF SwapQue, ReturnsTo
  <2>2. /\ Call("sendLoop") \in CallType /\ Call("sendLoop").op = "sendLoop"
        /\ t \in Seq(CallType)
    BY <1>3, <1>12 DEF Call, CallType, LoopOps, SwapQue
  <2>3. PICK n : n = <<Call("sendLoop")>>
    OBVIOUS
  <2>4. n \in Seq(CallType) /\ LoopLeft(n)
    BY <2>2, <2>3 DEF LoopLeft
  <2>5. LoopLeft(c)
    BY <2>1, <2>2, <2>3, <2>4, LoopLeftKept
  <2>. QED  BY <1>2, <2>5 DEF TempInv
<1>13. CASE UvWrite \/ KeepUnsent
  BY <1>2, <1>4, <1>13 DEF UvWrite, KeepUnsent, PushBackHead
<1>14. CASE UvWriteRefused
  <2>1. <<Call("close")>> \in Seq(CallType)
    <3>1. Call("close") \in CallType
      BY DEF Call, CallType, LoopOps
    <3>. QED  BY <3>1
  <2>2. calls' = <<Call("close")>> \o calls /\ temp # <<>> /\ temp' = Tail(temp)
    BY <1>14 DEF UvWriteRefused, PushBackHead
  <2>. QED  BY <1>7, <2>1, <2>2
<1>15. CASE SendLoopEnds
  BY <1>15 DEF SendLoopEnds, TempInv
<1>16. CASE AfterWrite
  <2>1. \E n \in Seq(CallType) : ReturnsTo(n)
    BY <1>16, AfterWriteForm
  <2>2. ~Idle /\ Head(calls).op # "sendLoop" /\ UNCHANGED temp
    BY <1>16 DEF AfterWrite
  <2>. QED  BY <1>6, <2>1, <2>2
<1>17. CASE OnConnect \/ OnClose
  <2>1. ~Idle /\ Head(calls).op # "sendLoop" /\ UNCHANGED temp
    BY <1>17 DEF OnConnect, OnClose
  <2>2. \E n \in Seq(CallType) : ReturnsTo(n)
    <3>1. CASE OnConnect
      <4>1. PICK e : e = Outcome("connCb", None, Head(calls).ok)
        OBVIOUS
      <4>2. calls # <<>> /\ Head(calls) \in CallType
        BY <1>1, <2>1, Tailing DEF Idle
      <4>3. e \in CallType
        BY <4>1, <4>2 DEF Outcome, CallType, LoopOps, UserOps
      <4>4. <<e>> \in Seq(CallType)
        BY <4>3
      <4>. QED  BY <3>1, <4>1, <4>4 DEF OnConnect
    <3>2. CASE OnClose
      <4>1. PICK n, o : /\ n = <<Call("closeCb")>>
                        /\ o = IF bClient THEN <<>> ELSE <<Call("freeConnection")>>
        OBVIOUS
      <4>2. Call("closeCb") \in CallType /\ Call("freeConnection") \in CallType
        BY DEF Call, CallType, LoopOps, UserOps
      <4>3. n \in Seq(CallType) /\ o \in Seq(CallType)
        BY <4>1, <4>2
      <4>4. n \o o \in Seq(CallType)
        BY <4>3, Joining
      <4>5. ReturnsTo(n \o o)
        BY <3>2, <4>1, Zenon DEF OnClose
      <4>. QED  BY <4>4, <4>5
    <3>. QED  BY <1>17, <3>1, <3>2
  <2>. QED  BY <1>6, <2>1, <2>2
<1>18. CASE UserCloses
  <2>1. <<Call("close")>> \in Seq(CallType)
    <3>1. Call("close") \in CallType
      BY DEF Call, CallType, LoopOps
    <3>. QED  BY <3>1
  <2>. QED  BY <1>7, <1>18, <2>1 DEF UserCloses
<1>19. ASSUME NEW m \in Msg, NEW r \in Req, UserSends(m, r) PROVE TempInv'
  <2>1. <<CallWith("pushinQue", r), Call("realSend")>> \in Seq(CallType)
    <3>1. CallWith("pushinQue", r) \in CallType /\ Call("realSend") \in CallType
      BY DEF Call, CallWith, CallType, LoopOps
    <3>. QED  BY <3>1
  <2>. QED  BY <1>7, <1>19, <2>1 DEF UserSends
<1>20. CASE UserReconnects
  BY <1>2, <1>4, <1>20 DEF UserReconnects
<1>21. CASE \/ AfterWriteUnbound \/ AfterWritePuts \/ AfterWriteKeeps
            \/ Close \/ FreeConnection \/ PushInQueInLoop \/ UserReturns
  <2>1. Returns /\ ~Idle /\ Head(calls).op # "sendLoop" /\ UNCHANGED temp
    BY <1>21 DEF AfterWriteUnbound, AfterWritePuts, AfterWriteKeeps, Close, UserOps,
                 FreeConnection, PushInQueInLoop, UserReturns, InUserCallback
  <2>. QED  BY <1>6, <2>1
<1>. QED  BY <1>8, <1>9, <1>10, <1>11, <1>12, <1>13, <1>14, <1>15, <1>16, <1>17, <1>18, <1>19,
             <1>20, <1>21 DEF Next, LoopCall

\* The places of the requests share none of them and hold all that were allocated.
Apart(P, Q, T, W, L, H, A) ==
  /\ A = P \cup Q \cup T \cup W \cup L \cup H
  /\ P \cap (Q \cup T \cup W \cup L \cup H) = {}
  /\ Q \cap (T \cup W \cup L \cup H) = {}
  /\ T \cap (W \cup L \cup H) = {}
  /\ W \cap (L \cup H) = {}
  /\ L \cap H = {}

PlaceInv ==
  /\ Once(pool) /\ Once(sendQue) /\ Once(temp) /\ Once(writes) /\ OnceOwned(calls) /\ OnceHeld(held)
  /\ Apart(ToSet(pool), ToSet(sendQue), ToSet(temp), ToSet(writes), Owned(calls), HeldReqs(held),
           allocated)

LEMMA PlaceInit == Init => PlaceInv
<1>. SUFFICES ASSUME Init PROVE PlaceInv
  OBVIOUS
<1>1. /\ sendQue = <<>> /\ temp = <<>> /\ writes = <<>> /\ calls = <<>> /\ pool = Pooled
      /\ allocated = ToSet(Pooled) /\ \A t \in Senders : held[t] = None
  BY DEF Init
<1>2. Once(<<>>) /\ ToSet(<<>>) = {} /\ Owned(<<>>) = {} /\ OnceOwned(<<>>)
  BY OwnedSome DEF Once, ToSet
<1>3. HeldReqs(held) = {} /\ OnceHeld(held)
  BY <1>1 DEF HeldReqs, OnceHeld
<1>4. Once(Pooled)
  BY PooledAssumption DEF Once
<1>. QED  BY <1>1, <1>2, <1>3, <1>4 DEF PlaceInv, Apart

\* The forms in which an action changes what calls own.
LEMMA OwnedKept ==
  ASSUME Types, OnceOwned(calls), NEW c, c = calls'
  PROVE  /\ Idle => Owned(calls) = {}
         /\ Returns /\ ~Idle /\ Head(calls).op \notin Owning =>
              Owned(c) = Owned(calls) /\ OnceOwned(c)
         /\ Returns /\ ~Idle /\ Head(calls).op \in Owning =>
              /\ Owned(calls) = Owned(c) \cup {Head(calls).req} /\ Head(calls).req \notin Owned(c)
              /\ OnceOwned(c)
         /\ \A n \in Seq(CallType) : OnceOwned(n) =>
              /\ Enters(n) => Owned(c) = Owned(n) /\ OnceOwned(c)
              /\ ReturnsTo(n) /\ ~Idle /\ Head(calls).op \notin Owning /\ Owned(n) \cap Owned(calls) = {} =>
                   Owned(c) = Owned(calls) \cup Owned(n) /\ OnceOwned(c)
              /\ ReturnsTo(n) /\ ~Idle /\ Head(calls).op \in Owning /\ Owned(n) = {Head(calls).req} =>
                   Owned(c) = Owned(calls) /\ OnceOwned(c)
              /\ calls' = n \o calls /\ Owned(n) \cap Owned(calls) = {} =>
                   Owned(c) = Owned(calls) \cup Owned(n) /\ OnceOwned(c)
<1>1. calls \in Seq(CallType)
  BY DEF Types, ThreadTypes
<1>2. Idle => Owned(calls) = {}
  BY OwnedSome DEF Idle
<1>3. PICK t : t = Tail(calls)
  OBVIOUS
<1>4. ~Idle => /\ t \in Seq(CallType) /\ OnceOwned(t)
               /\ Head(calls).op \notin Owning => Owned(calls) = Owned(t)
               /\ Head(calls).op \in Owning => /\ Owned(calls) = Owned(t) \cup {Head(calls).req}
                                               /\ Head(calls).req \notin Owned(t)
  <2>1. ASSUME calls # <<>>
        PROVE  /\ t \in Seq(CallType) /\ OnceOwned(t)
               /\ Owned(calls) = Owned(t) \cup (IF Head(calls).op \in Owning THEN {Head(calls).req} ELSE {})
               /\ Head(calls).op \in Owning => Head(calls).req \notin Owned(t)
    <3>1. t \in Seq(CallType)
      BY <1>1, <1>3, <2>1, Tailing
    <3>. QED  BY <1>1, <1>3, <2>1, <3>1, OwnedTail
  <2>. QED  BY <2>1 DEF Idle
<1>5. Returns => c = t
  BY <1>3 DEF Returns
<1>6. ASSUME NEW n \in Seq(CallType), OnceOwned(n)
      PROVE  /\ Enters(n) => Owned(c) = Owned(n) /\ OnceOwned(c)
             /\ ReturnsTo(n) /\ ~Idle /\ Head(calls).op \notin Owning /\ Owned(n) \cap Owned(calls) = {} =>
                  Owned(c) = Owned(calls) \cup Owned(n) /\ OnceOwned(c)
             /\ ReturnsTo(n) /\ ~Idle /\ Head(calls).op \in Owning /\ Owned(n) = {Head(calls).req} =>
                  Owned(c) = Owned(calls) /\ OnceOwned(c)
             /\ calls' = n \o calls /\ Owned(n) \cap Owned(calls) = {} =>
                  Owned(c) = Owned(calls) \cup Owned(n) /\ OnceOwned(c)
  <2>1. Enters(n) => c = n
    BY DEF Enters
  <2>2. ASSUME ReturnsTo(n), ~Idle, Owned(n) \cap Owned(t) = {}
        PROVE  Owned(c) = Owned(t) \cup Owned(n) /\ OnceOwned(c)
    <3>1. c = n \o t
      BY <1>3, <2>2 DEF ReturnsTo
    <3>. QED  BY <1>4, <1>6, <2>2, <3>1, OwnedJoin
  <2>3. ASSUME calls' = n \o calls, Owned(n) \cap Owned(calls) = {}
        PROVE  Owned(c) = Owned(calls) \cup Owned(n) /\ OnceOwned(c)
    <3>1. c = n \o calls
      BY <2>3
    <3>. QED  BY <1>1, <1>6, <2>3, <3>1, OwnedJoin
  <2>. QED  BY <1>4, <1>6, <2>1, <2>2, <2>3
<1>. QED  BY <1>2, <1>4, <1>5, <1>6

LEMMA AfterWriteOwns ==
  ASSUME Types, AfterWrite
  PROVE  \E n \in Seq(CallType) : ReturnsTo(n) /\ Owned(n) = {Head(calls).req} /\ OnceOwned(n)
<1>1. PICK r, ok : r = Head(calls).req /\ ok = Head(calls).ok
  OBVIOUS
<1>2. r \in Req /\ ok \in BOOLEAN
  <2>1. calls \in Seq(CallType) /\ ~Idle /\ Head(calls).op = "afterWrite"
    BY DEF Types, ThreadTypes, AfterWrite, Runs
  <2>2. Head(calls) \in CallType
    BY <2>1, Tailing DEF Idle
  <2>3. r \in Req
    BY <1>1, <2>1, CallsKept DEF Owning
  <2>. QED  BY <1>1, <2>2, <2>3 DEF CallType
<1>3. PICK e, f, g, k, v :
        /\ e = Outcome("sendCb", r, ok) /\ f = Call("realSend") /\ g = CallWith("putWriteBuffer", r)
        /\ k = CallWith("pushbackQue", r) /\ v = Call("close")
  OBVIOUS
<1>4. /\ {e, f, g, k, v} \subseteq CallType
      /\ e.op \notin Owning /\ f.op \notin Owning /\ v.op \notin Owning
      /\ g.op \in Owning /\ k.op \in Owning /\ g.req = r /\ k.req = r
  BY <1>2, <1>3 DEF Outcome, Call, CallWith, CallType, LoopOps, UserOps, Owning
<1>5. PICK n, o : n = <<e>> /\ o = IF ok THEN <<f, g>> ELSE <<k, v>>
  OBVIOUS
<1>6. n \in Seq(CallType) /\ Owned(n) = {} /\ OnceOwned(n)
  <2>1. <<e>> \in Seq(CallType)
    BY <1>4
  <2>. QED  BY <1>4, <1>5, <2>1, OwnedSome
<1>7. o \in Seq(CallType) /\ Owned(o) = {r} /\ OnceOwned(o)
  <2>1. <<f, g>> \in Seq(CallType) /\ <<k, v>> \in Seq(CallType)
    BY <1>4
  <2>2. Owned(<<f, g>>) = {r} /\ OnceOwned(<<f, g>>) /\ Owned(<<k, v>>) = {r} /\ OnceOwned(<<k, v>>)
    BY <1>4, OwnedSome
  <2>. QED  BY <1>2, <1>5, <2>1, <2>2
<1>8. n \o o \in Seq(CallType) /\ Owned(n \o o) = {r} /\ OnceOwned(n \o o)
  BY <1>6, <1>7, OwnedJoin, Joining
<1>9. ReturnsTo(n \o o)
  BY <1>1, <1>3, <1>5, Zenon DEF AfterWrite
<1>. QED  BY <1>1, <1>8, <1>9

\* Every step moves requests from one place to another.
LEMMA PlaceNext ==
  ASSUME Types, Placed(calls), TempInv, PlaceInv, [Next]_vars
  PROVE  PlaceInv'
<1>. USE DEF Runs, streamVars, queueVars, senderVars, poolVars
<1>1. /\ calls \in Seq(CallType) /\ pool \in Seq(Req) /\ sendQue \in Seq(Req) /\ temp \in Seq(Req)
      /\ writes \in Seq(Req) /\ held \in [Senders -> Req \cup {None}]
  BY DEF Types, ThreadTypes, QueueTypes
<1>2. PICK p, q, u, w, c, h, a : /\ p = pool' /\ q = sendQue' /\ u = temp' /\ w = writes'
                                 /\ c = calls' /\ h = held' /\ a = allocated'
  OBVIOUS
<1>3. PICK P, Q, T, W, L, H : /\ P = ToSet(pool) /\ Q = ToSet(sendQue) /\ T = ToSet(temp)
                              /\ W = ToSet(writes) /\ L = Owned(calls) /\ H = HeldReqs(held)
  OBVIOUS
<1>4. /\ Once(pool) /\ Once(sendQue) /\ Once(temp) /\ Once(writes) /\ OnceOwned(calls) /\ OnceHeld(held)
      /\ Apart(P, Q, T, W, L, H, allocated)
  BY <1>3 DEF PlaceInv
<1>5. ASSUME Once(p), Once(q), Once(u), Once(w), OnceOwned(c), OnceHeld(h),
             Apart(ToSet(p), ToSet(q), ToSet(u), ToSet(w), Owned(c), HeldReqs(h), a)
      PROVE  PlaceInv'
  BY <1>2, <1>5 DEF PlaceInv
<1>6. ToSet(<<>>) = {} /\ Once(<<>>)
  BY DEF ToSet, Once
\* Only the calls change, and not what they own.
<1>7. ASSUME UNCHANGED <<writes, sendQue, temp, held, pool, allocated>>, Owned(c) = L, OnceOwned(c)
      PROVE  PlaceInv'
  BY <1>2, <1>3, <1>4, <1>5, <1>7
<1>8. ASSUME UNCHANGED calls PROVE Owned(c) = L /\ OnceOwned(c)
  BY <1>2, <1>3, <1>4, <1>8
<1>9. /\ \A r \in Req : PutWriteBuffer(r) /\ r \notin P =>
            ToSet(p) = P \cup {r} /\ Once(p) /\ a = allocated
      /\ \A r \in Req : sendQue' = Append(sendQue, r) /\ r \notin Q =>
            ToSet(q) = Q \cup {r} /\ Once(q)
      /\ \A r \in Req : writes' = Append(writes, r) /\ r \notin W =>
            ToSet(w) = W \cup {r} /\ Once(w)
  <2>1. ASSUME NEW r \in Req, PutWriteBuffer(r), r \notin P
        PROVE  ToSet(p) = P \cup {r} /\ Once(p) /\ a = allocated
    <3>1. p = Append(pool, r) /\ a = allocated
      BY <1>2, <2>1 DEF PutWriteBuffer
    <3>. QED  BY <1>1, <1>3, <1>4, <2>1, <3>1, Appending
  <2>2. ASSUME NEW r \in Req, sendQue' = Append(sendQue, r), r \notin Q
        PROVE  ToSet(q) = Q \cup {r} /\ Once(q)
    <3>1. q = Append(sendQue, r)
      BY <1>2, <2>2
    <3>. QED  BY <1>1, <1>3, <1>4, <2>2, <3>1, Appending
  <2>3. ASSUME NEW r \in Req, writes' = Append(writes, r), r \notin W
        PROVE  ToSet(w) = W \cup {r} /\ Once(w)
    <3>1. w = Append(writes, r)
      BY <1>2, <2>3
    <3>. QED  BY <1>1, <1>3, <1>4, <2>3, <3>1, Appending
  <2>. QED  BY <2>1, <2>2, <2>3
<1>10. /\ temp # <<>> /\ temp' = Tail(temp) =>
            /\ Head(temp) \in Req /\ T = ToSet(u) \cup {Head(temp)} /\ Head(temp) \notin ToSet(u)
            /\ Once(u)
       /\ writes # <<>> /\ writes' = Tail(writes) =>
            /\ Head(writes) \in Req /\ W = ToSet(w) \cup {Head(writes)} /\ Head(writes) \notin ToSet(w)
            /\ Once(w)
  <2>1. ASSUME temp # <<>>, temp' = Tail(temp)
        PROVE  /\ Head(temp) \in Req /\ T = ToSet(u) \cup {Head(temp)} /\ Head(temp) \notin ToSet(u)
               /\ Once(u)
    <3>1. u = Tail(temp)
      BY <1>2, <2>1
    <3>. QED  BY <1>1, <1>3, <1>4, <2>1, <3>1, Tailing
  <2>2. ASSUME writes # <<>>, writes' = Tail(writes)
        PROVE  /\ Head(writes) \in Req /\ W = ToSet(w) \cup {Head(writes)}
               /\ Head(writes) \notin ToSet(w) /\ Once(w)
    <3>1. w = Tail(writes)
      BY <1>2, <2>2
    <3>. QED  BY <1>1, <1>3, <1>4, <2>2, <3>1, Tailing
  <2>. QED  BY <2>1, <2>2
<1>11. ASSUME NEW m \in Msg, NEW r \in Req, EncodeTask(m, r)
       PROVE  /\ Once(p) /\ r \notin ToSet(p) /\ r \notin Q \cup T \cup W \cup L \cup H
              /\ \/ P = ToSet(p) \cup {r} /\ a = allocated
                 \/ P = ToSet(p) /\ a = allocated \cup {r}
  <2>1. CASE pool # <<>> /\ r = Head(pool) /\ pool' = Tail(pool) /\ UNCHANGED allocated
    <3>1. p = Tail(pool) /\ a = allocated
      BY <1>2, <2>1
    <3>2. P = ToSet(p) \cup {r} /\ r \notin ToSet(p) /\ Once(p)
      BY <1>1, <1>3, <1>4, <2>1, <3>1, Tailing
    <3>. QED  BY <1>4, <3>1, <3>2 DEF Apart
  <2>2. CASE r \notin allocated /\ allocated' = allocated \cup {r} /\ UNCHANGED pool
    BY <1>2, <1>3, <1>4, <2>2 DEF Apart
  <2>. QED  BY <1>11, <2>1, <2>2 DEF EncodeTask, GetWriteBuffer
\* A session gives its queue back to the pool.
<1>12. ASSUME NEW last, Release(last), UNCHANGED <<writes, temp, held, allocated>>,
              Owned(c) = L, OnceOwned(c)
       PROVE  PlaceInv'
  <2>1. CASE last
    <3>1. p = pool \o sendQue /\ q = <<>>
      BY <1>2, <1>12, <2>1 DEF Release, Destroy
    <3>2. P \cap Q = {}
      BY <1>4 DEF Apart
    <3>3. ToSet(p) = P \cup Q /\ Once(p)
      BY <1>1, <1>3, <1>4, <3>1, <3>2, Joining
    <3>4. ToSet(q) = {} /\ Once(q)
      BY <1>6, <3>1
    <3>5. /\ ToSet(u) = T /\ ToSet(w) = W /\ HeldReqs(h) = H /\ a = allocated
          /\ Once(u) /\ Once(w) /\ OnceHeld(h)
      BY <1>2, <1>3, <1>4, <1>12
    <3>6. Apart(ToSet(p), ToSet(q), ToSet(u), ToSet(w), Owned(c), HeldReqs(h), a)
      BY <1>4, <1>12, <3>3, <3>4, <3>5 DEF Apart
    <3>. QED  BY <1>5, <1>12, <3>3, <3>4, <3>5, <3>6
  <2>2. CASE ~last
    BY <1>7, <1>12, <2>2 DEF Release
  <2>. QED  BY <2>1, <2>2
<1>13. CASE UNCHANGED vars
  BY <1>7, <1>8, <1>13 DEF vars
<1>14. ASSUME NEW t \in Senders, NEW m \in Msg, NEW r \in Req, SendMsg(t, m, r) PROVE PlaceInv'
  <2>1. held[t] = None /\ h = [held EXCEPT ![t] = r]
    BY <1>2, <1>14 DEF SendMsg, SenderGoto, Types, HeldInv, ThreadTypes
  <2>2. /\ Once(p) /\ r \notin ToSet(p) /\ r \notin Q \cup T \cup W \cup L \cup H
        /\ \/ P = ToSet(p) \cup {r} /\ a = allocated
           \/ P = ToSet(p) /\ a = allocated \cup {r}
    BY <1>11, <1>14 DEF SendMsg
  <2>3. HeldReqs(h) = H \cup {r} /\ OnceHeld(h)
    <3>1. r \notin HeldReqs(held)
      BY <1>3, <2>2
    <3>2. HeldReqs(h) = HeldReqs(held) \cup {r} /\ OnceHeld(h)
      <4>1. held \in [Senders -> Req \cup {None}] /\ t \in Senders /\ r \in Req /\ OnceHeld(held)
        BY <1>1, <1>4
      <4>2. held[t] = None /\ h[t] = r /\ \A v \in Senders \ {t} : h[v] = held[v]
        BY <1>1, <2>1
      <4>3. r \in Req \ HeldReqs(held)
        BY <3>1
      <4>. QED  BY <4>1, <4>2, <4>3, HeldTakes
    <3>. QED  BY <1>3, <3>2
  <2>4. /\ ToSet(q) = Q /\ ToSet(u) = T /\ ToSet(w) = W /\ Owned(c) = L
        /\ Once(q) /\ Once(u) /\ Once(w) /\ OnceOwned(c)
    BY <1>2, <1>3, <1>4, <1>14 DEF SendMsg
  <2>5. Apart(ToSet(p), ToSet(q), ToSet(u), ToSet(w), Owned(c), HeldReqs(h), a)
    BY <1>4, <2>2, <2>3, <2>4 DEF Apart
  <2>. QED  BY <1>5, <2>2, <2>3, <2>4, <2>5
<1>15. ASSUME NEW t \in Senders, PushInQue(t) PROVE PlaceInv'
  <2>1. held[t] \in Req /\ held[t] # None /\ h = [held EXCEPT ![t] = None] /\ sendQue' = Append(sendQue, held[t])
    BY <1>2, <1>15, NoneAssumption DEF PushInQue, SenderGoto, Types, HeldInv, ThreadTypes
  <2>2. PICK r : r = held[t]
    OBVIOUS
  <2>3. H = HeldReqs(h) \cup {r} /\ r \notin HeldReqs(h) /\ OnceHeld(h)
    <3>1. /\ HeldReqs(held) = HeldReqs(h) \cup {held[t]} /\ held[t] \notin HeldReqs(h)
          /\ OnceHeld(h)
      BY <1>1, <1>4, <2>1, HeldGives
    <3>. QED  BY <1>3, <2>2, <3>1
  <2>4. r \notin Q
    BY <1>4, <2>3 DEF Apart
  <2>5. ToSet(q) = Q \cup {r} /\ Once(q)
    BY <1>9, <2>1, <2>2, <2>4
  <2>6. /\ ToSet(p) = P /\ ToSet(u) = T /\ ToSet(w) = W /\ Owned(c) = L /\ a = allocated
        /\ Once(p) /\ Once(u) /\ Once(w) /\ OnceOwned(c)
    BY <1>2, <1>3, <1>4, <1>15 DEF PushInQue
  <2>7. Apart(ToSet(p), ToSet(q), ToSet(u), ToSet(w), Owned(c), HeldReqs(h), a)
    BY <1>4, <2>3, <2>5, <2>6 DEF Apart
  <2>. QED  BY <1>5, <2>3, <2>5, <2>6, <2>7
<1>16. ASSUME NEW t \in Senders, PostRealSend(t) \/ PostClose(t) \/ CloseSafe(t) PROVE PlaceInv'
  <2>1. CASE PostRealSend(t) \/ PostClose(t)
    BY <1>8, <1>12, <2>1 DEF PostRealSend, PostClose
  <2>2. CASE CloseSafe(t)
    BY <1>7, <1>8, <2>2 DEF CloseSafe
  <2>. QED  BY <1>16, <2>1, <2>2
\* What the loop thread takes from its calls, and gives to them.
<1>17. /\ Idle => L = {}
       /\ Returns /\ ~Idle /\ Head(calls).op \notin Owning => Owned(c) = L /\ OnceOwned(c)
       /\ Returns /\ ~Idle /\ Head(calls).op \in Owning =>
            L = Owned(c) \cup {Head(calls).req} /\ Head(calls).req \notin Owned(c) /\ OnceOwned(c)
       /\ ~Idle /\ Head(calls).op \in Owning => Head(calls).req \in Req
  BY <1>2, <1>3, <1>4, OwnedKept, CallsKept
<1>18. ASSUME NEW n \in Seq(CallType), OnceOwned(n)
       PROVE  /\ Enters(n) => Owned(c) = Owned(n) /\ OnceOwned(c)
              /\ ReturnsTo(n) /\ ~Idle /\ Head(calls).op \notin Owning /\ Owned(n) \cap L = {} =>
                   Owned(c) = L \cup Owned(n) /\ OnceOwned(c)
              /\ ReturnsTo(n) /\ ~Idle /\ Head(calls).op \in Owning /\ Owned(n) = {Head(calls).req} =>
                   Owned(c) = L /\ OnceOwned(c)
              /\ calls' = n \o calls /\ Owned(n) \cap L = {} =>
                   Owned(c) = L \cup Owned(n) /\ OnceOwned(c)
  BY <1>2, <1>3, <1>4, <1>18, OwnedKept
<1>19. ASSUME NEW op \in LoopOps \ Owning, NEW r \in Req \cup {None}, NEW ok \in BOOLEAN
       PROVE  /\ <<Call(op)>> \in Seq(CallType) /\ <<Outcome(op, r, ok)>> \in Seq(CallType)
              /\ Owned(<<Call(op)>>) = {} /\ OnceOwned(<<Call(op)>>)
              /\ Owned(<<Outcome(op, r, ok)>>) = {} /\ OnceOwned(<<Outcome(op, r, ok)>>)
  <2>1. PICK x, y : x = Call(op) /\ y = Outcome(op, r, ok)
    OBVIOUS
  <2>2. x \in CallType /\ x.op = op /\ y \in CallType /\ y.op = op
    BY <2>1 DEF Call, Outcome, CallType
  <2>3. <<x>> \in Seq(CallType) /\ <<y>> \in Seq(CallType)
    BY <2>2
  <2>4. Owned(<<x>>) = {} /\ OnceOwned(<<x>>) /\ Owned(<<y>>) = {} /\ OnceOwned(<<y>>)
    BY <2>2, OwnedSome
  <2>. QED  BY <2>1, <2>3, <2>4
<1>20. /\ {"realSend", "close", "onConnect", "onMessageParse", "sendLoop", "connCb", "sendCb", "flush",
           "closeCb", "freeConnection", "onClose"} \subseteq LoopOps \ Owning
       /\ None \in Req \cup {None} /\ TRUE \in BOOLEAN /\ FALSE \in BOOLEAN
  BY DEF LoopOps, UserOps, Owning
<1>21. ASSUME NEW n \in Seq(CallType), OnceOwned(n), Owned(n) = {},
              \/ Enters(n)
              \/ ReturnsTo(n) /\ ~Idle /\ Head(calls).op \notin Owning
              \/ calls' = n \o calls
       PROVE  Owned(c) = L /\ OnceOwned(c)
  <2>1. Enters(n) => L = {}
    BY <1>17 DEF Enters
  <2>. QED  BY <1>18, <1>21, <2>1
<1>22. CASE RunPosted
  <2>1. Head(posted) \in {"realSend", "close"}
    BY <1>22 DEF RunPosted, Types, ThreadTypes
  <2>2. Head(posted) \in LoopOps \ Owning
    BY <1>20, <2>1
  <2>. QED  BY <1>7, <1>19, <1>20, <1>21, <1>22, <2>2 DEF RunPosted
<1>23. CASE UvConnected \/ UvRead \/ UvReadEnds
  BY <1>7, <1>19, <1>20, <1>21, <1>23 DEF UvConnected, UvRead, UvReadEnds
<1>24. CASE UvConnectFails
  <2>1. PICK n : n = <<Outcome("onConnect", None, FALSE), Call("flush")>>
    OBVIOUS
  <2>2. n \in Seq(CallType) /\ OnceOwned(n) /\ Owned(n) = {}
    <3>1. PICK x, y : x = Outcome("onConnect", None, FALSE) /\ y = Call("flush")
      OBVIOUS
    <3>2. x \in CallType /\ y \in CallType /\ x.op \notin Owning /\ y.op \notin Owning
      BY <3>1 DEF Outcome, Call, CallType, LoopOps, Owning
    <3>3. <<x, y>> \in Seq(CallType)
      BY <3>2
    <3>4. OnceOwned(<<x, y>>) /\ Owned(<<x, y>>) = {}
      BY <3>2, OwnedSome
    <3>. QED  BY <2>1, <3>1, <3>3, <3>4
  <2>. QED  BY <1>7, <1>21, <1>24, <2>1, <2>2 DEF UvConnectFails
<1>25. CASE OnConnect
  <2>1. Head(calls).ok \in BOOLEAN
    <3>1. calls # <<>>
      BY <1>25 DEF OnConnect, Idle
    <3>2. Head(calls) \in CallType
      BY <1>1, <3>1, Tailing
    <3>. QED  BY <3>2 DEF CallType
  <2>2. ~Idle /\ Head(calls).op \notin Owning
    BY <1>25 DEF OnConnect, Owning
  <2>. QED  BY <1>7, <1>19, <1>20, <1>21, <1>25, <2>1, <2>2 DEF OnConnect
<1>26. CASE UserCloses
  BY <1>7, <1>19, <1>20, <1>21, <1>26 DEF UserCloses
<1>27. CASE OnClose
  <2>1. PICK n, o : /\ n = <<Call("closeCb")>>
                    /\ o = IF bClient THEN <<>> ELSE <<Call("freeConnection")>>
    OBVIOUS
  <2>2. /\ n \in Seq(CallType) /\ Owned(n) = {} /\ OnceOwned(n)
    BY <1>19, <1>20, <2>1
  <2>3. /\ o \in Seq(CallType) /\ Owned(o) = {} /\ OnceOwned(o)
    <3>1. CASE bClient
      BY <2>1, <3>1, OwnedSome
    <3>2. CASE ~bClient
      BY <1>19, <1>20, <2>1, <3>2
    <3>. QED  BY <3>1, <3>2
  <2>4. n \o o \in Seq(CallType) /\ Owned(n \o o) = {} /\ OnceOwned(n \o o)
    BY <2>2, <2>3, OwnedJoin, Joining
  <2>5. ReturnsTo(n \o o)
    BY <1>27, <2>1, Zenon DEF OnClose
  <2>6. ~Idle /\ Head(calls).op \notin Owning
    BY <1>27 DEF OnClose, Owning
  <2>7. Owned(c) = L /\ OnceOwned(c)
    BY <1>21, <2>4, <2>5, <2>6
  <2>. QED  BY <1>7, <1>27, <2>7 DEF OnClose
<1>28. CASE Close \/ UserReturns \/ SendLoopEnds
  <2>1. Returns /\ ~Idle /\ Head(calls).op \notin Owning
    BY <1>28 DEF Close, UserReturns, SendLoopEnds, InUserCallback, UserOps, Owning
  <2>2. UNCHANGED <<writes, sendQue, temp, held, pool, allocated>>
    BY <1>28 DEF Close, UserReturns, SendLoopEnds
  <2>. QED  BY <1>7, <1>17, <2>1, <2>2
<1>29. CASE UserReconnects
  BY <1>7, <1>8, <1>29 DEF UserReconnects
<1>30. CASE FreeConnection
  <2>1. Returns /\ ~Idle /\ Head(calls).op \notin Owning
    BY <1>30 DEF FreeConnection, Owning
  <2>. QED  BY <1>12, <1>17, <1>30, <2>1 DEF FreeConnection
\* The places that stay as they are.
<1>31. /\ UNCHANGED pool => ToSet(p) = P /\ Once(p)
       /\ UNCHANGED sendQue => ToSet(q) = Q /\ Once(q)
       /\ UNCHANGED temp => ToSet(u) = T /\ Once(u)
       /\ UNCHANGED writes => ToSet(w) = W /\ Once(w)
       /\ UNCHANGED held => HeldReqs(h) = H /\ OnceHeld(h)
       /\ UNCHANGED allocated => a = allocated
  BY <1>2, <1>3, <1>4
<1>32. CASE UvWritten \/ UvWriteFails
  <2>1. PICK r : r = Head(writes)
    OBVIOUS
  <2>2. r \in Req /\ W = ToSet(w) \cup {r} /\ r \notin ToSet(w) /\ Once(w)
    BY <1>10, <1>32, <2>1 DEF UvWritten, UvWriteFails
  <2>3. L = {} /\ Owned(c) = {r} /\ OnceOwned(c)
    <3>1. PICK ok \in BOOLEAN : Enters(<<Outcome("afterWrite", r, ok)>>)
      BY <1>32, <2>1 DEF UvWritten, UvWriteFails
    <3>2. PICK x : x = Outcome("afterWrite", r, ok)
      OBVIOUS
    <3>3. x \in CallType /\ x.op \in Owning /\ x.req = r
      BY <2>2, <3>2 DEF Outcome, CallType, LoopOps, Owning
    <3>4. <<x>> \in Seq(CallType) /\ Owned(<<x>>) = {r} /\ OnceOwned(<<x>>)
      <4>1. <<x>> \in Seq(CallType)
        BY <3>3
      <4>. QED  BY <3>3, <4>1, OwnedSome
    <3>. QED  BY <1>17, <1>18, <3>1, <3>2, <3>4 DEF Enters
  <2>4. /\ ToSet(p) = P /\ ToSet(q) = Q /\ ToSet(u) = T /\ HeldReqs(h) = H /\ a = allocated
        /\ Once(p) /\ Once(q) /\ Once(u) /\ OnceHeld(h)
    BY <1>31, <1>32 DEF UvWritten, UvWriteFails
  <2>5. Apart(ToSet(p), ToSet(q), ToSet(u), ToSet(w), Owned(c), HeldReqs(h), a)
    BY <1>4, <2>2, <2>3, <2>4 DEF Apart
  <2>. QED  BY <1>5, <2>2, <2>3, <2>4, <2>5
\* All that libuv had goes to the calls.
<1>33. ASSUME writes' = <<>>, UNCHANGED <<sendQue, temp, held, pool, allocated>>,
              Owned(c) = L \cup W, OnceOwned(c)
       PROVE  PlaceInv'
  <2>1. ToSet(w) = {} /\ Once(w)
    BY <1>2, <1>6, <1>33
  <2>2. /\ ToSet(p) = P /\ ToSet(q) = Q /\ ToSet(u) = T /\ HeldReqs(h) = H /\ a = allocated
        /\ Once(p) /\ Once(q) /\ Once(u) /\ OnceHeld(h)
    BY <1>31, <1>33
  <2>3. Apart(ToSet(p), ToSet(q), ToSet(u), ToSet(w), Owned(c), HeldReqs(h), a)
    BY <1>4, <1>33, <2>1, <2>2 DEF Apart
  <2>. QED  BY <1>5, <1>33, <2>1, <2>2, <2>3
<1>34. Cancelled \in Seq(CallType) /\ Owned(Cancelled) = W /\ OnceOwned(Cancelled) /\ W \cap L = {}
  <2>1. W \cap L = {}
    BY <1>4 DEF Apart
  <2>. QED  BY <1>1, <1>3, <1>4, <2>1, CancelledCalls, OwnedCancelled
<1>35. CASE UvFlush
  <2>1. ~Idle /\ Head(calls).op \notin Owning
    BY <1>35 DEF UvFlush, Owning
  <2>2. CASE stream = "failed"
    <3>1. ReturnsTo(Cancelled)
      BY <1>35, <2>2 DEF UvFlush
    <3>2. Owned(c) = L \cup W /\ OnceOwned(c)
      BY <1>18, <1>34, <2>1, <3>1
    <3>. QED  BY <1>33, <1>35, <2>2, <3>2 DEF UvFlush, CancelWrites
  <2>3. CASE stream # "failed"
    BY <1>7, <1>17, <1>35, <2>1, <2>3 DEF UvFlush
  <2>. QED  BY <2>2, <2>3
<1>36. CASE UvFinishClose
  <2>1. PICK aborted, done, n :
          /\ aborted = IF stream = "aborting" THEN <<Outcome("onConnect", None, FALSE)>> ELSE <<>>
          /\ done = <<Call("onClose")>> /\ n = Cancelled
    OBVIOUS
  <2>2. aborted \in Seq(CallType) /\ Owned(aborted) = {} /\ OnceOwned(aborted)
    <3>1. CASE stream = "aborting"
      BY <1>19, <1>20, <2>1, <3>1
    <3>2. CASE stream # "aborting"
      BY <2>1, <3>2, OwnedSome
    <3>. QED  BY <3>1, <3>2
  <2>3. done \in Seq(CallType) /\ Owned(done) = {} /\ OnceOwned(done)
    BY <1>19, <1>20, <2>1
  <2>4. n \in Seq(CallType) /\ Owned(n) = W /\ OnceOwned(n)
    BY <1>34, <2>1
  <2>5. PICK v : v = aborted \o n
    OBVIOUS
  <2>6. v \in Seq(CallType) /\ Owned(v) = W /\ OnceOwned(v)
    <3>1. v \in Seq(CallType)
      BY <2>2, <2>4, <2>5, Joining
    <3>2. Owned(aborted) \cap Owned(n) = {}
      BY <2>2
    <3>3. Owned(v) = Owned(aborted) \cup Owned(n) /\ OnceOwned(v)
      BY <2>2, <2>4, <2>5, <3>2, OwnedJoin
    <3>. QED  BY <2>2, <2>4, <3>1, <3>3
  <2>7. PICK x : x = v \o done
    OBVIOUS
  <2>8. x \in Seq(CallType) /\ Owned(x) = W /\ OnceOwned(x)
    <3>1. x \in Seq(CallType)
      BY <2>3, <2>6, <2>7, Joining
    <3>2. Owned(v) \cap Owned(done) = {}
      BY <2>3
    <3>3. Owned(x) = Owned(v) \cup Owned(done) /\ OnceOwned(x)
      BY <2>3, <2>6, <2>7, <3>2, OwnedJoin
    <3>. QED  BY <2>3, <2>6, <3>1, <3>3
  <2>9. Enters(x)
    BY <1>36, <2>1, <2>5, <2>7, Zenon DEF UvFinishClose
  <2>10. L = {} /\ Owned(c) = W /\ OnceOwned(c)
    BY <1>17, <1>18, <2>8, <2>9 DEF Enters
  <2>. QED  BY <1>33, <1>36, <2>10 DEF UvFinishClose, CancelWrites
<1>37. CASE SwapQue
  <2>1. Head(calls).op = "realSend" /\ ~Idle /\ Head(calls) = calls[1]
    <3>1. Head(calls).op = "realSend" /\ ~Idle
      BY <1>37 DEF SwapQue
    <3>. QED  BY <1>1, <3>1, Tailing DEF Idle
  <2>2. temp = <<>>
    BY <2>1 DEF TempInv, LoopLeft, Placed
  <2>3. T = {} /\ u = sendQue /\ q = <<>>
    BY <1>2, <1>3, <1>6, <1>37, <2>2 DEF SwapQue
  <2>4. ToSet(u) = Q /\ Once(u) /\ ToSet(q) = {} /\ Once(q)
    BY <1>3, <1>4, <1>6, <2>3
  <2>5. Owned(c) = L /\ OnceOwned(c)
    <3>1. "sendLoop" \in LoopOps \ Owning /\ Head(calls).op \notin Owning /\ ReturnsTo(<<Call("sendLoop")>>)
      BY <1>20, <1>37, <2>1 DEF Owning, SwapQue
    <3>2. PICK n : n = <<Call("sendLoop")>>
      OBVIOUS
    <3>3. n \in Seq(CallType) /\ Owned(n) = {} /\ OnceOwned(n)
      BY <1>19, <1>20, <3>1, <3>2
    <3>. QED  BY <1>21, <2>1, <3>1, <3>2, <3>3
  <2>6. /\ ToSet(p) = P /\ ToSet(w) = W /\ HeldReqs(h) = H /\ a = allocated
        /\ Once(p) /\ Once(w) /\ OnceHeld(h)
    BY <1>31, <1>37 DEF SwapQue
  <2>7. Apart(ToSet(p), ToSet(q), ToSet(u), ToSet(w), Owned(c), HeldReqs(h), a)
    BY <1>4, <2>3, <2>4, <2>5, <2>6 DEF Apart
  <2>. QED  BY <1>5, <2>4, <2>5, <2>6, <2>7
<1>38. CASE UvWrite
  <2>1. PICK r : r = Head(temp)
    OBVIOUS
  <2>2. r \in Req /\ T = ToSet(u) \cup {r} /\ r \notin ToSet(u) /\ Once(u)
    BY <1>10, <1>38, <2>1 DEF UvWrite
  <2>3. r \notin W /\ writes' = Append(writes, r)
    BY <1>4, <1>38, <2>1, <2>2 DEF Apart, UvWrite
  <2>4. ToSet(w) = W \cup {r} /\ Once(w)
    BY <1>9, <2>2, <2>3
  <2>5. /\ ToSet(p) = P /\ ToSet(q) = Q /\ HeldReqs(h) = H /\ a = allocated /\ Owned(c) = L
        /\ Once(p) /\ Once(q) /\ OnceHeld(h) /\ OnceOwned(c)
    BY <1>8, <1>31, <1>38 DEF UvWrite
  <2>6. Apart(ToSet(p), ToSet(q), ToSet(u), ToSet(w), Owned(c), HeldReqs(h), a)
    BY <1>4, <2>2, <2>4, <2>5 DEF Apart
  <2>. QED  BY <1>5, <2>2, <2>4, <2>5, <2>6
<1>39. CASE UvWriteRefused \/ KeepUnsent
  <2>1. PICK r : r = Head(temp)
    OBVIOUS
  <2>2. r \in Req /\ T = ToSet(u) \cup {r} /\ r \notin ToSet(u) /\ Once(u)
    BY <1>10, <1>39, <2>1 DEF UvWriteRefused, KeepUnsent, PushBackHead
  <2>3. r \notin Q /\ sendQue' = Append(sendQue, r)
    BY <1>4, <1>39, <2>1, <2>2 DEF Apart, UvWriteRefused, KeepUnsent, PushBackHead
  <2>4. ToSet(q) = Q \cup {r} /\ Once(q)
    BY <1>9, <2>2, <2>3
  <2>5. Owned(c) = L /\ OnceOwned(c)
    <3>1. CASE KeepUnsent
      BY <1>8, <3>1 DEF KeepUnsent
    <3>2. CASE UvWriteRefused
      <4>1. PICK n : n = <<Call("close")>>
        OBVIOUS
      <4>2. n \in Seq(CallType) /\ Owned(n) = {} /\ OnceOwned(n)
        BY <1>19, <1>20, <4>1
      <4>. QED  BY <1>21, <3>2, <4>1, <4>2 DEF UvWriteRefused
    <3>. QED  BY <1>39, <3>1, <3>2
  <2>6. /\ ToSet(p) = P /\ ToSet(w) = W /\ HeldReqs(h) = H /\ a = allocated
        /\ Once(p) /\ Once(w) /\ OnceHeld(h)
    BY <1>31, <1>39 DEF UvWriteRefused, KeepUnsent, PushBackHead
  <2>7. Apart(ToSet(p), ToSet(q), ToSet(u), ToSet(w), Owned(c), HeldReqs(h), a)
    BY <1>4, <2>2, <2>4, <2>5, <2>6 DEF Apart
  <2>. QED  BY <1>5, <2>2, <2>4, <2>5, <2>6, <2>7
<1>40. CASE AfterWriteUnbound \/ AfterWritePuts
  <2>1. PICK r : r = Head(calls).req
    OBVIOUS
  <2>2. r \in Req /\ L = Owned(c) \cup {r} /\ r \notin Owned(c) /\ OnceOwned(c) /\ PutWriteBuffer(r)
    BY <1>17, <1>40, <2>1 DEF AfterWriteUnbound, AfterWritePuts, Owning
  <2>3. r \notin P
    BY <1>4, <2>2 DEF Apart
  <2>4. ToSet(p) = P \cup {r} /\ Once(p) /\ a = allocated
    BY <1>9, <2>2, <2>3
  <2>5. /\ ToSet(q) = Q /\ ToSet(u) = T /\ ToSet(w) = W /\ HeldReqs(h) = H
        /\ Once(q) /\ Once(u) /\ Once(w) /\ OnceHeld(h)
    BY <1>31, <1>40 DEF AfterWriteUnbound, AfterWritePuts
  <2>6. Apart(ToSet(p), ToSet(q), ToSet(u), ToSet(w), Owned(c), HeldReqs(h), a)
    BY <1>4, <2>2, <2>4, <2>5 DEF Apart
  <2>. QED  BY <1>5, <2>2, <2>4, <2>5, <2>6
<1>41. CASE AfterWriteKeeps \/ PushInQueInLoop
  <2>1. PICK r : r = Head(calls).req
    OBVIOUS
  <2>2. /\ r \in Req /\ L = Owned(c) \cup {r} /\ r \notin Owned(c) /\ OnceOwned(c)
        /\ sendQue' = Append(sendQue, r)
    BY <1>17, <1>41, <2>1 DEF AfterWriteKeeps, PushInQueInLoop, Owning
  <2>3. r \notin Q
    BY <1>4, <2>2 DEF Apart
  <2>4. ToSet(q) = Q \cup {r} /\ Once(q)
    BY <1>9, <2>2, <2>3
  <2>5. /\ ToSet(p) = P /\ ToSet(u) = T /\ ToSet(w) = W /\ HeldReqs(h) = H /\ a = allocated
        /\ Once(p) /\ Once(u) /\ Once(w) /\ OnceHeld(h)
    BY <1>31, <1>41 DEF AfterWriteKeeps, PushInQueInLoop
  <2>6. Apart(ToSet(p), ToSet(q), ToSet(u), ToSet(w), Owned(c), HeldReqs(h), a)
    BY <1>4, <2>2, <2>4, <2>5 DEF Apart
  <2>. QED  BY <1>5, <2>2, <2>4, <2>5, <2>6
<1>42. CASE AfterWrite
  <2>1. PICK n \in Seq(CallType) : ReturnsTo(n) /\ Owned(n) = {Head(calls).req} /\ OnceOwned(n)
    BY <1>42, AfterWriteOwns
  <2>2. ~Idle /\ Head(calls).op \in Owning
    BY <1>42 DEF AfterWrite, Owning
  <2>3. Owned(c) = L /\ OnceOwned(c)
    BY <1>18, <2>1, <2>2
  <2>. QED  BY <1>7, <1>42, <2>3 DEF AfterWrite
<1>43. ASSUME NEW m \in Msg, NEW r \in Req, UserSends(m, r) PROVE PlaceInv'
  <2>1. /\ Once(p) /\ r \notin ToSet(p) /\ r \notin Q \cup T \cup W \cup L \cup H
        /\ \/ P = ToSet(p) \cup {r} /\ a = allocated
           \/ P = ToSet(p) /\ a = allocated \cup {r}
    BY <1>11, <1>43 DEF UserSends
  <2>2. Owned(c) = L \cup {r} /\ OnceOwned(c)
    <3>1. PICK x, y : x = CallWith("pushinQue", r) /\ y = Call("realSend")
      OBVIOUS
    <3>2. x \in CallType /\ y \in CallType /\ x.op \in Owning /\ y.op \notin Owning /\ x.req = r
      BY <3>1 DEF Call, CallWith, CallType, LoopOps, Owning
    <3>3. PICK n : n = <<x, y>>
      OBVIOUS
    <3>4. n \in Seq(CallType) /\ OnceOwned(n) /\ Owned(n) = {r}
      <4>1. <<x, y>> \in Seq(CallType)
        BY <3>2
      <4>. QED  BY <3>2, <3>3, <4>1, OwnedSome
    <3>. QED  BY <1>18, <1>43, <2>1, <3>1, <3>3, <3>4 DEF UserSends
  <2>3. /\ ToSet(q) = Q /\ ToSet(u) = T /\ ToSet(w) = W /\ HeldReqs(h) = H
        /\ Once(q) /\ Once(u) /\ Once(w) /\ OnceHeld(h)
    BY <1>31, <1>43 DEF UserSends
  <2>4. Apart(ToSet(p), ToSet(q), ToSet(u), ToSet(w), Owned(c), HeldReqs(h), a)
    BY <1>4, <2>1, <2>2, <2>3 DEF Apart
  <2>. QED  BY <1>5, <2>1, <2>2, <2>3, <2>4
<1>. QED  BY <1>13, <1>14, <1>15, <1>16, <1>22, <1>23, <1>24, <1>25, <1>26, <1>27, <1>28, <1>29, <1>30,
             <1>32, <1>35, <1>36, <1>37, <1>38, <1>39, <1>40, <1>41, <1>42, <1>43
          DEF Next, LoopCall, LoopEvent, SenderStep

\* Where a request is, said with the sets of the places.
LEMMA Occurring ==
  ASSUME NEW s \in Seq(Req), Once(s), NEW r
  PROVE  /\ r \in ToSet(s) => \E i : Occurrences(r, s) = {i}
         /\ r \notin ToSet(s) => Occurrences(r, s) = {}
<1>1. DOMAIN s = 1..Len(s)
  OBVIOUS
<1>2. ASSUME r \in ToSet(s) PROVE \E i : Occurrences(r, s) = {i}
  <2>1. PICK i \in 1..Len(s) : s[i] = r
    BY <1>1, <1>2 DEF ToSet
  <2>2. Occurrences(r, s) = {i}
    BY <2>1 DEF Occurrences, Once
  <2>. QED  BY <2>2
<1>3. r \notin ToSet(s) => Occurrences(r, s) = {}
  BY <1>1 DEF Occurrences, ToSet
<1>. QED  BY <1>2, <1>3

Places(k, S) == {k} \X S

LEMMA PlacesSome ==
  ASSUME NEW k, NEW S
  PROVE  (S = {} => Places(k, S) = {}) /\ ((\E i : S = {i}) => \E p : Places(k, S) = {p})
<1>1. ASSUME NEW i, S = {i} PROVE Places(k, S) = {<<k, i>>}
  BY <1>1 DEF Places
<1>2. ASSUME S = {} PROVE Places(k, S) = {}
  BY <1>2 DEF Places
<1>. QED  BY <1>1, <1>2

LEMMA PlaceMeansOnce == Types /\ PlaceInv => OwnedOnce
<1>. SUFFICES ASSUME Types, PlaceInv, NEW r \in Req
              PROVE  IF r \in allocated THEN \E p \in PlacesOf(r) : PlacesOf(r) = {p}
                                        ELSE PlacesOf(r) = {}
  BY DEF OwnedOnce
<1>1. PICK P, Q, T, W, L, H : /\ P = ToSet(pool) /\ Q = ToSet(sendQue) /\ T = ToSet(temp)
                              /\ W = ToSet(writes) /\ L = Owned(calls) /\ H = HeldReqs(held)
  OBVIOUS
<1>2. PICK a, b, c, d, e, f :
        /\ a = Occurrences(r, pool) /\ b = Occurrences(r, sendQue) /\ c = Occurrences(r, temp)
        /\ d = Occurrences(r, writes) /\ e = Owns(r) /\ f = {t \in Senders : held[t] = r}
  OBVIOUS
<1>3. /\ r \in P => \E i : a = {i}
      /\ r \notin P => a = {}
      /\ r \in Q => \E i : b = {i}
      /\ r \notin Q => b = {}
      /\ r \in T => \E i : c = {i}
      /\ r \notin T => c = {}
      /\ r \in W => \E i : d = {i}
      /\ r \notin W => d = {}
  <2>1. /\ Once(pool) /\ Once(sendQue) /\ Once(temp) /\ Once(writes)
        /\ pool \in Seq(Req) /\ sendQue \in Seq(Req) /\ temp \in Seq(Req) /\ writes \in Seq(Req)
    BY DEF PlaceInv, Types, QueueTypes
  <2>. QED  BY <1>1, <1>2, <2>1, Occurring
<1>4. /\ r \in L => \E i : e = {i}
      /\ r \notin L => e = {}
  <2>1. OnceOwned(calls)
    BY DEF PlaceInv
  <2>2. ASSUME r \in L PROVE \E i : e = {i}
    <3>1. PICK i \in 1..Len(calls) : calls[i].op \in Owning /\ calls[i].req = r
      BY <1>1, <2>2 DEF Owned
    <3>2. e = {i}
      BY <1>2, <2>1, <3>1 DEF Owns, OnceOwned
    <3>. QED  BY <3>2
  <2>3. r \notin L => e = {}
    BY <1>1, <1>2 DEF Owned, Owns
  <2>. QED  BY <2>2, <2>3
<1>5. /\ r \in H => \E i : f = {i}
      /\ r \notin H => f = {}
  <2>1. OnceHeld(held) /\ r # None
    BY NoneAssumption DEF PlaceInv
  <2>2. ASSUME r \in H PROVE \E i : f = {i}
    <3>1. PICK t \in Senders : held[t] = r
      BY <1>1, <2>2 DEF HeldReqs
    <3>2. f = {t}
      BY <1>2, <2>1, <3>1 DEF OnceHeld
    <3>. QED  BY <3>2
  <2>3. r \notin H => f = {}
    BY <1>1, <1>2, <2>1 DEF HeldReqs
  <2>. QED  BY <2>2, <2>3
<1>6. Apart(P, Q, T, W, L, H, allocated)
  BY <1>1 DEF PlaceInv
<1>7. PICK A, B, C, D, E, F :
        /\ A = Places("pool", a) /\ B = Places("sendQue", b) /\ C = Places("tempQue", c)
        /\ D = Places("libuv", d) /\ E = Places("loop", e) /\ F = Places("sender", f)
  OBVIOUS
<1>8. PlacesOf(r) = A \cup B \cup C \cup D \cup E \cup F
  BY <1>2, <1>7 DEF PlacesOf, Places
<1>9. /\ r \in P => \E p : A = {p}
      /\ r \notin P => A = {}
      /\ r \in Q => \E p : B = {p}
      /\ r \notin Q => B = {}
      /\ r \in T => \E p : C = {p}
      /\ r \notin T => C = {}
  <2>1. /\ a = {} => A = {}
        /\ (\E i : a = {i}) => \E p : A = {p}
    BY <1>7, PlacesSome
  <2>2. /\ b = {} => B = {}
        /\ (\E i : b = {i}) => \E p : B = {p}
    BY <1>7, PlacesSome
  <2>3. /\ c = {} => C = {}
        /\ (\E i : c = {i}) => \E p : C = {p}
    BY <1>7, PlacesSome
  <2>. QED  BY <1>3, <2>1, <2>2, <2>3
<1>10. /\ r \in W => \E p : D = {p}
       /\ r \notin W => D = {}
       /\ r \in L => \E p : E = {p}
       /\ r \notin L => E = {}
       /\ r \in H => \E p : F = {p}
       /\ r \notin H => F = {}
  <2>1. /\ d = {} => D = {}
        /\ (\E i : d = {i}) => \E p : D = {p}
    BY <1>7, PlacesSome
  <2>2. /\ e = {} => E = {}
        /\ (\E i : e = {i}) => \E p : E = {p}
    BY <1>7, PlacesSome
  <2>3. /\ f = {} => F = {}
        /\ (\E i : f = {i}) => \E p : F = {p}
    BY <1>7, PlacesSome
  <2>. QED  BY <1>3, <1>4, <1>5, <2>1, <2>2, <2>3
<1>11. CASE r \in allocated
  <2>1. \/ r \in P /\ r \notin Q \cup T \cup W \cup L \cup H
        \/ r \in Q /\ r \notin P \cup T \cup W \cup L \cup H
        \/ r \in T /\ r \notin P \cup Q \cup W \cup L \cup H
        \/ r \in W /\ r \notin P \cup Q \cup T \cup L \cup H
        \/ r \in L /\ r \notin P \cup Q \cup T \cup W \cup H
        \/ r \in H /\ r \notin P \cup Q \cup T \cup W \cup L
    BY <1>6, <1>11 DEF Apart
  <2>2. \E p : A \cup B \cup C \cup D \cup E \cup F = {p}
    BY <1>9, <1>10, <2>1
  <2>. QED  BY <1>8, <1>11, <2>2
<1>12. CASE r \notin allocated
  <2>1. A \cup B \cup C \cup D \cup E \cup F = {}
    BY <1>6, <1>9, <1>10, <1>12 DEF Apart
  <2>. QED  BY <1>8, <1>12, <2>1
<1>. QED  BY <1>11, <1>12

-----------------------------------------------------------------------------
(* What the requests carry.                                                *)

TaskInv == \A r \in allocated : task[r] = None <=> r \in ToSet(pool)

GhostTypes ==
  /\ handed \in Seq(Msg) /\ wire \in Seq(Msg)
  /\ failed \subseteq Msg /\ reported \subseteq Msg

\* The requests outside the pool carry a task.
LEMMA Tasked ==
  ASSUME Types, PlaceInv, TaskInv,
         NEW r \in ToSet(sendQue) \cup ToSet(temp) \cup ToSet(writes) \cup Owned(calls) \cup HeldReqs(held)
  PROVE  r \in Req /\ r \in allocated /\ r \notin ToSet(pool) /\ task[r] \in Msg
<1>1. r \in allocated /\ r \notin ToSet(pool)
  BY DEF PlaceInv, Apart
<1>. QED  BY <1>1 DEF TaskInv, Types, QueueTypes

LEMMA TaskNext ==
  ASSUME Types, PlaceInv, TaskInv, [Next]_vars
  PROVE  TaskInv'
<1>. USE DEF poolVars, Runs
<1>1. /\ pool \in Seq(Req) /\ sendQue \in Seq(Req) /\ task \in [Req -> Msg \cup {None}]
      /\ allocated \subseteq Req /\ ToSet(pool) \subseteq allocated /\ Once(pool)
  BY DEF Types, QueueTypes, PlaceInv, Apart
<1>2. PICK p, k, a : p = pool' /\ k = task' /\ a = allocated'
  OBVIOUS
<1>3. ASSUME \A r \in a : k[r] = None <=> r \in ToSet(p) PROVE TaskInv'
  BY <1>2, <1>3 DEF TaskInv
<1>4. ASSUME UNCHANGED <<pool, allocated, task>> PROVE TaskInv'
  BY <1>4 DEF TaskInv
<1>5. ASSUME NEW m \in Msg, NEW r \in Req, EncodeTask(m, r) PROVE TaskInv'
  <2>1. k[r] = m /\ m # None /\ \A x \in Req \ {r} : k[x] = task[x]
    BY <1>1, <1>2, <1>5, NoneAssumption DEF EncodeTask
  <2>2. r \notin ToSet(p) /\ a \subseteq allocated \cup {r}
        /\ \A x \in Req \ {r} : x \in ToSet(p) <=> x \in ToSet(pool)
    <3>1. CASE pool # <<>> /\ r = Head(pool) /\ pool' = Tail(pool) /\ UNCHANGED allocated
      <4>1. p = Tail(pool) /\ a = allocated
        BY <1>2, <3>1
      <4>2. ToSet(pool) = ToSet(p) \cup {r} /\ r \notin ToSet(p)
        BY <1>1, <3>1, <4>1, Tailing
      <4>. QED  BY <4>1, <4>2
    <3>2. CASE r \notin allocated /\ allocated' = allocated \cup {r} /\ UNCHANGED pool
      BY <1>1, <1>2, <3>2
    <3>. QED  BY <1>5, <3>1, <3>2 DEF EncodeTask, GetWriteBuffer
  <2>3. \A x \in a : k[x] = None <=> x \in ToSet(p)
    BY <1>1, <2>1, <2>2 DEF TaskInv
  <2>. QED  BY <1>3, <2>3
<1>6. ASSUME NEW r \in Req, PutWriteBuffer(r) PROVE TaskInv'
  <2>1. p = Append(pool, r) /\ a = allocated
    BY <1>2, <1>6 DEF PutWriteBuffer
  <2>2. ToSet(p) = ToSet(pool) \cup {r}
    BY <1>1, <2>1, Appending
  <2>3. k[r] = None /\ \A x \in Req \ {r} : k[x] = task[x]
    BY <1>1, <1>2, <1>6 DEF PutWriteBuffer
  <2>4. \A x \in a : k[x] = None <=> x \in ToSet(p)
    BY <1>1, <2>1, <2>2, <2>3 DEF TaskInv
  <2>. QED  BY <1>3, <2>4
<1>7. ASSUME NEW last, Release(last), UNCHANGED allocated PROVE TaskInv'
  <2>1. CASE last
    <3>1. p = pool \o sendQue /\ a = allocated
      BY <1>2, <1>7, <2>1 DEF Release, Destroy
    <3>2. ToSet(p) = ToSet(pool) \cup ToSet(sendQue)
      BY <1>1, <3>1, Joining
    <3>3. \A x \in Req : k[x] = IF x \in ToSet(sendQue) THEN None ELSE task[x]
      BY <1>2, <1>7, <2>1 DEF Release, Destroy
    <3>4. \A x \in a : k[x] = None <=> x \in ToSet(p)
      BY <1>1, <3>1, <3>2, <3>3 DEF TaskInv
    <3>. QED  BY <1>3, <3>4
  <2>2. CASE ~last
    BY <1>4, <1>7, <2>2 DEF Release
  <2>. QED  BY <2>1, <2>2
<1>8. CASE UNCHANGED vars
  BY <1>4, <1>8 DEF vars
<1>9. ASSUME NEW t \in Senders,
             SenderStep(t) \/ CloseSafe(t) \/ \E m \in Msg, r \in Req : SendMsg(t, m, r)
      PROVE  TaskInv'
  <2>1. CASE PostRealSend(t) \/ PostClose(t)
    BY <1>7, <2>1 DEF PostRealSend, PostClose
  <2>2. CASE PushInQue(t) \/ CloseSafe(t)
    BY <1>4, <2>2 DEF PushInQue, CloseSafe
  <2>3. ASSUME NEW m \in Msg, NEW r \in Req, SendMsg(t, m, r) PROVE TaskInv'
    BY <1>5, <2>3 DEF SendMsg
  <2>. QED  BY <1>9, <2>1, <2>2, <2>3 DEF SenderStep
<1>10. CASE AfterWriteUnbound \/ AfterWritePuts
  <2>1. Head(calls).req \in Req
    BY <1>10, CallsKept DEF AfterWriteUnbound, AfterWritePuts, Owning
  <2>. QED  BY <1>6, <1>10, <2>1 DEF AfterWriteUnbound, AfterWritePuts
<1>11. CASE FreeConnection
  BY <1>7, <1>11 DEF FreeConnection
<1>12. ASSUME NEW m \in Msg, NEW r \in Req, UserSends(m, r) PROVE TaskInv'
  BY <1>5, <1>12 DEF UserSends
<1>13. CASE \/ LoopEvent \/ UvRead \/ UvReadEnds \/ UserCloses \/ UserReconnects
            \/ (LoopCall /\ ~AfterWriteUnbound /\ ~AfterWritePuts /\ ~FreeConnection)
  BY <1>4, <1>13 DEF LoopEvent, RunPosted, UvConnected, UvConnectFails, UvRead, UvReadEnds, UvWritten,
        UvWriteFails, UvFinishClose, UserCloses, UserReconnects, LoopCall, UvFlush, SwapQue, UvWrite,
        UvWriteRefused, KeepUnsent, SendLoopEnds, AfterWrite, AfterWriteKeeps, Close, OnConnect, OnClose,
        PushInQueInLoop, UserReturns
<1>. QED  BY <1>8, <1>9, <1>10, <1>11, <1>12, <1>13 DEF Next

\* The histories hold tasks.
LEMMA GhostNext ==
  ASSUME Types, PlaceInv, TaskInv, GhostTypes, [Next]_vars
  PROVE  GhostTypes'
<1>. USE DEF history, Runs
<1>1. /\ pool \in Seq(Req) /\ sendQue \in Seq(Req) /\ temp \in Seq(Req) /\ writes \in Seq(Req)
      /\ calls \in Seq(CallType) /\ held \in [Senders -> Req \cup {None}]
      /\ handed \in Seq(Msg) /\ wire \in Seq(Msg) /\ failed \subseteq Msg /\ reported \subseteq Msg
  BY DEF Types, QueueTypes, ThreadTypes, GhostTypes
<1>2. CASE UNCHANGED history
  BY <1>2 DEF GhostTypes
<1>3. temp # <<>> => task[Head(temp)] \in Msg
  <2>1. temp # <<>> => Head(temp) \in ToSet(temp)
    BY <1>1, Tailing
  <2>. QED  BY <2>1, Tasked
<1>4. writes # <<>> => task[Head(writes)] \in Msg
  <2>1. writes # <<>> => Head(writes) \in ToSet(writes)
    BY <1>1, Tailing
  <2>. QED  BY <2>1, Tasked
<1>5. {task[writes[i]] : i \in 1..Len(writes)} \subseteq Msg
  <2>1. DOMAIN writes = 1..Len(writes)
    BY <1>1
  <2>2. \A i \in 1..Len(writes) : writes[i] \in ToSet(writes)
    BY <2>1 DEF ToSet
  <2>. QED  BY <2>2, Tasked
<1>6. CASE UNCHANGED vars
  BY <1>2, <1>6 DEF vars
<1>7. ASSUME NEW t \in Senders, PushInQue(t) PROVE GhostTypes'
  <2>1. held[t] \in HeldReqs(held)
    BY <1>7 DEF PushInQue, SenderGoto, Types, HeldInv, ThreadTypes, HeldReqs
  <2>2. task[held[t]] \in Msg
    BY <2>1, Tasked
  <2>. QED  BY <1>1, <1>7, <2>2 DEF PushInQue, GhostTypes
<1>8. CASE PushInQueInLoop
  <2>1. Head(calls).req \in Owned(calls)
    <3>1. calls # <<>> /\ Head(calls).op \in Owning
      BY <1>8 DEF PushInQueInLoop, Idle, Owning
    <3>. QED  BY <1>1, <3>1, OwnedTail
  <2>2. task[Head(calls).req] \in Msg
    BY <2>1, Tasked
  <2>. QED  BY <1>1, <1>8, <2>2 DEF PushInQueInLoop, GhostTypes
<1>9. CASE UvWritten
  BY <1>1, <1>4, <1>9 DEF UvWritten, GhostTypes
<1>10. CASE UvWriteFails
  BY <1>1, <1>4, <1>10 DEF UvWriteFails, GhostTypes
<1>11. CASE UvFlush \/ UvFinishClose
  <2>1. UNCHANGED history \/ CancelWrites
    BY <1>11 DEF UvFlush, UvFinishClose
  <2>. QED  BY <1>1, <1>2, <1>5, <2>1 DEF CancelWrites, GhostTypes
<1>12. CASE UvWriteRefused \/ KeepUnsent
  <2>1. temp # <<>> /\ PushBackHead
    BY <1>12 DEF UvWriteRefused, KeepUnsent
  <2>. QED  BY <1>1, <1>3, <2>1 DEF PushBackHead, GhostTypes
<1>13. CASE AfterWrite
  BY <1>1, <1>13, BoundAssumption DEF AfterWrite, GhostTypes
<1>14. CASE OnClose
  BY <1>1, <1>14 DEF OnClose, GhostTypes
<1>15. ASSUME NEW t \in Senders,
              PostRealSend(t) \/ PostClose(t) \/ CloseSafe(t) \/ \E m \in Msg, r \in Req : SendMsg(t, m, r)
       PROVE  GhostTypes'
  BY <1>2, <1>15 DEF PostRealSend, PostClose, CloseSafe, SendMsg
<1>16. CASE \/ RunPosted \/ UvConnected \/ UvConnectFails \/ UvRead \/ UvReadEnds
            \/ UserCloses \/ UserReconnects \/ \E m \in Msg, r \in Req : UserSends(m, r)
  BY <1>2, <1>16 DEF RunPosted, UvConnected, UvConnectFails, UvRead, UvReadEnds, UserCloses,
                     UserReconnects, UserSends
<1>17. CASE \/ SwapQue \/ UvWrite \/ SendLoopEnds \/ AfterWriteUnbound \/ AfterWritePuts
            \/ AfterWriteKeeps \/ Close \/ OnConnect \/ FreeConnection \/ UserReturns
  BY <1>2, <1>17 DEF SwapQue, UvWrite, SendLoopEnds, AfterWriteUnbound, AfterWritePuts,
                     AfterWriteKeeps, Close, OnConnect, FreeConnection, UserReturns
<1>. QED  BY <1>6, <1>7, <1>8, <1>9, <1>10, <1>11, <1>12, <1>13, <1>14, <1>15, <1>16, <1>17
          DEF Next, LoopCall, LoopEvent, SenderStep

\* onClose has left freeConnection to be called.
Freeing(s) == \E i \in 1..Len(s) : s[i].op = "freeConnection"

LEMMA FreeingKept ==
  ASSUME NEW s \in Seq(CallType), NEW t \in Seq(CallType)
  PROVE  /\ Freeing(s \o t) <=> Freeing(s) \/ Freeing(t)
         /\ s # <<>> => (Freeing(s) <=> Freeing(Tail(s)) \/ Head(s).op = "freeConnection")
<1>1. \A u \in Seq(CallType) : Freeing(u) <=> \E x \in ToSet(u) : x.op = "freeConnection"
  <2>1. \A u \in Seq(CallType) : DOMAIN u = 1..Len(u)
    OBVIOUS
  <2>. QED  BY <2>1 DEF Freeing, ToSet
<1>2. s \o t \in Seq(CallType) /\ ToSet(s \o t) = ToSet(s) \cup ToSet(t)
  BY Joining
<1>3. s # <<>> => Tail(s) \in Seq(CallType) /\ ToSet(s) = ToSet(Tail(s)) \cup {Head(s)}
  BY Tailing
<1>. QED  BY <1>1, <1>2, <1>3

\* The holders of a closed session let go of it one by one, and the last destroys it:
\* no call is left on the loop's thread that would, and no thread comes back to it.
LEMMA UnheldNext == OKInv /\ DestroyedUnheld /\ [Next]_vars => DestroyedUnheld'
<1>. SUFFICES ASSUME OKInv, DestroyedUnheld, [Next]_vars PROVE DestroyedUnheld'
  OBVIOUS
<1>. USE DEF queueVars, streamVars, senderVars, Runs
<1>1. calls \in Seq(CallType) /\ Placed(calls) /\ StreamTypes /\ pc \in [Senders -> {"idle", "push", "post", "postClose", "done"}]
  BY DEF OKInv, Types, ThreadTypes
<1>2. PICK c, t : c = calls' /\ t = Tail(calls)
  OBVIOUS
<1>3. ~Idle => t \in Seq(CallType) /\ (Freeing(calls) <=> Freeing(t) \/ Head(calls).op = "freeConnection")
  BY <1>1, <1>2, FreeingKept, Tailing DEF Idle
\* A step that leaves the senders alone, on a session that is not destroyed.
<1>4. ASSUME UNCHANGED <<bClient, pc>>, stream # "freed", stream' = stream \/ stream' \notin {"closed", "freed"},
             Freeing(calls) => Freeing(c)
      PROVE  DestroyedUnheld'
  BY <1>2, <1>4 DEF DestroyedUnheld, Mapped, Freeing, Uses
<1>5. ASSUME UNCHANGED <<bClient, pc>>, stream # "freed", stream' = stream \/ stream' \notin {"closed", "freed"}, Idle
      PROVE  DestroyedUnheld'
  <2>1. ~Freeing(calls)
    BY <1>5 DEF Idle, Freeing
  <2>. QED  BY <1>4, <1>5, <2>1
<1>6. ASSUME UNCHANGED <<bClient, pc>>, stream # "freed", stream' = stream \/ stream' \notin {"closed", "freed"},
             ~Idle, Head(calls).op # "freeConnection", Returns \/ \E n \in Seq(CallType) : ReturnsTo(n)
      PROVE  DestroyedUnheld'
  <2>1. Freeing(t) => Freeing(c)
    <3>1. CASE Returns
      BY <1>2, <3>1 DEF Returns
    <3>2. ASSUME NEW n \in Seq(CallType), ReturnsTo(n) PROVE Freeing(t) => Freeing(c)
      <4>1. c = n \o t
        BY <1>2, <3>2 DEF ReturnsTo
      <4>. QED  BY <1>3, <1>6, <4>1, FreeingKept
    <3>. QED  BY <1>6, <3>1, <3>2
  <2>. QED  BY <1>3, <1>4, <1>6, <2>1
<1>7. ASSUME UNCHANGED <<bClient, pc, stream>>, stream # "freed", NEW n \in Seq(CallType), calls' = n \o calls
      PROVE  DestroyedUnheld'
  <2>1. Freeing(calls) => Freeing(c)
    <3>1. c = n \o calls
      BY <1>2, <1>7
    <3>. QED  BY <1>1, <3>1, FreeingKept
  <2>. QED  BY <1>4, <1>7, <2>1
<1>8. CASE UNCHANGED vars
  BY <1>8 DEF vars, DestroyedUnheld, Mapped, Uses
<1>9. ASSUME NEW u \in Senders, PushInQue(u) \/ CloseSafe(u) \/ \E m \in Msg, r \in Req : SendMsg(u, m, r)
      PROVE  DestroyedUnheld'
  <2>1. UNCHANGED <<bClient, stream, calls>> /\ Uses(u)' /\ (Uses(u) \/ stream # "freed")
    BY <1>1, <1>9 DEF PushInQue, CloseSafe, SendMsg, SenderGoto, Uses
  <2>2. ~bClient => stream # "freed"
    BY <2>1 DEF DestroyedUnheld
  <2>. QED  BY <2>1, <2>2 DEF DestroyedUnheld, Mapped
<1>10. ASSUME NEW u \in Senders, PostRealSend(u) \/ PostClose(u) PROVE DestroyedUnheld'
  <2>1. /\ UNCHANGED <<bClient, calls>> /\ Uses(u) /\ ~Uses(u)' /\ Release(~Mapped /\ LastUser(u))
        /\ \A v \in Senders : v # u => (Uses(v)' <=> Uses(v))
    <3>1. CASE PostRealSend(u)
      BY <1>1, <3>1 DEF PostRealSend, SenderGoto, Uses
    <3>2. CASE PostClose(u)
      BY <1>1, <3>2 DEF PostClose, SenderGoto, Uses
    <3>. QED  BY <1>10, <3>1, <3>2
  <2>2. ~bClient => stream # "freed"
    BY <2>1 DEF DestroyedUnheld
  <2>3. CASE ~Mapped /\ LastUser(u)
    BY <2>1, <2>3 DEF Release, Destroy, DestroyedUnheld, Mapped, LastUser
  <2>4. CASE ~(~Mapped /\ LastUser(u))
    <3>1. stream' = stream
      BY <2>1, <2>4 DEF Release
    <3>2. CASE Mapped
      BY <2>1, <2>2, <3>1, <3>2 DEF DestroyedUnheld, Mapped
    <3>3. CASE ~bClient /\ \E v \in Senders \ {u} : Uses(v)
      BY <2>1, <2>2, <3>1, <3>3 DEF DestroyedUnheld
    <3>4. CASE bClient
      BY <2>1, <3>4 DEF DestroyedUnheld
    <3>. QED  BY <2>4, <3>2, <3>3, <3>4 DEF LastUser
  <2>. QED  BY <2>3, <2>4
<1>11. CASE LoopEvent \/ UvRead \/ UvReadEnds
  <2>1. UNCHANGED <<bClient, pc>> /\ Idle /\ stream # "freed" /\ (stream' = stream \/ stream' \notin {"closed", "freed"})
    BY <1>11 DEF LoopEvent, RunPosted, UvConnected, UvConnectFails, UvRead, UvReadEnds, UvWritten,
                 UvWriteFails, UvFinishClose, Enters
  <2>. QED  BY <1>5, <2>1
<1>12. CASE FreeConnection
  <2>1. /\ UNCHANGED <<bClient, pc>> /\ stream # "freed" /\ ~Idle /\ Head(calls).op = "freeConnection"
        /\ c = t /\ Release(LastUser(None))
    BY <1>2, <1>12 DEF FreeConnection, Returns
  <2>2. ~Freeing(c)
    <3>1. calls # <<>> /\ Head(calls) = calls[1] /\ 1 \in 1..Len(calls)
      BY <1>1, <2>1, Tailing DEF Idle
    <3>2. Len(calls) = 1
      BY <2>1, <3>1 DEF OKInv, Placed
    <3>3. Len(t) = 0
      BY <1>1, <1>2, <3>1, <3>2, Tailing
    <3>. QED  BY <2>1, <3>3 DEF Freeing
  <2>3. \A v \in Senders : v # None /\ (Uses(v)' <=> Uses(v))
    BY <2>1, NoneAssumption DEF Uses
  <2>4. CASE LastUser(None)
    <3>1. stream' = "freed" /\ \A v \in Senders : ~Uses(v)'
      BY <2>1, <2>3, <2>4 DEF Release, Destroy, LastUser
    <3>. QED  BY <1>2, <2>2, <3>1 DEF DestroyedUnheld, Mapped, Freeing
  <2>5. CASE ~LastUser(None)
    BY <2>1, <2>3, <2>5 DEF Release, LastUser, DestroyedUnheld
  <2>. QED  BY <2>4, <2>5
<1>13. CASE OnClose
  <2>1. PICK n, o : n = <<Call("closeCb")>> /\ o = IF bClient THEN <<>> ELSE <<Call("freeConnection")>>
    OBVIOUS
  <2>2. /\ Call("closeCb") \in CallType /\ Call("freeConnection") \in CallType
        /\ Call("freeConnection").op = "freeConnection"
    BY DEF Call, CallType, LoopOps, UserOps
  <2>3. n \in Seq(CallType) /\ o \in Seq(CallType) /\ (~bClient => Freeing(o))
    BY <2>1, <2>2 DEF Freeing
  <2>4. c = (n \o o) \o t /\ t \in Seq(CallType) /\ n \o o \in Seq(CallType)
    <3>1. ReturnsTo(n \o o) /\ ~Idle
      BY <1>13, <2>1, Zenon DEF OnClose
    <3>2. n \o o \in Seq(CallType)
      BY <2>3, Joining
    <3>. QED  BY <1>2, <1>3, <3>1, <3>2 DEF ReturnsTo
  <2>5. ~bClient => Freeing(c)
    BY <2>3, <2>4, FreeingKept
  <2>6. stream' = "closed" /\ bClient' = bClient
    BY <1>13 DEF OnClose
  <2>. QED  BY <1>2, <2>5, <2>6 DEF DestroyedUnheld, Mapped, Freeing
<1>14. CASE UvFlush
  <2>1. /\ UNCHANGED <<bClient, pc, stream>> /\ stream # "freed" /\ ~Idle
        /\ Head(calls).op # "freeConnection"
    BY <1>14 DEF UvFlush
  <2>2. Returns \/ \E n \in Seq(CallType) : ReturnsTo(n)
    <3>1. Cancelled \in Seq(CallType)
      BY CancelledInFront DEF OKInv, Types, QueueTypes
    <3>2. Returns \/ ReturnsTo(Cancelled)
      BY <1>14 DEF UvFlush
    <3>. QED  BY <3>1, <3>2
  <2>. QED  BY <1>6, <2>1, <2>2
<1>15. CASE SwapQue
  <2>1. <<Call("sendLoop")>> \in Seq(CallType)
    <3>1. Call("sendLoop") \in CallType
      BY DEF Call, CallType, LoopOps
    <3>. QED  BY <3>1
  <2>. QED  BY <1>6, <1>15, <2>1 DEF SwapQue
<1>16. CASE UvWrite \/ KeepUnsent
  BY <1>2, <1>4, <1>16 DEF UvWrite, KeepUnsent
<1>17. CASE UvWriteRefused \/ UserCloses
  <2>1. <<Call("close")>> \in Seq(CallType)
    <3>1. Call("close") \in CallType
      BY DEF Call, CallType, LoopOps
    <3>. QED  BY <3>1
  <2>2. /\ UNCHANGED <<bClient, pc, stream>> /\ stream # "freed"
        /\ calls' = <<Call("close")>> \o calls
    BY <1>17 DEF UvWriteRefused, UserCloses, InUserCallback
  <2>. QED  BY <1>7, <2>1, <2>2
<1>18. CASE AfterWrite
  <2>1. \E n \in Seq(CallType) : ReturnsTo(n)
    BY <1>18, AfterWriteForm DEF OKInv
  <2>2. /\ UNCHANGED <<bClient, pc, stream>> /\ stream # "freed" /\ ~Idle
        /\ Head(calls).op # "freeConnection"
    BY <1>18 DEF AfterWrite
  <2>. QED  BY <1>6, <2>1, <2>2
<1>19. CASE OnConnect
  <2>1. PICK e : e = Outcome("connCb", None, Head(calls).ok)
    OBVIOUS
  <2>2. calls # <<>> /\ Head(calls) \in CallType
    BY <1>1, <1>19, Tailing DEF OnConnect, Idle
  <2>3. e \in CallType
    BY <2>1, <2>2 DEF Outcome, CallType, LoopOps, UserOps
  <2>4. <<e>> \in Seq(CallType)
    BY <2>3
  <2>5. /\ UNCHANGED <<bClient, pc, stream>> /\ stream # "freed" /\ ~Idle
        /\ Head(calls).op # "freeConnection" /\ ReturnsTo(<<e>>)
    BY <1>19, <2>1 DEF OnConnect
  <2>. QED  BY <1>6, <2>4, <2>5
<1>20. ASSUME NEW m \in Msg, NEW r \in Req, UserSends(m, r) PROVE DestroyedUnheld'
  <2>1. <<CallWith("pushinQue", r), Call("realSend")>> \in Seq(CallType)
    <3>1. CallWith("pushinQue", r) \in CallType /\ Call("realSend") \in CallType
      BY DEF Call, CallWith, CallType, LoopOps
    <3>. QED  BY <3>1
  <2>. QED  BY <1>7, <1>20, <2>1 DEF UserSends, InUserCallback
<1>21. CASE UserReconnects
  BY <1>2, <1>4, <1>21 DEF UserReconnects, Connect
<1>22. CASE \/ SendLoopEnds \/ AfterWriteUnbound \/ AfterWritePuts \/ AfterWriteKeeps
            \/ PushInQueInLoop \/ UserReturns
  <2>1. /\ UNCHANGED <<bClient, pc, stream>> /\ stream # "freed" /\ Returns /\ ~Idle
        /\ Head(calls).op # "freeConnection"
    BY <1>22 DEF SendLoopEnds, AfterWriteUnbound, AfterWritePuts, AfterWriteKeeps, UserOps,
                 PushInQueInLoop, UserReturns, InUserCallback
  <2>. QED  BY <1>6, <2>1
<1>23. CASE Close
  <2>1. /\ UNCHANGED <<bClient, pc>> /\ stream # "freed" /\ Returns /\ ~Idle
        /\ stream' = stream \/ stream' \notin {"closed", "freed"}
        /\ Head(calls).op # "freeConnection"
    BY <1>23 DEF Close
  <2>. QED  BY <1>6, <2>1
<1>. QED  BY <1>8, <1>9, <1>10, <1>11, <1>12, <1>13, <1>14, <1>15, <1>16, <1>17, <1>18, <1>19,
             <1>20, <1>21, <1>22, <1>23 DEF Next, LoopCall, SenderStep

\* What holds between the steps of a connection.
Inv == OKInv /\ TempInv /\ PlaceInv /\ TaskInv /\ GhostTypes

LEMMA InvInit == Init => Inv
<1>. SUFFICES ASSUME Init PROVE Inv
  OBVIOUS
<1>1. TempInv /\ GhostTypes
  BY DEF Init, TempInv, GhostTypes
<1>2. TaskInv
  <2>1. allocated \subseteq Req
    BY OKInit DEF OKInv, Types, QueueTypes
  <2>. QED  BY <2>1 DEF Init, TaskInv
<1>. QED  BY <1>1, <1>2, OKInit, PlaceInit DEF Inv

LEMMA InvNext == Inv /\ [Next]_vars => Inv'
<1>. SUFFICES ASSUME Inv, [Next]_vars PROVE Inv'
  OBVIOUS
<1>1. Types /\ Placed(calls) /\ OKInv /\ TempInv /\ PlaceInv /\ TaskInv /\ GhostTypes
  BY DEF Inv, OKInv
<1>. QED  BY <1>1, OKNext, TempNext, PlaceNext, TaskNext, GhostNext DEF Inv

THEOREM Invariance == Spec => []Inv
BY InvInit, InvNext, PTL DEF Spec

\* The variables hold values of their types: what is written, reported or recorded is a
\* task, since no request leaves the pool without one.
THEOREM TypeCorrect == Spec => []TypeOK
<1>1. Inv => TypeOK
  BY DEF Inv, OKInv, Types, StreamTypes, QueueTypes, ThreadTypes, CallType, GhostTypes, TypeOK
<1>. QED  BY <1>1, Invariance, PTL

\* A write request is in one place, whatever fails or is cancelled: in the pool, in a
\* queue, in libuv, with a sender, or with a call of the loop's thread.
THEOREM RequestsOwnedOnce == Spec => []OwnedOnce
<1>1. Inv => OwnedOnce
  BY PlaceMeansOnce DEF Inv, OKInv
<1>. QED  BY <1>1, Invariance, PTL

\* A request carries a task just while it is not in the pool.
THEOREM TaskKept == Spec => []TaskWhileUsed
<1>1. Inv => TaskWhileUsed
  <2>. SUFFICES ASSUME Inv, NEW r \in allocated
                PROVE  task[r] = None <=> Occurrences(r, pool) # {}
    BY DEF TaskWhileUsed
  <2>1. DOMAIN pool = 1..Len(pool)
    BY DEF Inv, OKInv, Types, QueueTypes
  <2>2. r \in ToSet(pool) <=> Occurrences(r, pool) # {}
    BY <2>1 DEF ToSet, Occurrences
  <2>. QED  BY <2>2 DEF Inv, TaskInv
<1>. QED  BY <1>1, Invariance, PTL

\* A closed session is destroyed by whoever is last to let go of it, onClose or a
\* thread in sendMsg or closeSafe, and by nobody before: the safe half of ClosedIsFreed.
THEOREM SessionDestroyedUnheld == Spec => []DestroyedUnheld
<1>1. Init => DestroyedUnheld
  BY DEF Init, DestroyedUnheld
<1>2. Inv /\ DestroyedUnheld /\ [Next]_vars => DestroyedUnheld'
  BY UnheldNext DEF Inv
<1>. QED  BY <1>1, <1>2, Invariance, PTL DEF Spec
=============================================================================
