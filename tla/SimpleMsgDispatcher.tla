------------------------- MODULE SimpleMsgDispatcher -------------------------
(***************************************************************************)
(* The splitting of a TCP stream into packets by                           *)
(* robin::SimpleMsgDispatcher (src/src/SimpleMsgDispatcher.cpp), and the   *)
(* CharVector (src/include/CharVector.h) in which a TcpConnection keeps    *)
(* the tail of the stream that is not a whole packet yet.                  *)
(*                                                                         *)
(* A byte is named by its position in the stream, so a buffer is a         *)
(* sequence of positions and a slip of one byte in any copy shows.  A      *)
(* packet is Hdr bytes of DATA_HEADER, whose length field counts the data  *)
(* bytes that follow.  The stream is the function lenAt: the length field  *)
(* a header that starts at a given position holds.                         *)
(***************************************************************************)
EXTENDS Naturals, Sequences

CONSTANTS
  Hdr,       \* sizeof(DATA_HEADER)
  Lengths,   \* the values of the length field
  InitCap,   \* the capacity CharVector's constructor reserves
  MaxBytes   \* bound: bytes received in a behaviour

ASSUME HdrAssumption == Hdr \in Nat \ {0}
ASSUME LengthsAssumption == Lengths \subseteq Nat
ASSUME CapAssumption == InitCap \in Nat \ {0}
ASSUME BytesAssumption == MaxBytes \in Nat

VARIABLES
  lenAt,      \* the stream
  rcvd,       \* how many bytes of it the connection has read
  vec,        \* TcpConnection::buf: the bytes kept for the next read
  cap,        \* its capacity
  buf,        \* what is left of the bytes of the current read
  pc,         \* "idle" between calls of onMessage, "newBuf" in doMessageInNewBuf
  delivered   \* history: what onMessageParse was given, in order, and where in
              \* the stream the packet due at that time starts

streamVars == <<lenAt, rcvd>>
vars == <<streamVars, vec, cap, buf, pc, delivered>>

\* The bytes of the stream from position a up to position b.
Bytes(a, b) == [i \in 1..(b - a) |-> a + i - 1]

Init ==
  /\ lenAt \in [0..MaxBytes -> Lengths]
  /\ rcvd = 0
  /\ vec = <<>>
  /\ cap = InitCap
  /\ buf = <<>>
  /\ pc = "idle"
  /\ delivered = <<>>

-----------------------------------------------------------------------------
(* Buffers.                                                                *)

Take(s, n) == SubSeq(s, 1, n)
Drop(s, n) == SubSeq(s, n + 1, Len(s))
copyToVec(s) == vec \o s

\* DATA_HEADER::getLen of the header that s starts with.
DataLen(s) == lenAt[s[1]]
Complete(s) == Len(s) >= Hdr /\ Len(s) >= Hdr + DataLen(s)

\* CharVector::reserve doubles the capacity until n bytes fit.  (From 10 MB on it
\* adds 1 MB at a time, which only makes another capacity of at least n.)
Reserve(n) ==
  IF n <= cap THEN UNCHANGED cap
              ELSE cap' \in {c \in n..(2 * n - 1) : \E k \in 1..n : c = cap * 2^k}

\* Fault: the vector grows when the bytes just fit.
PointsToTight(bytes, n) ==
  IF Len(vec) + n < cap THEN {bytes} ELSE {bytes, <<>>}

\* What a pointer into vec points to after n bytes are appended to vec: the
\* reallocation that makes room may move the bytes, and it frees the old ones.
PointsTo(bytes, n) ==
  IF Len(vec) + n <= cap THEN {bytes} ELSE {bytes, <<>>}

\* Where a packet that starts at a ends, and where the next one to be
\* delivered starts.
PacketEnd(a) == a + Hdr + lenAt[a]
Due == IF delivered = <<>> THEN 0 ELSE PacketEnd(delivered[Len(delivered)].at)

OnMessageParse(header, body) ==
  delivered' = Append(delivered, [at |-> Due, hdr |-> header, body |-> body])

-----------------------------------------------------------------------------
(* onMessage: TcpConnection::onRead hands it the n bytes of a read.        *)

NewBytes(n) == Bytes(rcvd, rcvd + n)

\* Fault: a terminating byte is counted.
ReceivePlusOne(n) ==
  /\ pc = "idle"
  /\ rcvd + n <= MaxBytes
  /\ rcvd' = rcvd + n + 1
  /\ UNCHANGED lenAt

Receive(n) ==
  /\ pc = "idle"
  /\ rcvd + n <= MaxBytes
  /\ rcvd' = rcvd + n
  /\ UNCHANGED lenAt

\* Nothing is kept: split the new bytes.
NothingKept(n) ==
  /\ vec = <<>>
  /\ Receive(n)
  /\ buf' = NewBytes(n)
  /\ pc' = "newBuf"
  /\ UNCHANGED <<vec, cap, delivered>>

Need == Hdr + DataLen(vec) - Len(vec)

\* Case (2): the header is kept and the new bytes complete its packet.  The
\* header passed to onMessageParse is a pointer into vec from before the copy.
CompletesPacket(n) ==
  /\ Len(vec) >= Hdr
  /\ n >= Need
  /\ Receive(n)
  /\ \E header \in PointsTo(Take(vec, Hdr), Need) :
       OnMessageParse(header,
                      Take(Drop(copyToVec(Take(NewBytes(n), Need)), Hdr), DataLen(vec)))
  /\ Reserve(Len(vec) + Need)
  /\ vec' = <<>>
  /\ buf' = Drop(NewBytes(n), Need)
  /\ pc' = "newBuf"

\* Keep the new bytes too: cases (3), (4) and (5).
KeepAll(n) ==
  /\ Receive(n)
  /\ vec' = copyToVec(NewBytes(n))
  /\ Reserve(Len(vec) + n)
  /\ UNCHANGED <<buf, pc, delivered>>

\* Case (3): the header is kept but the packet is still not complete.
StillNoPacket(n) ==
  /\ Len(vec) >= Hdr
  /\ n < Need
  /\ KeepAll(n)

\* Fault: one byte too many is taken for the header.
HeaderNeedMore == Hdr - Len(vec) + 1

HeaderNeed == Hdr - Len(vec)

\* Case (4): not even the header is complete.
StillNoHeader(n) ==
  /\ vec # <<>> /\ Len(vec) < Hdr
  /\ n < HeaderNeed
  /\ KeepAll(n)

\* Fault: a packet that ends with the read is kept.
HeaderOrPacket(n) ==
  /\ vec # <<>> /\ Len(vec) < Hdr
  /\ n >= HeaderNeed
  /\ DataLen(vec) >= n - HeaderNeed
  /\ KeepAll(n)

\* Case (5): the header is now complete, the packet is not.
HeaderNoPacket(n) ==
  /\ vec # <<>> /\ Len(vec) < Hdr
  /\ n >= HeaderNeed
  /\ DataLen(vec) > n - HeaderNeed
  /\ KeepAll(n)

\* Case (6): header and packet are complete; the header is a copy on the
\* stack and the data are passed in place.
HeaderAndPacket(n) ==
  /\ vec # <<>> /\ Len(vec) < Hdr
  /\ n >= HeaderNeed
  /\ DataLen(vec) <= n - HeaderNeed
  /\ Receive(n)
  /\ OnMessageParse(vec \o Take(NewBytes(n), HeaderNeed),
                    Take(Drop(NewBytes(n), HeaderNeed), DataLen(vec)))
  /\ vec' = <<>>
  /\ buf' = Drop(NewBytes(n), HeaderNeed + DataLen(vec))
  /\ pc' = "newBuf"
  /\ UNCHANGED cap

\* Case (1), a kept packet that is complete, is the one the code asserts not
\* to happen: NoPacketWaits below.
OnMessage(n) ==
  \/ NothingKept(n) \/ CompletesPacket(n) \/ StillNoPacket(n)
  \/ StillNoHeader(n) \/ HeaderNoPacket(n) \/ HeaderAndPacket(n)

-----------------------------------------------------------------------------
(* doMessageInNewBuf: one iteration of its loop, and its end.              *)

\* Fault: the header is not skipped with the data.
DeliverNotSkip ==
  /\ pc = "newBuf"
  /\ Complete(buf)
  /\ OnMessageParse(Take(buf, Hdr), Take(Drop(buf, Hdr), DataLen(buf)))
  /\ buf' = Drop(buf, DataLen(buf))
  /\ UNCHANGED <<streamVars, vec, cap, pc>>

DeliverNew ==
  /\ pc = "newBuf"
  /\ Complete(buf)
  /\ OnMessageParse(Take(buf, Hdr), Take(Drop(buf, Hdr), DataLen(buf)))
  /\ buf' = Drop(buf, Hdr + DataLen(buf))
  /\ UNCHANGED <<streamVars, vec, cap, pc>>

KeepRest ==
  /\ pc = "newBuf"
  /\ ~Complete(buf)
  /\ vec' = copyToVec(buf)
  /\ Reserve(Len(vec) + Len(buf))
  /\ buf' = <<>>
  /\ pc' = "idle"
  /\ UNCHANGED <<streamVars, delivered>>

-----------------------------------------------------------------------------

Next == DeliverNew \/ KeepRest \/ \E n \in 1..MaxBytes : OnMessage(n)

Spec == Init /\ [][Next]_vars

-----------------------------------------------------------------------------
(* Properties.                                                             *)

\* The variables of the dispatcher hold values of their types.
TypeOK ==
  /\ lenAt \in [0..MaxBytes -> Lengths]
  /\ rcvd \in 0..MaxBytes
  /\ vec \in Seq(Nat) /\ buf \in Seq(Nat)
  /\ cap \in Nat
  /\ pc \in {"idle", "newBuf"}
  /\ delivered \in Seq([at : Nat, hdr : Seq(Nat), body : Seq(Nat)])

\* Each delivered body is the data of the packet that was due, whatever the
\* reads were: no byte is skipped, repeated or counted to another packet.
BodiesParse ==
  \A k \in 1..Len(delivered) :
    LET d == delivered[k]
    IN  /\ d.at = IF k = 1 THEN 0 ELSE PacketEnd(delivered[k - 1].at)
        /\ d.body = Bytes(d.at + Hdr, PacketEnd(d.at))

\* The bytes that are kept or still to be split are those after the last
\* delivered packet, in order.
RestFollows == vec \o buf = Bytes(Due, rcvd)

\* SimpleMsgDispatcher.cpp:47 asserts it: between two reads no complete packet
\* waits in the vector, so a packet is delivered by the read that completes it.
NoPacketWaits == pc = "idle" /\ vec # <<>> => ~Complete(vec)

\* testSimpleDispatcher.cpp:37 expects it: each delivered header is the one of
\* its packet.
HeadersParse ==
  \A k \in 1..Len(delivered) :
    delivered[k].hdr = Bytes(delivered[k].at, delivered[k].at + Hdr)

\* The dispatcher implements PacketStream: no packet is passed on before it is
\* whole, twice or out of turn, and no call of onMessage returns with one left.
Stream == INSTANCE PacketStream WITH
  due <- Due,
  bodies <- [k \in 1..Len(delivered) |-> delivered[k].body],
  inCall <- pc = "newBuf"
ImplementsStream == Stream!Spec
=============================================================================
