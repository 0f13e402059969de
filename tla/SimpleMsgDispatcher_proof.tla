---------------------- MODULE SimpleMsgDispatcher_proof ----------------------
(***************************************************************************)
(* Theorems about SimpleMsgDispatcher: for every stream, every header size *)
(* and every way the bytes are split into reads.                           *)
(***************************************************************************)
EXTENDS SimpleMsgDispatcher, TLAPS

-----------------------------------------------------------------------------
(* Runs of consecutive bytes.                                              *)

\* A run of the stream is a sequence of as many positions as it is long.
LEMMA BytesType ==
  \A a, b \in Nat : a <= b => Bytes(a, b) \in Seq(Nat) /\ Len(Bytes(a, b)) = b - a
BY DEF Bytes

\* A run is empty exactly if it ends where it starts.
LEMMA BytesEmpty == \A a, b \in Nat : a <= b => (Bytes(a, b) = <<>> <=> a = b)
BY DEF Bytes

\* A run starts with its first position.
LEMMA BytesFirst == \A a, b \in Nat : a < b => Bytes(a, b)[1] = a
BY DEF Bytes

\* The front of a run is a run.
LEMMA BytesTake ==
  \A a, b, n \in Nat : a + n <= b => Take(Bytes(a, b), n) = Bytes(a, a + n)
BY DEF Bytes, Take

\* The rest of a run is a run.
LEMMA BytesDrop ==
  \A a, b, n \in Nat : a + n <= b => Drop(Bytes(a, b), n) = Bytes(a + n, b)
BY DEF Bytes, Drop

\* copyToVec joins what was kept and what follows it.
LEMMA BytesJoin ==
  ASSUME NEW a \in Nat, NEW b \in Nat, NEW c \in Nat, a <= b, b <= c, vec = Bytes(a, b)
  PROVE  copyToVec(Bytes(b, c)) = Bytes(a, c)
BY DEF Bytes, copyToVec

\* The front of a buffer is a buffer.
LEMMA TakeType == \A s \in Seq(Nat) : \A n \in 0..Len(s) : Take(s, n) \in Seq(Nat)
BY DEF Take

-----------------------------------------------------------------------------
(* The inductive invariant.                                                *)

\* The reference parser is not ahead of the bytes received, and the bytes it
\* has not passed are in the vector between reads and in the buffer inside one.
BufferInv ==
  /\ Due \in 0..rcvd
  /\ pc = "idle" => buf = <<>> /\ vec = Bytes(Due, rcvd)
  /\ pc = "newBuf" => vec = <<>> /\ buf = Bytes(Due, rcvd)

IInv == TypeOK /\ BufferInv /\ BodiesParse /\ NoPacketWaits

\* What the length field of the due packet says, once its first byte is there.
LEMMA DueLength ==
  ASSUME TypeOK, BufferInv, Due < rcvd
  PROVE  /\ lenAt[Due] \in Nat
         /\ PacketEnd(Due) \in Nat
         /\ PacketEnd(Due) = Due + Hdr + lenAt[Due]
         /\ Bytes(Due, rcvd)[1] = Due
<1>1. Due \in 0..MaxBytes
  BY BytesAssumption DEF TypeOK, BufferInv
<1>2. lenAt[Due] \in Nat
  BY <1>1, LengthsAssumption DEF TypeOK
<1>3. Bytes(Due, rcvd)[1] = Due
  BY <1>1, BytesFirst DEF TypeOK
<1>. QED  BY <1>1, <1>2, <1>3, HdrAssumption DEF PacketEnd

\* Handing over the due packet moves the reference parser behind it.
LEMMA DeliverDue ==
  ASSUME TypeOK, BufferInv, BodiesParse, Due < rcvd, UNCHANGED lenAt,
         NEW h \in Seq(Nat),
         OnMessageParse(h, Bytes(Due + Hdr, PacketEnd(Due)))
  PROVE  /\ Due' = PacketEnd(Due)
         /\ BodiesParse'
         /\ delivered' \in Seq([at : Nat, hdr : Seq(Nat), body : Seq(Nat)])
<1>. DEFINE e == [at |-> Due, hdr |-> h, body |-> Bytes(Due + Hdr, PacketEnd(Due))]
<1>1. Due \in Nat /\ Due + Hdr \in Nat /\ PacketEnd(Due) \in Nat /\ Due + Hdr <= PacketEnd(Due)
  BY DueLength, HdrAssumption DEF TypeOK, BufferInv
<1>2. e \in [at : Nat, hdr : Seq(Nat), body : Seq(Nat)]
  BY <1>1, BytesType
<1>3. delivered' = Append(delivered, e)
  BY DEF OnMessageParse
<1>4. /\ Len(delivered') = Len(delivered) + 1
      /\ delivered'[Len(delivered) + 1] = e
      /\ \A k \in 1..Len(delivered) : delivered'[k] = delivered[k]
      /\ delivered' # <<>>
  <2>. DEFINE R == [at : Nat, hdr : Seq(Nat), body : Seq(Nat)]
  <2>1. delivered \in Seq(R) /\ e \in R
    BY <1>2 DEF TypeOK
  <2>. HIDE DEF e, R
  <2>. QED  BY <1>3, <2>1
<1>5. \A a : PacketEnd(a)' = PacketEnd(a)
  BY DEF PacketEnd
<1>6. Due' = PacketEnd(Due)
  BY <1>4, <1>5 DEF Due
<1>7. BodiesParse'
  <2>. SUFFICES ASSUME NEW k \in 1..Len(delivered')
                PROVE  /\ delivered'[k].at = IF k = 1 THEN 0 ELSE PacketEnd(delivered'[k - 1].at)
                       /\ delivered'[k].body = Bytes(delivered'[k].at + Hdr, PacketEnd(delivered'[k].at))
    BY <1>5 DEF BodiesParse
  <2>1. CASE k \in 1..Len(delivered)
    <3>1. delivered'[k] = delivered[k]
      BY <2>1, <1>4
    <3>2. k # 1 => delivered'[k - 1] = delivered[k - 1]
      BY <2>1, <1>4, Len(delivered) \in Nat
    <3>. QED  BY <2>1, <3>1, <3>2 DEF BodiesParse
  <2>2. CASE k = Len(delivered) + 1
    <3>1. delivered'[k].at = Due /\ delivered'[k].body = Bytes(Due + Hdr, PacketEnd(Due))
      BY <2>2, <1>4
    <3>2. CASE delivered = <<>>
      BY <3>1, <3>2, <2>2 DEF Due
    <3>3. CASE delivered # <<>>
      <4>1. k # 1 /\ k - 1 = Len(delivered) /\ k - 1 \in 1..Len(delivered)
        BY <2>2, <3>3 DEF TypeOK
      <4>2. delivered'[k - 1] = delivered[Len(delivered)]
        BY <4>1, <1>4
      <4>. QED  BY <3>1, <3>3, <4>1, <4>2 DEF Due
    <3>. QED  BY <3>2, <3>3
  <2>. QED  BY <2>1, <2>2, <1>4 DEF TypeOK
<1>. QED  BY <1>2, <1>3, <1>6, <1>7 DEF TypeOK

\* A kept header is the one of the due packet.
LEMMA KeptHeader ==
  ASSUME TypeOK, BufferInv, pc = "idle", vec # <<>>
  PROVE  /\ Due < rcvd
         /\ Len(vec) = rcvd - Due
         /\ DataLen(vec) = lenAt[Due]
<1>1. Due \in Nat /\ rcvd \in Nat /\ Due <= rcvd /\ vec = Bytes(Due, rcvd)
  BY DEF BufferInv, TypeOK
<1>2. Due # rcvd
  BY <1>1, BytesEmpty
<1>3. Due < rcvd
  BY <1>1, <1>2
<1>4. Len(Bytes(Due, rcvd)) = rcvd - Due
  BY <1>1, BytesType
<1>5. lenAt[vec[1]] = lenAt[Due]
  BY <1>1, <1>3, DueLength
<1>. QED  BY <1>1, <1>3, <1>4, <1>5 DEF DataLen

\* A step that hands over the due packet and leaves what follows it to be split.
Delivers ==
  /\ Due < rcvd
  /\ \E h \in Seq(Nat) : OnMessageParse(h, Bytes(Due + Hdr, PacketEnd(Due)))
  /\ UNCHANGED lenAt
  /\ rcvd' \in rcvd..MaxBytes
  /\ PacketEnd(Due) <= rcvd'
  /\ vec' = <<>>
  /\ buf' = Bytes(PacketEnd(Due), rcvd')
  /\ pc' = "newBuf"
  /\ cap' \in Nat

\* A step that keeps the bytes of a packet that is not complete.
Keeps ==
  /\ UNCHANGED <<lenAt, delivered>>
  /\ rcvd' \in rcvd..MaxBytes
  /\ vec' = Bytes(Due, rcvd')
  /\ buf' = <<>>
  /\ pc' = "idle"
  /\ cap' \in Nat
  /\ Due < rcvd' => rcvd' < Due + Hdr \/ rcvd' < PacketEnd(Due)

\* CharVector::reserve leaves a capacity.
LEMMA ReserveType ==
  ASSUME TypeOK, NEW m \in Nat, Reserve(m)
  PROVE  cap' \in Nat
BY DEF TypeOK, Reserve

\* Case (2) of onMessage.
LEMMA CompletesPacketDelivers ==
  ASSUME IInv, NEW n \in 1..MaxBytes, CompletesPacket(n)
  PROVE  Delivers
<1>. DEFINE end == PacketEnd(Due)
<1>1. pc = "idle" /\ Len(vec) >= Hdr /\ n >= Need /\ rcvd' = rcvd + n /\ rcvd' <= MaxBytes
      /\ UNCHANGED lenAt /\ vec' = <<>> /\ pc' = "newBuf"
  BY BytesAssumption DEF CompletesPacket, Receive, IInv, TypeOK
<1>2. vec # <<>> /\ vec = Bytes(Due, rcvd)
  BY <1>1, HdrAssumption DEF IInv, TypeOK, BufferInv
<1>3. /\ Due < rcvd
      /\ Len(vec) = rcvd - Due
      /\ DataLen(vec) = lenAt[Due]
  BY <1>1, <1>2, KeptHeader DEF IInv
<1>4. /\ Due \in Nat /\ rcvd \in Nat /\ n \in Nat /\ Hdr \in Nat
      /\ lenAt[Due] \in Nat /\ end \in Nat /\ end = Due + Hdr + lenAt[Due]
  BY <1>3, DueLength, HdrAssumption DEF IInv, TypeOK, BufferInv
<1>5. Need = end - rcvd /\ rcvd < end /\ end <= rcvd + n
  <2>1. ~(Len(vec) >= Hdr + DataLen(vec))
    BY <1>1, <1>2 DEF IInv, NoPacketWaits, Complete
  <2>. QED  BY <1>1, <1>3, <1>4, <2>1 DEF Need
<1>. HIDE DEF end
<1>6. Take(NewBytes(n), Need) = Bytes(rcvd, end)
  BY <1>4, <1>5, BytesTake DEF NewBytes
<1>7. copyToVec(Bytes(rcvd, end)) = Bytes(Due, end)
  BY <1>2, <1>3, <1>4, <1>5, BytesJoin
<1>8. Take(Drop(Bytes(Due, end), Hdr), DataLen(vec)) = Bytes(Due + Hdr, end)
  BY <1>3, <1>4, BytesTake, BytesDrop
<1>9. Drop(NewBytes(n), Need) = Bytes(end, rcvd + n)
  BY <1>4, <1>5, BytesDrop DEF NewBytes
<1>10. PICK h \in PointsTo(Take(vec, Hdr), Need) :
         OnMessageParse(h, Take(Drop(copyToVec(Take(NewBytes(n), Need)), Hdr), DataLen(vec)))
  BY DEF CompletesPacket
<1>11. OnMessageParse(h, Bytes(Due + Hdr, end))
  BY <1>6, <1>7, <1>8, <1>10, Zenon
<1>12. h \in Seq(Nat)
  <2>1. Take(vec, Hdr) \in Seq(Nat)
    BY <1>1, HdrAssumption, TakeType DEF IInv, TypeOK
  <2>2. <<>> \in Seq(Nat)
    OBVIOUS
  <2>. QED  BY <1>10, <2>1, <2>2, Zenon DEF PointsTo
<1>13. buf' = Bytes(end, rcvd')
  BY <1>1, <1>9, Zenon DEF CompletesPacket
<1>14. cap' \in Nat
  <2>1. Len(vec) + Need \in Nat
    BY <1>3, <1>4, <1>5
  <2>. QED  BY <2>1, ReserveType DEF CompletesPacket, IInv
<1>15. rcvd' \in rcvd..MaxBytes /\ end <= rcvd'
  BY <1>1, <1>4, <1>5, BytesAssumption
<1>. QED  BY <1>1, <1>3, <1>11, <1>12, <1>13, <1>14, <1>15, Zenon DEF end, Delivers

\* What cases (3) to (6) start from.
LEMMA KeptBytes ==
  ASSUME IInv, NEW n \in 1..MaxBytes, vec # <<>>, Receive(n)
  PROVE  /\ pc = "idle" /\ vec = Bytes(Due, rcvd) /\ buf = <<>>
         /\ Due < rcvd /\ Len(vec) = rcvd - Due /\ DataLen(vec) = lenAt[Due]
         /\ rcvd' = rcvd + n /\ rcvd' \in rcvd..MaxBytes
         /\ Due \in Nat /\ rcvd \in Nat /\ n \in Nat /\ Hdr \in Nat /\ lenAt[Due] \in Nat
         /\ PacketEnd(Due) \in Nat /\ PacketEnd(Due) = Due + Hdr + lenAt[Due]
<1>1. /\ pc = "idle" /\ rcvd' = rcvd + n /\ rcvd' <= MaxBytes
      /\ Due \in Nat /\ rcvd \in Nat /\ n \in Nat
  BY BytesAssumption DEF Receive, IInv, TypeOK, BufferInv
<1>2. vec = Bytes(Due, rcvd) /\ buf = <<>>
  BY <1>1 DEF IInv, BufferInv
<1>3. Due < rcvd /\ Len(vec) = rcvd - Due /\ DataLen(vec) = lenAt[Due]
  BY <1>1, KeptHeader DEF IInv
<1>4. /\ lenAt[Due] \in Nat /\ PacketEnd(Due) \in Nat
      /\ PacketEnd(Due) = Due + Hdr + lenAt[Due]
  BY <1>3, DueLength DEF IInv
<1>. QED  BY <1>1, <1>2, <1>3, <1>4, HdrAssumption, BytesAssumption

\* Cases (3), (4) and (5) of onMessage.
LEMMA KeepAllKeeps ==
  ASSUME IInv, NEW n \in 1..MaxBytes,
         StillNoPacket(n) \/ StillNoHeader(n) \/ HeaderNoPacket(n)
  PROVE  Keeps
<1>1. vec # <<>> /\ KeepAll(n) /\ Receive(n)
  BY HdrAssumption DEF StillNoPacket, StillNoHeader, HeaderNoPacket, KeepAll
<1>2. /\ pc = "idle" /\ vec = Bytes(Due, rcvd) /\ buf = <<>>
      /\ Due < rcvd /\ Len(vec) = rcvd - Due /\ DataLen(vec) = lenAt[Due]
      /\ rcvd' = rcvd + n /\ rcvd' \in rcvd..MaxBytes
      /\ Due \in Nat /\ rcvd \in Nat /\ n \in Nat /\ Hdr \in Nat /\ lenAt[Due] \in Nat
      /\ PacketEnd(Due) \in Nat /\ PacketEnd(Due) = Due + Hdr + lenAt[Due]
  BY <1>1, KeptBytes, Zenon
<1>3. vec' = Bytes(Due, rcvd')
  <2>1. copyToVec(Bytes(rcvd, rcvd + n)) = Bytes(Due, rcvd + n)
    <3>1. Due <= rcvd /\ rcvd <= rcvd + n /\ rcvd + n \in Nat
      BY <1>2
    <3>. QED  BY <1>2, <3>1, BytesJoin
  <2>. QED  BY <1>1, <1>2, <2>1, Zenon DEF KeepAll, NewBytes
<1>4. cap' \in Nat
  <2>1. Len(vec) + n \in Nat
    BY <1>2
  <2>. QED  BY <1>1, <2>1, ReserveType DEF KeepAll, IInv
<1>5. rcvd' < Due + Hdr \/ rcvd' < PacketEnd(Due)
  <2>1. CASE StillNoPacket(n)
    BY <1>2, <2>1 DEF StillNoPacket, Need
  <2>2. CASE StillNoHeader(n)
    BY <1>2, <2>2 DEF StillNoHeader, HeaderNeed
  <2>3. CASE HeaderNoPacket(n)
    BY <1>2, <2>3 DEF HeaderNoPacket, HeaderNeed
  <2>. QED  BY <2>1, <2>2, <2>3
<1>6. UNCHANGED <<lenAt, delivered>> /\ buf' = <<>> /\ pc' = "idle"
  BY <1>1, <1>2 DEF KeepAll, Receive
<1>. QED  BY <1>2, <1>3, <1>4, <1>5, <1>6, Zenon DEF Keeps

\* Case (6) of onMessage.
LEMMA HeaderAndPacketDelivers ==
  ASSUME IInv, NEW n \in 1..MaxBytes, HeaderAndPacket(n)
  PROVE  Delivers
<1>. DEFINE end == PacketEnd(Due)
<1>1. vec # <<>> /\ Receive(n)
  BY DEF HeaderAndPacket
<1>2. /\ pc = "idle" /\ vec = Bytes(Due, rcvd) /\ buf = <<>>
      /\ Due < rcvd /\ Len(vec) = rcvd - Due /\ DataLen(vec) = lenAt[Due]
      /\ rcvd' = rcvd + n /\ rcvd' \in rcvd..MaxBytes
      /\ Due \in Nat /\ rcvd \in Nat /\ n \in Nat /\ Hdr \in Nat /\ lenAt[Due] \in Nat
      /\ end \in Nat /\ end = Due + Hdr + lenAt[Due]
  BY <1>1, KeptBytes, Zenon
<1>. HIDE DEF end
<1>3. /\ Len(vec) < Hdr /\ n >= HeaderNeed /\ DataLen(vec) <= n - HeaderNeed
      /\ HeaderNeed = Due + Hdr - rcvd
  BY <1>2 DEF HeaderAndPacket, HeaderNeed
<1>4. rcvd < Due + Hdr /\ Due + Hdr <= end /\ end <= rcvd + n /\ HeaderNeed \in Nat
  BY <1>2, <1>3
<1>5. Drop(NewBytes(n), HeaderNeed) = Bytes(Due + Hdr, rcvd + n)
  <2>1. rcvd + HeaderNeed = Due + Hdr /\ rcvd + n \in Nat /\ rcvd + HeaderNeed <= rcvd + n
    BY <1>2, <1>3, <1>4
  <2>2. Drop(Bytes(rcvd, rcvd + n), HeaderNeed) = Bytes(rcvd + HeaderNeed, rcvd + n)
    BY <1>2, <1>4, <2>1, BytesDrop
  <2>. QED  BY <2>1, <2>2, Zenon DEF NewBytes
<1>6. Take(Bytes(Due + Hdr, rcvd + n), DataLen(vec)) = Bytes(Due + Hdr, end)
  <2>1. /\ Due + Hdr \in Nat /\ rcvd + n \in Nat /\ DataLen(vec) \in Nat
        /\ Due + Hdr + DataLen(vec) = end /\ Due + Hdr + DataLen(vec) <= rcvd + n
    BY <1>2, <1>4
  <2>2. Take(Bytes(Due + Hdr, rcvd + n), DataLen(vec)) = Bytes(Due + Hdr, Due + Hdr + DataLen(vec))
    BY <2>1, BytesTake
  <2>. QED  BY <2>1, <2>2, Zenon
<1>7. Drop(NewBytes(n), HeaderNeed + DataLen(vec)) = Bytes(end, rcvd + n)
  <2>. DEFINE skip == HeaderNeed + DataLen(vec)
  <2>1. rcvd + skip = end /\ skip \in Nat /\ rcvd + n \in Nat /\ rcvd + skip <= rcvd + n
    BY <1>2, <1>3, <1>4
  <2>. HIDE DEF skip
  <2>2. Drop(Bytes(rcvd, rcvd + n), skip) = Bytes(rcvd + skip, rcvd + n)
    BY <1>2, <2>1, BytesDrop
  <2>. QED  BY <2>1, <2>2, Zenon DEF NewBytes, skip
<1>8. vec \o Take(NewBytes(n), HeaderNeed) \in Seq(Nat)
  <2>1. NewBytes(n) \in Seq(Nat) /\ Len(NewBytes(n)) = n
    <3>1. rcvd + n \in Nat /\ rcvd <= rcvd + n /\ (rcvd + n) - rcvd = n
      BY <1>2
    <3>2. /\ Bytes(rcvd, rcvd + n) \in Seq(Nat)
          /\ Len(Bytes(rcvd, rcvd + n)) = (rcvd + n) - rcvd
      BY <1>2, <3>1, BytesType
    <3>. QED  BY <3>1, <3>2, Zenon DEF NewBytes
  <2>2. HeaderNeed \in 0..Len(NewBytes(n))
    <3>1. HeaderNeed \in 0..n
      BY <1>2, <1>3, <1>4
    <3>. QED  BY <2>1, <3>1, Zenon
  <2>3. Take(NewBytes(n), HeaderNeed) \in Seq(Nat)
    BY <2>1, <2>2, TakeType, Zenon
  <2>. QED  BY <2>3 DEF IInv, TypeOK
<1>9. OnMessageParse(vec \o Take(NewBytes(n), HeaderNeed), Bytes(Due + Hdr, end))
  BY <1>5, <1>6, Zenon DEF HeaderAndPacket
<1>10. buf' = Bytes(end, rcvd')
  BY <1>2, <1>7, Zenon DEF HeaderAndPacket
<1>11. vec' = <<>> /\ pc' = "newBuf" /\ cap' \in Nat /\ UNCHANGED lenAt
  BY DEF HeaderAndPacket, Receive, IInv, TypeOK
<1>12. end <= rcvd'
  BY <1>2, <1>4
<1>. QED  BY <1>2, <1>8, <1>9, <1>10, <1>11, <1>12, Zenon DEF end, Delivers

\* What the loop of doMessageInNewBuf starts from.
LEMMA NewBufBytes ==
  ASSUME IInv, pc = "newBuf"
  PROVE  /\ vec = <<>> /\ buf = Bytes(Due, rcvd) /\ Len(buf) = rcvd - Due
         /\ Due \in Nat /\ rcvd \in Nat /\ Due <= rcvd /\ Hdr \in Nat \ {0}
         /\ Due < rcvd => /\ DataLen(buf) = lenAt[Due] /\ lenAt[Due] \in Nat
                          /\ PacketEnd(Due) \in Nat
                          /\ PacketEnd(Due) = Due + Hdr + lenAt[Due]
<1>1. vec = <<>> /\ buf = Bytes(Due, rcvd) /\ Due \in Nat /\ rcvd \in Nat /\ Due <= rcvd
  BY DEF IInv, TypeOK, BufferInv
<1>2. Len(buf) = rcvd - Due
  BY <1>1, BytesType
<1>3. ASSUME Due < rcvd
      PROVE  /\ DataLen(buf) = lenAt[Due] /\ lenAt[Due] \in Nat
             /\ PacketEnd(Due) \in Nat
             /\ PacketEnd(Due) = Due + Hdr + lenAt[Due]
  <2>1. Bytes(Due, rcvd)[1] = Due
    BY <1>3, DueLength DEF IInv
  <2>2. DataLen(buf) = lenAt[Due]
    BY <1>1, <2>1, Zenon DEF DataLen
  <2>. QED  BY <1>3, <2>2, DueLength DEF IInv
<1>. QED  BY <1>1, <1>2, <1>3, HdrAssumption

\* An iteration of the loop that finds a packet.
LEMMA DeliverNewDelivers ==
  ASSUME IInv, DeliverNew
  PROVE  Delivers
<1>. DEFINE end == PacketEnd(Due)
<1>1. pc = "newBuf" /\ Complete(buf)
  BY DEF DeliverNew
<1>2. /\ vec = <<>> /\ buf = Bytes(Due, rcvd) /\ Len(buf) = rcvd - Due
      /\ Due \in Nat /\ rcvd \in Nat /\ Due <= rcvd /\ Hdr \in Nat \ {0}
      /\ Due < rcvd => /\ DataLen(buf) = lenAt[Due] /\ lenAt[Due] \in Nat
                       /\ end \in Nat /\ end = Due + Hdr + lenAt[Due]
  BY <1>1, NewBufBytes, Zenon
<1>. HIDE DEF end
<1>3. Due < rcvd
  BY <1>1, <1>2 DEF Complete
<1>4. end <= rcvd /\ DataLen(buf) = lenAt[Due] /\ lenAt[Due] \in Nat /\ end \in Nat
      /\ end = Due + Hdr + lenAt[Due]
  BY <1>1, <1>2, <1>3 DEF Complete
<1>5. Drop(buf, Hdr) = Bytes(Due + Hdr, rcvd)
  BY <1>2, <1>4, BytesDrop
<1>6. Take(Bytes(Due + Hdr, rcvd), DataLen(buf)) = Bytes(Due + Hdr, end)
  BY <1>2, <1>4, BytesTake
<1>7. Drop(buf, Hdr + DataLen(buf)) = Bytes(end, rcvd)
  BY <1>2, <1>4, BytesDrop
<1>8. Take(buf, Hdr) \in Seq(Nat)
  BY <1>1, <1>2, TakeType DEF Complete, IInv, TypeOK
<1>9. OnMessageParse(Take(buf, Hdr), Bytes(Due + Hdr, end))
  BY <1>5, <1>6, Zenon DEF DeliverNew
<1>10. /\ vec' = <<>> /\ pc' = "newBuf" /\ cap' \in Nat /\ UNCHANGED lenAt
       /\ rcvd' = rcvd
  BY <1>1, <1>2 DEF DeliverNew, streamVars, IInv, TypeOK
<1>11. buf' = Bytes(end, rcvd')
  BY <1>7, <1>10, Zenon DEF DeliverNew
<1>12. rcvd' \in rcvd..MaxBytes /\ end <= rcvd'
  BY <1>2, <1>4, <1>10, BytesAssumption DEF IInv, TypeOK
<1>. QED  BY <1>3, <1>8, <1>9, <1>10, <1>11, <1>12, Zenon DEF end, Delivers

\* The end of doMessageInNewBuf.
LEMMA KeepRestKeeps ==
  ASSUME IInv, KeepRest
  PROVE  Keeps
<1>1. pc = "newBuf" /\ ~Complete(buf)
  BY DEF KeepRest
<1>2. /\ vec = <<>> /\ buf = Bytes(Due, rcvd) /\ Len(buf) = rcvd - Due
      /\ Due \in Nat /\ rcvd \in Nat /\ Due <= rcvd /\ Hdr \in Nat \ {0}
      /\ Due < rcvd => /\ DataLen(buf) = lenAt[Due] /\ lenAt[Due] \in Nat
                       /\ PacketEnd(Due) \in Nat
                       /\ PacketEnd(Due) = Due + Hdr + lenAt[Due]
  BY <1>1, NewBufBytes, Zenon
<1>3. UNCHANGED <<lenAt, delivered>> /\ rcvd' = rcvd /\ buf' = <<>> /\ pc' = "idle"
  BY DEF KeepRest, streamVars
<1>4. vec' = Bytes(Due, rcvd')
  <2>1. copyToVec(buf) = buf
    BY <1>2 DEF copyToVec, IInv, TypeOK
  <2>. QED  BY <1>2, <1>3, <2>1, Zenon DEF KeepRest
<1>5. cap' \in Nat
  <2>1. Len(vec) + Len(buf) \in Nat
    BY DEF IInv, TypeOK
  <2>. QED  BY <2>1, ReserveType DEF KeepRest, IInv
<1>6. Due < rcvd' => rcvd' < Due + Hdr \/ rcvd' < PacketEnd(Due)
  BY <1>1, <1>2, <1>3 DEF Complete
<1>7. rcvd' \in rcvd..MaxBytes
  BY <1>2, <1>3, BytesAssumption DEF IInv, TypeOK
<1>. QED  BY <1>3, <1>4, <1>5, <1>6, <1>7, Zenon DEF Keeps

-----------------------------------------------------------------------------
(* Both kinds of step, and the start of a read, preserve the invariant.    *)

\* Delivering the packet that was due keeps the invariant.
LEMMA DeliversInv ==
  ASSUME IInv, Delivers
  PROVE  IInv'
<1>1. PICK h \in Seq(Nat) : OnMessageParse(h, Bytes(Due + Hdr, PacketEnd(Due)))
  BY DEF Delivers
<1>2. /\ Due' = PacketEnd(Due)
      /\ BodiesParse'
      /\ delivered' \in Seq([at : Nat, hdr : Seq(Nat), body : Seq(Nat)])
  <2>1. TypeOK /\ BufferInv /\ BodiesParse /\ Due < rcvd /\ UNCHANGED lenAt
    BY DEF IInv, Delivers
  <2>. QED  BY <1>1, <2>1, DeliverDue, Zenon
<1>3. PacketEnd(Due) \in Nat /\ rcvd' \in Nat /\ PacketEnd(Due) <= rcvd' /\ rcvd' <= MaxBytes
  BY DueLength, BytesAssumption DEF Delivers, IInv, TypeOK
<1>4. Bytes(PacketEnd(Due), rcvd') \in Seq(Nat) /\ <<>> \in Seq(Nat)
  BY <1>3, BytesType
<1>5. TypeOK'
  BY <1>2, <1>3, <1>4 DEF Delivers, IInv, TypeOK
<1>6. BufferInv'
  <2>1. pc' = "newBuf" /\ vec' = <<>> /\ Due' \in 0..rcvd'
    BY <1>2, <1>3 DEF Delivers
  <2>2. buf' = Bytes(Due', rcvd')
    BY <1>2, Zenon DEF Delivers
  <2>. QED  BY <2>1, <2>2 DEF BufferInv
<1>7. NoPacketWaits'
  BY DEF Delivers, NoPacketWaits
<1>. QED  BY <1>2, <1>5, <1>6, <1>7 DEF IInv

\* Fewer bytes than a header, or than a packet.
LEMMA Incomplete ==
  ASSUME NEW from \in Nat, NEW upto \in Nat, NEW header \in Nat, NEW len \in Nat,
         NEW end, end = from + header + len,
         NEW kept, kept = upto - from,
         upto < from + header \/ upto < end
  PROVE  ~(kept >= header /\ kept >= header + len)
OBVIOUS

\* Keeping all that came keeps the invariant.
LEMMA KeepsInv ==
  ASSUME IInv, Keeps
  PROVE  IInv'
<1>1. Due' = Due /\ UNCHANGED <<lenAt, delivered>>
  BY DEF Due, PacketEnd, Keeps
<1>2. /\ Due \in Nat /\ rcvd' \in Nat /\ Due <= rcvd' /\ rcvd' <= MaxBytes
      /\ vec' = Bytes(Due, rcvd') /\ buf' = <<>> /\ pc' = "idle" /\ cap' \in Nat
  BY BytesAssumption DEF Keeps, IInv, TypeOK, BufferInv
<1>3. Bytes(Due, rcvd') \in Seq(Nat) /\ Len(Bytes(Due, rcvd')) = rcvd' - Due
  BY <1>2, BytesType
<1>4. TypeOK'
  BY <1>1, <1>2, <1>3 DEF IInv, TypeOK
<1>5. BufferInv'
  BY <1>1, <1>2 DEF BufferInv
<1>6. BodiesParse'
  BY <1>1 DEF IInv, BodiesParse, PacketEnd
<1>7. NoPacketWaits'
  <2>1. SUFFICES ASSUME vec' # <<>> PROVE ~Complete(vec)'
    BY DEF NoPacketWaits
  <2>2. Due < rcvd'
    BY <1>2, <2>1, BytesEmpty
  <2>3. rcvd' < Due + Hdr \/ rcvd' < PacketEnd(Due)
    BY <2>2 DEF Keeps
  <2>4. Due \in 0..MaxBytes
    BY <1>2, <2>2, BytesAssumption
  <2>5. lenAt[Due] \in Nat
    BY <2>4, LengthsAssumption DEF IInv, TypeOK
  <2>6. vec'[1] = Due
    BY <1>2, <2>2, BytesFirst
  <2>7. DataLen(vec)' = lenAt[Due]
    BY <1>1, <2>6 DEF DataLen
  <2>8. Len(vec') = rcvd' - Due
    BY <1>2, <1>3
  <2>9. ~(/\ Len(vec') >= Hdr
          /\ Len(vec') >= Hdr + lenAt[Due])
    <3>1. PacketEnd(Due) = Due + Hdr + lenAt[Due]
      BY DEF PacketEnd
    <3>2. Due \in Nat /\ rcvd' \in Nat /\ Due <= rcvd'
      BY <1>2
    <3>. DEFINE len == lenAt[Due] end == PacketEnd(Due) kept == Len(vec')
    <3>4. /\ len \in Nat /\ end = Due + Hdr + len /\ kept = rcvd' - Due
          /\ rcvd' < Due + Hdr \/ rcvd' < end
      BY <2>3, <2>5, <2>8, <3>1, Zenon
    <3>. HIDE DEF len, end, kept
    <3>5. ~(kept >= Hdr /\ kept >= Hdr + len)
      BY <3>2, <3>4, HdrAssumption, Incomplete
    <3>. QED  BY <3>5 DEF kept, len
  <2>. QED  BY <2>7, <2>9 DEF Complete
<1>. QED  BY <1>4, <1>5, <1>6, <1>7 DEF IInv

\* The start of a read that finds nothing kept keeps the invariant.
LEMMA NothingKeptInv ==
  ASSUME IInv, NEW n \in 1..MaxBytes, NothingKept(n)
  PROVE  IInv'
<1>1. /\ pc = "idle" /\ vec = <<>> /\ rcvd' = rcvd + n /\ rcvd' \in 0..MaxBytes
      /\ n \in Nat /\ rcvd \in Nat /\ Due \in Nat
      /\ UNCHANGED <<lenAt, vec, cap, delivered>> /\ pc' = "newBuf"
      /\ buf' = Bytes(rcvd, rcvd + n)
  BY BytesAssumption DEF NothingKept, Receive, NewBytes, IInv, TypeOK, BufferInv
<1>2. Due = rcvd
  BY <1>1, BytesEmpty DEF IInv, BufferInv
<1>3. Due' = Due
  BY <1>1 DEF Due, PacketEnd
<1>4. Bytes(rcvd, rcvd + n) \in Seq(Nat)
  BY <1>1, BytesType
<1>5. TypeOK'
  BY <1>1, <1>4 DEF IInv, TypeOK
<1>6. BufferInv'
  <2>1. Due' \in 0..rcvd'
    BY <1>1, <1>2, <1>3
  <2>2. buf' = Bytes(Due', rcvd')
    BY <1>1, <1>2, <1>3, Zenon
  <2>. QED  BY <1>1, <2>1, <2>2 DEF BufferInv
<1>7. BodiesParse'
  BY <1>1 DEF IInv, BodiesParse, PacketEnd
<1>8. NoPacketWaits'
  BY <1>1 DEF NoPacketWaits
<1>. QED  BY <1>5, <1>6, <1>7, <1>8 DEF IInv

\* A new connection satisfies the invariant.
LEMMA InitInv == Init => IInv
<1>. SUFFICES ASSUME Init PROVE IInv
  OBVIOUS
<1>1. TypeOK
  BY CapAssumption, BytesAssumption DEF Init, TypeOK
<1>2. Due = 0 /\ Bytes(0, 0) = <<>>
  BY BytesEmpty DEF Init, Due
<1>. QED  BY <1>1, <1>2 DEF Init, IInv, BufferInv, BodiesParse, NoPacketWaits

\* Every step keeps the invariant.
LEMMA NextInv == IInv /\ [Next]_vars => IInv'
<1>. SUFFICES ASSUME IInv, [Next]_vars PROVE IInv'
  OBVIOUS
<1>1. CASE DeliverNew
  BY <1>1, DeliverNewDelivers, DeliversInv
<1>2. CASE KeepRest
  BY <1>2, KeepRestKeeps, KeepsInv
<1>3. ASSUME NEW n \in 1..MaxBytes, OnMessage(n) PROVE IInv'
  <2>1. CASE NothingKept(n)
    BY <2>1, NothingKeptInv
  <2>2. CASE CompletesPacket(n)
    BY <2>2, CompletesPacketDelivers, DeliversInv
  <2>3. CASE StillNoPacket(n) \/ StillNoHeader(n) \/ HeaderNoPacket(n)
    BY <2>3, KeepAllKeeps, KeepsInv
  <2>4. CASE HeaderAndPacket(n)
    BY <2>4, HeaderAndPacketDelivers, DeliversInv
  <2>. QED  BY <1>3, <2>1, <2>2, <2>3, <2>4 DEF OnMessage
<1>4. CASE UNCHANGED vars
  BY <1>4 DEF vars, streamVars, IInv, TypeOK, BufferInv, BodiesParse, NoPacketWaits,
              Due, PacketEnd, Complete, DataLen
<1>. QED  BY <1>1, <1>2, <1>3, <1>4 DEF Next

-----------------------------------------------------------------------------
(* The theorems.                                                           *)

\* The inductive invariant holds: the vector and the buffer are the bytes
\* after the last delivered packet.
THEOREM Invariance == Spec => []IInv
BY InitInv, NextInv, PTL DEF Spec

\* The dispatcher's variables keep their types.
THEOREM TypeCorrect == Spec => []TypeOK
<1>1. IInv => TypeOK
  BY DEF IInv
<1>. QED  BY <1>1, Invariance, PTL

\* Whatever the sizes of the reads, onMessageParse gets the bodies a parser of
\* the whole stream would find.
THEOREM BodiesAreParsed == Spec => []BodiesParse
<1>1. IInv => BodiesParse
  BY DEF IInv
<1>. QED  BY <1>1, Invariance, PTL

\* No byte that was received is lost, doubled or out of order.
THEOREM NoByteIsLost == Spec => []RestFollows
<1>1. IInv => RestFollows
  <2>. SUFFICES ASSUME IInv PROVE RestFollows
    OBVIOUS
  <2>1. vec \in Seq(Nat) /\ buf \in Seq(Nat)
    BY DEF IInv, TypeOK
  <2>2. vec \o <<>> = vec /\ <<>> \o buf = buf
    BY <2>1
  <2>3. CASE pc = "idle"
    BY <2>2, <2>3, Zenon DEF IInv, BufferInv, RestFollows
  <2>4. CASE pc = "newBuf"
    BY <2>2, <2>4, Zenon DEF IInv, BufferInv, RestFollows
  <2>. QED  BY <2>3, <2>4 DEF IInv, TypeOK
<1>. QED  BY <1>1, Invariance, PTL

\* The assertion of SimpleMsgDispatcher.cpp:47 never fails.
THEOREM AssertionHolds == Spec => []NoPacketWaits
<1>1. IInv => NoPacketWaits
  BY DEF IInv
<1>. QED  BY <1>1, Invariance, PTL

-----------------------------------------------------------------------------
(* Headers, as long as no packet outgrows the vector's first capacity.     *)

\* Every packet fits in what CharVector's constructor reserves.
PacketsFit == \A len \in Lengths : Hdr + len <= InitCap

\* The vector never gives memory back.
CapInv == cap >= InitCap

\* The front of the run that starts with the due packet is its header.
LEMMA DueHeader ==
  ASSUME NEW a \in Nat, NEW b \in Nat, a + Hdr <= b
  PROVE  Take(Bytes(a, b), Hdr) = Bytes(a, a + Hdr)
BY HdrAssumption, BytesTake

\* A packet that is handed over with its own header leaves the headers right.
LEMMA HeaderDelivered ==
  ASSUME TypeOK, HeadersParse, NEW b, OnMessageParse(Bytes(Due, Due + Hdr), b)
  PROVE  HeadersParse'
<1>. DEFINE e == [at |-> Due, hdr |-> Bytes(Due, Due + Hdr), body |-> b]
            R == [at : Nat, hdr : Seq(Nat), body : Seq(Nat)]
<1>1. delivered \in Seq(R) /\ delivered' = Append(delivered, e)
  BY DEF TypeOK, OnMessageParse
<1>2. e.at = Due /\ e.hdr = Bytes(Due, Due + Hdr)
  OBVIOUS
<1>. HIDE DEF e, R
<1>3. /\ Len(delivered') = Len(delivered) + 1
      /\ delivered'[Len(delivered) + 1] = e
      /\ \A k \in 1..Len(delivered) : delivered'[k] = delivered[k]
  BY <1>1
<1>4. Len(delivered) \in Nat
  BY <1>1
<1>5. ASSUME NEW k \in 1..Len(delivered')
      PROVE  delivered'[k].hdr = Bytes(delivered'[k].at, delivered'[k].at + Hdr)
  <2>1. CASE k \in 1..Len(delivered)
    BY <1>3, <2>1 DEF HeadersParse
  <2>2. CASE k = Len(delivered) + 1
    BY <1>2, <1>3, <2>2
  <2>. QED  BY <1>3, <1>4, <2>1, <2>2
<1>. QED  BY <1>5 DEF HeadersParse

\* Case (2) of onMessage: the bytes the pointer is to are still there.
LEMMA CompletesPacketHeader ==
  ASSUME PacketsFit, IInv, CapInv, NEW n \in 1..MaxBytes, CompletesPacket(n)
  PROVE  \E b : OnMessageParse(Bytes(Due, Due + Hdr), b)
<1>1. /\ pc = "idle" /\ vec # <<>> /\ Len(vec) >= Hdr
      /\ \E h \in PointsTo(Take(vec, Hdr), Need) : \E b : OnMessageParse(h, b)
  BY HdrAssumption DEF CompletesPacket, Receive, IInv, TypeOK
<1>2. vec = Bytes(Due, rcvd) /\ Due < rcvd /\ Len(vec) = rcvd - Due /\ DataLen(vec) = lenAt[Due]
  BY <1>1, KeptHeader DEF IInv, BufferInv
<1>3. /\ Due \in Nat /\ rcvd \in Nat /\ Hdr \in Nat /\ lenAt[Due] \in Nat
      /\ lenAt[Due] \in Lengths
  <2>1. Due \in 0..MaxBytes
    BY <1>2, BytesAssumption DEF IInv, TypeOK, BufferInv
  <2>2. lenAt[Due] \in Lengths
    BY <2>1 DEF IInv, TypeOK
  <2>3. lenAt[Due] \in Nat
    BY <2>2, LengthsAssumption
  <2>4. rcvd \in Nat
    BY BytesAssumption DEF IInv, TypeOK
  <2>5. Due \in Nat
    BY <2>1, BytesAssumption
  <2>. QED  BY <2>2, <2>3, <2>4, <2>5, HdrAssumption
<1>4. Len(vec) + Need <= cap
  <2>1. Len(vec) + Need = Hdr + lenAt[Due]
    BY <1>2, <1>3 DEF Need
  <2>. QED  BY <1>3, <2>1, CapAssumption DEF PacketsFit, CapInv, IInv, TypeOK
<1>5. Take(vec, Hdr) = Bytes(Due, Due + Hdr)
  BY <1>1, <1>2, <1>3, DueHeader
<1>6. PointsTo(Take(vec, Hdr), Need) = {Take(vec, Hdr)}
  BY <1>4, Zenon DEF PointsTo
<1>. QED  BY <1>1, <1>5, <1>6, Zenon

\* Case (6) of onMessage: the header is put together on the stack.
LEMMA HeaderAndPacketHeader ==
  ASSUME IInv, NEW n \in 1..MaxBytes, HeaderAndPacket(n)
  PROVE  \E b : OnMessageParse(Bytes(Due, Due + Hdr), b)
<1>1. vec # <<>> /\ Receive(n)
      /\ \E b : OnMessageParse(vec \o Take(NewBytes(n), HeaderNeed), b)
  BY DEF HeaderAndPacket
<1>2. /\ vec = Bytes(Due, rcvd) /\ Len(vec) = rcvd - Due
      /\ Due < rcvd /\ Due \in Nat /\ rcvd \in Nat /\ n \in Nat /\ Hdr \in Nat
  BY <1>1, KeptBytes, Zenon
<1>3. Len(vec) < Hdr /\ n >= HeaderNeed /\ HeaderNeed = Due + Hdr - rcvd
  BY <1>2 DEF HeaderAndPacket, HeaderNeed
<1>4. /\ HeaderNeed \in Nat /\ rcvd + HeaderNeed = Due + Hdr /\ rcvd <= Due + Hdr
      /\ rcvd + HeaderNeed <= rcvd + n /\ Due + Hdr \in Nat /\ rcvd + n \in Nat
  BY <1>2, <1>3
<1>5. Take(NewBytes(n), HeaderNeed) = Bytes(rcvd, Due + Hdr)
  <2>1. Take(Bytes(rcvd, rcvd + n), HeaderNeed) = Bytes(rcvd, rcvd + HeaderNeed)
    BY <1>2, <1>4, BytesTake
  <2>. QED  BY <1>4, <2>1, Zenon DEF NewBytes
<1>6. vec \o Bytes(rcvd, Due + Hdr) = Bytes(Due, Due + Hdr)
  <2>1. Due <= rcvd
    BY <1>2
  <2>2. copyToVec(Bytes(rcvd, Due + Hdr)) = Bytes(Due, Due + Hdr)
    BY <1>2, <1>4, <2>1, BytesJoin
  <2>. QED  BY <2>2, Zenon DEF copyToVec
<1>. QED  BY <1>1, <1>5, <1>6, Zenon

\* An iteration of doMessageInNewBuf passes a pointer into the read's bytes.
LEMMA DeliverNewHeader ==
  ASSUME IInv, DeliverNew
  PROVE  \E b : OnMessageParse(Bytes(Due, Due + Hdr), b)
<1>1. pc = "newBuf" /\ Complete(buf) /\ \E b : OnMessageParse(Take(buf, Hdr), b)
  BY DEF DeliverNew
<1>2. /\ buf = Bytes(Due, rcvd) /\ Len(buf) = rcvd - Due
      /\ Due \in Nat /\ rcvd \in Nat /\ Hdr \in Nat \ {0}
  BY <1>1, NewBufBytes, Zenon
<1>3. Due + Hdr <= rcvd
  BY <1>1, <1>2 DEF Complete
<1>4. Take(buf, Hdr) = Bytes(Due, Due + Hdr)
  BY <1>2, <1>3, DueHeader
<1>. QED  BY <1>1, <1>4, Zenon

\* Every step keeps the capacity and, if packets fit in it, the headers.
LEMMA HeadersNext ==
  ASSUME PacketsFit, IInv, CapInv, HeadersParse, [Next]_vars
  PROVE  CapInv' /\ HeadersParse'
<1>1. TypeOK /\ cap \in Nat /\ InitCap \in Nat
  BY CapAssumption DEF IInv, TypeOK
<1>2. ASSUME NEW m \in Nat, Reserve(m) PROVE CapInv'
  BY <1>1, <1>2 DEF Reserve, CapInv
<1>3. UNCHANGED cap => CapInv'
  BY DEF CapInv
<1>4. (\E b : OnMessageParse(Bytes(Due, Due + Hdr), b)) => HeadersParse'
  BY <1>1, HeaderDelivered
<1>5. UNCHANGED delivered => HeadersParse'
  BY DEF HeadersParse
<1>6. CASE DeliverNew
  BY <1>3, <1>4, <1>6, DeliverNewHeader DEF DeliverNew
<1>7. CASE KeepRest
  <2>1. Len(vec) + Len(buf) \in Nat
    BY <1>1 DEF TypeOK
  <2>. QED  BY <1>2, <1>5, <1>7, <2>1 DEF KeepRest
<1>8. ASSUME NEW n \in 1..MaxBytes, OnMessage(n) PROVE CapInv' /\ HeadersParse'
  <2>0. n \in Nat
    BY BytesAssumption
  <2>1. CASE NothingKept(n)
    BY <1>3, <1>5, <2>1 DEF NothingKept
  <2>2. CASE CompletesPacket(n)
    <3>1. HeadersParse'
      BY <1>4, <2>2, CompletesPacketHeader
    <3>2. Len(vec) + Need \in Nat
      <4>1. pc = "idle" /\ vec # <<>>
        BY <2>2, HdrAssumption DEF CompletesPacket, Receive, IInv, TypeOK
      <4>2. Due < rcvd /\ Len(vec) = rcvd - Due /\ DataLen(vec) = lenAt[Due]
        BY <4>1, KeptHeader DEF IInv
      <4>3. lenAt[Due] \in Nat /\ Due \in Nat /\ rcvd \in Nat
        BY <4>2, DueLength DEF IInv, TypeOK, BufferInv
      <4>. QED  BY <4>2, <4>3, HdrAssumption DEF Need
    <3>3. Reserve(Len(vec) + Need)
      BY <2>2 DEF CompletesPacket
    <3>. QED  BY <1>2, <3>1, <3>2, <3>3
  <2>3. CASE StillNoPacket(n) \/ StillNoHeader(n) \/ HeaderNoPacket(n)
    <3>1. KeepAll(n)
      BY <2>3 DEF StillNoPacket, StillNoHeader, HeaderNoPacket
    <3>2. Len(vec) + n \in Nat
      BY <1>1, <2>0 DEF TypeOK
    <3>. QED  BY <1>2, <1>5, <3>1, <3>2 DEF KeepAll
  <2>4. CASE HeaderAndPacket(n)
    BY <1>3, <1>4, <2>4, HeaderAndPacketHeader DEF HeaderAndPacket
  <2>. QED  BY <1>8, <2>1, <2>2, <2>3, <2>4 DEF OnMessage
<1>9. CASE UNCHANGED vars
  BY <1>3, <1>5, <1>9 DEF vars
<1>. QED  BY <1>6, <1>7, <1>8, <1>9 DEF Next

\* testSimpleDispatcher.cpp:37: each delivered header is the one of its packet,
\* as long as packets fit in the memory the vector starts with, 1024 bytes.  Longer
\* ones may move it while the pointer is used: the run SimpleMsgDispatcherHeader.
THEOREM HeadersAreParsed ==
  ASSUME PacketsFit
  PROVE  Spec => []HeadersParse
<1>1. Init => CapInv /\ HeadersParse
  BY CapAssumption DEF Init, CapInv, HeadersParse
<1>2. IInv /\ CapInv /\ HeadersParse /\ [Next]_vars => CapInv' /\ HeadersParse'
  BY HeadersNext
<1>. QED  BY Invariance, <1>1, <1>2, PTL DEF Spec

-----------------------------------------------------------------------------
(* The refinement of PacketStream.                                         *)

\* The data that were passed on, in order.
Bodies == [k \in 1..Len(delivered) |-> delivered[k].body]

\* A dispatcher that has passed on nothing is a new stream.
LEMMA InitStream == Init => Stream!Init
<1>. SUFFICES ASSUME Init PROVE Stream!Init
  OBVIOUS
<1>1. Due = 0 /\ Bodies = <<>>
  BY DEF Init, Due, Bodies
<1>. QED  BY <1>1, Zenon DEF Init, Stream!Init, Bodies

\* onMessageParse adds the data to those passed on.
LEMMA BodyAppended ==
  ASSUME TypeOK, NEW h \in Seq(Nat), NEW b \in Seq(Nat), Due \in Nat, OnMessageParse(h, b)
  PROVE  Bodies' = Append(Bodies, b)
<1>. DEFINE R == [at : Nat, hdr : Seq(Nat), body : Seq(Nat)]
            e == [at |-> Due, hdr |-> h, body |-> b]
<1>1. delivered \in Seq(R) /\ e \in R /\ e.body = b /\ delivered' = Append(delivered, e)
  BY DEF TypeOK, OnMessageParse
<1>. HIDE DEF R, e
<1>2. /\ Len(delivered') = Len(delivered) + 1
      /\ delivered'[Len(delivered) + 1] = e
      /\ \A k \in 1..Len(delivered) : delivered'[k] = delivered[k]
      /\ Len(delivered) \in Nat
  BY <1>1
<1>3. Len(Bodies) = Len(delivered) /\ \A k \in 1..Len(delivered) : Bodies[k] = delivered[k].body
  BY <1>2 DEF Bodies
<1>. QED  BY <1>1, <1>2, <1>3 DEF Bodies

\* A step that hands over the due packet passes it on.
LEMMA DeliversPassesOn ==
  ASSUME IInv, Delivers, pc = "newBuf" => rcvd' = rcvd
  PROVE  Stream!Next
<1>1. PICK h \in Seq(Nat) : OnMessageParse(h, Bytes(Due + Hdr, PacketEnd(Due)))
  BY DEF Delivers
<1>2. /\ Due \in Nat /\ Hdr \in Nat /\ lenAt[Due] \in Nat /\ PacketEnd(Due) \in Nat
      /\ PacketEnd(Due) = Due + Hdr + lenAt[Due]
  BY DueLength, HdrAssumption DEF Delivers, IInv, TypeOK, BufferInv
<1>3. Due + Hdr <= PacketEnd(Due) /\ Due + Hdr \in Nat /\ PacketEnd(Due) - (Due + Hdr) = lenAt[Due]
  BY <1>2
<1>4. Bytes(Due + Hdr, PacketEnd(Due)) = [i \in 1..lenAt[Due] |-> Due + Hdr + i - 1]
  BY <1>3, Zenon DEF Bytes
<1>5. Bytes(Due + Hdr, PacketEnd(Due)) \in Seq(Nat)
  BY <1>2, <1>3, BytesType
<1>6. Due' = PacketEnd(Due)
  BY <1>1, DueLength, DeliverDue DEF Delivers, IInv
<1>7. Bodies' = Append(Bodies, Bytes(Due + Hdr, PacketEnd(Due)))
  BY <1>1, <1>2, <1>5, BodyAppended DEF IInv
<1>8. Stream!End(Due) = PacketEnd(Due)
  BY DEF Stream!End, PacketEnd
<1>9. rcvd' \in Nat /\ PacketEnd(Due) <= rcvd'
  BY BytesAssumption DEF Delivers, IInv, TypeOK
<1>10. Stream!Whole(Due, rcvd')
  BY <1>2, <1>3, <1>8, <1>9 DEF Stream!Whole
<1>11. Stream!PassOn(rcvd')
  BY <1>4, <1>6, <1>7, <1>8, <1>10, Zenon DEF Stream!PassOn, Bodies
<1>. QED  BY <1>11, Zenon DEF Stream!Next, Delivers

\* A step that keeps the bytes of the due packet ends the call, as it may.
LEMMA KeepsReturns ==
  ASSUME IInv, Keeps, pc = "newBuf" => rcvd' = rcvd
  PROVE  Stream!Next
<1>1. Due' = Due /\ Bodies' = Bodies /\ UNCHANGED lenAt
  BY DEF Due, PacketEnd, Bodies, Keeps
<1>2. Due \in Nat /\ rcvd' \in Nat /\ Due <= rcvd' /\ Hdr \in Nat \ {0}
  BY BytesAssumption, HdrAssumption DEF Keeps, IInv, TypeOK, BufferInv
<1>3. ~Stream!Whole(Due, rcvd')
  <2>1. CASE Due < rcvd'
    <3>1. rcvd' < Due + Hdr \/ rcvd' < PacketEnd(Due)
      BY <2>1 DEF Keeps
    <3>2. Stream!End(Due) = PacketEnd(Due)
      BY DEF Stream!End, PacketEnd
    <3>3. lenAt[Due] \in Nat
      <4>1. Due \in 0..MaxBytes
        BY <1>2, <2>1, BytesAssumption DEF Keeps
      <4>. QED  BY <4>1, LengthsAssumption DEF IInv, TypeOK
    <3>4. PacketEnd(Due) \in Nat
      BY <1>2, <3>3 DEF PacketEnd
    <3>. QED  BY <1>2, <3>1, <3>2, <3>4 DEF Stream!Whole
  <2>2. CASE ~(Due < rcvd')
    BY <1>2, <2>2 DEF Stream!Whole
  <2>. QED  BY <2>1, <2>2
<1>4. /\ (Due' + Hdr <= rcvd' /\ (Due' + Hdr + lenAt'[Due']) <= rcvd') = FALSE
  BY <1>1, <1>3, Zenon DEF Stream!Whole, Stream!End
<1>. QED  BY <1>1, <1>4, Zenon DEF Stream!Next, Stream!Whole, Stream!End, Keeps, Bodies

\* A read that finds nothing kept starts a call.
LEMMA NothingKeptCalls ==
  ASSUME IInv, NEW n \in 1..MaxBytes, NothingKept(n)
  PROVE  Stream!Next
<1>1. /\ pc = "idle" /\ pc' = "newBuf" /\ rcvd' = rcvd + n /\ rcvd + n <= MaxBytes
      /\ UNCHANGED <<lenAt, delivered>>
  BY DEF NothingKept, Receive
<1>2. rcvd' \in rcvd..MaxBytes
  BY <1>1, BytesAssumption DEF IInv, TypeOK
<1>3. Due' = Due /\ Bodies' = Bodies
  BY <1>1 DEF Due, PacketEnd, Bodies
<1>. QED  BY <1>1, <1>2, <1>3 DEF Stream!Next, Bodies

\* Every step of the dispatcher is one of the stream.
LEMMA NextStream ==
  ASSUME IInv, [Next]_vars
  PROVE  [Stream!Next]_Stream!vars
<1>1. CASE DeliverNew
  <2>1. rcvd' = rcvd
    BY <1>1 DEF DeliverNew, streamVars
  <2>. QED  BY <1>1, <2>1, DeliverNewDelivers, DeliversPassesOn
<1>2. CASE KeepRest
  <2>1. rcvd' = rcvd
    BY <1>2 DEF KeepRest, streamVars
  <2>. QED  BY <1>2, <2>1, KeepRestKeeps, KeepsReturns
<1>3. ASSUME NEW n \in 1..MaxBytes, OnMessage(n) PROVE Stream!Next
  <2>1. CASE NothingKept(n)
    BY <2>1, NothingKeptCalls
  <2>2. pc = "idle"
    BY <1>3 DEF OnMessage, NothingKept, CompletesPacket, StillNoPacket, StillNoHeader,
                HeaderNoPacket, HeaderAndPacket, KeepAll, Receive
  <2>3. CASE CompletesPacket(n)
    BY <2>2, <2>3, CompletesPacketDelivers, DeliversPassesOn
  <2>4. CASE StillNoPacket(n) \/ StillNoHeader(n) \/ HeaderNoPacket(n)
    BY <2>2, <2>4, KeepAllKeeps, KeepsReturns
  <2>5. CASE HeaderAndPacket(n)
    BY <2>2, <2>5, HeaderAndPacketDelivers, DeliversPassesOn
  <2>. QED  BY <1>3, <2>1, <2>3, <2>4, <2>5 DEF OnMessage
<1>4. CASE UNCHANGED vars
  BY <1>4 DEF vars, streamVars, Stream!vars, Due, PacketEnd
<1>. QED  BY <1>1, <1>2, <1>3, <1>4 DEF Next

\* The dispatcher implements PacketStream: whatever the reads, each packet is
\* passed on once, in its turn, when it is whole and before the call returns.
THEOREM Implementation == Spec => ImplementsStream
BY InitStream, NextStream, Invariance, PTL DEF Spec, ImplementsStream, Stream!Spec
=============================================================================
