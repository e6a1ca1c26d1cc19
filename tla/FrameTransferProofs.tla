------------------------- MODULE FrameTransferProofs -------------------------
(***************************************************************************)
(* Proofs about FrameTransfer for all frame lengths, chunk sizes and       *)
(* numbers of losses: types, the equivalence of the C and the Python       *)
(* receiver, the order in which frames are saved, and what a loss can do   *)
(* to what is saved.                                                       *)
(***************************************************************************)
EXTENDS FrameTransfer, SequenceTheorems, TLAPS

(* The receivers keep the same bytes as long as a frame is open; when none *)
(* is, one has stopped listening and the other expects nothing.            *)
Alike ==
  /\ saved = frames
  /\ fa.active <=> reassembler.expected_size > 0
  /\ fa.active => /\ fa.total = reassembler.expected_size
                  /\ fa.data = reassembler.buffer
                  /\ Len(fa.data) < fa.total

(* What the sender puts on the wire.                                       *)
SentPacket ==
  {pkt \in Packet :
     /\ pkt.tag = "START" => pkt.total \in 1 .. MAX_FRAME
     /\ pkt.tag = "DATA" => Len(pkt.value) > 0}

IInv == TypeOK /\ wire \in Seq(SentPacket) /\ Alike

-----------------------------------------------------------------------------
(* Sequences *)

(* Cutting before appending, or appending before cutting: the C receiver   *)
(* does one, the Python receiver the other.                                *)
LEMMA CutEitherWay ==
  ASSUME NEW S, NEW s \in Seq(S), NEW t \in Seq(S), NEW n \in Nat, Len(s) <= n,
         Len(s) + Len(t) >= n
  PROVE  s \o SubSeq(t, 1, n - Len(s)) = SubSeq(s \o t, 1, n)
<1> DEFINE m == n - Len(s)
           a == s \o SubSeq(t, 1, m)
           b == SubSeq(s \o t, 1, n)
<1>1. Len(s) \in Nat /\ Len(t) \in Nat /\ m \in 0 .. Len(t)
  BY LenProperties
<1>2. SubSeq(t, 1, m) \in Seq(S) /\ Len(SubSeq(t, 1, m)) = m
  BY <1>1
<1>3. a \in Seq(S) /\ Len(a) = n
  BY <1>1, <1>2
<1>4. b \in Seq(S) /\ Len(b) = n
  BY <1>1
<1>5. ASSUME NEW i \in 1 .. n PROVE a[i] = b[i]
  BY <1>1, <1>2
<1> QED
  BY <1>3, <1>4, <1>5, SeqEqual

LEMMA AtMostIs ==
  ASSUME NEW had \in Nat, NEW more \in Nat, NEW total \in Nat
  PROVE  /\ had + more >= total => AtMost(more, total - had) = total - had
         /\ had + more < total => AtMost(more, total - had) = more
BY DEF AtMost

LEMMA NothingToCut ==
  ASSUME NEW S, NEW t \in Seq(S)
  PROVE  SubSeq(t, 1, Len(t)) = t
BY SubSeqFull

-----------------------------------------------------------------------------
LEMMA InitIInv == Init => IInv
<1> SUFFICES ASSUME Init PROVE IInv
  OBVIOUS
<1>1. TypeOK
  BY LengthAssumption, LossAssumption DEF Init, TypeOK, NoFrame, NewReassembler
<1>2. wire \in Seq(SentPacket) /\ Alike
  BY DEF Init, Alike, NoFrame, NewReassembler
<1> QED BY <1>1, <1>2 DEF IInv

(* fs_send_frame() keeps its offset within the frame.                      *)
LEMMA SendStartIInv ==
  ASSUME IInv, NEW length \in Lengths, SendStart(length)
  PROVE  IInv'
<1> USE DEF IInv, SendStart, receivers
<1> DEFINE pkt == Start(f_now + 1, length)
<1>1. length \in 1 .. MAX_FRAME
  BY LengthAssumption
<1>2. pkt \in SentPacket
  BY <1>1, LengthAssumption DEF SentPacket, Packet, Start, f_now, TypeOK
<1>3. wire' \in Seq(SentPacket) /\ wire' \in Seq(Packet)
  BY <1>2 DEF SentPacket, TypeOK
<1>4. TypeOK'
  BY <1>3, LengthAssumption DEF TypeOK
<1> QED BY <1>3, <1>4 DEF Alike

(* The chunk that fs_send_frame() cuts off is a packet of at least a byte. *)
LEMMA SentDataIsPacket ==
  ASSUME IInv, SendData
  PROVE  /\ Data(f_now, offset, AtMost(lengths[f_now] - offset, CHUNK_SIZE)) \in SentPacket
         /\ offset + AtMost(lengths[f_now] - offset, CHUNK_SIZE) \in 0 .. MAX_FRAME
<1> DEFINE n == lengths[f_now]
           chunk == AtMost(n - offset, CHUNK_SIZE)
           pkt == Data(f_now, offset, chunk)
<1>1. TypeOK
  BY DEF IInv
<1>2. f_now \in Nat \ {0} /\ offset \in Nat /\ offset < n
  BY <1>1, LengthAssumption DEF SendData, Sending, f_now, TypeOK
<1>3. n \in Lengths
  BY <1>1, <1>2 DEF TypeOK, f_now
<1>4. n \in 1 .. MAX_FRAME
  BY <1>3, LengthAssumption
<1>5. chunk \in Nat \ {0} /\ offset + chunk \in 0 .. MAX_FRAME
  BY <1>2, <1>4, ChunkAssumption, LengthAssumption DEF AtMost
<1>6. [i \in 1 .. chunk |-> <<f_now, offset + i>>] \in Seq(Bytes)
  BY <1>2, <1>5 DEF Bytes
<1>7. pkt \in SentPacket
  BY <1>2, <1>5, <1>6 DEF SentPacket, Packet, Data
<1> QED BY <1>5, <1>7

LEMMA SendDataIInv ==
  ASSUME IInv, SendData
  PROVE  IInv'
<1> DEFINE chunk == AtMost(lengths[f_now] - offset, CHUNK_SIZE)
           pkt == Data(f_now, offset, chunk)
<1>1. TypeOK /\ wire \in Seq(SentPacket) /\ Alike
  BY DEF IInv
<1>2. /\ wire' = Append(wire, pkt) /\ offset' = offset + chunk
      /\ UNCHANGED <<lengths, receivers, arrived, losses>>
  BY DEF SendData
<1>3. pkt \in SentPacket /\ pkt \in Packet /\ offset + chunk \in 0 .. MAX_FRAME
  BY SentDataIsPacket DEF SentPacket
<1> HIDE DEF pkt, chunk
<1>4. wire' \in Seq(SentPacket) /\ wire' \in Seq(Packet)
  BY <1>1, <1>2, <1>3 DEF TypeOK
<1>5. TypeOK' /\ Alike'
  BY <1>1, <1>2, <1>3, <1>4 DEF TypeOK, Alike, receivers
<1> QED BY <1>4, <1>5 DEF IInv

-----------------------------------------------------------------------------
(* The receivers *)

LEMMA StartIInv ==
  ASSUME IInv, NEW pkt \in SentPacket, pkt.tag = "START",
         ReceiveStart(pkt), FeedStart(pkt)
  PROVE  /\ Alike'
         /\ fa' \in [active : BOOLEAN, total : 0 .. MAX_FRAME, data : Seq(Bytes)]
         /\ Len(fa.data)' <= fa.total'
         /\ saved' \in Seq(Seq(Bytes))
         /\ reassembler' \in [expected_size : 0 .. MAX_FRAME, buffer : Seq(Bytes)]
         /\ frames' \in Seq(Seq(Bytes))
<1>1. pkt.total \in 1 .. MAX_FRAME
  BY DEF SentPacket
<1> QED
  BY <1>1, LengthAssumption DEF IInv, TypeOK, Alike, ReceiveStart, FeedStart

LEMMA DataIInv ==
  ASSUME IInv, NEW pkt \in SentPacket, pkt.tag = "DATA",
         ReceiveData(pkt), FeedData(pkt)
  PROVE  /\ Alike'
         /\ fa' \in [active : BOOLEAN, total : 0 .. MAX_FRAME, data : Seq(Bytes)]
         /\ Len(fa.data)' <= fa.total'
         /\ saved' \in Seq(Seq(Bytes))
         /\ reassembler' \in [expected_size : 0 .. MAX_FRAME, buffer : Seq(Bytes)]
         /\ frames' \in Seq(Seq(Bytes))
<1> DEFINE value == pkt.value
           had == fa.data
           total == fa.total
           copy == AtMost(Len(value), total - Len(had))
           data == had \o SubSeq(value, 1, copy)
           buffer == reassembler.buffer \o value
           size == reassembler.expected_size
<1>1. value \in Seq(Bytes) /\ Len(value) \in Nat
  BY DEF SentPacket, Packet
<1>2. /\ fa \in [active : BOOLEAN, total : 0 .. MAX_FRAME, data : Seq(Bytes)]
      /\ reassembler \in [expected_size : 0 .. MAX_FRAME, buffer : Seq(Bytes)]
      /\ Len(had) <= total
      /\ saved \in Seq(Seq(Bytes)) /\ frames \in Seq(Seq(Bytes))
  BY DEF IInv, TypeOK
<1>3. had \in Seq(Bytes) /\ Len(had) \in Nat
  BY <1>2
<1>4. total \in 0 .. MAX_FRAME /\ size \in 0 .. MAX_FRAME /\ MAX_FRAME \in Nat
  BY <1>2, LengthAssumption
<1>5. buffer \in Seq(Bytes)
  BY <1>1, <1>2
<1>6. saved = frames
  BY DEF IInv, Alike
<1>7. CASE ~ fa.active
  <2>1. size = 0
    BY <1>4, <1>7 DEF IInv, Alike
  <2>2. UNCHANGED <<fa, saved, frames>> /\ reassembler' = [reassembler EXCEPT !.buffer = buffer]
    BY <1>7, <2>1 DEF ReceiveData, FeedData
  <2>3. ~ fa'.active /\ reassembler'.expected_size = 0
    BY <1>2, <1>7, <2>1, <2>2
  <2>4. reassembler' \in [expected_size : 0 .. MAX_FRAME, buffer : Seq(Bytes)]
    BY <1>2, <1>5, <2>2
  <2> QED BY ONLY <1>2, <1>6, <2>2, <2>3, <2>4 DEF Alike
<1>8. CASE fa.active
  <2>1. total = size /\ had = reassembler.buffer /\ Len(had) < total
    BY <1>8 DEF IInv, Alike
  <2>2. buffer = had \o value /\ Len(buffer) = Len(had) + Len(value)
    BY <1>1, <1>3, <2>1
  <2>3. /\ copy \in 0 .. Len(value)
        /\ Len(had) + copy <= total
        /\ Len(data) = Len(had) + copy
        /\ data \in Seq(Bytes)
    <3>1. copy \in 0 .. Len(value) /\ Len(had) + copy <= total
      BY <1>1, <1>3, <1>4, <2>1 DEF AtMost
    <3>2. SubSeq(value, 1, copy) \in Seq(Bytes) /\ Len(SubSeq(value, 1, copy)) = copy
      BY <1>1, <3>1
    <3>3. data \in Seq(Bytes) /\ Len(data) = Len(had) + Len(SubSeq(value, 1, copy))
      BY <1>3, <3>2, ConcatProperties
    <3> QED BY <3>1, <3>2, <3>3
  <2>4. Len(had) + copy <= MAX_FRAME
    BY <1>1, <1>3, <1>4, <2>3
  <2>5. /\ Len(data) >= total =>
             fa' = [fa EXCEPT !.data = data, !.active = FALSE] /\ saved' = Append(saved, data)
        /\ ~ (Len(data) >= total) =>
             fa' = [fa EXCEPT !.data = data, !.active = TRUE] /\ saved' = saved
    BY ONLY <1>8, <2>4, ReceiveData(pkt) DEF ReceiveData
  <2>9. /\ Len(had) + Len(value) >= total => copy = total - Len(had)
        /\ Len(had) + Len(value) < total => copy = Len(value)
    <3>1. total \in Nat
      BY <1>4
    <3>2. Len(had) \in Nat /\ Len(value) \in Nat
      BY <1>1, <1>3
    <3> QED BY ONLY <3>1, <3>2, AtMostIs
  <2>6. /\ reassembler' = IF Len(buffer) >= size THEN NewReassembler
                          ELSE [reassembler EXCEPT !.buffer = buffer]
        /\ frames' = IF Len(buffer) >= size THEN Append(frames, SubSeq(buffer, 1, size)) ELSE frames
    <3>1. size > 0
      BY <1>3, <1>4, <2>1
    <3> QED BY ONLY <3>1, FeedData(pkt) DEF FeedData
  <2> HIDE DEF value, size, buffer, total, had
  <2>7. CASE Len(had) + Len(value) >= total
    <3>1. copy = total - Len(had)
      BY <2>7, <2>9
    <3>2. Len(data) = total
      BY <1>3, <1>4, <2>3, <3>1
    <3>3. data = SubSeq(buffer, 1, size)
      <4>1. total \in Nat
        BY <1>4
      <4>2. had \o SubSeq(value, 1, total - Len(had)) = SubSeq(had \o value, 1, total)
        <5>1. Len(had) <= total
          BY ONLY <1>3, <2>1, <4>1
        <5> QED BY ONLY <1>1, <1>3, <2>7, <4>1, <5>1, CutEitherWay
      <4>3. data = had \o SubSeq(value, 1, total - Len(had))
        BY <3>1
      <4>4. SubSeq(buffer, 1, size) = SubSeq(had \o value, 1, total)
        BY ONLY <2>1, <2>2
      <4> QED BY <4>2, <4>3, <4>4
    <3> HIDE DEF data, copy
    <3>4. fa' = [fa EXCEPT !.data = data, !.active = FALSE] /\ saved' = Append(saved, data)
      BY <1>4, <2>5, <3>2
    <3>5. reassembler' = NewReassembler /\ frames' = Append(frames, data)
      BY <2>1, <2>2, <2>6, <2>7, <3>3
    <3>6. fa'.total = total /\ fa'.data = data /\ ~ fa'.active
      BY <1>2, <3>4 DEF total
    <3>7. reassembler'.buffer = <<>> /\ reassembler'.expected_size = 0
      BY <3>5 DEF NewReassembler
    <3>8. fa' \in [active : BOOLEAN, total : 0 .. MAX_FRAME, data : Seq(Bytes)]
      BY <1>2, <2>3, <3>4
    <3>9. reassembler' \in [expected_size : 0 .. MAX_FRAME, buffer : Seq(Bytes)]
      BY <1>4, <3>5 DEF NewReassembler
    <3> QED
      BY <1>2, <1>4, <1>6, <2>3, <3>2, <3>4, <3>5, <3>6, <3>7, <3>8, <3>9 DEF Alike
  <2>8. CASE Len(had) + Len(value) < total
    <3>1. copy = Len(value)
      BY <1>1, <1>3, <1>4, <2>8, <2>9
    <3>2. data = buffer
      BY <1>1, <2>2, <3>1, NothingToCut
    <3>3. Len(data) < total
      BY <2>2, <2>8, <3>2
    <3> HIDE DEF data, copy
    <3>4. fa' = [fa EXCEPT !.data = data, !.active = TRUE] /\ saved' = saved
      BY <1>3, <1>4, <2>2, <2>5, <2>8, <1>1, <3>2
    <3>5. reassembler' = [reassembler EXCEPT !.buffer = data] /\ frames' = frames
      BY <1>1, <1>3, <1>4, <2>1, <2>2, <2>6, <2>8, <3>2
    <3>6. fa'.total = total /\ fa'.data = data /\ fa'.active /\ size > 0
      BY <1>2, <1>3, <1>4, <2>1, <3>4 DEF total
    <3>7. reassembler'.buffer = data /\ reassembler'.expected_size = size
      BY <1>2, <3>5 DEF size
    <3> QED
      BY <1>2, <1>6, <2>1, <2>3, <3>3, <3>4, <3>5, <3>6, <3>7 DEF Alike
  <2> QED BY <1>1, <1>3, <1>4, <2>7, <2>8
<1> QED BY <1>2, <1>7, <1>8

LEMMA DeliverIInv ==
  ASSUME IInv, Deliver
  PROVE  IInv'
<1> DEFINE pkt == Head(wire)
<1> USE DEF IInv, Deliver, sender
<1>1. pkt \in SentPacket /\ wire' \in Seq(SentPacket)
  OBVIOUS
<1>2. wire' \in Seq(Packet)
  BY DEF TypeOK
<1>3. CASE pkt.tag = "START" /\ ReceiveStart(pkt) /\ FeedStart(pkt)
  BY <1>1, <1>2, <1>3, StartIInv DEF TypeOK
<1>4. CASE pkt.tag = "DATA" /\ ReceiveData(pkt) /\ FeedData(pkt)
  BY <1>1, <1>2, <1>4, DataIInv DEF TypeOK
<1> QED BY <1>3, <1>4

LEMMA LoseIInv ==
  ASSUME IInv, Lose
  PROVE  IInv'
<1> USE DEF IInv, Lose, sender, receivers
<1>1. wire' \in Seq(SentPacket) /\ wire' \in Seq(Packet)
  BY DEF TypeOK
<1> QED BY <1>1, LossAssumption DEF TypeOK, Alike

LEMMA ReconnectIInv ==
  ASSUME IInv, Reconnect
  PROVE  IInv'
<1> USE DEF Reconnect, NoFrame, NewReassembler
<1>1. TypeOK
  BY DEF IInv
<1>2. lengths[f_now] \in Lengths
  BY <1>1 DEF TypeOK, f_now
<1>3. offset' \in 0 .. MAX_FRAME
  <2>1. lengths[f_now] \in 1 .. MAX_FRAME /\ MAX_FRAME \in Nat
    BY ONLY <1>2, LengthAssumption
  <2>2. offset' = lengths[f_now]
    OBVIOUS
  <2> QED BY ONLY <2>1, <2>2
<1>4. wire' \in Seq(Packet) /\ wire' \in Seq(SentPacket)
  OBVIOUS
<1>5. /\ fa' \in [active : BOOLEAN, total : 0 .. MAX_FRAME, data : Seq(Bytes)]
      /\ Len(fa'.data) <= fa'.total
      /\ reassembler' \in [expected_size : 0 .. MAX_FRAME, buffer : Seq(Bytes)]
  BY LengthAssumption
<1>6. TypeOK'
  BY <1>1, <1>3, <1>4, <1>5 DEF TypeOK
<1>7. Alike'
  BY DEF IInv, Alike
<1> QED BY <1>4, <1>6, <1>7 DEF IInv

LEMMA NextIInv == IInv /\ [Next]_vars => IInv'
<1> SUFFICES ASSUME IInv, [Next]_vars PROVE IInv'
  OBVIOUS
<1>1. CASE \E length \in Lengths : SendStart(length)
  BY <1>1, SendStartIInv
<1>2. CASE SendData
  BY <1>2, SendDataIInv
<1>3. CASE Deliver
  BY <1>3, DeliverIInv
<1>4. CASE Lose
  BY <1>4, LoseIInv
<1>5. CASE Reconnect
  BY <1>5, ReconnectIInv
<1>6. CASE UNCHANGED vars
  BY <1>6 DEF vars, IInv, TypeOK, Alike
<1> QED BY <1>1, <1>2, <1>3, <1>4, <1>5, <1>6 DEF Next

THEOREM Invariance == Spec => []IInv
BY InitIInv, NextIInv, PTL DEF Spec

(* Every variable has its type; above all, the bytes received never exceed *)
(* the announced length nor the buffer of frame_receiver.c.                *)
THEOREM TypeCorrect == Spec => []TypeOK
BY Invariance, PTL DEF IInv

(* frame_receiver.c and ai_receiver.py put the same frames together from   *)
(* the same packets, whatever is lost.                                     *)
THEOREM ReceiversAgree == Spec => []SameFrames
<1>1. IInv => SameFrames
  BY DEF IInv, Alike, SameFrames
<1> QED BY <1>1, Invariance, PTL


-----------------------------------------------------------------------------
(* The order of capture.  Packets come in the order of their frames, and a *)
(* FRAME_START is later than every byte in front of it; so nothing that is *)
(* taken for an open frame is as early as what was saved before it opened. *)

Below(bytes, f) == \A i \in 1 .. Len(bytes) : bytes[i][1] < f

(* w is what fs_send_frame() has on the wire after f frames.               *)
InOrder(w, f) ==
  /\ \A k \in 1 .. Len(w) :
       /\ w[k].frame \in 1 .. f
       /\ \A i \in 1 .. Len(w[k].value) : w[k].value[i][1] = w[k].frame
  /\ \A k, l \in 1 .. Len(w) :
       k < l => /\ w[k].frame <= w[l].frame
                /\ w[l].tag = "START" => w[k].frame < w[l].frame

(* All of it was sent, and is earlier than any start on the wire.          *)
Earlier(bytes, w, f) ==
  /\ Below(bytes, f + 1)
  /\ \A k \in 1 .. Len(w) : w[k].tag = "START" => Below(bytes, w[k].frame)

(* All of it is earlier than whatever the open frame has and may get.      *)
Closed(bytes, w, f, data) ==
  /\ Below(bytes, f)
  /\ \A k \in 1 .. Len(w) : Below(bytes, w[k].frame)
  /\ \A b \in 1 .. Len(data) : Below(bytes, data[b][1])

OrderInv ==
  /\ SavedInOrder
  /\ InOrder(wire, f_now)
  /\ \A n \in 1 .. Len(saved) :
       /\ Earlier(saved[n], wire, f_now)
       /\ fa.active => Closed(saved[n], wire, f_now, fa.data)
  /\ fa.active => Earlier(fa.data, wire, f_now)

LEMMA FramesAreNumbers ==
  ASSUME NEW bytes \in Seq(Bytes)
  PROVE  \A i \in 1 .. Len(bytes) : bytes[i][1] \in Nat
<1>1. \A i \in 1 .. Len(bytes) : bytes[i] \in Bytes
  OBVIOUS
<1> QED BY <1>1 DEF Bytes

LEMMA AppendIs ==
  ASSUME NEW S, NEW w \in Seq(S), NEW pkt \in S
  PROVE  /\ Len(Append(w, pkt)) = Len(w) + 1
         /\ \A k \in 1 .. Len(w) : Append(w, pkt)[k] = w[k]
         /\ Append(w, pkt)[Len(w) + 1] = pkt
BY AppendProperties

LEMMA TailIs ==
  ASSUME NEW S, NEW w \in Seq(S), w # <<>>
  PROVE  /\ Len(w) \in Nat \ {0} /\ Len(Tail(w)) = Len(w) - 1
         /\ Head(w) = w[1] /\ Head(w) \in S
         /\ \A k \in 1 .. Len(Tail(w)) : k + 1 \in 1 .. Len(w) /\ Tail(w)[k] = w[k + 1]
BY HeadTailProperties

(* A packet that is sent comes after all others, and keeps what is saved   *)
(* or open as early as it was.                                             *)
LEMMA SendKeepsOrder ==
  ASSUME NEW w \in Seq(SentPacket), NEW f \in Nat, NEW g \in {f, f + 1}, InOrder(w, f),
         NEW pkt \in SentPacket, pkt.frame = g, g > 0, pkt.tag = "START" <=> g = f + 1,
         \A i \in 1 .. Len(pkt.value) : pkt.value[i][1] = g
  PROVE  /\ InOrder(Append(w, pkt), g)
         /\ \A bytes \in Seq(Bytes) :
              Earlier(bytes, w, f) => Earlier(bytes, Append(w, pkt), g)
         /\ \A bytes, data \in Seq(Bytes) :
              Closed(bytes, w, f, data) => Closed(bytes, Append(w, pkt), g, data)
<1> DEFINE v == Append(w, pkt)
           n == Len(w)
<1>1. n \in Nat /\ Len(v) = n + 1 /\ (\A k \in 1 .. n : v[k] = w[k]) /\ v[n + 1] = pkt
  BY AppendIs
<1>2. \A k \in 1 .. n : w[k].frame \in 1 .. f
  BY DEF InOrder
<1> HIDE DEF v, n
<1>3. \A k \in 1 .. Len(v) : k \in 1 .. n \/ k = n + 1
  BY <1>1
<1>4. InOrder(v, g)
  <2>1. ASSUME NEW k \in 1 .. Len(v)
        PROVE  /\ v[k].frame \in 1 .. g
               /\ \A i \in 1 .. Len(v[k].value) : v[k].value[i][1] = v[k].frame
    <3>1. CASE k \in 1 .. n
      BY <1>1, <1>2, <3>1 DEF InOrder, n
    <3>2. CASE k = n + 1
      BY <1>1, <3>2
    <3> QED BY <1>3, <3>1, <3>2
  <2>2. ASSUME NEW k \in 1 .. Len(v), NEW l \in 1 .. Len(v), k < l
        PROVE  /\ v[k].frame <= v[l].frame
               /\ v[l].tag = "START" => v[k].frame < v[l].frame
    <3>1. k \in 1 .. n
      BY <1>1, <2>2
    <3>2. CASE l \in 1 .. n
      BY <1>1, <2>2, <3>1, <3>2 DEF InOrder, n
    <3>3. CASE l = n + 1
      BY <1>1, <1>2, <3>1, <3>3
    <3> QED BY <1>3, <3>2, <3>3
  <2> QED BY <2>1, <2>2 DEF InOrder
<1>5. ASSUME NEW bytes \in Seq(Bytes), Earlier(bytes, w, f)
      PROVE  Earlier(bytes, v, g)
  <2>1. \A i \in 1 .. Len(bytes) : bytes[i][1] \in Nat /\ bytes[i][1] < f + 1
    BY <1>5, FramesAreNumbers DEF Earlier, Below
  <2>2. Below(bytes, g + 1)
    BY <2>1 DEF Below
  <2>3. ASSUME NEW k \in 1 .. Len(v), v[k].tag = "START" PROVE Below(bytes, v[k].frame)
    <3>1. CASE k \in 1 .. n
      BY <1>1, <1>5, <2>3, <3>1 DEF Earlier, n
    <3>2. CASE k = n + 1
      BY <1>1, <2>1, <2>3, <3>2 DEF Below
    <3> QED BY <1>3, <3>1, <3>2
  <2> QED BY <2>2, <2>3 DEF Earlier
<1>6. ASSUME NEW bytes \in Seq(Bytes), NEW data \in Seq(Bytes), Closed(bytes, w, f, data)
      PROVE  Closed(bytes, v, g, data)
  <2>1. \A i \in 1 .. Len(bytes) : bytes[i][1] \in Nat /\ bytes[i][1] < f
    BY <1>6, FramesAreNumbers DEF Closed, Below
  <2>2. Below(bytes, g)
    BY <2>1 DEF Below
  <2>3. ASSUME NEW k \in 1 .. Len(v) PROVE Below(bytes, v[k].frame)
    <3>1. CASE k \in 1 .. n
      BY <1>1, <1>6, <3>1 DEF Closed, n
    <3>2. CASE k = n + 1
      BY <1>1, <2>2, <3>2
    <3> QED BY <1>3, <3>1, <3>2
  <2> QED BY <1>6, <2>2, <2>3 DEF Closed
<1> QED BY <1>4, <1>5, <1>6 DEF v

(* A packet less on the wire changes nothing.                              *)
LEMMA TailKeepsOrder ==
  ASSUME NEW w \in Seq(SentPacket), w # <<>>, NEW f \in Nat, InOrder(w, f)
  PROVE  /\ InOrder(Tail(w), f)
         /\ \A bytes : Earlier(bytes, w, f) => Earlier(bytes, Tail(w), f)
         /\ \A bytes, data : Closed(bytes, w, f, data) => Closed(bytes, Tail(w), f, data)
<1> DEFINE v == Tail(w)
<1>1. \A k \in 1 .. Len(v) : k \in Nat /\ k + 1 \in 1 .. Len(w) /\ v[k] = w[k + 1]
  BY TailIs
<1> HIDE DEF v
<1>2. ASSUME NEW k \in 1 .. Len(v)
      PROVE  /\ v[k].frame \in 1 .. f
             /\ \A i \in 1 .. Len(v[k].value) : v[k].value[i][1] = v[k].frame
  BY <1>1 DEF InOrder
<1>3. ASSUME NEW k \in 1 .. Len(v), NEW l \in 1 .. Len(v), k < l
      PROVE  /\ v[k].frame <= v[l].frame
             /\ v[l].tag = "START" => v[k].frame < v[l].frame
  <2>1. /\ k + 1 \in 1 .. Len(w) /\ l + 1 \in 1 .. Len(w)
        /\ v[k] = w[k + 1] /\ v[l] = w[l + 1]
    BY <1>1
  <2>2. k + 1 < l + 1
    BY <1>1, <1>3
  <2> QED BY <2>1, <2>2 DEF InOrder
<1>6. InOrder(v, f)
  BY <1>2, <1>3 DEF InOrder
<1>4. \A bytes : Earlier(bytes, w, f) => Earlier(bytes, v, f)
  BY <1>1 DEF Earlier
<1>5. \A bytes, data : Closed(bytes, w, f, data) => Closed(bytes, v, f, data)
  BY <1>1 DEF Closed
<1> QED BY <1>4, <1>5, <1>6 DEF v

(* What comes after the first packet is not of an earlier frame.           *)
LEMMA HeadIsFirst ==
  ASSUME NEW w \in Seq(SentPacket), w # <<>>, NEW f \in Nat, InOrder(w, f)
  PROVE  /\ Head(w).frame \in 1 .. f
         /\ \A i \in 1 .. Len(Head(w).value) : Head(w).value[i][1] = Head(w).frame
         /\ \A k \in 1 .. Len(Tail(w)) :
              /\ Tail(w)[k].frame \in 1 .. f
              /\ Head(w).frame <= Tail(w)[k].frame
              /\ Tail(w)[k].tag = "START" => Head(w).frame < Tail(w)[k].frame
<1> DEFINE v == Tail(w)
           h == Head(w)
<1>1. /\ Len(w) \in Nat \ {0} /\ h = w[1]
      /\ \A k \in 1 .. Len(v) : k \in Nat \ {0} /\ k + 1 \in 1 .. Len(w) /\ v[k] = w[k + 1]
  BY TailIs
<1> HIDE DEF v, h
<1>2. 1 \in 1 .. Len(w) /\ \A k \in 1 .. Len(v) : 1 < k + 1
  BY <1>1
<1>3. /\ h.frame \in 1 .. f
      /\ \A i \in 1 .. Len(h.value) : h.value[i][1] = h.frame
  BY <1>1, <1>2 DEF InOrder
<1>4. \A k \in 1 .. Len(v) :
        /\ v[k].frame \in 1 .. f
        /\ h.frame <= v[k].frame
        /\ v[k].tag = "START" => h.frame < v[k].frame
  BY <1>1, <1>2 DEF InOrder
<1> QED BY <1>3, <1>4 DEF v, h

(* A start closes what was saved before it.                                *)
LEMMA StartCloses ==
  ASSUME NEW w \in Seq(SentPacket), w # <<>>, NEW f \in Nat, InOrder(w, f),
         Head(w).tag = "START", NEW bytes \in Seq(Bytes), Earlier(bytes, w, f)
  PROVE  Closed(bytes, Tail(w), f, <<>>)
<1> DEFINE g == Head(w).frame
<1>1. Below(bytes, g)
  <2>1. 1 \in 1 .. Len(w) /\ Head(w) = w[1]
    BY TailIs
  <2> QED BY <2>1 DEF Earlier
<1>2. g \in 1 .. f /\ \A k \in 1 .. Len(Tail(w)) : Tail(w)[k].frame \in Nat /\ g <= Tail(w)[k].frame
  BY HeadIsFirst
<1>3. \A i \in 1 .. Len(bytes) : bytes[i][1] \in Nat /\ bytes[i][1] < g
  BY <1>1, FramesAreNumbers DEF Below
<1> HIDE DEF g
<1>4. Below(bytes, f) /\ \A k \in 1 .. Len(Tail(w)) : Below(bytes, Tail(w)[k].frame)
  BY <1>2, <1>3 DEF Below
<1>5. Len(<<>>) = 0
  OBVIOUS
<1> QED BY <1>4, <1>5 DEF Closed

(* Data that is taken keeps the open frame between what was saved and what *)
(* is yet to start.                                                        *)
LEMMA DataStaysBetween ==
  ASSUME NEW w \in Seq(SentPacket), w # <<>>, NEW f \in Nat, InOrder(w, f),
         NEW had \in Seq(Bytes), NEW data \in Seq(Bytes), Earlier(had, w, f),
         \A i \in 1 .. Len(data) :
           \/ \E j \in 1 .. Len(had) : data[i] = had[j]
           \/ \E j \in 1 .. Len(Head(w).value) : data[i] = Head(w).value[j]
  PROVE  /\ Earlier(data, Tail(w), f)
         /\ \A bytes : Closed(bytes, w, f, had) => Closed(bytes, Tail(w), f, data)
<1> DEFINE g == Head(w).frame
           v == Tail(w)
<1>1. /\ g \in 1 .. f
      /\ \A i \in 1 .. Len(Head(w).value) : Head(w).value[i][1] = g
      /\ \A k \in 1 .. Len(v) : v[k].tag = "START" => g < v[k].frame
  BY HeadIsFirst
<1>2. Earlier(had, v, f)
  BY TailKeepsOrder
<1>3. \A i \in 1 .. Len(data) :
        data[i][1] = g \/ \E j \in 1 .. Len(had) : data[i][1] = had[j][1]
  <2> SUFFICES ASSUME NEW i \in 1 .. Len(data)
               PROVE  data[i][1] = g \/ \E j \in 1 .. Len(had) : data[i][1] = had[j][1]
    OBVIOUS
  <2>1. CASE \E j \in 1 .. Len(had) : data[i] = had[j]
    BY <2>1
  <2>2. CASE \E j \in 1 .. Len(Head(w).value) : data[i] = Head(w).value[j]
    BY <1>1, <2>2
  <2> QED BY <2>1, <2>2
<1>4. 1 \in 1 .. Len(w) /\ w[1].frame = g
  BY TailIs
<1> HIDE DEF g, v
<1>5. Below(data, f + 1)
  BY <1>1, <1>2, <1>3 DEF Earlier, Below
<1>6. \A k \in 1 .. Len(v) : v[k].tag = "START" => Below(data, v[k].frame)
  BY <1>1, <1>2, <1>3 DEF Earlier, Below
<1>7. ASSUME NEW bytes, Closed(bytes, w, f, had)
      PROVE  Closed(bytes, v, f, data)
  <2>1. Closed(bytes, v, f, had)
    BY <1>7, TailKeepsOrder DEF v
  <2>2. Below(bytes, g)
    BY <1>4, <1>7 DEF Closed
  <2>3. \A b \in 1 .. Len(data) : Below(bytes, data[b][1])
    BY <1>3, <2>1, <2>2 DEF Closed
  <2> QED BY <2>1, <2>3 DEF Closed
<1> QED BY <1>5, <1>6, <1>7 DEF Earlier, v

LEMMA OrderTypes ==
  ASSUME IInv
  PROVE  /\ wire \in Seq(SentPacket) /\ f_now \in Nat /\ fa.data \in Seq(Bytes)
         /\ saved \in Seq(Seq(Bytes)) /\ \A n \in 1 .. Len(saved) : saved[n] \in Seq(Bytes)
BY DEF IInv, TypeOK, f_now

LEMMA SendOrder ==
  ASSUME IInv, OrderInv, SendData \/ \E length \in Lengths : SendStart(length)
  PROVE  OrderInv'
<1>1. UNCHANGED <<fa, saved>>
  BY DEF SendData, SendStart, receivers
<1>2. /\ wire \in Seq(SentPacket) /\ f_now \in Nat /\ fa.data \in Seq(Bytes)
      /\ \A n \in 1 .. Len(saved) : saved[n] \in Seq(Bytes)
  BY OrderTypes
<1>3. PICK pkt \in SentPacket, g \in {f_now, f_now + 1} :
        /\ wire' = Append(wire, pkt) /\ f_now' = g
        /\ pkt.frame = g /\ g > 0 /\ (pkt.tag = "START" <=> g = f_now + 1)
        /\ \A i \in 1 .. Len(pkt.value) : pkt.value[i][1] = g
  <2>1. CASE SendData
    <3> DEFINE pkt == Data(f_now, offset, AtMost(lengths[f_now] - offset, CHUNK_SIZE))
    <3>1. wire' = Append(wire, pkt) /\ f_now' = f_now /\ f_now > 0
      BY <2>1 DEF SendData, Sending, f_now
    <3>2. /\ pkt.frame = f_now /\ pkt.tag = "DATA"
          /\ \A i \in 1 .. Len(pkt.value) : pkt.value[i][1] = f_now
      <4>1. lengths[f_now] \in Lengths /\ offset \in Nat /\ offset < lengths[f_now]
        BY <1>2, <2>1 DEF SendData, Sending, f_now, IInv, TypeOK
      <4>2. lengths[f_now] \in Nat
        <5>1. lengths[f_now] \in 1 .. MAX_FRAME
          BY <4>1, LengthAssumption
        <5> QED BY <5>1
      <4>3. AtMost(lengths[f_now] - offset, CHUNK_SIZE) \in Nat
        BY <4>1, <4>2, ChunkAssumption DEF AtMost
      <4> QED BY <4>3 DEF Data
    <3>3. pkt \in SentPacket
      BY <2>1, SentDataIsPacket
    <3> QED BY <1>2, <3>1, <3>2, <3>3
  <2>2. ASSUME NEW length \in Lengths, SendStart(length)
        PROVE  \E pkt \in SentPacket, g \in {f_now, f_now + 1} :
                 /\ wire' = Append(wire, pkt) /\ f_now' = g
                 /\ pkt.frame = g /\ g > 0 /\ (pkt.tag = "START" <=> g = f_now + 1)
                 /\ \A i \in 1 .. Len(pkt.value) : pkt.value[i][1] = g
    <3> DEFINE pkt == Start(f_now + 1, length)
    <3>1. wire' = Append(wire, pkt) /\ f_now' = f_now + 1
      BY <2>2 DEF SendStart, f_now, IInv, TypeOK
    <3>2. pkt.frame = f_now + 1 /\ pkt.tag = "START" /\ Len(pkt.value) = 0
      BY DEF Start
    <3>3. pkt \in SentPacket
      BY <1>2, LengthAssumption DEF SentPacket, Packet, Start
    <3> QED BY <1>2, <3>1, <3>2, <3>3
  <2> QED BY <2>1, <2>2
<1>4. /\ InOrder(wire, f_now) /\ SavedInOrder
      /\ \A n \in 1 .. Len(saved) :
           /\ Earlier(saved[n], wire, f_now)
           /\ fa.active => Closed(saved[n], wire, f_now, fa.data)
      /\ fa.active => Earlier(fa.data, wire, f_now)
  BY DEF OrderInv
<1>5. /\ InOrder(wire', f_now')
      /\ \A bytes \in Seq(Bytes) : Earlier(bytes, wire, f_now) => Earlier(bytes, wire', f_now')
      /\ \A bytes, data \in Seq(Bytes) :
           Closed(bytes, wire, f_now, data) => Closed(bytes, wire', f_now', data)
  BY <1>2, <1>3, <1>4, SendKeepsOrder
<1>6. SavedInOrder'
  BY <1>1, <1>4 DEF SavedInOrder
<1> QED BY <1>1, <1>2, <1>4, <1>5, <1>6 DEF OrderInv

LEMMA LoseOrder ==
  ASSUME IInv, OrderInv, Lose
  PROVE  OrderInv'
<1>1. wire # <<>> /\ wire' = Tail(wire) /\ UNCHANGED <<fa, saved>> /\ f_now' = f_now
  BY DEF Lose, sender, receivers, f_now
<1>2. wire \in Seq(SentPacket) /\ f_now \in Nat
  BY OrderTypes
<1>3. /\ InOrder(wire', f_now)
      /\ \A bytes : Earlier(bytes, wire, f_now) => Earlier(bytes, wire', f_now)
      /\ \A bytes, data : Closed(bytes, wire, f_now, data) => Closed(bytes, wire', f_now, data)
  BY <1>1, <1>2, TailKeepsOrder DEF OrderInv
<1>4. SavedInOrder'
  BY <1>1 DEF OrderInv, SavedInOrder
<1> QED BY <1>1, <1>3, <1>4 DEF OrderInv

LEMMA ReconnectOrder ==
  ASSUME IInv, OrderInv, Reconnect
  PROVE  OrderInv'
<1>1. wire' = <<>> /\ ~ fa'.active /\ saved' = saved /\ f_now' = f_now
  BY DEF Reconnect, NoFrame, f_now
<1>2. InOrder(wire', f_now') /\ \A n \in 1 .. Len(saved) : Earlier(saved[n], wire', f_now')
  BY <1>1 DEF OrderInv, InOrder, Earlier
<1>3. SavedInOrder'
  BY <1>1 DEF OrderInv, SavedInOrder
<1> QED BY <1>1, <1>2, <1>3 DEF OrderInv

(* What frame_receiver.c does with a FRAME_DATA: nothing, or it takes some *)
(* of the bytes and may then be done.                                      *)
LEMMA DataEffect ==
  ASSUME IInv, NEW pkt \in SentPacket, ReceiveData(pkt)
  PROVE  \/ ~ fa.active /\ UNCHANGED <<fa, saved>>
         \/ /\ fa.active
            /\ \E data \in Seq(Bytes) :
                 /\ \A i \in 1 .. Len(data) :
                      \/ \E j \in 1 .. Len(fa.data) : data[i] = fa.data[j]
                      \/ \E j \in 1 .. Len(pkt.value) : data[i] = pkt.value[j]
                 /\ \/ fa'.active /\ fa'.data = data /\ saved' = saved
                    \/ ~ fa'.active /\ saved' = Append(saved, data)
<1> DEFINE value == pkt.value
           had == fa.data
           copy == AtMost(Len(value), fa.total - Len(had))
           part == SubSeq(value, 1, copy)
           data == IF Len(had) + copy <= MAX_FRAME THEN had \o part ELSE had
<1>1. value \in Seq(Bytes) /\ Len(value) \in Nat
  BY DEF SentPacket, Packet
<1>2. /\ fa \in [active : BOOLEAN, total : 0 .. MAX_FRAME, data : Seq(Bytes)]
      /\ had \in Seq(Bytes) /\ Len(had) \in Nat /\ Len(had) <= fa.total /\ fa.total \in Nat
  BY LengthAssumption DEF IInv, TypeOK
<1>3. copy \in 0 .. Len(value)
  BY <1>1, <1>2 DEF AtMost
<1>4. part \in Seq(Bytes) /\ Len(part) = copy /\ \A j \in 1 .. copy : part[j] = value[j]
  BY <1>1, <1>3
<1>5. /\ had \o part \in Seq(Bytes) /\ Len(had \o part) = Len(had) + copy
      /\ \A i \in 1 .. Len(had \o part) :
           (had \o part)[i] = IF i <= Len(had) THEN had[i] ELSE part[i - Len(had)]
  BY <1>2, <1>4, ConcatProperties
<1>6. CASE ~ fa.active
  BY <1>6 DEF ReceiveData
<1>7. CASE fa.active
  <2>1. \/ fa' = [fa EXCEPT !.data = data, !.active = TRUE] /\ saved' = saved
        \/ fa' = [fa EXCEPT !.data = data, !.active = FALSE] /\ saved' = Append(saved, data)
    BY ONLY <1>7, ReceiveData(pkt) DEF ReceiveData
  <2> HIDE DEF part, copy, had, value
  <2>2. \A i \in 1 .. Len(had \o part) :
          \/ \E j \in 1 .. Len(had) : (had \o part)[i] = had[j]
          \/ \E j \in 1 .. Len(value) : (had \o part)[i] = value[j]
    <3> SUFFICES ASSUME NEW i \in 1 .. Len(had \o part)
                 PROVE  \/ \E j \in 1 .. Len(had) : (had \o part)[i] = had[j]
                        \/ \E j \in 1 .. Len(value) : (had \o part)[i] = value[j]
      OBVIOUS
    <3>1. CASE i <= Len(had)
      BY <1>2, <1>5, <3>1
    <3>2. CASE ~ (i <= Len(had))
      <4>1. i - Len(had) \in 1 .. copy /\ copy \in 0 .. Len(value) /\ i \in Nat
        BY <1>1, <1>2, <1>3, <1>5, <3>2
      <4>2. i - Len(had) \in 1 .. Len(value)
        BY <1>1, <1>2, <4>1
      <4>3. (had \o part)[i] = value[i - Len(had)]
        BY <1>4, <1>5, <3>2, <4>1
      <4> QED BY <4>2, <4>3
    <3> QED BY <3>1, <3>2
  <2>3. data \in Seq(Bytes)
    BY <1>2, <1>5
  <2>4. \A i \in 1 .. Len(data) :
          \/ \E j \in 1 .. Len(had) : data[i] = had[j]
          \/ \E j \in 1 .. Len(value) : data[i] = value[j]
    BY <2>2
  <2> HIDE DEF data
  <2>5. \/ fa'.active /\ fa'.data = data /\ saved' = saved
        \/ ~ fa'.active /\ saved' = Append(saved, data)
    BY <1>2, <2>1
  <2> QED BY <1>7, <2>3, <2>4, <2>5 DEF had, value
<1> QED BY <1>6, <1>7

(* A frame that is saved is later than all that were saved before it.      *)
LEMMA SaveKeepsOrder ==
  ASSUME IInv, OrderInv, NEW data \in Seq(Bytes), saved' = Append(saved, data),
         \A n \in 1 .. Len(saved) : \A b \in 1 .. Len(data) : Below(saved[n], data[b][1])
  PROVE  SavedInOrder'
<1>1. saved \in Seq(Seq(Bytes)) /\ Len(saved) \in Nat
  BY OrderTypes
<1>2. /\ Len(saved') = Len(saved) + 1 /\ saved'[Len(saved) + 1] = data
      /\ \A k \in 1 .. Len(saved) : saved'[k] = saved[k]
  BY <1>1, AppendIs
<1>3. ASSUME NEW k \in 1 .. Len(saved'), NEW l \in 1 .. Len(saved'), k < l
      PROVE  \A a \in 1 .. Len(saved'[k]), b \in 1 .. Len(saved'[l]) :
               saved'[k][a][1] < saved'[l][b][1]
  <2> DEFINE n == Len(saved)
  <2>0. n \in Nat /\ k \in 1 .. n + 1 /\ l \in 1 .. n + 1 /\ k < l
    BY <1>1, <1>2, <1>3
  <2>1. k \in 1 .. n /\ (l \in 1 .. n \/ l = n + 1)
    BY ONLY <2>0
  <2>2. CASE l \in 1 .. Len(saved)
    BY <1>2, <1>3, <2>1, <2>2 DEF OrderInv, SavedInOrder
  <2>3. CASE l = Len(saved) + 1
    BY <1>2, <2>1, <2>3 DEF Below
  <2> QED BY <2>1, <2>2, <2>3
<1> QED BY <1>3 DEF SavedInOrder

LEMMA DeliverOrder ==
  ASSUME IInv, OrderInv, Deliver
  PROVE  OrderInv'
<1> DEFINE pkt == Head(wire)
<1>1. wire # <<>> /\ wire' = Tail(wire) /\ f_now' = f_now
  BY DEF Deliver, sender, f_now
<1>2. /\ wire \in Seq(SentPacket) /\ f_now \in Nat /\ fa.data \in Seq(Bytes)
      /\ saved \in Seq(Seq(Bytes)) /\ \A n \in 1 .. Len(saved) : saved[n] \in Seq(Bytes)
  BY OrderTypes
<1>3. /\ InOrder(wire, f_now) /\ SavedInOrder
      /\ \A n \in 1 .. Len(saved) :
           /\ Earlier(saved[n], wire, f_now)
           /\ fa.active => Closed(saved[n], wire, f_now, fa.data)
      /\ fa.active => Earlier(fa.data, wire, f_now)
  BY DEF OrderInv
<1>4. /\ InOrder(wire', f_now)
      /\ \A bytes : Earlier(bytes, wire, f_now) => Earlier(bytes, wire', f_now)
      /\ \A bytes, data : Closed(bytes, wire, f_now, data) => Closed(bytes, wire', f_now, data)
  BY <1>1, <1>2, <1>3, TailKeepsOrder
<1>5. pkt \in SentPacket
  BY <1>1, <1>2, TailIs
<1>6. CASE pkt.tag = "START" /\ ReceiveStart(pkt)
  <2>1. saved' = saved /\ fa'.data = <<>>
    BY <1>6 DEF ReceiveStart
  <2>2. \A n \in 1 .. Len(saved) : Closed(saved[n], wire', f_now, <<>>)
    BY <1>1, <1>2, <1>3, <1>6, StartCloses
  <2>3. Earlier(<<>>, wire', f_now)
    BY DEF Earlier, Below
  <2>4. SavedInOrder'
    BY <1>3, <2>1 DEF SavedInOrder
  <2> QED BY <1>1, <1>3, <1>4, <2>1, <2>2, <2>3, <2>4 DEF OrderInv
<1>7. CASE ~ fa.active /\ UNCHANGED <<fa, saved>>
  <2>1. SavedInOrder'
    BY <1>3, <1>7 DEF SavedInOrder
  <2> QED BY <1>1, <1>3, <1>4, <1>7, <2>1 DEF OrderInv
<1>8. ASSUME fa.active, NEW data \in Seq(Bytes),
             \A i \in 1 .. Len(data) :
               \/ \E j \in 1 .. Len(fa.data) : data[i] = fa.data[j]
               \/ \E j \in 1 .. Len(pkt.value) : data[i] = pkt.value[j],
             \/ fa'.active /\ fa'.data = data /\ saved' = saved
             \/ ~ fa'.active /\ saved' = Append(saved, data)
      PROVE  OrderInv'
  <2>1. /\ Earlier(data, wire', f_now)
        /\ \A n \in 1 .. Len(saved) : Closed(saved[n], wire', f_now, data)
    BY <1>1, <1>2, <1>3, <1>8, DataStaysBetween
  <2>2. CASE fa'.active /\ fa'.data = data /\ saved' = saved
    <3>1. SavedInOrder'
      BY <1>3, <2>2 DEF SavedInOrder
    <3> QED BY <1>1, <1>3, <1>4, <2>1, <2>2, <3>1 DEF OrderInv
  <2>3. CASE ~ fa'.active /\ saved' = Append(saved, data)
    <3>1. SavedInOrder'
      BY <1>2, <2>1, <2>3, SaveKeepsOrder DEF Closed
    <3>2. /\ Len(saved) \in Nat /\ Len(saved') = Len(saved) + 1
          /\ saved'[Len(saved) + 1] = data
          /\ \A k \in 1 .. Len(saved) : saved'[k] = saved[k]
      BY <1>2, <2>3, AppendIs
    <3>3. \A n \in 1 .. Len(saved') : n \in 1 .. Len(saved) \/ n = Len(saved) + 1
      BY <3>2
    <3>4. \A n \in 1 .. Len(saved') : Earlier(saved'[n], wire', f_now)
      BY <1>3, <1>4, <2>1, <3>2, <3>3
    <3> QED BY <1>1, <1>4, <2>3, <3>1, <3>4 DEF OrderInv
  <2> QED BY <1>8, <2>2, <2>3
<1>9. CASE pkt.tag = "DATA" /\ ReceiveData(pkt)
  BY <1>5, <1>7, <1>8, <1>9, DataEffect
<1> QED BY <1>6, <1>9 DEF Deliver

LEMMA NextOrder == IInv /\ OrderInv /\ [Next]_vars => OrderInv'
<1> SUFFICES ASSUME IInv, OrderInv, [Next]_vars PROVE OrderInv'
  OBVIOUS
<1>1. CASE UNCHANGED vars
  BY <1>1 DEF vars, OrderInv, SavedInOrder, f_now
<1> QED BY <1>1, SendOrder, DeliverOrder, LoseOrder, ReconnectOrder DEF Next

LEMMA InitOrder == Init => OrderInv
BY DEF Init, OrderInv, SavedInOrder, InOrder, NoFrame, f_now

(* Whatever is lost: no byte is saved twice, and the frames are saved in   *)
(* the order of capture.                                                   *)
THEOREM CaptureOrder == Spec => []SavedInOrder
<1>1. OrderInv => SavedInOrder
  BY DEF OrderInv
<1> QED BY <1>1, InitOrder, NextOrder, Invariance, PTL DEF Spec

-----------------------------------------------------------------------------
(* What was lost.  The wire holds a stretch of what fs_send_frame() sends: *)
(* its first packet, or if it is empty the one that is sent next, is at    *)
(* the front, and a packet in front of that place that has not arrived     *)
(* never will.  A place is a frame and a number: 0 is the start, x + 1 the *)
(* chunk that begins after x bytes.                                        *)

Positions(f) == {x \in 0 .. lengths[f] - 1 : x % CHUNK_SIZE = 0}
Chunk(f, x) == Data(f, x, AtMost(lengths[f] - x, CHUNK_SIZE))
Place(pkt) == <<pkt.frame, IF pkt.tag = "START" THEN 0 ELSE pkt.at + 1>>
Sound(pkt) ==
  \E f \in 1 .. f_now : pkt = ThisStart(f) \/ \E x \in Positions(f) : pkt = Chunk(f, x)

Ahead(f, reach) == IF reach < lengths[f] THEN <<f, reach + 1>> ELSE <<f + 1, 0>>
Following(pkt) == Ahead(pkt.frame, IF pkt.tag = "START" THEN 0 ELSE pkt.at + pkt.total)

SentNext == IF Sending THEN <<f_now, offset + 1>> ELSE <<f_now + 1, 0>>
Front == IF wire = <<>> THEN SentNext ELSE Place(wire[1])
Past(f, n) == f < Front[1] \/ (f = Front[1] /\ n < Front[2])

WireInv ==
  /\ Sending => offset % CHUNK_SIZE = 0
  /\ \A k \in 1 .. Len(wire) :
       /\ Sound(wire[k])
       /\ Following(wire[k]) = IF k < Len(wire) THEN Place(wire[k + 1]) ELSE SentNext

ArrivedInv ==
  /\ \A pkt \in arrived : pkt.frame \in 1 .. f_now
  /\ \A f \in 1 .. f_now :
       /\ ThisStart(f) \in arrived => Past(f, 0)
       /\ \A x \in Positions(f) : Chunk(f, x) \in arrived => Past(f, x + 1)

(* A part of frame f is lost for good.                                     *)
PartLost(f) == \E x \in Positions(f) : Past(f, x + 1) /\ Chunk(f, x) \notin arrived

(* The receiver has frame f as far as it was sent.                         *)
Whole(f) ==
  /\ fa.active /\ fa.total = lengths[f]
  /\ Len(fa.data) \in Positions(f)
  /\ fa.data = [i \in 1 .. Len(fa.data) |-> <<f, i>>]
  /\ Front = <<f, Len(fa.data) + 1>>

(* It lacks a part, so that what is to come of f does not complete it.     *)
Lacking(f) == PartLost(f) /\ (Front[1] = f => Len(fa.data) < Front[2] - 1)

(* The last start that arrived is that of f. *)
Latest(f) ==
  /\ ThisStart(f) \in arrived
  /\ \A g \in 1 .. f_now : f < g => ThisStart(g) \notin arrived

OpenInv ==
  fa.active => \E f \in 1 .. f_now :
                 Latest(f) /\ fa.total = lengths[f] /\ (Whole(f) \/ Lacking(f))

SavedWhole(f) == \E i \in 1 .. Len(saved) : saved[i] = Content(f)

StartedInv ==
  \A f \in 1 .. f_now : ThisStart(f) \in arrived => SavedWhole(f) \/ PartLost(f) \/ Whole(f)

Torn(bytes) ==
  \E f, g \in 1 .. f_now :
    /\ f < g
    /\ ThisStart(f) \in arrived /\ PartLost(f)
    /\ Past(g, 0) /\ ThisStart(g) \notin arrived
    /\ \E j \in 1 .. Len(bytes) : bytes[j][1] = g

SavedInv ==
  \A i \in 1 .. Len(saved) : (\E f \in 1 .. f_now : saved[i] = Content(f)) \/ Torn(saved[i])

LossInv == WireInv /\ ArrivedInv /\ OpenInv /\ StartedInv /\ SavedInv

(* The positions at which fs_send_frame() cuts.                            *)
LEMMA CutsAt ==
  ASSUME NEW x \in Nat, x % CHUNK_SIZE = 0
  PROVE  (x + CHUNK_SIZE) % CHUNK_SIZE = 0
<1> DEFINE c == CHUNK_SIZE
           q == x \div c
           y == x + c
           p == y \div c
           r == y % c
<1>1. c \in Nat \ {0}
  BY ChunkAssumption
<1>2. q \in Int /\ x = c * q
  BY <1>1
<1>3. p \in Int /\ y = c * p + r /\ r \in 0 .. c - 1
  BY <1>1
<1> HIDE DEF c, q, p, r
<1>4. c * (q + 1 - p) = r
  BY <1>1, <1>2, <1>3
<1>5. q + 1 - p \in Int
  BY <1>2, <1>3
<1>6. \A k \in Int : k >= 1 => c * k >= c
  BY <1>1
<1>7. \A k \in Int : k <= -1 => c * k < 0
  BY <1>1
<1>8. q + 1 - p = 0
  BY <1>1, <1>3, <1>4, <1>5, <1>6, <1>7
<1>9. r = 0
  BY <1>1, <1>4, <1>8
<1> QED BY <1>9 DEF r, c

LEMMA FrameIs ==
  ASSUME IInv
  PROVE  /\ f_now \in Nat
         /\ \A f \in 1 .. f_now : lengths[f] \in Nat /\ lengths[f] >= 1
<1>1. lengths \in Seq(Lengths) /\ f_now \in Nat
  BY DEF IInv, TypeOK, f_now
<1>2. ASSUME NEW f \in 1 .. f_now PROVE lengths[f] \in Nat /\ lengths[f] >= 1
  <2>1. lengths[f] \in Lengths
    BY <1>1, ElementOfSeq DEF f_now
  <2>2. lengths[f] \in 1 .. MAX_FRAME
    BY <2>1, LengthAssumption
  <2> QED BY <2>2
<1> QED BY <1>1, <1>2

(* A chunk, and what comes after it.                                       *)
LEMMA ChunkIs ==
  ASSUME IInv, NEW f \in 1 .. f_now, NEW x \in Positions(f)
  PROVE  /\ x \in Nat /\ x < lengths[f] /\ lengths[f] \in Nat /\ f \in Nat
         /\ Chunk(f, x).tag = "DATA" /\ Chunk(f, x).frame = f /\ Chunk(f, x).at = x
         /\ Place(Chunk(f, x)) = <<f, x + 1>>
         /\ Chunk(f, x).total = AtMost(lengths[f] - x, CHUNK_SIZE)
         /\ AtMost(lengths[f] - x, CHUNK_SIZE) \in Nat \ {0}
         /\ Chunk(f, x).value \in Seq(Bytes)
         /\ Len(Chunk(f, x).value) = AtMost(lengths[f] - x, CHUNK_SIZE)
         /\ \A i \in 1 .. Len(Chunk(f, x).value) : Chunk(f, x).value[i] = <<f, x + i>>
         /\ \/ /\ x + CHUNK_SIZE \in Positions(f)
               /\ AtMost(lengths[f] - x, CHUNK_SIZE) = CHUNK_SIZE
               /\ Following(Chunk(f, x)) = <<f, x + CHUNK_SIZE + 1>>
            \/ /\ x + AtMost(lengths[f] - x, CHUNK_SIZE) = lengths[f]
               /\ Following(Chunk(f, x)) = <<f + 1, 0>>
<1> DEFINE n == AtMost(lengths[f] - x, CHUNK_SIZE)
           value == [i \in 1 .. n |-> <<f, x + i>>]
<1>1. /\ f \in Nat \ {0} /\ lengths[f] \in Nat /\ CHUNK_SIZE \in Nat \ {0}
      /\ x \in Nat /\ x < lengths[f] /\ x % CHUNK_SIZE = 0
  BY FrameIs, ChunkAssumption DEF Positions
<1>2. /\ n \in Nat \ {0}
      /\ \/ x + CHUNK_SIZE < lengths[f] /\ n = CHUNK_SIZE
         \/ ~ (x + CHUNK_SIZE < lengths[f]) /\ x + n = lengths[f]
  BY <1>1 DEF AtMost
<1> HIDE DEF n
<1>3. Chunk(f, x) = [tag |-> "DATA", frame |-> f, at |-> x, total |-> n, value |-> value]
  BY DEF Chunk, Data, n
<1>4. value \in Seq(Bytes) /\ Len(value) = n /\ \A i \in 1 .. n : value[i] = <<f, x + i>>
  <2>1. \A i \in 1 .. n : <<f, x + i>> \in Bytes
    BY <1>1, <1>2 DEF Bytes
  <2> QED BY <1>2, <2>1
<1> HIDE DEF value
<1>5. /\ Place(Chunk(f, x)) = <<f, x + 1>>
      /\ Following(Chunk(f, x)) = Ahead(f, x + n)
  BY <1>3 DEF Place, Following
<1>6. CASE x + CHUNK_SIZE < lengths[f] /\ n = CHUNK_SIZE
  <2>1. x + CHUNK_SIZE \in Positions(f)
    BY <1>1, <1>6, CutsAt DEF Positions
  <2>2. Following(Chunk(f, x)) = <<f, x + CHUNK_SIZE + 1>>
    BY <1>1, <1>5, <1>6 DEF Ahead
  <2> QED BY <1>1, <1>2, <1>3, <1>4, <1>5, <1>6, <2>1, <2>2 DEF n
<1>7. CASE ~ (x + CHUNK_SIZE < lengths[f]) /\ x + n = lengths[f]
  <2>1. Following(Chunk(f, x)) = <<f + 1, 0>>
    BY <1>1, <1>5, <1>7 DEF Ahead
  <2> QED BY <1>1, <1>2, <1>3, <1>4, <1>5, <1>7, <2>1 DEF n
<1> QED BY <1>2, <1>6, <1>7

LEMMA StartIs ==
  ASSUME IInv, NEW f \in 1 .. f_now
  PROVE  /\ ThisStart(f).tag = "START" /\ ThisStart(f).frame = f /\ f \in Nat
         /\ ThisStart(f).total = lengths[f]
         /\ Place(ThisStart(f)) = <<f, 0>>
         /\ Following(ThisStart(f)) = <<f, 1>>
         /\ 0 \in Positions(f)
<1>1. f \in Nat \ {0} /\ lengths[f] \in Nat /\ lengths[f] >= 1 /\ CHUNK_SIZE \in Nat \ {0}
  BY FrameIs, ChunkAssumption
<1>2. ThisStart(f) = [tag |-> "START", frame |-> f, at |-> 0, total |-> lengths[f], value |-> <<>>]
  BY DEF ThisStart, Start
<1>3. Following(ThisStart(f)) = Ahead(f, 0)
  BY <1>2 DEF Following
<1>4. Ahead(f, 0) = <<f, 1>>
  BY <1>1 DEF Ahead
<1>5. 0 \in Positions(f)
  <2>1. 0 % CHUNK_SIZE = 0
    BY <1>1
  <2> QED BY <1>1, <2>1 DEF Positions
<1> QED BY <1>1, <1>2, <1>3, <1>4, <1>5 DEF Place

(* A packet is known by its place.                                         *)
LEMMA PlacesDiffer ==
  ASSUME IInv, NEW pkt, Sound(pkt)
  PROVE  /\ \A f \in 1 .. f_now : pkt = ThisStart(f) <=> Place(pkt) = <<f, 0>>
         /\ \A f \in 1 .. f_now : \A x \in Positions(f) :
              pkt = Chunk(f, x) <=> Place(pkt) = <<f, x + 1>>
<1>1. PICK g \in 1 .. f_now : pkt = ThisStart(g) \/ \E y \in Positions(g) : pkt = Chunk(g, y)
  BY DEF Sound
<1>2. CASE pkt = ThisStart(g)
  <2>1. Place(pkt) = <<g, 0>>
    BY <1>2, StartIs
  <2>2. \A f \in 1 .. f_now : pkt = ThisStart(f) <=> Place(pkt) = <<f, 0>>
    BY <1>2, <2>1, StartIs
  <2>3. ASSUME NEW f \in 1 .. f_now, NEW x \in Positions(f)
        PROVE  pkt # Chunk(f, x) /\ Place(pkt) # <<f, x + 1>>
    <3>1. x \in Nat /\ Place(Chunk(f, x)) = <<f, x + 1>>
      BY ChunkIs
    <3>2. x + 1 # 0
      BY <3>1
    <3> QED BY <2>1, <3>1, <3>2
  <2> QED BY <2>2, <2>3
<1>3. ASSUME NEW y \in Positions(g), pkt = Chunk(g, y)
      PROVE  /\ \A f \in 1 .. f_now : pkt = ThisStart(f) <=> Place(pkt) = <<f, 0>>
             /\ \A f \in 1 .. f_now : \A x \in Positions(f) :
                  pkt = Chunk(f, x) <=> Place(pkt) = <<f, x + 1>>
  <2>1. Place(pkt) = <<g, y + 1>> /\ y \in Nat /\ y + 1 # 0
    <3>1. Place(pkt) = <<g, y + 1>> /\ y \in Nat
      BY <1>3, ChunkIs
    <3> QED BY <3>1
  <2>2. \A f \in 1 .. f_now : pkt # ThisStart(f) /\ Place(pkt) # <<f, 0>>
    BY <2>1, StartIs
  <2>3. ASSUME NEW f \in 1 .. f_now, NEW x \in Positions(f)
        PROVE  pkt = Chunk(f, x) <=> Place(pkt) = <<f, x + 1>>
    <3>1. x \in Nat /\ Place(Chunk(f, x)) = <<f, x + 1>>
      BY ChunkIs
    <3>2. y + 1 = x + 1 => y = x
      BY <2>1, <3>1
    <3> QED BY <1>3, <2>1, <3>1, <3>2
  <2> QED BY <2>2, <2>3
<1> QED BY <1>1, <1>2, <1>3

(* The front is a place of a frame that was sent, or the next start.       *)
LEMMA FrontIs ==
  ASSUME IInv, WireInv
  PROVE  /\ \/ wire # <<>> /\ wire[1] = Head(wire) /\ Sound(Head(wire)) /\ Front = Place(Head(wire))
            \/ wire = <<>> /\ Front = SentNext
         /\ \/ \E f \in 1 .. f_now : Front = <<f, 0>> \/ \E x \in Positions(f) : Front = <<f, x + 1>>
            \/ Front = <<f_now + 1, 0>>
<1>1. wire \in Seq(SentPacket)
  BY DEF IInv
<1>2. CASE wire # <<>>
  <2>1. 1 \in 1 .. Len(wire) /\ wire[1] = Head(wire)
    BY <1>1, <1>2, TailIs
  <2>2. Sound(Head(wire)) /\ Front = Place(Head(wire))
    BY <1>2, <2>1 DEF WireInv, Front
  <2>3. PICK f \in 1 .. f_now : \/ Head(wire) = ThisStart(f)
                               \/ \E x \in Positions(f) : Head(wire) = Chunk(f, x)
    BY <2>2 DEF Sound
  <2> QED BY <1>2, <2>1, <2>2, <2>3, StartIs, ChunkIs
<1>3. CASE wire = <<>>
  <2>1. Front = SentNext
    BY <1>3 DEF Front
  <2>2. CASE Sending
    <3>1. f_now \in 1 .. f_now
      BY <2>2, FrameIs DEF Sending
    <3>2. offset \in Positions(f_now)
      <4>1. offset \in Nat
        BY LengthAssumption DEF IInv, TypeOK
      <4>2. lengths[f_now] \in Nat
        BY <3>1, FrameIs
      <4> QED BY <2>2, <4>1, <4>2 DEF Sending, WireInv, Positions
    <3> QED BY <1>3, <2>1, <2>2, <3>1, <3>2 DEF SentNext
  <2> QED BY <1>3, <2>1, <2>2 DEF SentNext
<1> QED BY <1>2, <1>3

(* What the sender's steps do: they append the packet that was next.       *)
Grown == f_now' \in Nat /\ f_now' >= f_now /\ \A f \in 1 .. f_now : lengths'[f] = lengths[f]

LEMMA SameFrame ==
  ASSUME NEW f, lengths'[f] = lengths[f]
  PROVE  /\ ThisStart(f)' = ThisStart(f) /\ Positions(f)' = Positions(f)
         /\ Content(f)' = Content(f)
         /\ \A x : Chunk(f, x)' = Chunk(f, x)
         /\ \A reach : Ahead(f, reach)' = Ahead(f, reach)
BY DEF ThisStart, Positions, Content, Chunk, Ahead

LEMMA SameSound ==
  ASSUME IInv, Grown, NEW pkt, Sound(pkt)
  PROVE  Sound(pkt)' /\ Following(pkt)' = Following(pkt)
<1>1. PICK f \in 1 .. f_now : pkt = ThisStart(f) \/ \E x \in Positions(f) : pkt = Chunk(f, x)
  BY DEF Sound
<1>2. f \in 1 .. f_now' /\ lengths'[f] = lengths[f]
  BY FrameIs DEF Grown
<1>3. Sound(pkt)'
  BY <1>1, <1>2, SameFrame DEF Sound
<1>4. pkt.frame = f
  BY <1>1, StartIs, ChunkIs
<1>5. Following(pkt)' = Following(pkt)
  BY <1>2, <1>4, SameFrame DEF Following
<1> QED BY <1>3, <1>5

LEMMA StartEffect ==
  ASSUME IInv, WireInv, NEW length \in Lengths, SendStart(length)
  PROVE  /\ Grown /\ (Sending => offset % CHUNK_SIZE = 0)'
         /\ f_now' = f_now + 1
         /\ \E pkt \in SentPacket :
              /\ wire' = Append(wire, pkt)
              /\ Place(pkt) = SentNext
              /\ Sound(pkt)' /\ Following(pkt)' = SentNext'
<1>1. /\ lengths \in Seq(Lengths) /\ f_now \in Nat /\ f_now = Len(lengths)
      /\ length \in Nat /\ length > 0 /\ CHUNK_SIZE \in Nat \ {0}
  <2>1. length \in 1 .. MAX_FRAME
    BY LengthAssumption
  <2> QED BY <2>1, ChunkAssumption DEF IInv, TypeOK, f_now
<1>2. PICK g : g = f_now + 1
  OBVIOUS
<1>3. PICK pkt : pkt = Start(g, length)
  OBVIOUS
<1>4. /\ lengths' = Append(lengths, length) /\ offset' = 0 /\ wire' = Append(wire, pkt)
      /\ ~ Sending
  BY <1>2, <1>3 DEF SendStart
<1>5. /\ f_now' = g /\ lengths'[g] = length
      /\ \A f \in 1 .. f_now : lengths'[f] = lengths[f]
  BY <1>1, <1>2, <1>4, AppendProperties DEF f_now
<1>6. Grown
  BY <1>1, <1>2, <1>5 DEF Grown
<1>7. pkt.tag = "START" /\ pkt.frame = g /\ Place(pkt) = <<g, 0>> /\ pkt = ThisStart(g)'
  BY <1>3, <1>5 DEF ThisStart, Start, Place
<1>8. Following(pkt)' = <<g, 1>>
  BY <1>1, <1>5, <1>7 DEF Following, Ahead
<1>9. pkt \in SentPacket
  <2>1. length \in 1 .. MAX_FRAME /\ g \in Nat
    BY <1>1, <1>2, LengthAssumption
  <2> QED BY <1>3, <2>1, LengthAssumption DEF SentPacket, Packet, Start
<1>10. SentNext' = <<g, 1>> /\ SentNext = <<g, 0>>
  BY <1>1, <1>2, <1>4, <1>5 DEF SentNext, Sending
<1>11. offset' % CHUNK_SIZE = 0
  BY <1>1, <1>4
<1>12. Sound(pkt)'
  <2>1. g \in 1 .. f_now'
    BY <1>1, <1>2, <1>5
  <2> QED BY <1>7, <2>1 DEF Sound
<1> QED BY <1>2, <1>4, <1>5, <1>6, <1>7, <1>8, <1>9, <1>10, <1>11, <1>12

LEMMA DataEffectOnWire ==
  ASSUME IInv, WireInv, SendData
  PROVE  /\ Grown /\ (Sending => offset % CHUNK_SIZE = 0)'
         /\ f_now' = f_now
         /\ \E pkt \in SentPacket :
              /\ wire' = Append(wire, pkt)
              /\ Place(pkt) = SentNext
              /\ Sound(pkt)' /\ Following(pkt)' = SentNext'
<1> DEFINE n == AtMost(lengths[f_now] - offset, CHUNK_SIZE)
<1>0. PICK pkt : pkt = Chunk(f_now, offset)
  OBVIOUS
<1>1. /\ Sending /\ lengths' = lengths /\ offset' = offset + n /\ wire' = Append(wire, pkt)
      /\ f_now' = f_now
  BY <1>0 DEF SendData, Chunk, f_now
<1>2. f_now \in 1 .. f_now /\ f_now \in Nat
  BY <1>1, FrameIs DEF Sending
<1>3. offset \in Positions(f_now)
  <2>1. offset \in Nat
    BY LengthAssumption DEF IInv, TypeOK
  <2>2. lengths[f_now] \in Nat
    BY <1>2, FrameIs
  <2> QED BY <1>1, <2>1, <2>2 DEF Sending, WireInv, Positions
<1>4. Grown
  BY <1>1, <1>2 DEF Grown
<1>5. Sound(pkt)
  BY <1>0, <1>2, <1>3 DEF Sound
<1>6. Sound(pkt)' /\ Following(pkt)' = Following(pkt)
  BY <1>4, <1>5, SameSound
<1>7. Place(pkt) = SentNext
  BY <1>0, <1>1, <1>2, <1>3, ChunkIs DEF SentNext
<1>8. pkt \in SentPacket
  BY <1>0, SentDataIsPacket DEF Chunk
<1>9. Sending' <=> offset' < lengths[f_now]
  BY <1>1, <1>2 DEF Sending
<1>10. Following(pkt) = SentNext' /\ (Sending' => offset' % CHUNK_SIZE = 0)
  <2>1. CASE /\ offset + CHUNK_SIZE \in Positions(f_now) /\ n = CHUNK_SIZE
             /\ Following(pkt) = <<f_now, offset + CHUNK_SIZE + 1>>
    <3>1. Sending' /\ offset' % CHUNK_SIZE = 0
      <4>1. lengths[f_now] \in Nat
        BY <1>2, FrameIs
      <4> QED BY <1>1, <1>9, <2>1, <4>1 DEF Positions
    <3> QED BY <1>1, <2>1, <3>1 DEF SentNext
  <2>2. CASE offset + n = lengths[f_now] /\ Following(pkt) = <<f_now + 1, 0>>
    <3>1. ~ Sending'
      <4>1. lengths[f_now] \in Nat
        BY <1>2, FrameIs
      <4> QED BY <1>1, <1>9, <2>2, <4>1
    <3> QED BY <1>1, <2>2, <3>1 DEF SentNext
  <2> QED BY <1>0, <1>2, <1>3, <2>1, <2>2, ChunkIs
<1> QED BY <1>1, <1>4, <1>6, <1>7, <1>8, <1>10

LEMMA SendFront ==
  ASSUME IInv, WireInv, SendData \/ \E length \in Lengths : SendStart(length)
  PROVE  Grown /\ WireInv' /\ Front' = Front /\ (f_now' = f_now \/ f_now' = f_now + 1)
<1>1. /\ Grown /\ (Sending => offset % CHUNK_SIZE = 0)'
      /\ f_now' = f_now \/ f_now' = f_now + 1
      /\ \E pkt \in SentPacket :
           /\ wire' = Append(wire, pkt)
           /\ Place(pkt) = SentNext
           /\ Sound(pkt)' /\ Following(pkt)' = SentNext'
  BY StartEffect, DataEffectOnWire
<1>2. PICK pkt \in SentPacket : /\ wire' = Append(wire, pkt)
                                /\ Place(pkt) = SentNext
                                /\ Sound(pkt)' /\ Following(pkt)' = SentNext'
  BY <1>1
<1>3. wire \in Seq(SentPacket) /\ Len(wire) \in Nat
  BY LenProperties DEF IInv
<1>4. /\ Len(wire') = Len(wire) + 1 /\ wire'[Len(wire) + 1] = pkt /\ wire' # <<>>
      /\ \A k \in 1 .. Len(wire) : wire'[k] = wire[k]
  BY <1>2, <1>3, AppendProperties
<1>5. ASSUME NEW k \in 1 .. Len(wire')
      PROVE  (/\ Sound(wire[k])
              /\ Following(wire[k]) = IF k < Len(wire) THEN Place(wire[k + 1]) ELSE SentNext)'
  <2>1. CASE k = Len(wire) + 1
    <3>1. wire'[k] = pkt /\ ~ (k < Len(wire'))
      BY <1>3, <1>4, <2>1
    <3> QED BY <1>2, <3>1 DEF Sound, Following
  <2>2. CASE k \in 1 .. Len(wire)
    <3>1. PICK q : q = wire[k]
      OBVIOUS
    <3>2. Sound(q) /\ Following(q) = IF k < Len(wire) THEN Place(wire[k + 1]) ELSE SentNext
      BY <2>2, <3>1 DEF WireInv
    <3>3. Sound(q)' /\ Following(q)' = Following(q)
      BY <1>1, <3>2, SameSound
    <3>4. k < Len(wire') /\ wire'[k] = q
      BY <1>3, <1>4, <2>2, <3>1
    <3>5. Place(wire'[k + 1]) = IF k < Len(wire) THEN Place(wire[k + 1]) ELSE SentNext
      <4>1. CASE k < Len(wire)
        BY <1>3, <1>4, <2>2, <4>1
      <4>2. CASE ~ (k < Len(wire))
        <5>1. k = Len(wire)
          BY <1>3, <2>2, <4>2
        <5> QED BY <1>2, <1>4, <4>2, <5>1
      <4> QED BY <4>1, <4>2
    <3> QED BY <3>2, <3>3, <3>4, <3>5 DEF Sound, Following, Place
  <2> QED BY <1>3, <1>4, <2>1, <2>2
<1>6. WireInv'
  BY <1>1, <1>5 DEF WireInv
<1>7. Front' = Front
  <2>1. CASE wire = <<>>
    <3>1. Len(wire) = 0
      BY <2>1
    <3> QED BY <1>2, <1>4, <2>1, <3>1 DEF Front, Place
  <2>2. CASE wire # <<>>
    <3>1. 1 \in 1 .. Len(wire)
      BY <1>3, <2>2, TailIs
    <3> QED BY <1>4, <2>2, <3>1 DEF Front, Place
  <2> QED BY <2>1, <2>2
<1> QED BY <1>1, <1>6, <1>7

(* A packet that is read or dropped moves the front to the one after it.   *)
LEMMA ReadFront ==
  ASSUME IInv, WireInv, wire # <<>>, wire' = Tail(wire), UNCHANGED sender
  PROVE  /\ Grown /\ f_now' = f_now /\ WireInv'
         /\ Sound(Head(wire)) /\ Front = Place(Head(wire)) /\ Front' = Following(Head(wire))
<1>1. /\ wire \in Seq(SentPacket) /\ Len(wire) \in Nat \ {0}
      /\ Len(Tail(wire)) = Len(wire) - 1 /\ Tail(wire) \in Seq(SentPacket)
      /\ Head(wire) = wire[1]
      /\ \A k \in 1 .. Len(Tail(wire)) : k + 1 \in 1 .. Len(wire) /\ Tail(wire)[k] = wire[k + 1]
  BY TailIs DEF IInv
<1>2. lengths' = lengths /\ offset' = offset /\ f_now' = f_now /\ Sending' = Sending
      /\ SentNext' = SentNext
  BY DEF sender, f_now, Sending, SentNext
<1>3. Grown
  BY <1>2, FrameIs DEF Grown
<1>4. \A pkt : Sound(pkt) => Sound(pkt)' /\ Following(pkt)' = Following(pkt)
  BY <1>3, SameSound
<1>5. WireInv'
  <2>1. ASSUME NEW k \in 1 .. Len(wire')
        PROVE  (/\ Sound(wire[k])
                /\ Following(wire[k]) = IF k < Len(wire) THEN Place(wire[k + 1]) ELSE SentNext)'
    <3>1. /\ k \in Nat /\ k + 1 \in 1 .. Len(wire) /\ wire'[k] = wire[k + 1]
          /\ (k < Len(wire') <=> k + 1 < Len(wire))
          /\ k < Len(wire') => wire'[k + 1] = wire[(k + 1) + 1]
      <4>1. k < Len(wire') => k + 1 \in 1 .. Len(wire')
        BY <1>1
      <4> QED BY <1>1, <4>1
    <3>2. PICK q : q = wire[k + 1]
      OBVIOUS
    <3>3. /\ Sound(q)
          /\ Following(q) = IF k + 1 < Len(wire) THEN Place(wire[(k + 1) + 1]) ELSE SentNext
      BY <3>1, <3>2 DEF WireInv
    <3>4. Sound(q)' /\ Following(q)' = Following(q)
      BY <1>4, <3>3
    <3> QED BY <1>2, <3>1, <3>2, <3>3, <3>4 DEF Sound, Following, Place
  <2> QED BY <1>2, <2>1 DEF WireInv
<1>6. Sound(Head(wire)) /\ Front = Place(Head(wire))
  BY FrontIs
<1>7. Front' = Following(Head(wire))
  <2>1. Following(wire[1]) = IF 1 < Len(wire) THEN Place(wire[1 + 1]) ELSE SentNext
    <3>1. 1 \in 1 .. Len(wire)
      BY <1>1
    <3> QED BY <3>1 DEF WireInv
  <2>2. CASE 1 < Len(wire)
    <3>1. 1 \in 1 .. Len(Tail(wire)) /\ Tail(wire)[1] = wire[1 + 1]
      BY <1>1, <2>2
    <3>2. wire' # <<>>
      <4>1. Len(wire') # 0
        <5>1. Len(wire') = Len(wire) - 1
          BY <1>1
        <5>2. Len(wire) \in Nat
          BY <1>1
        <5> QED BY ONLY <2>2, <5>1, <5>2
      <4>2. Len(<<>>) = 0
        OBVIOUS
      <4> QED BY <4>1, <4>2
    <3>3. Front' = Place(wire'[1])
      BY <3>2 DEF Front, Place
    <3> QED BY <1>1, <2>1, <2>2, <3>1, <3>3
  <2>3. CASE ~ (1 < Len(wire))
    <3>1. wire' = <<>>
      BY <1>1, <2>3, EmptySeq
    <3>2. Front' = SentNext'
      BY <3>1 DEF Front
    <3> QED BY <1>1, <1>2, <2>1, <2>3, <3>2
  <2> QED BY <2>2, <2>3
<1> QED BY <1>2, <1>3, <1>5, <1>6, <1>7

LEMMA ReconnectFront ==
  ASSUME IInv, WireInv, Reconnect
  PROVE  Grown /\ f_now' = f_now /\ WireInv' /\ Front' = <<f_now + 1, 0>>
<1>1. wire' = <<>> /\ lengths' = lengths /\ f_now' = f_now /\ offset' = lengths[f_now] /\ f_now > 0
  BY DEF Reconnect, f_now
<1>2. f_now \in 1 .. f_now /\ lengths[f_now] \in Nat
  BY <1>1, FrameIs
<1>3. ~ Sending'
  BY <1>1, <1>2 DEF Sending
<1>4. WireInv'
  BY <1>1, <1>3 DEF WireInv
<1>5. Front' = <<f_now + 1, 0>>
  BY <1>1, <1>3 DEF Front, SentNext
<1> QED BY <1>1, <1>2, <1>4, <1>5, FrameIs DEF Grown

(* What is past stays past, and what is past and has not arrived never     *)
(* does.                                                                   *)
Remembered ==
  /\ Grown
  /\ arrived \subseteq arrived'
  /\ \A f \in 1 .. f_now :
       /\ \A n \in Nat : Past(f, n) => Past(f, n)'
       /\ Past(f, 0) /\ ThisStart(f) \notin arrived => ThisStart(f) \notin arrived'
       /\ \A x \in Positions(f) :
            Past(f, x + 1) /\ Chunk(f, x) \notin arrived => Chunk(f, x) \notin arrived'

LEMMA LossesStay ==
  ASSUME IInv, Remembered
  PROVE  /\ \A f \in 1 .. f_now : /\ f \in 1 .. f_now'
                                  /\ ThisStart(f) \in arrived => ThisStart(f)' \in arrived'
                                  /\ PartLost(f) => PartLost(f)'
         /\ \A bytes : Torn(bytes) => Torn(bytes)'
<1>1. ASSUME NEW f \in 1 .. f_now
      PROVE  /\ f \in 1 .. f_now' /\ lengths'[f] = lengths[f]
             /\ ThisStart(f)' = ThisStart(f)
             /\ ThisStart(f) \in arrived => ThisStart(f)' \in arrived'
  <2>1. f \in 1 .. f_now' /\ lengths'[f] = lengths[f]
    BY FrameIs DEF Remembered, Grown
  <2> QED BY <2>1, SameFrame DEF Remembered
<1>2. ASSUME NEW f \in 1 .. f_now, PartLost(f) PROVE PartLost(f)'
  <2>1. PICK x \in Positions(f) : Past(f, x + 1) /\ Chunk(f, x) \notin arrived
    BY <1>2 DEF PartLost
  <2>2. x \in Nat /\ x + 1 \in Nat
    <3>1. x \in Nat
      BY ChunkIs
    <3> QED BY <3>1
  <2>3. Chunk(f, x)' = Chunk(f, x) /\ x \in Positions(f)'
    BY <1>1, SameFrame
  <2>4. PICK n \in Nat : n = x + 1
    BY <2>2
  <2>5. Past(f, n)' /\ Chunk(f, x) \notin arrived'
    BY <2>1, <2>4 DEF Remembered
  <2> QED BY <2>3, <2>4, <2>5 DEF PartLost, Past
<1>3. ASSUME NEW bytes, Torn(bytes) PROVE Torn(bytes)'
  <2>1. PICK f \in 1 .. f_now, g \in 1 .. f_now :
          /\ f < g
          /\ ThisStart(f) \in arrived /\ PartLost(f)
          /\ Past(g, 0) /\ ThisStart(g) \notin arrived
          /\ \E j \in 1 .. Len(bytes) : bytes[j][1] = g
    BY <1>3 DEF Torn
  <2>2. Past(g, 0)' /\ ThisStart(g)' \notin arrived'
    <3>1. ThisStart(g) \notin arrived'
      BY <2>1 DEF Remembered
    <3>2. Past(g, 0)'
      BY <2>1 DEF Remembered
    <3> QED BY <1>1, <3>1, <3>2
  <2> QED BY <1>1, <1>2, <2>1, <2>2 DEF Torn
<1> QED BY <1>1, <1>2, <1>3

(* What was saved stays accounted for, and so is what is added.            *)
LEMMA SavedStay ==
  ASSUME IInv, Remembered, SavedInv,
         \/ saved' = saved
         \/ \E data \in Seq(Bytes) :
              /\ saved' = Append(saved, data)
              /\ (\E f \in 1 .. f_now : data = Content(f)) \/ Torn(data)'
  PROVE  /\ SavedInv'
         /\ \A f \in 1 .. f_now : SavedWhole(f) => SavedWhole(f)'
<1>1. saved \in Seq(Seq(Bytes)) /\ Len(saved) \in Nat
  BY LenProperties DEF IInv, TypeOK
<1>2. \A f \in 1 .. f_now : f \in 1 .. f_now' /\ Content(f)' = Content(f)
  BY FrameIs, SameFrame DEF Remembered, Grown
<1>3. ASSUME NEW bytes, (\E f \in 1 .. f_now : bytes = Content(f)) \/ Torn(bytes)
      PROVE  (\E f \in 1 .. f_now' : bytes = Content(f)') \/ Torn(bytes)'
  BY <1>2, <1>3, LossesStay
<1>4. CASE saved' = saved
  <2>1. ASSUME NEW i \in 1 .. Len(saved')
        PROVE  ((\E f \in 1 .. f_now : saved[i] = Content(f)) \/ Torn(saved[i]))'
    <3>1. PICK bytes : bytes = saved[i]
      OBVIOUS
    <3>2. (\E f \in 1 .. f_now : bytes = Content(f)) \/ Torn(bytes)
      BY <1>4, <2>1, <3>1 DEF SavedInv
    <3>3. (\E f \in 1 .. f_now' : bytes = Content(f)') \/ Torn(bytes)'
      BY <1>3, <3>2
    <3> QED BY <1>4, <3>1, <3>3 DEF Torn
  <2> QED BY <1>2, <1>4, <2>1 DEF SavedInv, SavedWhole
<1>5. ASSUME NEW data \in Seq(Bytes), saved' = Append(saved, data),
             (\E f \in 1 .. f_now : data = Content(f)) \/ Torn(data)'
      PROVE  SavedInv' /\ \A f \in 1 .. f_now : SavedWhole(f) => SavedWhole(f)'
  <2>1. /\ Len(saved') = Len(saved) + 1 /\ saved'[Len(saved) + 1] = data
        /\ \A k \in 1 .. Len(saved) : saved'[k] = saved[k]
    BY <1>1, <1>5, AppendIs
  <2>2. ASSUME NEW i \in 1 .. Len(saved')
        PROVE  ((\E f \in 1 .. f_now : saved[i] = Content(f)) \/ Torn(saved[i]))'
    <3>1. CASE i = Len(saved) + 1
      <4>1. (\E f \in 1 .. f_now' : data = Content(f)') \/ Torn(data)'
        BY <1>2, <1>5
      <4> QED BY <2>1, <3>1, <4>1 DEF Torn
    <3>2. CASE i \in 1 .. Len(saved)
      <4>1. PICK bytes : bytes = saved[i]
        OBVIOUS
      <4>2. (\E f \in 1 .. f_now : bytes = Content(f)) \/ Torn(bytes)
        BY <3>2, <4>1 DEF SavedInv
      <4>3. (\E f \in 1 .. f_now' : bytes = Content(f)') \/ Torn(bytes)'
        BY <1>3, <4>2
      <4> QED BY <2>1, <3>2, <4>1, <4>3 DEF Torn
    <3> QED BY <1>1, <2>1, <3>1, <3>2
  <2>3. ASSUME NEW f \in 1 .. f_now, SavedWhole(f) PROVE SavedWhole(f)'
    <3>1. PICK i \in 1 .. Len(saved) : saved[i] = Content(f)
      BY <2>3 DEF SavedWhole
    <3>2. i \in 1 .. Len(saved') /\ saved'[i] = saved[i]
      BY <1>1, <2>1
    <3> QED BY <1>2, <3>1, <3>2 DEF SavedWhole
  <2> QED BY <2>2, <2>3 DEF SavedInv
<1> QED BY <1>4, <1>5

(* Reading or dropping a packet: the front moves, and only this packet can *)
(* have arrived.                                                           *)
LEMMA ReadMoves ==
  ASSUME IInv, WireInv, ArrivedInv, wire # <<>>, wire' = Tail(wire), UNCHANGED sender,
         arrived' = arrived \/ arrived' = arrived \cup {Head(wire)}
  PROVE  /\ Remembered /\ ArrivedInv'
         /\ \A f \in 1 .. f_now : \A x \in Positions(f) : Front = <<f, x + 1>> => Past(f, x + 1)'
         /\ \E g \in 1 .. f_now, m \in Nat, k \in Nat :
              Front = <<g, m>> /\ ((Front' = <<g, k>> /\ m < k) \/ Front' = <<g + 1, 0>>)
<1> DEFINE pkt == Head(wire)
<1>1. /\ Grown /\ f_now' = f_now /\ lengths' = lengths
      /\ Sound(pkt) /\ Front = Place(pkt) /\ Front' = Following(pkt)
  BY ReadFront DEF sender
<1>2. f_now \in Nat
  BY FrameIs
<1> HIDE DEF pkt
<1>3. \A f \in 1 .. f_now : /\ ThisStart(f)' = ThisStart(f) /\ Positions(f)' = Positions(f)
                            /\ \A x : Chunk(f, x)' = Chunk(f, x)
  BY <1>1, SameFrame
<1>4. /\ \A f \in 1 .. f_now : \A n \in Nat : Past(f, n) => Past(f, n)'
      /\ \A f \in 1 .. f_now : Front = <<f, 0>> => Past(f, 0)'
      /\ \A f \in 1 .. f_now : \A x \in Positions(f) : Front = <<f, x + 1>> => Past(f, x + 1)'
      /\ \E g \in 1 .. f_now, m \in Nat, k \in Nat :
           Front = <<g, m>> /\ ((Front' = <<g, k>> /\ m < k) \/ Front' = <<g + 1, 0>>)
  <2>1. PICK g \in 1 .. f_now : pkt = ThisStart(g) \/ \E y \in Positions(g) : pkt = Chunk(g, y)
    BY <1>1 DEF Sound
  <2>2. g \in Nat /\ \A f \in 1 .. f_now : f \in Nat
    BY <1>2
  <2>3. PICK m \in Nat, k \in Nat :
          Front = <<g, m>> /\ ((Front' = <<g, k>> /\ m < k) \/ Front' = <<g + 1, 0>>)
    <3>1. CASE pkt = ThisStart(g)
      <4>1. Front = <<g, 0>> /\ Front' = <<g, 1>>
        BY <1>1, <3>1, StartIs
      <4>2. 0 \in Nat /\ 1 \in Nat /\ 0 < 1
        OBVIOUS
      <4> QED BY <4>1, <4>2
    <3>2. ASSUME NEW y \in Positions(g), pkt = Chunk(g, y)
          PROVE  \E m \in Nat, k \in Nat :
                   Front = <<g, m>> /\ ((Front' = <<g, k>> /\ m < k) \/ Front' = <<g + 1, 0>>)
      <4>1. /\ y \in Nat /\ Front = <<g, y + 1>>
            /\ Front' = <<g, y + CHUNK_SIZE + 1>> \/ Front' = <<g + 1, 0>>
        BY <1>1, <3>2, ChunkIs
      <4>2. y + 1 \in Nat /\ y + CHUNK_SIZE + 1 \in Nat /\ y + 1 < y + CHUNK_SIZE + 1
        BY <4>1, ChunkAssumption
      <4> QED BY <4>1, <4>2
    <3> QED BY <2>1, <3>1, <3>2
  <2>4. ASSUME NEW f \in 1 .. f_now, NEW n \in Nat,
               f < g \/ (f = g /\ n <= m)
        PROVE  Past(f, n)'
    <3>1. CASE Front' = <<g, k>> /\ m < k
      BY <2>2, <2>4, <3>1 DEF Past
    <3>2. CASE Front' = <<g + 1, 0>>
      BY <2>2, <2>4, <3>2 DEF Past
    <3> QED BY <2>3, <3>1, <3>2
  <2>5. \A f \in 1 .. f_now : \A n \in Nat : Past(f, n) => f < g \/ (f = g /\ n <= m)
    BY <2>3 DEF Past
  <2>6. \A f \in 1 .. f_now : \A x \in Positions(f) : x + 1 \in Nat
    BY ChunkIs
  <2>7. ASSUME NEW f \in 1 .. f_now, NEW n \in Nat, Front = <<f, n>> PROVE Past(f, n)'
    <3>1. f = g /\ n <= m
      BY <2>3, <2>7
    <3> QED BY <2>4, <3>1
  <2>8. ASSUME NEW f \in 1 .. f_now, NEW x \in Positions(f), Front = <<f, x + 1>>
        PROVE  Past(f, x + 1)'
    <3>1. PICK n \in Nat : n = x + 1
      BY <2>6
    <3>2. Past(f, n)'
      BY <2>7, <2>8, <3>1
    <3> QED BY <3>1, <3>2 DEF Past
  <2> QED BY <2>3, <2>4, <2>5, <2>7, <2>8
<1>5. /\ \A f \in 1 .. f_now : pkt = ThisStart(f) <=> Front = <<f, 0>>
      /\ \A f \in 1 .. f_now : \A x \in Positions(f) : pkt = Chunk(f, x) <=> Front = <<f, x + 1>>
  BY <1>1, PlacesDiffer
<1>6. arrived \subseteq arrived' /\ \A q \in arrived' : q \in arrived \/ q = pkt
  BY DEF pkt
<1>7. ASSUME NEW f \in 1 .. f_now
      PROVE  /\ Past(f, 0) => pkt # ThisStart(f)
             /\ \A x \in Positions(f) : Past(f, x + 1) => pkt # Chunk(f, x)
  <2>1. \A n : Past(f, n) => Front # <<f, n>>
    <3> SUFFICES ASSUME NEW n, Past(f, n), Front = <<f, n>> PROVE FALSE
      OBVIOUS
    <3>1. f < f \/ n < n
      BY DEF Past
    <3>2. n \in Nat
      <4>1. Front[2] \in Nat
        <5>1. WireInv
          OBVIOUS
        <5>2. \/ \E h \in 1 .. f_now : Front = <<h, 0>> \/ \E x \in Positions(h) : Front = <<h, x + 1>>
              \/ Front = <<f_now + 1, 0>>
          BY FrontIs
        <5>3. \A h \in 1 .. f_now : \A x \in Positions(h) : x + 1 \in Nat
          BY ChunkIs
        <5> QED BY <5>2, <5>3
      <4> QED BY <4>1
    <3> QED BY <1>2, <3>1, <3>2
  <2> QED BY <1>5, <2>1
<1>8. Remembered
  BY <1>1, <1>4, <1>6, <1>7 DEF Remembered
<1>9. ArrivedInv'
  <2>1. \A q \in arrived' : q.frame \in 1 .. f_now'
    <3>1. pkt.frame \in 1 .. f_now
      <4>1. PICK g \in 1 .. f_now : pkt = ThisStart(g) \/ \E y \in Positions(g) : pkt = Chunk(g, y)
        BY <1>1 DEF Sound
      <4> QED BY <4>1, StartIs, ChunkIs
    <3> QED BY <1>1, <1>6, <3>1 DEF ArrivedInv
  <2>2. ASSUME NEW f \in 1 .. f_now
        PROVE  /\ ThisStart(f) \in arrived' => Past(f, 0)'
               /\ \A x \in Positions(f) : Chunk(f, x) \in arrived' => Past(f, x + 1)'
    <3>1. ThisStart(f) \in arrived' => Past(f, 0)'
      <4>1. ThisStart(f) \in arrived => Past(f, 0)
        BY DEF ArrivedInv
      <4>2. Past(f, 0) => Past(f, 0)'
        BY <1>4
      <4> QED BY <1>4, <1>5, <1>6, <4>1, <4>2
    <3>2. ASSUME NEW x \in Positions(f), Chunk(f, x) \in arrived' PROVE Past(f, x + 1)'
      <4>1. CASE Chunk(f, x) \in arrived
        <5>1. Past(f, x + 1) /\ x + 1 \in Nat
          BY <4>1, ChunkIs DEF ArrivedInv
        <5>2. PICK n \in Nat : n = x + 1
          BY <5>1
        <5>3. Past(f, n)'
          BY <1>4, <5>1, <5>2
        <5> QED BY <5>2, <5>3 DEF Past
      <4>2. CASE pkt = Chunk(f, x)
        BY <1>4, <1>5, <4>2
      <4> QED BY <1>6, <3>2, <4>1, <4>2
    <3> QED BY <3>1, <3>2
  <2>3. f_now' = f_now
    BY <1>1
  <2> QED BY <1>3, <2>1, <2>2, <2>3 DEF ArrivedInv
<1> QED BY <1>4, <1>8, <1>9

(* What frame_receiver.c keeps of a FRAME_DATA in an open frame.           *)
LEMMA DataKept ==
  ASSUME IInv, fa.active, NEW pkt \in SentPacket, pkt.tag = "DATA", ReceiveData(pkt)
  PROVE  LET had == fa.data
             value == pkt.value
             copy == AtMost(Len(value), fa.total - Len(had))
             data == had \o SubSeq(value, 1, copy)
         IN  /\ had \in Seq(Bytes) /\ Len(had) \in Nat /\ Len(had) < fa.total /\ fa.total \in Nat
             /\ Len(value) \in Nat \ {0}
             /\ copy \in Nat \ {0} /\ copy <= Len(value)
             /\ data \in Seq(Bytes) /\ Len(data) = Len(had) + copy
             /\ \A i \in 1 .. Len(had) : data[i] = had[i]
             /\ \A i \in 1 .. copy : data[Len(had) + i] = value[i]
             /\ \/ /\ Len(had) + copy < fa.total
                   /\ fa' = [fa EXCEPT !.data = data, !.active = TRUE] /\ saved' = saved
                \/ /\ Len(had) + copy = fa.total
                   /\ fa' = [fa EXCEPT !.data = data, !.active = FALSE]
                   /\ saved' = Append(saved, data)
<1> DEFINE had == fa.data
           value == pkt.value
           total == fa.total
           copy == AtMost(Len(value), total - Len(had))
           part == SubSeq(value, 1, copy)
           data == had \o part
<1>1. value \in Seq(Bytes) /\ Len(value) \in Nat \ {0}
  <2>1. value \in Seq(Bytes) /\ Len(value) > 0
    BY DEF SentPacket, Packet
  <2> QED BY <2>1, LenProperties
<1>2. /\ fa \in [active : BOOLEAN, total : 0 .. MAX_FRAME, data : Seq(Bytes)]
      /\ had \in Seq(Bytes) /\ Len(had) \in Nat /\ Len(had) < total /\ total \in Nat
      /\ total <= MAX_FRAME
  BY LengthAssumption DEF IInv, TypeOK, Alike
<1>3. copy \in Nat \ {0} /\ copy <= Len(value) /\ Len(had) + copy <= total
  BY <1>1, <1>2 DEF AtMost
<1>4. part \in Seq(Bytes) /\ Len(part) = copy /\ \A j \in 1 .. copy : part[j] = value[j]
  BY <1>1, <1>3
<1>5. /\ data \in Seq(Bytes) /\ Len(data) = Len(had) + copy
      /\ \A i \in 1 .. Len(had) + copy : data[i] = IF i <= Len(had) THEN had[i] ELSE part[i - Len(had)]
  BY <1>2, <1>4, ConcatProperties
<1>6. Len(had) + copy <= MAX_FRAME
  BY <1>2, <1>3, LengthAssumption
<1>7. /\ Len(data) >= total =>
           fa' = [fa EXCEPT !.data = data, !.active = FALSE] /\ saved' = Append(saved, data)
      /\ ~ (Len(data) >= total) =>
           fa' = [fa EXCEPT !.data = data, !.active = TRUE] /\ saved' = saved
  BY ONLY <1>6, fa.active, ReceiveData(pkt) DEF ReceiveData
<1> HIDE DEF data, part, copy, had, value, total
<1>8. \A i \in 1 .. Len(had) : data[i] = had[i]
  BY <1>2, <1>3, <1>5
<1>9. \A i \in 1 .. copy : data[Len(had) + i] = value[i]
  <2> SUFFICES ASSUME NEW i \in 1 .. copy PROVE data[Len(had) + i] = value[i]
    OBVIOUS
  <2>1. /\ Len(had) + i \in 1 .. Len(had) + copy /\ ~ (Len(had) + i <= Len(had))
        /\ (Len(had) + i) - Len(had) = i
    BY <1>2, <1>3
  <2> QED BY <1>4, <1>5, <2>1
<1>10. \/ /\ Len(had) + copy < total
          /\ fa' = [fa EXCEPT !.data = data, !.active = TRUE] /\ saved' = saved
       \/ /\ Len(had) + copy = total
          /\ fa' = [fa EXCEPT !.data = data, !.active = FALSE]
          /\ saved' = Append(saved, data)
  BY <1>2, <1>3, <1>5, <1>7
<1> QED BY <1>1, <1>2, <1>3, <1>5, <1>8, <1>9, <1>10 DEF data, part, copy, had, value, total

(* A frame of which nothing is lost goes on, or is complete.               *)
LEMMA WholeGoesOn ==
  ASSUME IInv, WireInv, wire # <<>>, wire' = Tail(wire), UNCHANGED sender,
         NEW f \in 1 .. f_now, Whole(f), Head(wire).tag = "DATA", ReceiveData(Head(wire))
  PROVE  \/ Whole(f)' /\ saved' = saved /\ fa'.total = lengths[f]
         \/ /\ ~ fa'.active /\ saved' = Append(saved, Content(f)) /\ Content(f) \in Seq(Bytes)
            /\ SavedWhole(f)'
<1>0. PICK pkt : pkt = Head(wire)
  OBVIOUS
<1>1. /\ Sound(pkt) /\ Front = Place(pkt) /\ Front' = Following(pkt)
      /\ lengths' = lengths /\ f_now' = f_now /\ pkt \in SentPacket
  BY <1>0, ReadFront, TailIs DEF sender, IInv
<1> DEFINE had == fa.data
<1>2. PICK x : x = Len(had)
  OBVIOUS
<1>3. PICK n : n = AtMost(lengths[f] - x, CHUNK_SIZE)
  OBVIOUS
<1>4. /\ fa.active /\ fa.total = lengths[f] /\ x \in Positions(f)
      /\ had = [i \in 1 .. x |-> <<f, i>>] /\ Front = <<f, x + 1>>
  BY <1>2 DEF Whole
<1>5. pkt = Chunk(f, x)
  BY <1>1, <1>4, PlacesDiffer
<1>6. /\ x \in Nat /\ x < lengths[f] /\ lengths[f] \in Nat /\ f \in Nat
      /\ n \in Nat \ {0}
      /\ Len(pkt.value) = n
      /\ \A i \in 1 .. n : pkt.value[i] = <<f, x + i>>
      /\ \/ x + CHUNK_SIZE \in Positions(f) /\ n = CHUNK_SIZE /\ Following(pkt) = <<f, x + CHUNK_SIZE + 1>>
         \/ x + n = lengths[f]
  <2>1. PICK q : q = Chunk(f, x)
    OBVIOUS
  <2>2. /\ x \in Nat /\ x < lengths[f] /\ lengths[f] \in Nat /\ f \in Nat /\ n \in Nat \ {0}
    BY <1>3, <1>4, ChunkIs
  <2>3. Len(q.value) = n /\ \A i \in 1 .. n : q.value[i] = <<f, x + i>>
    BY <1>3, <1>4, <2>1, ChunkIs
  <2>4. \/ /\ x + CHUNK_SIZE \in Positions(f) /\ n = CHUNK_SIZE
           /\ Following(q) = <<f, x + CHUNK_SIZE + 1>>
        \/ x + n = lengths[f]
    BY <1>3, <1>4, <2>1, ChunkIs
  <2> QED BY ONLY <1>5, <2>1, <2>2, <2>3, <2>4
<1>7. AtMost(n, lengths[f] - x) = n
  BY <1>3, <1>6, ChunkAssumption DEF AtMost
<1> DEFINE data == had \o SubSeq(pkt.value, 1, n)
<1>8. /\ had \in Seq(Bytes) /\ data \in Seq(Bytes) /\ Len(data) = x + n
      /\ \A i \in 1 .. x : data[i] = had[i]
      /\ \A i \in 1 .. n : data[x + i] = pkt.value[i]
      /\ \/ /\ x + n < fa.total
            /\ fa' = [fa EXCEPT !.data = data, !.active = TRUE] /\ saved' = saved
         \/ /\ x + n = fa.total
            /\ fa' = [fa EXCEPT !.data = data, !.active = FALSE]
            /\ saved' = Append(saved, data)
  <2>1. AtMost(Len(pkt.value), fa.total - Len(had)) = n
    BY <1>2, <1>4, <1>6, <1>7
  <2>2. ReceiveData(pkt) /\ pkt.tag = "DATA"
    BY <1>0
  <2> QED BY <1>1, <1>2, <1>4, <2>1, <2>2, DataKept
<1> HIDE DEF data, had
<1>9. data = [i \in 1 .. x + n |-> <<f, i>>]
  <2> DEFINE all == [i \in 1 .. x + n |-> <<f, i>>]
  <2>1. all \in Seq(Bytes) /\ Len(all) = x + n
    <3>1. f \in Nat \ {0} /\ x + n \in Nat
      BY <1>6
    <3>2. PICK m \in Nat : m = x + n
      BY <3>1
    <3>3. [i \in 1 .. m |-> <<f, i>>] \in Seq(Bytes) /\ Len([i \in 1 .. m |-> <<f, i>>]) = m
      <4>1. \A i \in 1 .. m : <<f, i>> \in Bytes
        BY <3>1 DEF Bytes
      <4> QED BY <4>1
    <3> QED BY <3>2, <3>3
  <2>2. ASSUME NEW i \in 1 .. x + n PROVE data[i] = all[i]
    <3>1. CASE i \in 1 .. x
      BY <1>4, <1>8, <3>1
    <3>2. CASE ~ (i \in 1 .. x)
      <4>1. i - x \in 1 .. n /\ x + (i - x) = i
        BY <1>6, <3>2
      <4> QED BY <1>6, <1>8, <4>1
    <3> QED BY <3>1, <3>2
  <2> QED BY <1>8, <2>1, <2>2, SeqEqual
<1>10. /\ fa \in [active : BOOLEAN, total : 0 .. MAX_FRAME, data : Seq(Bytes)]
       /\ saved \in Seq(Seq(Bytes))
  BY DEF IInv, TypeOK
<1>11. CASE x + n = lengths[f]
  <2>1. data = Content(f)
    BY <1>9, <1>11 DEF Content
  <2>2. fa' = [fa EXCEPT !.data = data, !.active = FALSE] /\ saved' = Append(saved, data)
    <3>1. ~ (x + n < fa.total)
      BY <1>4, <1>6, <1>11
    <3> QED BY <1>8, <3>1
  <2>3. ~ fa'.active /\ saved' = Append(saved, Content(f)) /\ Content(f) \in Seq(Bytes)
    BY <1>8, <1>10, <2>1, <2>2
  <2>4. /\ Len(saved') = Len(saved) + 1 /\ Len(saved) \in Nat
        /\ saved'[Len(saved) + 1] = Content(f)
    BY <1>10, <2>3, AppendProperties, LenProperties
  <2>5. Content(f)' = Content(f)
    BY <1>1 DEF Content
  <2>6. SavedWhole(f)'
    <3>1. Len(saved) + 1 \in 1 .. Len(saved')
      BY <2>4
    <3> QED BY <2>4, <2>5, <3>1 DEF SavedWhole
  <2> QED BY <2>3, <2>6
<1>12. CASE x + CHUNK_SIZE \in Positions(f) /\ n = CHUNK_SIZE /\ Following(pkt) = <<f, x + CHUNK_SIZE + 1>>
  <2>1. x + n < lengths[f]
    BY <1>6, <1>12 DEF Positions
  <2>2. ~ (x + n = fa.total)
    BY <1>4, <1>6, <2>1
  <2>3. fa' = [fa EXCEPT !.data = data, !.active = TRUE] /\ saved' = saved
    BY <1>8, <2>2
  <2>4. /\ fa'.active /\ fa'.data = data /\ fa'.total = fa.total
        /\ Len(fa'.data) = x + n
    BY <1>8, <1>10, <2>3
  <2>5. Positions(f)' = Positions(f)
    BY <1>1 DEF Positions
  <2>6. Whole(f)'
    BY <1>1, <1>4, <1>9, <1>12, <2>4, <2>5 DEF Whole
  <2> QED BY <1>4, <2>3, <2>4, <2>6
<1> QED BY <1>6, <1>11, <1>12

(* A chunk less for a frame of which nothing was lost: now it is.          *)
LEMMA WholeLoses ==
  ASSUME IInv, ArrivedInv, Remembered, arrived' = arrived,
         NEW f \in 1 .. f_now, Whole(f), NEW x, x = Len(fa.data), Past(f, x + 1)'
  PROVE  PartLost(f)'
<1>1. x \in Positions(f) /\ Front = <<f, x + 1>>
  BY DEF Whole
<1>2. x \in Nat /\ f \in Nat
  BY <1>1, ChunkIs
<1>3. ~ Past(f, x + 1)
  BY <1>1, <1>2 DEF Past
<1>4. Chunk(f, x) \notin arrived
  BY <1>1, <1>3 DEF ArrivedInv
<1>5. f \in 1 .. f_now' /\ lengths'[f] = lengths[f]
  BY FrameIs DEF Remembered, Grown
<1>6. x \in Positions(f)' /\ Chunk(f, x)' = Chunk(f, x)
  BY <1>1, <1>5, SameFrame
<1> QED BY <1>4, <1>6 DEF PartLost

(* A frame of which a part was lost stays short of its end as long as only *)
(* its own bytes come, and bytes of a later one make a torn frame.         *)
LEMMA LackingGoesOn ==
  ASSUME IInv, WireInv, ArrivedInv, Remembered, wire # <<>>, wire' = Tail(wire), UNCHANGED sender,
         NEW f \in 1 .. f_now, Latest(f), Lacking(f), fa.active, fa.total = lengths[f],
         Head(wire).tag = "DATA", ReceiveData(Head(wire)), arrived' = arrived \cup {Head(wire)}
  PROVE  \/ Lacking(f)' /\ saved' = saved /\ fa'.total = lengths[f]
         \/ ~ fa'.active /\ \E data \in Seq(Bytes) : saved' = Append(saved, data) /\ Torn(data)'
<1>0. PICK pkt : pkt = Head(wire)
  OBVIOUS
<1>1. /\ Sound(pkt) /\ Front = Place(pkt) /\ Front' = Following(pkt)
      /\ lengths' = lengths /\ f_now' = f_now /\ pkt \in SentPacket
  BY <1>0, ReadFront, TailIs DEF sender, IInv
<1>13. PICK g \in 1 .. f_now : \E y \in Positions(g) : pkt = Chunk(g, y)
  <2>1. PICK g \in 1 .. f_now : pkt = ThisStart(g) \/ \E y \in Positions(g) : pkt = Chunk(g, y)
    BY <1>1 DEF Sound
  <2>2. pkt # ThisStart(g)
    BY <1>0, <2>1, StartIs
  <2> QED BY <2>1, <2>2
<1>2. PICK y \in Positions(g) : pkt = Chunk(g, y)
  BY <1>13
<1>3. PICK n : n = AtMost(lengths[g] - y, CHUNK_SIZE)
  OBVIOUS
<1>4. /\ y \in Nat /\ y < lengths[g] /\ lengths[g] \in Nat /\ g \in Nat
      /\ n \in Nat \ {0}
      /\ Len(pkt.value) = n
      /\ Front = <<g, y + 1>>
      /\ \A i \in 1 .. n : pkt.value[i] = <<g, y + i>>
      /\ \/ n = CHUNK_SIZE /\ Front' = <<g, y + CHUNK_SIZE + 1>>
         \/ y + n = lengths[g] /\ Front' = <<g + 1, 0>>
  <2>1. PICK q : q = Chunk(g, y)
    OBVIOUS
  <2>2. y \in Nat /\ y < lengths[g] /\ lengths[g] \in Nat /\ g \in Nat /\ n \in Nat \ {0}
    BY <1>3, ChunkIs
  <2>3. /\ Len(q.value) = n /\ \A i \in 1 .. n : q.value[i] = <<g, y + i>>
        /\ Place(q) = <<g, y + 1>>
    BY <1>3, <2>1, ChunkIs
  <2>4. \/ n = CHUNK_SIZE /\ Following(q) = <<g, y + CHUNK_SIZE + 1>>
        \/ y + n = lengths[g] /\ Following(q) = <<g + 1, 0>>
    BY <1>3, <2>1, ChunkIs
  <2>5. Front = Place(q) /\ Front' = Following(q) /\ pkt = q
    BY <1>1, <1>2, <2>1
  <2> QED BY ONLY <2>2, <2>3, <2>4, <2>5
<1>5. f \in Nat /\ y + n <= lengths[g]
  <2>1. f \in Nat
    BY FrameIs
  <2> QED BY <1>3, <1>4, <2>1, ChunkAssumption DEF AtMost
<1>6. f < g \/ f = g
  <2>1. Past(f, 0)
    BY DEF Latest, ArrivedInv
  <2> QED BY <1>4, <2>1 DEF Past
<1> DEFINE had == fa.data
<1>7. PICK copy : copy = AtMost(Len(pkt.value), fa.total - Len(had))
  OBVIOUS
<1> DEFINE data == had \o SubSeq(pkt.value, 1, copy)
<1>8. /\ had \in Seq(Bytes) /\ Len(had) \in Nat /\ fa.total \in Nat
      /\ copy \in Nat \ {0} /\ copy <= n
      /\ data \in Seq(Bytes) /\ Len(data) = Len(had) + copy
      /\ \A i \in 1 .. copy : data[Len(had) + i] = pkt.value[i]
      /\ \/ /\ Len(had) + copy < fa.total
            /\ fa' = [fa EXCEPT !.data = data, !.active = TRUE] /\ saved' = saved
         \/ /\ Len(had) + copy = fa.total
            /\ fa' = [fa EXCEPT !.data = data, !.active = FALSE]
            /\ saved' = Append(saved, data)
  <2>1. ReceiveData(pkt) /\ pkt.tag = "DATA"
    BY <1>0
  <2> QED BY <1>1, <1>4, <1>7, <2>1, DataKept
<1> HIDE DEF data, had
<1>9. fa \in [active : BOOLEAN, total : 0 .. MAX_FRAME, data : Seq(Bytes)]
  BY DEF IInv, TypeOK
<1>10. PartLost(f)'
  BY LossesStay DEF Lacking
<1>11. CASE f = g
  <2>1. Len(had) < y
    BY <1>4, <1>5, <1>11 DEF Lacking, had
  <2>2. Len(had) + copy < y + n
    BY <1>4, <1>8, <2>1
  <2>3. Len(had) + copy < fa.total
    BY <1>4, <1>5, <1>8, <1>11, <2>2
  <2>4. fa' = [fa EXCEPT !.data = data, !.active = TRUE] /\ saved' = saved
    BY <1>8, <2>3
  <2>5. fa'.total = lengths[f] /\ Len(fa'.data) = Len(had) + copy
    BY <1>8, <1>9, <2>4
  <2>6. Front'[1] = f => Len(fa'.data) < Front'[2] - 1
    <3>1. CASE n = CHUNK_SIZE /\ Front' = <<g, y + CHUNK_SIZE + 1>>
      BY <1>4, <1>8, <2>2, <2>5, <3>1
    <3>2. CASE Front' = <<g + 1, 0>>
      BY <1>5, <1>11, <3>2
    <3> QED BY <1>4, <3>1, <3>2
  <2> QED BY <1>10, <2>4, <2>5, <2>6 DEF Lacking
<1>12. CASE f < g
  <2>1. CASE Len(had) + copy < fa.total
    <3>1. fa' = [fa EXCEPT !.data = data, !.active = TRUE] /\ saved' = saved
      BY <1>8, <2>1
    <3>2. fa'.total = lengths[f]
      BY <1>9, <3>1
    <3>3. Front'[1] # f
      BY <1>4, <1>5, <1>12
    <3> QED BY <1>10, <3>1, <3>2, <3>3 DEF Lacking
  <2>2. CASE ~ (Len(had) + copy < fa.total)
    <3>1. fa' = [fa EXCEPT !.data = data, !.active = FALSE] /\ saved' = Append(saved, data)
      BY <1>8, <2>2
    <3>2. ~ fa'.active
      BY <1>9, <3>1
    <3>3. Past(g, 0) /\ ThisStart(g) \notin arrived
      BY <1>4, <1>12 DEF Past, Latest
    <3>4. Past(g, 0)' /\ ThisStart(g) \notin arrived'
      BY <3>3 DEF Remembered
    <3>5. /\ ThisStart(f)' \in arrived' /\ ThisStart(g)' = ThisStart(g)
      BY <1>1, LossesStay, SameFrame DEF Latest
    <3>6. Len(had) + copy \in 1 .. Len(data) /\ data[Len(had) + copy] = <<g, y + copy>>
      <4>1. copy \in 1 .. copy /\ copy \in 1 .. n
        BY <1>4, <1>8
      <4>2. Len(had) + copy \in 1 .. Len(data)
        BY <1>8
      <4> QED BY <1>4, <1>8, <4>1, <4>2
    <3>7. PICK bytes : bytes = data
      OBVIOUS
    <3>8. \E j \in 1 .. Len(bytes) : bytes[j][1] = g
      <4>1. data[Len(had) + copy][1] = g
        BY <3>6
      <4> QED BY <3>6, <3>7, <4>1
    <3>9. Torn(bytes)'
      BY <1>1, <1>10, <1>12, <3>4, <3>5, <3>8 DEF Torn
    <3> QED BY <1>8, <3>1, <3>2, <3>7, <3>9
  <2> QED BY <2>1, <2>2
<1> QED BY <1>6, <1>11, <1>12

-----------------------------------------------------------------------------
(* What a step has to show.                                                *)
LEMMA LossKept ==
  ASSUME IInv, LossInv, Remembered, WireInv', ArrivedInv', OpenInv',
         \/ saved' = saved
         \/ \E data \in Seq(Bytes) :
              /\ saved' = Append(saved, data)
              /\ (\E f \in 1 .. f_now : data = Content(f)) \/ Torn(data)',
         \A f \in 1 .. f_now :
           ThisStart(f) \in arrived /\ Whole(f) => SavedWhole(f)' \/ PartLost(f)' \/ Whole(f)',
         \A f \in 1 .. f_now' :
           ThisStart(f)' \in arrived' => (f \in 1 .. f_now /\ ThisStart(f) \in arrived) \/ Whole(f)'
  PROVE  LossInv'
<1>1. SavedInv' /\ \A f \in 1 .. f_now : SavedWhole(f) => SavedWhole(f)'
  BY SavedStay DEF LossInv
<1>2. ASSUME NEW f \in 1 .. f_now', ThisStart(f)' \in arrived', ~ Whole(f)'
      PROVE  SavedWhole(f)' \/ PartLost(f)'
  <2>1. f \in 1 .. f_now /\ ThisStart(f) \in arrived
    BY <1>2
  <2>2. SavedWhole(f) \/ PartLost(f) \/ Whole(f)
    BY <2>1 DEF LossInv, StartedInv
  <2> QED BY <1>1, <1>2, <2>1, <2>2, LossesStay
<1>3. StartedInv'
  BY <1>2 DEF StartedInv
<1> QED BY <1>1, <1>3 DEF LossInv

(* A frame that is whole is the last of which the start arrived.           *)
LEMMA WholeIsLast ==
  ASSUME IInv, ArrivedInv, NEW f \in 1 .. f_now, Latest(f),
         NEW h \in 1 .. f_now, Whole(h), ThisStart(h) \in arrived
  PROVE  h = f /\ ~ Lacking(f)
<1>1. f \in Nat /\ h \in Nat /\ f_now \in Nat
  BY FrameIs
<1>2. PICK x : x = Len(fa.data)
  OBVIOUS
<1>3. x \in Positions(h) /\ Front = <<h, x + 1>>
  BY <1>2 DEF Whole
<1>4. x \in Nat
  BY <1>3, ChunkIs
<1>5. ~ (f < h)
  BY DEF Latest
<1>6. f < Front[1] \/ f = Front[1]
  BY DEF Latest, ArrivedInv, Past
<1>7. h = f
  BY <1>1, <1>3, <1>5, <1>6
<1>8. ~ Lacking(f)
  <2> SUFFICES ASSUME Lacking(f) PROVE FALSE
    OBVIOUS
  <2>1. x < (x + 1) - 1
    BY <1>2, <1>3, <1>7 DEF Lacking
  <2> QED BY <1>4, <2>1
<1> QED BY <1>7, <1>8

(* The sender's steps leave the front where it is.                         *)
LEMMA LossSend ==
  ASSUME IInv, LossInv, SendData \/ \E length \in Lengths : SendStart(length)
  PROVE  LossInv'
<1>1. fa' = fa /\ saved' = saved /\ arrived' = arrived
  BY DEF SendData, SendStart, receivers
<1>2. /\ Grown /\ WireInv' /\ Front' = Front /\ (f_now' = f_now \/ f_now' = f_now + 1)
      /\ f_now \in Nat
  BY SendFront, FrameIs DEF LossInv
<1>3. \A f \in 1 .. f_now : /\ f \in 1 .. f_now' /\ lengths'[f] = lengths[f]
                            /\ ThisStart(f)' = ThisStart(f) /\ Positions(f)' = Positions(f)
                            /\ \A x : Chunk(f, x)' = Chunk(f, x)
  BY <1>2, SameFrame DEF Grown
<1>4. \A f, n : Past(f, n)' = Past(f, n)
  BY <1>2 DEF Past
<1>5. Remembered
  BY <1>1, <1>2, <1>4 DEF Remembered
<1>6. \A f \in 1 .. f_now' : f \notin 1 .. f_now =>
        ThisStart(f)' \notin arrived' /\ \A x : Chunk(f, x)' \notin arrived'
  <2>1. \A f : ThisStart(f)'.frame = f /\ \A x : Chunk(f, x)'.frame = f
    BY DEF ThisStart, Start, Chunk, Data
  <2> QED BY <1>1, <2>1 DEF LossInv, ArrivedInv
<1>7. ArrivedInv'
  <2>1. \A pkt \in arrived' : pkt.frame \in 1 .. f_now'
    BY <1>1, <1>3 DEF LossInv, ArrivedInv
  <2>2. ASSUME NEW f \in 1 .. f_now'
        PROVE  /\ ThisStart(f)' \in arrived' => Past(f, 0)'
               /\ \A x \in Positions(f)' : Chunk(f, x)' \in arrived' => Past(f, x + 1)'
    <3>1. CASE f \in 1 .. f_now
      <4>1. /\ ThisStart(f) \in arrived => Past(f, 0)
            /\ \A x \in Positions(f) : Chunk(f, x) \in arrived => Past(f, x + 1)
        BY <3>1 DEF LossInv, ArrivedInv
      <4>2. \A x : Past(f, x + 1)' = Past(f, x + 1)
        BY <1>2 DEF Past
      <4> QED BY <1>1, <1>3, <1>4, <3>1, <4>1, <4>2
    <3>2. CASE f \notin 1 .. f_now
      BY <1>6, <3>2
    <3> QED BY <3>1, <3>2
  <2> QED BY <2>1, <2>2 DEF ArrivedInv
<1>8. \A f \in 1 .. f_now : Whole(f) => Whole(f)'
  BY <1>1, <1>2, <1>3 DEF Whole
<1>9. OpenInv'
  <2> SUFFICES ASSUME fa.active
               PROVE  (\E f \in 1 .. f_now :
                         Latest(f) /\ fa.total = lengths[f] /\ (Whole(f) \/ Lacking(f)))'
    BY <1>1 DEF OpenInv
  <2>1. PICK f \in 1 .. f_now : Latest(f) /\ fa.total = lengths[f] /\ (Whole(f) \/ Lacking(f))
    BY DEF LossInv, OpenInv
  <2>2. Latest(f)'
    BY <1>1, <1>3, <1>6, <2>1 DEF Latest
  <2>3. Lacking(f) => Lacking(f)'
    BY <1>1, <1>2, <1>5, LossesStay DEF Lacking
  <2> QED BY <1>1, <1>3, <1>8, <2>1, <2>2, <2>3
<1> QED BY <1>1, <1>2, <1>3, <1>5, <1>6, <1>7, <1>8, <1>9, LossKept

(* A FRAME_START opens a frame of which nothing is lost.                   *)
LEMMA StartOpens ==
  ASSUME IInv, LossInv, Deliver, Head(wire).tag = "START", ReceiveStart(Head(wire))
  PROVE  LossInv'
<1>0. PICK pkt : pkt = Head(wire)
  OBVIOUS
<1>1. wire # <<>> /\ wire' = Tail(wire) /\ UNCHANGED sender /\ arrived' = arrived \cup {pkt}
  BY <1>0 DEF Deliver
<1>2. /\ f_now' = f_now /\ lengths' = lengths /\ WireInv'
      /\ Sound(pkt) /\ Front = Place(pkt) /\ Front' = Following(pkt)
  BY <1>0, <1>1, ReadFront DEF LossInv, sender
<1>3. Remembered /\ ArrivedInv'
  BY <1>0, <1>1, ReadMoves DEF LossInv
<1>4. PICK g \in 1 .. f_now : pkt = ThisStart(g)
  <2>1. PICK g \in 1 .. f_now : pkt = ThisStart(g) \/ \E y \in Positions(g) : pkt = Chunk(g, y)
    BY <1>2 DEF Sound
  <2>2. \A y \in Positions(g) : pkt # Chunk(g, y)
    BY <1>0, ChunkIs
  <2> QED BY <2>1, <2>2
<1>5. /\ g \in Nat /\ pkt.total = lengths[g] /\ 0 \in Positions(g)
      /\ Front = <<g, 0>> /\ Front' = <<g, 1>>
  BY <1>2, <1>4, StartIs
<1>6. fa' = [active |-> TRUE, total |-> lengths[g], data |-> <<>>] /\ saved' = saved
  BY <1>0, <1>5 DEF ReceiveStart
<1>7. \A f \in 1 .. f_now : /\ f \in Nat /\ ThisStart(f)' = ThisStart(f)
                            /\ ThisStart(f).frame = f
  BY <1>2, SameFrame, StartIs
<1>8. Whole(g)'
  <2>1. Len(<<>>) = 0 /\ <<>> = [i \in 1 .. 0 |-> <<g, i>>] /\ 0 + 1 = 1
    BY EmptySeq
  <2>2. fa'.active /\ fa'.total = lengths'[g] /\ fa'.data = <<>>
    BY <1>2, <1>6
  <2>3. Positions(g)' = Positions(g)
    BY <1>2, SameFrame
  <2> QED BY <1>5, <2>1, <2>2, <2>3 DEF Whole
<1>9. Latest(g)'
  <2>1. ASSUME NEW h \in 1 .. f_now, g < h, ThisStart(h) \in arrived' PROVE FALSE
    <3>1. ThisStart(h) # pkt
      BY <1>4, <1>5, <1>7, <2>1
    <3>2. Past(h, 0)
      BY <1>1, <2>1, <3>1 DEF LossInv, ArrivedInv
    <3> QED BY <1>5, <1>7, <2>1, <3>2 DEF Past
  <2> QED BY <1>1, <1>2, <1>4, <1>7, <2>1 DEF Latest
<1>10. OpenInv'
  BY <1>2, <1>6, <1>8, <1>9 DEF OpenInv
<1>11. \A f \in 1 .. f_now : ~ Whole(f)
  <2> SUFFICES ASSUME NEW f \in 1 .. f_now, Whole(f) PROVE FALSE
    OBVIOUS
  <2>1. PICK x : x = Len(fa.data)
    OBVIOUS
  <2>2. x \in Positions(f) /\ Front = <<f, x + 1>>
    BY <2>1 DEF Whole
  <2>3. x \in Nat
    BY <2>2, ChunkIs
  <2>4. x + 1 = 0
    BY <1>5, <2>2
  <2> QED BY <2>3, <2>4
<1>12. \A f \in 1 .. f_now' :
         ThisStart(f)' \in arrived' => (f \in 1 .. f_now /\ ThisStart(f) \in arrived) \/ Whole(f)'
  <2> SUFFICES ASSUME NEW f \in 1 .. f_now, ThisStart(f) \in arrived', ThisStart(f) \notin arrived
               PROVE  Whole(f)'
    BY <1>2, <1>7
  <2>1. f = g
    BY <1>1, <1>4, <1>7
  <2> QED BY <1>8, <2>1
<1> QED BY <1>2, <1>3, <1>6, <1>10, <1>11, <1>12, LossKept

(* A FRAME_DATA is ignored, or continues the frame that is open.           *)
LEMMA DataContinues ==
  ASSUME IInv, LossInv, Deliver, Head(wire).tag = "DATA", ReceiveData(Head(wire))
  PROVE  LossInv'
<1>1. /\ wire # <<>> /\ wire' = Tail(wire) /\ UNCHANGED sender
      /\ arrived' = arrived \cup {Head(wire)}
  BY DEF Deliver
<1>2. f_now' = f_now /\ lengths' = lengths /\ WireInv'
  BY <1>1, ReadFront DEF LossInv, sender
<1>3. Remembered /\ ArrivedInv'
  BY <1>1, ReadMoves DEF LossInv
<1>4. \A f \in 1 .. f_now : /\ ThisStart(f)' = ThisStart(f)
                            /\ ThisStart(f) \in arrived' <=> ThisStart(f) \in arrived
  BY <1>1, <1>2, SameFrame, StartIs
<1>5. \A f \in 1 .. f_now : Latest(f) => Latest(f)'
  BY <1>2, <1>4 DEF Latest
<1>6. \A f \in 1 .. f_now' :
        ThisStart(f)' \in arrived' => (f \in 1 .. f_now /\ ThisStart(f) \in arrived) \/ Whole(f)'
  BY <1>2, <1>4
<1>7. CASE ~ fa.active
  <2>1. fa' = fa /\ saved' = saved
    BY <1>7 DEF ReceiveData
  <2>2. OpenInv' /\ \A f : ~ Whole(f)
    BY <1>7, <2>1 DEF OpenInv, Whole
  <2> QED BY <1>2, <1>3, <1>6, <2>1, <2>2, LossKept
<1>8. CASE fa.active
  <2>1. PICK f \in 1 .. f_now : Latest(f) /\ fa.total = lengths[f] /\ (Whole(f) \/ Lacking(f))
    BY <1>8 DEF LossInv, OpenInv
  <2>2. ThisStart(f) \in arrived
    BY <2>1 DEF Latest
  <2>3. \A h \in 1 .. f_now : ThisStart(h) \in arrived /\ Whole(h) => h = f /\ ~ Lacking(f)
    BY <2>1, WholeIsLast DEF LossInv
  <2>4. CASE Whole(f)
    <3>1. \/ Whole(f)' /\ saved' = saved /\ fa'.total = lengths[f]
          \/ /\ ~ fa'.active /\ saved' = Append(saved, Content(f)) /\ Content(f) \in Seq(Bytes)
             /\ SavedWhole(f)'
      BY <1>1, <2>4, WholeGoesOn DEF LossInv
    <3>2. OpenInv'
      BY <1>2, <1>5, <2>1, <3>1 DEF OpenInv
    <3>3. \A h \in 1 .. f_now :
            ThisStart(h) \in arrived /\ Whole(h) => SavedWhole(h)' \/ PartLost(h)' \/ Whole(h)'
      <4>1. SavedWhole(f)' \/ Whole(f)'
        BY <3>1
      <4> QED BY <2>3, <4>1
    <3>4. \/ saved' = saved
          \/ \E data \in Seq(Bytes) :
               saved' = Append(saved, data) /\ \E g \in 1 .. f_now : data = Content(g)
      BY <3>1
    <3> QED BY <1>2, <1>3, <1>6, <3>2, <3>3, <3>4, LossKept
  <2>5. CASE Lacking(f)
    <3>1. \/ Lacking(f)' /\ saved' = saved /\ fa'.total = lengths[f]
          \/ ~ fa'.active /\ \E data \in Seq(Bytes) : saved' = Append(saved, data) /\ Torn(data)'
      BY <1>1, <1>3, <1>8, <2>1, <2>5, LackingGoesOn DEF LossInv
    <3>2. OpenInv'
      BY <1>2, <1>5, <2>1, <3>1 DEF OpenInv
    <3>3. \A h \in 1 .. f_now : ~ (ThisStart(h) \in arrived /\ Whole(h))
      BY <2>3, <2>5
    <3>4. \/ saved' = saved
          \/ \E data \in Seq(Bytes) : saved' = Append(saved, data) /\ Torn(data)'
      BY <3>1
    <3> QED BY <1>2, <1>3, <1>6, <3>2, <3>3, <3>4, LossKept
  <2> QED BY <2>1, <2>4, <2>5
<1> QED BY <1>7, <1>8

(* A packet that is dropped is a part that the open frame lacks.           *)
LEMMA LossLose ==
  ASSUME IInv, LossInv, Lose
  PROVE  LossInv'
<1>1. /\ wire # <<>> /\ wire' = Tail(wire) /\ UNCHANGED sender /\ arrived' = arrived
      /\ fa' = fa /\ saved' = saved
  BY DEF Lose, receivers
<1>2. f_now' = f_now /\ lengths' = lengths /\ WireInv' /\ f_now \in Nat
  BY <1>1, ReadFront, FrameIs DEF LossInv, sender
<1>3. /\ Remembered /\ ArrivedInv'
      /\ \A f \in 1 .. f_now : \A x \in Positions(f) : Front = <<f, x + 1>> => Past(f, x + 1)'
      /\ \E g \in 1 .. f_now, m \in Nat, k \in Nat :
           Front = <<g, m>> /\ ((Front' = <<g, k>> /\ m < k) \/ Front' = <<g + 1, 0>>)
  BY <1>1, ReadMoves DEF LossInv
<1>4. \A f \in 1 .. f_now : ThisStart(f)' = ThisStart(f)
  BY <1>2, SameFrame
<1>5. ASSUME NEW f \in 1 .. f_now, Whole(f) PROVE PartLost(f)'
  <2>1. PICK x : x = Len(fa.data)
    OBVIOUS
  <2>2. x \in Positions(f) /\ Front = <<f, x + 1>>
    BY <1>5, <2>1 DEF Whole
  <2>3. Past(f, x + 1)'
    BY <1>3, <2>2
  <2> QED BY <1>1, <1>3, <1>5, <2>1, <2>3, WholeLoses DEF LossInv
<1>6. ASSUME NEW f \in 1 .. f_now, Latest(f), Whole(f) \/ Lacking(f) PROVE Lacking(f)'
  <2>1. PartLost(f)'
    BY <1>3, <1>5, <1>6, LossesStay DEF Lacking
  <2>2. Front'[1] = f => Len(fa'.data) < Front'[2] - 1
    <3>1. PICK g \in 1 .. f_now, m \in Nat, k \in Nat :
            Front = <<g, m>> /\ ((Front' = <<g, k>> /\ m < k) \/ Front' = <<g + 1, 0>>)
      BY <1>3
    <3>2. f < g \/ f = g
      <4>1. Past(f, 0)
        BY <1>6 DEF Latest, LossInv, ArrivedInv
      <4> QED BY <3>1, <4>1 DEF Past
    <3>3. f \in Nat /\ g \in Nat
      BY <1>2
    <3>4. Front'[1] = f => f = g /\ Front' = <<f, k>> /\ m < k
      BY <3>1, <3>2, <3>3
    <3>5. Len(fa.data) \in Nat
      BY DEF IInv, TypeOK
    <3>6. f = g => Len(fa.data) = m - 1 \/ Len(fa.data) < m - 1
      <4>1. Whole(f) => Front[2] = Len(fa.data) + 1
        BY DEF Whole
      <4>2. Lacking(f) /\ f = g => Len(fa.data) < m - 1
        BY <3>1 DEF Lacking
      <4> QED BY <1>6, <3>1, <3>5, <4>1, <4>2
    <3> QED BY <1>1, <3>4, <3>5, <3>6
  <2> QED BY <2>1, <2>2 DEF Lacking
<1>7. OpenInv'
  <2>1. \A f \in 1 .. f_now : Latest(f) => Latest(f)'
    BY <1>1, <1>2, <1>4 DEF Latest
  <2> QED BY <1>1, <1>2, <1>6, <2>1 DEF LossInv, OpenInv
<1> QED BY <1>1, <1>2, <1>3, <1>4, <1>5, <1>7, LossKept

(* A broken connection loses all that has not arrived.                     *)
LEMMA LossReconnect ==
  ASSUME IInv, LossInv, Reconnect
  PROVE  LossInv'
<1>1. lengths' = lengths /\ ~ fa'.active /\ saved' = saved /\ arrived' = arrived
  BY DEF Reconnect, NoFrame
<1>2. f_now' = f_now /\ WireInv' /\ Grown /\ Front' = <<f_now + 1, 0>> /\ f_now \in Nat
  BY ReconnectFront, FrameIs DEF LossInv
<1>3. \A f \in 1 .. f_now : \A n : Past(f, n)'
  BY <1>2 DEF Past
<1>4. Remembered
  BY <1>1, <1>2, <1>3 DEF Remembered
<1>5. \A f \in 1 .. f_now : ThisStart(f)' = ThisStart(f)
  BY <1>1, SameFrame
<1>6. ArrivedInv'
  <2>1. \A f \in 1 .. f_now : Past(f, 0)' /\ \A x : Past(f, x + 1)'
    BY <1>2 DEF Past
  <2> QED BY <1>1, <1>2, <2>1 DEF LossInv, ArrivedInv
<1>7. OpenInv'
  BY <1>1 DEF OpenInv
<1>8. ASSUME NEW f \in 1 .. f_now, Whole(f) PROVE PartLost(f)'
  <2>1. PICK x : x = Len(fa.data)
    OBVIOUS
  <2>2. Past(f, x + 1)'
    BY <1>2 DEF Past
  <2> QED BY <1>1, <1>4, <1>8, <2>1, <2>2, WholeLoses DEF LossInv
<1> QED BY <1>1, <1>2, <1>4, <1>5, <1>6, <1>7, <1>8, LossKept

LEMMA LossInit == Init => LossInv
<1> SUFFICES ASSUME Init PROVE LossInv
  OBVIOUS
<1>1. /\ f_now = 0 /\ wire = <<>> /\ Len(wire) = 0 /\ arrived = {} /\ ~ fa.active
      /\ saved = <<>> /\ Len(saved) = 0 /\ 1 .. 0 = {} /\ ~ Sending
  BY DEF Init, f_now, NoFrame, Sending
<1> QED BY <1>1 DEF LossInv, WireInv, ArrivedInv, OpenInv, StartedInv, SavedInv

LEMMA NextLoss == IInv /\ LossInv /\ [Next]_vars => LossInv'
<1> SUFFICES ASSUME IInv, LossInv, [Next]_vars PROVE LossInv'
  OBVIOUS
<1>1. CASE UNCHANGED vars
  <2>1. /\ lengths' = lengths /\ wire' = wire /\ fa' = fa /\ saved' = saved /\ arrived' = arrived
        /\ f_now' = f_now /\ offset' = offset /\ Sending' = Sending
    BY <1>1 DEF vars, f_now, Sending
  <2>2. /\ \A f : /\ ThisStart(f)' = ThisStart(f) /\ Positions(f)' = Positions(f)
                  /\ Content(f)' = Content(f)
                  /\ \A x : Chunk(f, x)' = Chunk(f, x)
        /\ \A pkt : Place(pkt)' = Place(pkt) /\ Following(pkt)' = Following(pkt)
        /\ SentNext' = SentNext
    BY <2>1 DEF ThisStart, Positions, Content, Chunk, Place, Following, Ahead, SentNext
  <2>3. Front' = Front /\ \A f, n : Past(f, n)' = Past(f, n)
    BY <2>1, <2>2 DEF Front, Past, Place
  <2>4. WireInv'
    BY <2>1, <2>2 DEF LossInv, WireInv, Sound, Following, Place, Ahead
  <2>5. ArrivedInv'
    BY <2>1, <2>2, <2>3 DEF LossInv, ArrivedInv, Past
  <2>6. \A f : PartLost(f)' <=> PartLost(f)
    BY <2>1, <2>2, <2>3 DEF PartLost, Past
  <2>7. \A f : /\ Whole(f)' <=> Whole(f)
               /\ Lacking(f)' <=> Lacking(f)
               /\ Latest(f)' <=> Latest(f)
               /\ SavedWhole(f)' <=> SavedWhole(f)
    BY <2>1, <2>2, <2>3, <2>6 DEF Whole, Lacking, Latest, SavedWhole
  <2>8. OpenInv' /\ StartedInv'
    BY <2>1, <2>2, <2>6, <2>7 DEF LossInv, OpenInv, StartedInv
  <2>9. SavedInv'
    BY <2>1, <2>2, <2>3, <2>6 DEF LossInv, SavedInv, Torn
  <2> QED BY <2>4, <2>5, <2>8, <2>9 DEF LossInv
<1>2. CASE Deliver
  BY <1>2, StartOpens, DataContinues DEF Deliver
<1> QED BY <1>1, <1>2, LossSend, LossLose, LossReconnect DEF Next

THEOREM LossInvariance == Spec => []LossInv
BY LossInit, NextLoss, Invariance, PTL DEF Spec

(* A frame that arrives in full is saved in full, whatever was lost before *)
(* and between.                                                            *)
THEOREM ArrivalIsEnough == Spec => []DeliveredIsSaved
<1>1. IInv /\ LossInv => DeliveredIsSaved
  <2> SUFFICES ASSUME IInv, LossInv, NEW f \in 1 .. f_now,
                      ThisData(f) \cup {ThisStart(f)} \subseteq arrived
               PROVE  SavedWhole(f)
    BY DEF DeliveredIsSaved, SavedWhole, f_now
  <2>1. \A x \in Positions(f) : Chunk(f, x) \in arrived
    BY DEF ThisData, Positions, Chunk
  <2>2. ~ PartLost(f)
    BY <2>1 DEF PartLost
  <2>3. ~ Whole(f)
    <3> SUFFICES ASSUME Whole(f) PROVE FALSE
      OBVIOUS
    <3>1. PICK x : x = Len(fa.data)
      OBVIOUS
    <3>2. x \in Positions(f) /\ Front = <<f, x + 1>>
      BY <3>1 DEF Whole
    <3>3. Past(f, x + 1)
      BY <2>1, <3>2 DEF LossInv, ArrivedInv
    <3>4. x \in Nat /\ f \in Nat
      BY <3>2, ChunkIs
    <3> QED BY <3>2, <3>3, <3>4 DEF Past
  <2> QED BY <2>2, <2>3 DEF LossInv, StartedInv
<1> QED BY <1>1, Invariance, LossInvariance, PTL

(* What is saved and is no frame took two losses: a part of one frame and  *)
(* the start of a later one.                                               *)
THEOREM OneLossCostsOneFrame == Spec => []TornByTwoLosses
<1>1. LossInv => TornByTwoLosses
  <2> SUFFICES ASSUME LossInv PROVE TornByTwoLosses
    OBVIOUS
  <2>1. \A f \in 1 .. f_now : PartLost(f) => ~ ThisData(f) \subseteq arrived
    BY DEF PartLost, ThisData, Positions, Chunk
  <2> QED BY <2>1 DEF LossInv, SavedInv, Torn, TornByTwoLosses, f_now
<1> QED BY <1>1, LossInvariance, PTL

=============================================================================
