---------------------------- MODULE AiReaderProofs ----------------------------
(***************************************************************************)
(* Proofs about AiReader for every set of tags, values and packers: the    *)
(* composition implements TlvReader, so that what is proved there holds    *)
(* here, and the Python reader returns exactly what was packed.            *)
(***************************************************************************)
EXTENDS AiReader, TlvReaderProofs

Pkt == [packer : Packers, tag : Tags, value : Payloads]

(* The bytes on the wire. *)
Sent == Byte \cup {Checksum(pkt) : pkt \in Pkt}

PyType ==
  /\ py.state \in {"HEADER", "BODY", "CRC"}
  /\ py \in [state : {"HEADER", "BODY", "CRC"}, header : Seq(Sent), tag : Sent,
             length : Nat, body : Seq(Sent)]

(* The connection has had an empty packet, or has just had the header of   *)
(* one.                                                                    *)
EmptyNow == AfterEmpty(k) \/ (p >= TLV_HEADER_SIZE /\ Now.value = <<>>)

InHeader ==
  /\ py.state = "HEADER" /\ Len(py.header) = p
  /\ p >= 1 => py.header[1] = Now.tag
  /\ p >= 2 => py.header[2] = Len(Now.value) \div Base

AfterHeader ==
  /\ py.state = IF p < TLV_HEADER_SIZE + Len(Now.value) THEN "BODY" ELSE "CRC"
  /\ py.tag = Now.tag /\ py.length = Len(Now.value)
  /\ Len(py.body) = p - TLV_HEADER_SIZE
  /\ \A i \in 1 .. p - TLV_HEADER_SIZE : py.body[i] = Now.value[i]

PyPlace ==
  /\ EmptyNow => py.state = "BODY" /\ py.length = 0
  /\ ~EmptyNow /\ p < TLV_HEADER_SIZE => InHeader
  /\ ~EmptyNow /\ p >= TLV_HEADER_SIZE => AfterHeader

(* What has been returned: every packet that was not lost, up to an empty  *)
(* one.                                                                    *)
Heard(i) == verdicts[i].kind # "lost" /\ ~AfterEmpty(i)
ReturnedExactly == returned = {Answer(i) : i \in {i \in 1 .. k : Heard(i)}}

LinkInv == IInv /\ PyType /\ PyPlace /\ ReturnedExactly

-----------------------------------------------------------------------------
(* The composition is a run of TlvReader. *)
THEOREM LinkImplementsReader == LinkSpec => Spec
<1>1. LinkInit => Init
  BY DEF LinkInit
<1>2. [LinkNext]_linkVars => [Next]_vars
  BY DEF LinkNext, linkVars, Next, LinkFeed, LinkReconnect
<1> QED BY <1>1, <1>2, PTL DEF LinkSpec, Spec

LEMMA LinkInitInv == LinkInit => LinkInv
<1> SUFFICES ASSUME LinkInit PROVE LinkInv
  OBVIOUS
<1>1. /\ IInv /\ k = 0 /\ p = 0 /\ returned = {} /\ py = NewReader
  BY InitIInv DEF LinkInit, Init
<1>2. ~EmptyNow
  BY <1>1 DEF EmptyNow, AfterEmpty, TLV_HEADER_SIZE
<1>3. 0 \in Sent /\ <<>> \in Seq(Sent)
  BY BaseAssumption, EmptySeq DEF Sent, Byte
<1>4. PyType
  BY <1>1, <1>3 DEF PyType, NewReader
<1>5. PyPlace
  BY <1>1, <1>2 DEF PyPlace, InHeader, NewReader, TLV_HEADER_SIZE
<1>6. ReturnedExactly
  BY <1>1 DEF ReturnedExactly
<1> QED BY <1>1, <1>4, <1>5, <1>6 DEF LinkInv

(* Whether an empty packet went before depends on what was fed up to there. *)
LEMMA EmptySame ==
  ASSUME NEW i \in Nat,
         \A j \in 1 .. i : packed'[j] = packed[j] /\ verdicts'[j] = verdicts[j]
  PROVE  AfterEmpty(i)' <=> AfterEmpty(i)
<1>1. ASSUME NEW j \in 1 .. i
      PROVE  (\A l \in j .. i : verdicts'[l].kind # "lost")
               <=> (\A l \in j .. i : verdicts[l].kind # "lost")
  <2>1. \A l \in j .. i : l \in 1 .. i
    OBVIOUS
  <2>2. \A l \in j .. i : verdicts'[l] = verdicts[l]
    BY <2>1
  <2> QED BY <2>2
<1>2. AfterEmpty(i)' <=> \E j \in 1 .. i : packed'[j].value = <<>> /\ \A l \in j .. i : verdicts'[l].kind # "lost"
  BY DEF AfterEmpty
<1> QED BY <1>1, <1>2 DEF AfterEmpty

(* What has been fed is not changed by what is sent later. *)
LEMMA LinkSendInv ==
  ASSUME LinkInv, NEW packer \in Packers, NEW tag \in Tags, NEW value \in Payloads,
         Send(packer, tag, value), UNCHANGED <<py, returned>>
  PROVE  LinkInv'
<1>1. IInv'
  BY SendIInv DEF LinkInv
<1>2. /\ packed \in Seq(Pkt) /\ k \in 0 .. Len(packed) /\ p \in Nat
      /\ p > 0 => k < Len(packed)
      /\ packed' = Append(packed, Packet(packer, tag, value))
      /\ UNCHANGED <<k, p, verdicts, py, returned>>
  BY DEF LinkInv, IInv, Typed, PlaceInv, Send, Pkt
<1>3. \A i \in 1 .. Len(packed) : packed'[i] = packed[i]
  BY <1>2 DEF Packet, Pkt
<1>4. \A i \in 0 .. k : AfterEmpty(i)' <=> AfterEmpty(i)
  <2> SUFFICES ASSUME NEW i \in 0 .. k PROVE AfterEmpty(i)' <=> AfterEmpty(i)
    OBVIOUS
  <2>1. i \in Nat /\ \A j \in 1 .. i : packed'[j] = packed[j] /\ verdicts'[j] = verdicts[j]
    BY <1>2, <1>3
  <2> QED BY <2>1, EmptySame
<1>5. p > 0 => Now' = Now
  BY <1>2, <1>3 DEF Now
<1>6. EmptyNow' <=> EmptyNow
  BY <1>2, <1>4, <1>5 DEF EmptyNow, TLV_HEADER_SIZE
<1>7. PyPlace'
  <2>1. InHeader => InHeader'
    BY <1>2, <1>5 DEF InHeader
  <2>2. p >= TLV_HEADER_SIZE /\ AfterHeader => AfterHeader'
    BY <1>2, <1>5 DEF AfterHeader, TLV_HEADER_SIZE
  <2> QED BY <1>2, <1>6, <2>1, <2>2 DEF LinkInv, PyPlace
<1>8. ReturnedExactly'
  <2>1. \A i \in 1 .. k : Heard(i)' <=> Heard(i)
    BY <1>2, <1>4 DEF Heard
  <2>2. \A i \in 1 .. k : Answer(i)' = Answer(i)
    BY <1>2, <1>3 DEF Answer
  <2> QED BY <1>2, <2>1, <2>2 DEF LinkInv, ReturnedExactly
<1> QED BY <1>1, <1>2, <1>7, <1>8 DEF LinkInv, PyType

LEMMA LinkNewCallInv ==
  ASSUME LinkInv, NewCall, UNCHANGED <<py, returned>>
  PROVE  LinkInv'
<1>1. IInv'
  BY NewCallIInv DEF LinkInv
<1>2. UNCHANGED <<packed, k, p, verdicts, py, returned>>
  BY DEF NewCall
<1> QED
  BY <1>1, <1>2 DEF LinkInv, PyType, PyPlace, EmptyNow, AfterEmpty, InHeader, AfterHeader, Now,
                    ReturnedExactly, Heard, Answer

(* After a reconnect the last packet is a lost one: nothing empty since.   *)
LEMMA LinkReconnectInv ==
  ASSUME LinkInv, LinkReconnect
  PROVE  LinkInv'
<1> DEFINE n == Len(packed)
<1>1. IInv'
  BY ReconnectIInv DEF LinkInv, LinkReconnect
<1>2. /\ packed \in Seq(Pkt) /\ k \in Nat /\ n \in Nat /\ k < n /\ Len(verdicts) = k
      /\ packed' = packed /\ k' = n /\ p' = 0 /\ py' = NewReader /\ returned' = returned
      /\ verdicts' = [i \in 1 .. n |-> IF i <= k THEN verdicts[i] ELSE Verdict("lost", <<>>)]
  BY DEF LinkInv, IInv, Typed, PlaceInv, LinkReconnect, Reconnect, Pkt
<1> HIDE DEF n
<1>3. /\ \A i \in 1 .. k : verdicts'[i] = verdicts[i]
      /\ \A i \in k + 1 .. n : verdicts'[i].kind = "lost"
  BY <1>2 DEF Verdict
<1>4. ~EmptyNow'
  <2>1. verdicts'[n].kind = "lost"
    BY <1>2, <1>3
  <2>2. ASSUME NEW j \in 1 .. n PROVE ~ \A l \in j .. n : verdicts'[l].kind # "lost"
    <3>1. n \in j .. n
      BY <1>2
    <3> QED BY <2>1, <3>1
  <2>3. AfterEmpty(k)' <=> \E j \in 1 .. n : packed'[j].value = <<>> /\ \A l \in j .. n : verdicts'[l].kind # "lost"
    BY <1>2 DEF AfterEmpty
  <2>4. ~ (AfterEmpty(k)')
    BY ONLY <2>2, <2>3
  <2>5. ~ (p' >= TLV_HEADER_SIZE)
    BY <1>2 DEF TLV_HEADER_SIZE
  <2> QED BY <2>4, <2>5 DEF EmptyNow
<1>5. 0 \in Sent /\ <<>> \in Seq(Sent)
  BY BaseAssumption, EmptySeq DEF Sent, Byte
<1>6. PyType'
  BY <1>2, <1>5 DEF PyType, NewReader
<1>7. PyPlace'
  BY <1>2, <1>4 DEF PyPlace, InHeader, NewReader, TLV_HEADER_SIZE
<1>8. ReturnedExactly'
  <2>1. \A i \in 1 .. k : AfterEmpty(i)' <=> AfterEmpty(i)
    <3> SUFFICES ASSUME NEW i \in 1 .. k PROVE AfterEmpty(i)' <=> AfterEmpty(i)
      OBVIOUS
    <3>1. i \in Nat /\ \A j \in 1 .. i : packed'[j] = packed[j] /\ verdicts'[j] = verdicts[j]
      BY <1>2, <1>3
    <3> QED BY <3>1, EmptySame
  <2>2. \A i \in 1 .. k : Heard(i)' <=> Heard(i)
    BY <1>3, <2>1 DEF Heard
  <2>3. \A i \in k + 1 .. n : ~Heard(i)'
    BY <1>3 DEF Heard
  <2>4. \A i \in 1 .. n : Answer(i)' = Answer(i)
    BY <1>2 DEF Answer
  <2> QED BY <1>2, <2>2, <2>3, <2>4 DEF LinkInv, ReturnedExactly
<1> QED BY <1>1, <1>6, <1>7, <1>8 DEF LinkInv

-----------------------------------------------------------------------------
(* A byte of the current packet reaches both readers. *)

LEMMA LinkFeedFacts ==
  ASSUME LinkInv, LinkFeed
  PROVE  /\ k \in Nat /\ k < Len(packed) /\ Now \in Pkt /\ packed' = packed
         /\ p \in 0 .. TLV_HEADER_SIZE + Len(Now.value) /\ Len(Now.value) \in Nat
         /\ p = TLV_HEADER_SIZE + Len(Now.value) =>
              /\ k' = k + 1 /\ p' = 0 /\ Len(verdicts') = k + 1
              /\ verdicts'[k + 1].kind # "lost"
         /\ p < TLV_HEADER_SIZE + Len(Now.value) =>
              k' = k /\ p' = p + 1 /\ verdicts' = verdicts /\ Now' = Now
         /\ Len(verdicts) = k /\ \A i \in 1 .. k : verdicts'[i] = verdicts[i]
<1>1. /\ k < Len(packed) /\ Now \in Pkt
      /\ p \in 0 .. TLV_HEADER_SIZE + Len(Now.value)
      /\ \/ FeedHeader(tlv_pack(Now)[p + 1])
         \/ FeedBody(tlv_pack(Now)[p + 1])
         \/ FeedCrc(tlv_pack(Now)[p + 1])
      /\ p = TLV_HEADER_SIZE + Len(Now.value) => k' = k + 1 /\ p' = 0
      /\ p < TLV_HEADER_SIZE + Len(Now.value) => k' = k /\ p' = p + 1
      /\ packed' = packed
  BY FeedFacts DEF LinkInv, LinkFeed, Pkt
<1>2. Len(Now.value) \in Nat
  BY <1>1, PacketShape, LengthsAreNat DEF Pkt
<1>3. k \in Nat /\ Len(verdicts) = k /\ verdicts \in Seq([kind : {"packet", "error", "silent", "lost"}, tag : Byte, value : Seq(Byte)])
  BY DEF LinkInv, IInv, Typed, PlaceInv
<1>4. reader.state = "CRC" <=> p = TLV_HEADER_SIZE + Len(Now.value)
  BY <1>2 DEF LinkInv, IInv, Typed, ReaderType, PlaceInv, HeaderInv, BodyInv, TLV_HEADER_SIZE
<1>5. CASE p = TLV_HEADER_SIZE + Len(Now.value)
  <2>1. \E e : verdicts' = Append(verdicts, e) /\ e.kind # "lost"
    <3>1. FeedCrc(tlv_pack(Now)[p + 1])
      BY <1>1, <1>4, <1>5 DEF FeedHeader, FeedBody
    <3> QED BY <3>1 DEF FeedCrc, Verdict
  <2>2. PICK e : verdicts' = Append(verdicts, e) /\ e.kind # "lost"
    BY <2>1
  <2>3. /\ Len(verdicts') = k + 1 /\ verdicts'[k + 1] = e
        /\ \A i \in 1 .. k : verdicts'[i] = verdicts[i]
    BY <1>3, <2>2
  <2> QED BY <1>1, <1>2, <1>3, <1>5, <2>2, <2>3
<1>6. CASE p < TLV_HEADER_SIZE + Len(Now.value)
  <2>1. verdicts' = verdicts
    BY <1>1, <1>2, <1>4, <1>6 DEF FeedHeader, FeedBody, FeedCrc, TLV_HEADER_SIZE
  <2>2. Now' = Now
    BY <1>1, <1>6 DEF Now
  <2> QED BY <1>1, <1>2, <1>3, <1>6, <2>1, <2>2 DEF TLV_HEADER_SIZE
<1> QED BY <1>1, <1>2, <1>5, <1>6 DEF TLV_HEADER_SIZE

LEMMA ByteSent ==
  ASSUME NEW pkt \in Pkt, NEW i \in 1 .. TLV_HEADER_SIZE + Len(pkt.value) + 1
  PROVE  tlv_pack(pkt)[i] \in Sent
<1> DEFINE n == Len(pkt.value)
<1>1. /\ pkt.tag \in Byte /\ pkt.value \in Seq(Byte) /\ n \in Nat
      /\ n \div Base \in Byte /\ n % Base \in Byte
      /\ tlv_pack(pkt)[1] = pkt.tag /\ tlv_pack(pkt)[2] = n \div Base /\ tlv_pack(pkt)[3] = n % Base
      /\ \A j \in 1 .. n : tlv_pack(pkt)[3 + j] = pkt.value[j]
  BY PacketShape, TwoBytes, LengthsAreNat DEF Pkt, TLV_HEADER_SIZE
<1>2. tlv_pack(pkt)[3 + n + 1] = Checksum(pkt)
  <2> DEFINE head == <<pkt.tag, n \div Base, n % Base>>
  <2>1. head \in Seq(Sent) /\ Len(head) = 3 /\ pkt.value \in Seq(Sent) /\ <<Checksum(pkt)>> \in Seq(Sent)
    BY <1>1 DEF Sent
  <2> DEFINE value == pkt.value
             crc == Checksum(pkt)
             front == head \o value
  <2>2. tlv_pack(pkt) = front \o <<crc>>
    BY DEF tlv_pack, Content
  <2>3. n = Len(value) /\ head \in Seq(Sent) /\ value \in Seq(Sent) /\ Len(head) = 3
    BY <2>1
  <2>4. <<crc>> \in Seq(Sent) /\ Len(<<crc>>) = 1 /\ <<crc>>[1] = crc
    BY <2>1
  <2> HIDE DEF head, value, crc, n
  <2>5. front \in Seq(Sent) /\ Len(front) = Len(head) + Len(value)
    BY ONLY <2>3, ConcatIndex
  <2> HIDE DEF front
  <2>6. (front \o <<crc>>)[Len(front) + 1] = <<crc>>[1]
    <3>1. 1 \in 1 .. Len(<<crc>>)
      BY <2>4
    <3>2. \A j \in 1 .. Len(<<crc>>) : (front \o <<crc>>)[Len(front) + j] = <<crc>>[j]
      BY ONLY <2>4, <2>5, ConcatIndex
    <3> QED BY ONLY <3>1, <3>2
  <2>7. (front \o <<crc>>)[3 + n + 1] = crc
    BY ONLY <2>3, <2>4, <2>5, <2>6
  <2> QED BY <2>2, <2>7 DEF crc
<1> HIDE DEF n
<1>3. i \in 1 .. 3 \/ (i - 3 \in 1 .. n /\ i = 3 + (i - 3)) \/ i = 3 + n + 1
  BY <1>1 DEF TLV_HEADER_SIZE, n
<1>4. Checksum(pkt) \in Sent /\ Byte \subseteq Sent
  BY DEF Sent
<1>5. CASE i \in 1 .. 3
  <2>1. i = 1 \/ i = 2 \/ i = 3
    BY <1>5
  <2> QED BY <1>1, <1>4, <2>1
<1>6. CASE i - 3 \in 1 .. n /\ i = 3 + (i - 3)
  <2>1. pkt.value[i - 3] \in Byte
    BY <1>1, <1>6 DEF n
  <2> QED BY <1>1, <1>4, <1>6, <2>1
<1> QED BY <1>2, <1>3, <1>4, <1>5, <1>6

(* The same does not change in the middle of a packet, except that the     *)
(* header of an empty one brings it about.                                 *)
LEMMA EmptyInPacket ==
  ASSUME LinkInv, LinkFeed, p < TLV_HEADER_SIZE + Len(Now.value)
  PROVE  AfterEmpty(k)' <=> AfterEmpty(k)
<1>1. k \in Nat /\ k' = k /\ packed' = packed /\ verdicts' = verdicts
  BY LinkFeedFacts
<1>2. AfterEmpty(k)' <=> \E j \in 1 .. k : packed[j].value = <<>> /\ \A l \in j .. k : verdicts[l].kind # "lost"
  BY <1>1 DEF AfterEmpty
<1> QED BY <1>2 DEF AfterEmpty

LEMMA ExactInPacket ==
  ASSUME LinkInv, LinkFeed, p < TLV_HEADER_SIZE + Len(Now.value), returned' = returned
  PROVE  ReturnedExactly'
<1>1. k' = k /\ packed' = packed /\ verdicts' = verdicts /\ ReturnedExactly
  BY LinkFeedFacts DEF LinkInv
<1> QED BY <1>1 DEF ReturnedExactly, Heard, Answer, AfterEmpty

LEMMA PyHeaderStep ==
  ASSUME LinkInv, LinkFeed, PyFeedHeader(tlv_pack(Now)[p + 1])
  PROVE  PyType' /\ PyPlace' /\ ReturnedExactly'
<1> DEFINE byte == tlv_pack(Now)[p + 1]
           header == Append(py.header, byte)
           n == Len(Now.value)
<1>1. /\ Now \in Pkt /\ p \in 0 .. 3 + n /\ n \in Nat
      /\ p < 3 + n => k' = k /\ p' = p + 1 /\ verdicts' = verdicts /\ Now' = Now
  BY LinkFeedFacts DEF TLV_HEADER_SIZE
<1>2. /\ py.state = "HEADER" /\ PyType /\ ~EmptyNow /\ p < 3
      /\ Len(py.header) = p
      /\ p >= 1 => py.header[1] = Now.tag
      /\ p >= 2 => py.header[2] = n \div Base
  BY <1>1 DEF LinkInv, PyFeedHeader, PyPlace, InHeader, AfterHeader, TLV_HEADER_SIZE
<1>3. p' = p + 1 /\ Now' = Now /\ p < TLV_HEADER_SIZE + n
  BY <1>1, <1>2 DEF TLV_HEADER_SIZE
<1>4. /\ Now.tag \in Byte /\ n \div Base \in Byte /\ n % Base \in Byte
      /\ (n \div Base) * Base + (n % Base) = n
      /\ p = 0 => byte = Now.tag
      /\ p = 1 => byte = n \div Base
      /\ p = 2 => byte = n % Base
  BY <1>1, PacketShape, TwoBytes DEF Pkt
<1>5. p = 0 \/ p = 1 \/ p = 2
  BY <1>1, <1>2
<1>6. byte \in Sent
  BY <1>4, <1>5 DEF Sent
<1>7. /\ header \in Seq(Sent) /\ Len(header) = p + 1 /\ header[p + 1] = byte
      /\ \A i \in 1 .. p : header[i] = py.header[i]
  BY <1>1, <1>2, <1>6 DEF PyType
<1>8. returned' = returned /\ ReturnedExactly'
  BY <1>3, ExactInPacket DEF PyFeedHeader
<1>9. ~AfterEmpty(k)'
  BY <1>2, <1>3, EmptyInPacket DEF EmptyNow
<1>10. py' = IF Len(header) < TLV_HEADER_SIZE
             THEN [py EXCEPT !.header = header]
             ELSE [state |-> "BODY", header |-> header, tag |-> header[1],
                   length |-> header[2] * Base + header[3], body |-> <<>>]
  BY DEF PyFeedHeader
<1> HIDE DEF byte, header, n
<1>11. CASE p < 2
  <2>1. py' = [py EXCEPT !.header = header]
    BY <1>1, <1>7, <1>10, <1>11 DEF TLV_HEADER_SIZE
  <2>2. PyType' /\ py'.state = "HEADER" /\ py'.header = header
    BY <1>2, <1>7, <2>1 DEF PyType
  <2>3. ~EmptyNow'
    BY <1>1, <1>3, <1>9, <1>11 DEF EmptyNow, TLV_HEADER_SIZE
  <2>4. InHeader'
    BY <1>1, <1>2, <1>3, <1>4, <1>5, <1>7, <1>11, <2>2 DEF InHeader, n
  <2>5. p' < TLV_HEADER_SIZE
    BY <1>1, <1>3, <1>11 DEF TLV_HEADER_SIZE
  <2> QED BY <1>1, <1>3, <1>8, <2>2, <2>3, <2>4, <2>5 DEF PyPlace, TLV_HEADER_SIZE
<1>12. CASE p = 2
  <2>1. header[1] = Now.tag /\ header[2] = n \div Base /\ header[3] = n % Base
    BY <1>2, <1>4, <1>7, <1>12
  <2>2. py' = [state |-> "BODY", header |-> header, tag |-> Now.tag, length |-> n, body |-> <<>>]
    BY <1>4, <1>7, <1>10, <1>12, <2>1 DEF TLV_HEADER_SIZE
  <2>3. Now.tag \in Sent /\ <<>> \in Seq(Sent)
    BY <1>4, EmptySeq DEF Sent
  <2>4. PyType'
    BY <1>1, <1>7, <2>2, <2>3 DEF PyType
  <2>5. EmptyNow' <=> n = 0
    <3>1. Now.value \in Seq(Byte)
      BY <1>1, PacketShape DEF Pkt
    <3>2. Now.value = <<>> <=> n = 0
      BY <3>1, EmptySeq DEF n
    <3> QED BY <1>3, <1>9, <1>12, <3>2 DEF EmptyNow, TLV_HEADER_SIZE
  <2>6. n # 0 => AfterHeader'
    BY <1>1, <1>3, <1>12, <2>2 DEF AfterHeader, TLV_HEADER_SIZE, n
  <2> QED BY <1>3, <1>8, <1>12, <2>2, <2>4, <2>5, <2>6 DEF PyPlace, TLV_HEADER_SIZE
<1> QED BY <1>5, <1>11, <1>12

LEMMA PyBodyStep ==
  ASSUME LinkInv, LinkFeed, PyFeedBody(tlv_pack(Now)[p + 1]), p < TLV_HEADER_SIZE + Len(Now.value)
  PROVE  PyType' /\ PyPlace' /\ ReturnedExactly'
<1> DEFINE byte == tlv_pack(Now)[p + 1]
           body == Append(py.body, byte)
           n == Len(Now.value)
<1>1. /\ Now \in Pkt /\ p \in 0 .. 3 + n /\ n \in Nat /\ p < 3 + n
      /\ k' = k /\ p' = p + 1 /\ verdicts' = verdicts /\ Now' = Now
  BY LinkFeedFacts DEF TLV_HEADER_SIZE
<1>2. py.state = "BODY" /\ PyType /\ PyPlace /\ py.body \in Seq(Sent)
  BY DEF LinkInv, PyFeedBody, PyType
<1>3. byte \in Sent
  <2>1. p + 1 \in 1 .. TLV_HEADER_SIZE + n + 1
    BY <1>1 DEF TLV_HEADER_SIZE
  <2> HIDE DEF Now
  <2> QED BY <1>1, <2>1, ByteSent
<1>4. /\ body \in Seq(Sent) /\ Len(body) = Len(py.body) + 1 /\ body[Len(body)] = byte
      /\ \A i \in 1 .. Len(py.body) : body[i] = py.body[i]
  BY <1>2, <1>3
<1>5. py' = [py EXCEPT !.body = body,
                       !.state = IF Len(py.body) + 1 = py.length THEN "CRC" ELSE "BODY"]
  BY <1>2 DEF PyFeedBody, PyType
<1>6. returned' = returned /\ ReturnedExactly'
  BY <1>1, ExactInPacket DEF PyFeedBody, TLV_HEADER_SIZE
<1>7. (AfterEmpty(k)' <=> AfterEmpty(k)) /\ (EmptyNow => EmptyNow')
  BY <1>1, EmptyInPacket DEF EmptyNow, TLV_HEADER_SIZE
<1> HIDE DEF byte, body
<1>8. /\ PyType' /\ py'.body = body /\ py'.length = py.length /\ py'.tag = py.tag
      /\ py'.state = IF Len(py.body) + 1 = py.length THEN "CRC" ELSE "BODY"
  BY <1>2, <1>4, <1>5 DEF PyType
<1>9. CASE EmptyNow
  <2>1. py.length = 0 /\ Len(py.body) \in Nat
    BY <1>2, <1>9, LenProperties DEF PyPlace
  <2>2. py'.state = "BODY" /\ py'.length = 0
    BY <1>8, <2>1
  <2> QED BY <1>6, <1>7, <1>8, <1>9, <2>2 DEF PyPlace
<1>10. CASE ~EmptyNow
  <2>1. p >= 3 /\ AfterHeader
    BY <1>1, <1>2, <1>10 DEF PyPlace, InHeader, TLV_HEADER_SIZE
  <2>2. ~EmptyNow'
    BY <1>1, <1>7, <1>10, <2>1 DEF EmptyNow, TLV_HEADER_SIZE
  <2>3. byte = Now.value[p - 3 + 1]
    <3>1. p - 3 + 1 \in 1 .. n /\ p + 1 = 3 + (p - 3 + 1)
      BY <1>1, <2>1
    <3> QED BY <1>1, <3>1, PacketShape DEF Pkt, TLV_HEADER_SIZE, byte
  <2> HIDE DEF n
  <2>4. Len(py.body) = p - 3 /\ py.length = n /\ py.tag = Now.tag
        /\ \A i \in 1 .. p - 3 : py.body[i] = Now.value[i]
    BY <2>1 DEF AfterHeader, TLV_HEADER_SIZE, n
  <2>5. ASSUME NEW i \in 1 .. p - 3 + 1 PROVE body[i] = Now.value[i]
    <3>1. i \in 1 .. p - 3 \/ i = p - 3 + 1
      BY <1>1, <2>1
    <3>2. CASE i \in 1 .. p - 3
      BY <1>4, <2>4, <3>2
    <3>3. CASE i = p - 3 + 1
      <4>1. Len(body) = p - 3 + 1
        BY ONLY <1>4, <2>4
      <4> QED BY ONLY <1>4, <2>3, <3>3, <4>1
    <3> QED BY <3>1, <3>2, <3>3
  <2>6. Len(body) = p' - 3 /\ (py'.state = IF p' < 3 + n THEN "BODY" ELSE "CRC")
    BY <1>1, <1>4, <1>8, <2>1, <2>4
  <2>7. AfterHeader'
    BY <1>1, <1>8, <2>1, <2>4, <2>5, <2>6 DEF AfterHeader, TLV_HEADER_SIZE, n
  <2>8. p' >= TLV_HEADER_SIZE
    BY <1>1, <2>1 DEF TLV_HEADER_SIZE
  <2> QED BY <1>1, <1>6, <1>8, <2>2, <2>7, <2>8 DEF PyPlace, TLV_HEADER_SIZE
<1> QED BY <1>9, <1>10

(* The last byte of a packet: it is returned unless an empty one was fed.  *)
LEMMA EmptyAfterPacket ==
  ASSUME LinkInv, LinkFeed, p = TLV_HEADER_SIZE + Len(Now.value)
  PROVE  /\ AfterEmpty(k)' <=> EmptyNow
         /\ \A i \in 1 .. k : AfterEmpty(i)' <=> AfterEmpty(i)
<1>1. /\ k \in Nat /\ k' = k + 1 /\ packed' = packed /\ Len(Now.value) \in Nat
      /\ verdicts'[k + 1].kind # "lost" /\ \A i \in 1 .. k : verdicts'[i] = verdicts[i]
  BY LinkFeedFacts
<1>2. \A i \in 1 .. k : AfterEmpty(i)' <=> AfterEmpty(i)
  <2> SUFFICES ASSUME NEW i \in 1 .. k PROVE AfterEmpty(i)' <=> AfterEmpty(i)
    OBVIOUS
  <2>1. i \in Nat /\ \A j \in 1 .. i : packed'[j] = packed[j] /\ verdicts'[j] = verdicts[j]
    BY <1>1
  <2> QED BY <2>1, EmptySame
<1>3. EmptyNow <=> AfterEmpty(k) \/ packed[k + 1].value = <<>>
  BY <1>1 DEF EmptyNow, Now, TLV_HEADER_SIZE
<1> DEFINE Quiet(j, i) == \A l \in j .. i : verdicts[l].kind # "lost"
           QuietNext(j) == \A l \in j .. k + 1 : verdicts'[l].kind # "lost"
<1>4. AfterEmpty(k)' <=> \E j \in 1 .. k + 1 : packed[j].value = <<>> /\ QuietNext(j)
  BY <1>1 DEF AfterEmpty
<1>5. AfterEmpty(k) <=> \E j \in 1 .. k : packed[j].value = <<>> /\ Quiet(j, k)
  BY DEF AfterEmpty
<1>6. ASSUME NEW j \in 1 .. k PROVE QuietNext(j) <=> Quiet(j, k)
  <2>1. ASSUME Quiet(j, k), NEW l \in j .. k + 1 PROVE verdicts'[l].kind # "lost"
    <3>1. l = k + 1 \/ (l \in j .. k /\ l \in 1 .. k)
      BY <1>1
    <3> QED BY <1>1, <2>1, <3>1
  <2>2. ASSUME QuietNext(j), NEW l \in j .. k PROVE verdicts[l].kind # "lost"
    <3>1. l \in j .. k + 1 /\ l \in 1 .. k
      BY <1>1
    <3> QED BY <1>1, <2>2, <3>1
  <2> QED BY <2>1, <2>2
<1>7. QuietNext(k + 1)
  <2>1. ASSUME NEW l \in k + 1 .. k + 1 PROVE l = k + 1
    BY <1>1
  <2> QED BY <1>1, <2>1
<1> HIDE DEF Quiet, QuietNext
<1>8. \A j \in 1 .. k + 1 : j \in 1 .. k \/ j = k + 1
  BY <1>1
<1>9. k + 1 \in 1 .. k + 1 /\ \A j \in 1 .. k : j \in 1 .. k + 1
  BY <1>1
<1>10. AfterEmpty(k)' <=> EmptyNow
  BY ONLY <1>3, <1>4, <1>5, <1>6, <1>7, <1>8, <1>9
<1> QED BY <1>2, <1>10

LEMMA PyLastStep ==
  ASSUME LinkInv, LinkFeed, p = TLV_HEADER_SIZE + Len(Now.value)
  PROVE  PyType' /\ PyPlace' /\ ReturnedExactly'
<1> DEFINE byte == tlv_pack(Now)[p + 1]
           n == Len(Now.value)
<1>1. /\ Now \in Pkt /\ n \in Nat /\ k \in Nat /\ packed' = packed
      /\ k' = k + 1 /\ p' = 0 /\ verdicts'[k + 1].kind # "lost"
      /\ \A i \in 1 .. k : verdicts'[i] = verdicts[i]
  BY LinkFeedFacts
<1>2. (AfterEmpty(k)' <=> EmptyNow) /\ \A i \in 1 .. k : AfterEmpty(i)' <=> AfterEmpty(i)
  BY EmptyAfterPacket
<1>3. EmptyNow' <=> EmptyNow
  BY <1>1, <1>2 DEF EmptyNow, TLV_HEADER_SIZE
<1>4. PyType /\ PyPlace /\ ReturnedExactly /\ p >= TLV_HEADER_SIZE
  BY <1>1 DEF LinkInv, TLV_HEADER_SIZE
<1>5. byte \in Sent
  <2>1. p + 1 \in 1 .. TLV_HEADER_SIZE + Len(Now.value) + 1
    BY <1>1 DEF TLV_HEADER_SIZE
  <2> HIDE DEF Now
  <2> QED BY <1>1, <2>1, ByteSent
<1>6. PyFeedHeader(byte) \/ PyFeedBody(byte) \/ PyFeedCrc(byte)
  BY DEF LinkFeed, Now
<1>7. \A i \in 1 .. k : Heard(i)' <=> Heard(i)
  BY <1>1, <1>2 DEF Heard
<1>8. \A i \in 1 .. k + 1 : Answer(i)' = Answer(i)
  BY <1>1 DEF Answer
<1>9. ASSUME NEW i \in Nat, i = k + 1 PROVE Heard(i)' <=> ~EmptyNow
  <2>1. AfterEmpty(i)' <=> AfterEmpty(k)'
    BY <1>1, <1>9 DEF AfterEmpty
  <2> QED BY <1>1, <1>2, <1>9, <2>1 DEF Heard
<1>10. \A i \in 1 .. k + 1 : i \in 1 .. k \/ (i \in Nat /\ i = k + 1)
  BY <1>1
<1> HIDE DEF byte, n
<1>11. CASE EmptyNow
  <2>1. py.state = "BODY" /\ py.length = 0 /\ py.body \in Seq(Sent) /\ Len(py.body) \in Nat
    BY <1>4, <1>11, LenProperties DEF PyPlace, PyType
  <2>2. PyFeedBody(byte)
    BY <1>6, <2>1 DEF PyFeedHeader, PyFeedCrc
  <2>3. Append(py.body, byte) \in Seq(Sent)
    BY <1>5, <2>1
  <2>4. PyType' /\ py'.state = "BODY" /\ py'.length = 0 /\ returned' = returned
    <3> DEFINE body == Append(py.body, byte)
    <3>1. Len(py.body) + 1 # py.length
      BY <2>1
    <3>2. py' = [py EXCEPT !.body = body, !.state = "BODY"] /\ returned' = returned
      BY <2>2, <3>1 DEF PyFeedBody
    <3> HIDE DEF body
    <3> QED BY <1>4, <2>1, <2>3, <3>2 DEF PyType, body
  <2>5. PyPlace'
    <3>1. EmptyNow'
      BY <1>3, <1>11
    <3> QED BY ONLY <2>4, <3>1 DEF PyPlace
  <2>6. \A i \in 1 .. k + 1 : Heard(i)' <=> i \in 1 .. k /\ Heard(i)
    <3>1. ASSUME NEW i \in 1 .. k + 1 PROVE Heard(i)' <=> i \in 1 .. k /\ Heard(i)
      BY <1>1, <1>7, <1>9, <1>10, <1>11
    <3> QED BY <3>1
  <2>7. {Answer(i)' : i \in {i \in 1 .. k + 1 : Heard(i)'}} = {Answer(i) : i \in {i \in 1 .. k : Heard(i)}}
    BY <1>1, <1>8, <2>6
  <2>8. ReturnedExactly'
    BY <1>1, <1>4, <2>4, <2>7 DEF ReturnedExactly
  <2> QED BY <2>4, <2>5, <2>8
<1>12. CASE ~EmptyNow
  <2>1. AfterHeader /\ py.state = "CRC"
    BY <1>1, <1>4, <1>12 DEF PyPlace, AfterHeader, TLV_HEADER_SIZE
  <2>2. PyFeedCrc(byte)
    BY <1>6, <2>1 DEF PyFeedHeader, PyFeedBody
  <2>3. py.body = Now.value
    <3>1. /\ py.body \in Seq(Sent) /\ Len(py.body) = n /\ Now.value \in Seq(Byte) /\ Len(Now.value) = n
          /\ \A i \in 1 .. n : py.body[i] = Now.value[i]
      BY <1>1, <1>4, <2>1, PacketShape DEF PyType, AfterHeader, TLV_HEADER_SIZE, n, Pkt
    <3>2. Now.value \in Seq(Sent)
      BY <3>1 DEF Sent
    <3> QED BY <3>1, <3>2, SeqEqual
  <2>4. returned' = returned \cup {Answer(k + 1)}
    BY <2>1, <2>2, <2>3 DEF PyFeedCrc, AfterHeader, Answer, Now
  <2>5. <<>> \in Seq(Sent)
    BY EmptySeq
  <2>6. PyType' /\ py'.state = "HEADER" /\ py'.header = <<>>
    BY <1>4, <2>2, <2>5 DEF PyFeedCrc, PyType
  <2>7. PyPlace'
    BY <1>1, <1>3, <1>12, <2>6 DEF PyPlace, InHeader, TLV_HEADER_SIZE
  <2>8. \A i \in 1 .. k + 1 : Heard(i)' <=> (i \in 1 .. k /\ Heard(i)) \/ i = k + 1
    <3>1. ASSUME NEW i \in 1 .. k + 1
          PROVE  Heard(i)' <=> (i \in 1 .. k /\ Heard(i)) \/ i = k + 1
      BY <1>1, <1>7, <1>9, <1>10, <1>12
    <3> QED BY <3>1
  <2>9. {Answer(i)' : i \in {i \in 1 .. k + 1 : Heard(i)'}}
          = {Answer(i) : i \in {i \in 1 .. k : Heard(i)}} \cup {Answer(k + 1)}
    <3> DEFINE before == {i \in 1 .. k : Heard(i)}
               after == {i \in 1 .. k + 1 : Heard(i)'}
    <3>1. after = before \cup {k + 1}
      BY <1>1, <2>8
    <3>2. {Answer(i)' : i \in after} = {Answer(i) : i \in after}
      BY <1>8
    <3> HIDE DEF before, after
    <3>3. {Answer(i) : i \in before \cup {k + 1}} = {Answer(i) : i \in before} \cup {Answer(k + 1)}
      OBVIOUS
    <3>4. {Answer(i)' : i \in after} = {Answer(i) : i \in before} \cup {Answer(k + 1)}
      BY ONLY <3>1, <3>2, <3>3
    <3> QED BY <3>4 DEF before, after
  <2>10. ReturnedExactly'
    BY <1>1, <1>4, <2>4, <2>9 DEF ReturnedExactly
  <2> QED BY <2>6, <2>7, <2>10
<1> QED BY <1>11, <1>12

LEMMA LinkNextInv == LinkInv /\ [LinkNext]_linkVars => LinkInv'
<1> SUFFICES ASSUME LinkInv, [LinkNext]_linkVars PROVE LinkInv'
  OBVIOUS
<1>1. ASSUME NEW packer \in Packers, NEW tag \in Tags, NEW value \in Payloads,
             Send(packer, tag, value), UNCHANGED <<py, returned>>
      PROVE  LinkInv'
  BY <1>1, LinkSendInv
<1>2. CASE LinkFeed
  <2>1. IInv'
    BY <1>2, FeedFacts, FeedHeaderIInv, FeedBodyIInv, FeedCrcIInv DEF LinkInv, LinkFeed
  <2>2. PyType' /\ PyPlace' /\ ReturnedExactly'
    <3>1. p < TLV_HEADER_SIZE + Len(Now.value) \/ p = TLV_HEADER_SIZE + Len(Now.value)
      BY <1>2, LinkFeedFacts DEF TLV_HEADER_SIZE
    <3>2. \/ PyFeedHeader(tlv_pack(Now)[p + 1])
          \/ PyFeedBody(tlv_pack(Now)[p + 1])
          \/ PyFeedCrc(tlv_pack(Now)[p + 1])
      BY <1>2 DEF LinkFeed, Now
    <3>3. p < TLV_HEADER_SIZE + Len(Now.value) => py.state # "CRC"
      BY <1>2, LinkFeedFacts DEF LinkInv, PyPlace, InHeader, AfterHeader, TLV_HEADER_SIZE
    <3> QED BY <1>2, <3>1, <3>2, <3>3, PyHeaderStep, PyBodyStep, PyLastStep DEF PyFeedCrc
  <2> QED BY <2>1, <2>2 DEF LinkInv
<1>3. CASE NewCall /\ UNCHANGED <<py, returned>>
  BY <1>3, LinkNewCallInv
<1>4. CASE LinkReconnect
  BY <1>4, LinkReconnectInv
<1>5. CASE UNCHANGED linkVars
  <2>1. IInv'
    BY <1>5, NextIInv DEF LinkInv, linkVars
  <2> QED
    BY <1>5, <2>1 DEF LinkInv, linkVars, vars, PyType, PyPlace, EmptyNow, AfterEmpty, InHeader,
                      AfterHeader, Now, ReturnedExactly, Heard, Answer
<1> QED BY <1>1, <1>2, <1>3, <1>4, <1>5 DEF LinkNext

(* However the stream is cut and whoever packs, the Python reader returns  *)
(* only what was packed, and every packet that arrives until an empty one  *)
(* is on the connection.                                                   *)
THEOREM PyReaderCorrect == LinkSpec => []PyReaderExact
<1>1. LinkInv => PyReaderExact
  BY DEF LinkInv, ReturnedExactly, Heard, PyReaderExact
<1> QED BY <1>1, LinkInitInv, LinkNextInv, PTL DEF LinkSpec

(* What holds of every run of TlvReader holds beside the Python reader. *)
THEOREM LinkInSync == LinkSpec => []InSync
BY LinkImplementsReader, ReaderInSync, PTL

THEOREM LinkVerdicts == LinkSpec => []VerdictsMatch
BY LinkImplementsReader, VerdictsCorrect, PTL

THEOREM LinkDamage == LinkSpec => []DamageDetected
BY LinkImplementsReader, SingleDamageSeen, PTL

=============================================================================
