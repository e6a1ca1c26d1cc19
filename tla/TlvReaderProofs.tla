--------------------------- MODULE TlvReaderProofs ---------------------------
(***************************************************************************)
(* Proofs about TlvReader for every set of tags and of values: the reader  *)
(* keeps its place in the stream, its state is always one the code can be  *)
(* in, its verdicts concern the packets they are given on, the checksum    *)
(* sees every change of a single byte, and nothing but a call boundary in  *)
(* a body keeps a packet from being delivered.                             *)
(***************************************************************************)
EXTENDS TlvReader, SequenceTheorems, WellFoundedInduction, TLAPS

(* The packet whose bytes are being fed. *)
Now == packed[k + 1]

(* What the reader knows of it in each state. *)
HeaderInv ==
  reader.state = "HEADER" =>
    /\ Len(reader.header) = p /\ p < TLV_HEADER_SIZE /\ reader.body_pos = 0
    /\ p >= 1 => reader.header[1] = Now.tag
    /\ p >= 2 => reader.header[2] = Len(Now.value) \div Base

BodyInv ==
  reader.state # "HEADER" =>
    /\ Len(reader.header) = TLV_HEADER_SIZE
    /\ reader.tag = Now.tag /\ reader.len = Len(Now.value)
    /\ p = TLV_HEADER_SIZE + reader.body_pos
    /\ reader.state = "BODY" => reader.body_pos < reader.len
    /\ reader.state = "CRC" => reader.body_pos = reader.len

PlaceInv ==
  /\ Len(verdicts) = k
  /\ p > 0 => k < Len(packed)
  /\ Len(val_buf) >= reader.body_pos
  /\ HeaderInv
  /\ BodyInv

(* What two bytes can count. *)
Lengths == 0 .. Base * Base - 1

(* The types, with those of the verdicts and without what PlaceInv says.    *)
ReaderType ==
  [state : {"HEADER", "BODY", "CRC"}, header : Seq(Byte), tag : Byte,
   len : Lengths, body_pos : Nat]

Typed ==
  /\ packed \in Seq([packer : Packers, tag : Tags, value : Payloads])
  /\ k \in 0 .. Len(packed) /\ p \in Nat
  /\ reader \in ReaderType
  /\ val_buf \in Seq(Byte)
  /\ verdicts \in Seq([kind : {"packet", "error", "silent", "lost"}, tag : Byte, value : Seq(Byte)])

IInv == Typed /\ PlaceInv /\ VerdictsMatch

-----------------------------------------------------------------------------
(* The bytes of a packet. *)

LEMMA TwoBytes ==
  ASSUME NEW n \in Lengths
  PROVE  n \div Base \in Byte /\ n % Base \in Byte /\ (n \div Base) * Base + (n % Base) = n
<1>1. CASE Base = 4
  BY <1>1 DEF Byte, Lengths
<1>2. CASE Base = 256
  BY <1>2 DEF Byte, Lengths
<1> QED BY <1>1, <1>2, BaseAssumption

LEMMA LengthsAreNat == Lengths \subseteq Nat /\ 0 \in Lengths
<1>1. CASE Base = 4
  BY <1>1 DEF Lengths
<1>2. CASE Base = 256
  BY <1>2 DEF Lengths
<1> QED BY <1>1, <1>2, BaseAssumption

LEMMA Countable ==
  ASSUME NEW n \in Nat, n < Base * Base
  PROVE  n \in Lengths
<1>1. CASE Base = 4
  BY <1>1 DEF Lengths
<1>2. CASE Base = 256
  <2>1. Base * Base = 65536
    BY <1>2
  <2> QED BY <2>1 DEF Lengths
<1> QED BY <1>1, <1>2, BaseAssumption

LEMMA ConcatIndex ==
  ASSUME NEW S, NEW s \in Seq(S), NEW t \in Seq(S)
  PROVE  /\ s \o t \in Seq(S) /\ Len(s \o t) = Len(s) + Len(t)
         /\ \A i \in 1 .. Len(s) : (s \o t)[i] = s[i]
         /\ \A i \in 1 .. Len(t) : (s \o t)[Len(s) + i] = t[i]
<1>1. Len(s) \in Nat /\ Len(t) \in Nat
  BY LenProperties
<1> QED BY <1>1, ConcatProperties

LEMMA PacketShape ==
  ASSUME NEW pkt \in [packer : Packers, tag : Tags, value : Payloads]
  PROVE  /\ pkt.tag \in Byte
         /\ pkt.value \in Seq(Byte) /\ Len(pkt.value) \in Lengths
         /\ Len(tlv_pack(pkt)) = TLV_HEADER_SIZE + Len(pkt.value) + 1
         /\ tlv_pack(pkt)[1] = pkt.tag
         /\ tlv_pack(pkt)[2] = Len(pkt.value) \div Base
         /\ tlv_pack(pkt)[3] = Len(pkt.value) % Base
         /\ \A i \in 1 .. Len(pkt.value) : tlv_pack(pkt)[TLV_HEADER_SIZE + i] = pkt.value[i]
<1> DEFINE value == pkt.value
           n == Len(value)
           crc == Checksum(pkt)
           S == Byte \cup {crc}
           head == <<pkt.tag, n \div Base, n % Base>>
<1>1. pkt.tag \in Byte /\ value \in Seq(Byte) /\ n < Base * Base
  BY TagAssumption, PayloadAssumption
<1>2. n \in Lengths
  <2>1. n \in Nat
    BY <1>1, LenProperties
  <2> HIDE DEF n
  <2> QED BY <1>1, <2>1, Countable
<1>3. n \div Base \in Byte /\ n % Base \in Byte
  <2> HIDE DEF n
  <2> QED BY <1>2, TwoBytes
<1> HIDE DEF crc
<1>4. head \in Seq(S) /\ Len(head) = 3 /\ value \in Seq(S) /\ <<crc>> \in Seq(S) /\ Len(<<crc>>) = 1
  BY <1>1, <1>3
<1> HIDE DEF head, value, S
<1>5. /\ head \o value \in Seq(S) /\ Len(head \o value) = 3 + n
      /\ \A i \in 1 .. 3 : (head \o value)[i] = head[i]
      /\ \A i \in 1 .. n : (head \o value)[3 + i] = value[i]
  <2>1. /\ head \o value \in Seq(S) /\ Len(head \o value) = Len(head) + Len(value)
        /\ \A i \in 1 .. Len(head) : (head \o value)[i] = head[i]
        /\ \A i \in 1 .. Len(value) : (head \o value)[Len(head) + i] = value[i]
    <3>1. head \in Seq(S) /\ value \in Seq(S)
      BY ONLY <1>4
    <3> QED BY ONLY <3>1, ConcatIndex
  <2> QED BY ONLY <1>4, <2>1
<1>6. /\ Len(head \o value \o <<crc>>) = 3 + n + 1
      /\ \A i \in 1 .. 3 + n : (head \o value \o <<crc>>)[i] = (head \o value)[i]
  <2>1. /\ Len(head \o value \o <<crc>>) = Len(head \o value) + Len(<<crc>>)
        /\ \A i \in 1 .. Len(head \o value) : (head \o value \o <<crc>>)[i] = (head \o value)[i]
    BY ONLY <1>4, <1>5, ConcatIndex
  <2> QED BY ONLY <1>4, <1>5, <2>1
<1>7. tlv_pack(pkt) = head \o value \o <<crc>>
  BY DEF tlv_pack, Content, head, value, crc
<1>8. \A i \in 1 .. 3 : tlv_pack(pkt)[i] = head[i]
  BY <1>2, <1>5, <1>6, <1>7
<1>9. \A i \in 1 .. n : tlv_pack(pkt)[3 + i] = value[i]
  BY <1>2, <1>5, <1>6, <1>7
<1> QED
  BY <1>1, <1>2, <1>6, <1>7, <1>8, <1>9 DEF TLV_HEADER_SIZE, head, value

-----------------------------------------------------------------------------
LEMMA InitIInv == Init => IInv
<1> SUFFICES ASSUME Init PROVE IInv
  OBVIOUS
<1>1. Typed
  BY LengthsAreNat, BaseAssumption DEF Init, Typed, ReaderType, Byte
<1>2. PlaceInv
  BY DEF Init, PlaceInv, HeaderInv, BodyInv, TLV_HEADER_SIZE
<1>3. VerdictsMatch
  BY DEF Init, VerdictsMatch
<1> QED BY <1>1, <1>2, <1>3 DEF IInv

LEMMA SendIInv ==
  ASSUME IInv, NEW packer \in Packers, NEW tag \in Tags, NEW value \in Payloads,
         Send(packer, tag, value)
  PROVE  IInv'
<1> DEFINE pkt == Packet(packer, tag, value)
<1>1. /\ packed \in Seq([packer : Packers, tag : Tags, value : Payloads]) /\ k \in 0 .. Len(packed)
      /\ Len(verdicts) = k /\ verdicts' = verdicts
  BY DEF IInv, Typed, PlaceInv, Send
<1>2. /\ packed' \in Seq([packer : Packers, tag : Tags, value : Payloads])
      /\ Len(packed') = Len(packed) + 1
      /\ \A i \in 1 .. Len(packed) : packed'[i] = packed[i]
  BY <1>1 DEF Send, Packet
<1>3. Typed'
  BY <1>1, <1>2 DEF IInv, Typed, Send
<1>4. p > 0 => Now' = Now
  BY <1>1, <1>2 DEF IInv, PlaceInv, Now, Send
<1>5. PlaceInv'
  BY <1>1, <1>2, <1>4 DEF IInv, Typed, ReaderType, PlaceInv, HeaderInv, BodyInv, TLV_HEADER_SIZE, Send
<1>6. VerdictsMatch'
  BY <1>1, <1>2 DEF IInv, VerdictsMatch
<1> QED BY <1>3, <1>5, <1>6 DEF IInv

(* A caller's buffer may change between two calls; nothing here depends on *)
(* what is in it.                                                          *)
LEMMA NewCallIInv ==
  ASSUME IInv, NewCall
  PROVE  IInv'
<1>1. val_buf' \in Seq(Byte) /\ Len(val_buf') = reader.body_pos
  <2> DEFINE n == reader.body_pos
  <2>1. n \in Nat /\ val_buf' \in [1 .. n -> Byte]
    BY LeftoverAssumption DEF IInv, Typed, ReaderType, NewCall
  <2> HIDE DEF n
  <2>2. val_buf' \in Seq(Byte) /\ Len(val_buf') = n
    BY <2>1, SeqDef
  <2> QED BY <2>2 DEF n
<1>2. Typed' /\ PlaceInv'
  BY <1>1 DEF IInv, Typed, ReaderType, PlaceInv, HeaderInv, BodyInv, Now, NewCall
<1>3. VerdictsMatch'
  BY DEF IInv, VerdictsMatch, NewCall
<1> QED BY <1>2, <1>3 DEF IInv

-----------------------------------------------------------------------------
(* tlv_reader_feed() with a byte of the current packet. *)

(* Feed moves on by one byte. *)
LEMMA FeedFacts ==
  ASSUME IInv, Feed
  PROVE  /\ k < Len(packed) /\ Now \in [packer : Packers, tag : Tags, value : Payloads]
         /\ p \in 0 .. TLV_HEADER_SIZE + Len(Now.value)
         /\ \/ FeedHeader(tlv_pack(Now)[p + 1])
            \/ FeedBody(tlv_pack(Now)[p + 1])
            \/ FeedCrc(tlv_pack(Now)[p + 1])
         /\ p = TLV_HEADER_SIZE + Len(Now.value) => k' = k + 1 /\ p' = 0
         /\ p < TLV_HEADER_SIZE + Len(Now.value) => k' = k /\ p' = p + 1
         /\ packed' = packed
<1>1. k < Len(packed) /\ packed' = packed
  BY DEF Feed
<1>2. packed \in Seq([packer : Packers, tag : Tags, value : Payloads]) /\ k \in Nat
  BY DEF IInv, Typed
<1>3. Now \in [packer : Packers, tag : Tags, value : Payloads]
  <2>1. k + 1 \in 1 .. Len(packed)
    BY <1>1, <1>2
  <2> QED BY <1>2, <2>1, ElementOfSeq DEF Now
<1>4. /\ Len(Now.value) \in Nat
      /\ Len(tlv_pack(Now)) = TLV_HEADER_SIZE + Len(Now.value) + 1
  <2> HIDE DEF Now
  <2> QED BY <1>3, PacketShape
<1>5. p \in 0 .. TLV_HEADER_SIZE + Len(Now.value)
  BY <1>4 DEF IInv, Typed, ReaderType, PlaceInv, HeaderInv, BodyInv, TLV_HEADER_SIZE
<1>6. /\ \/ FeedHeader(tlv_pack(Now)[p + 1])
         \/ FeedBody(tlv_pack(Now)[p + 1])
         \/ FeedCrc(tlv_pack(Now)[p + 1])
      /\ IF p + 1 = Len(tlv_pack(Now)) THEN k' = k + 1 /\ p' = 0 ELSE k' = k /\ p' = p + 1
  BY DEF Feed, Now
<1> QED BY <1>1, <1>3, <1>4, <1>5, <1>6 DEF TLV_HEADER_SIZE

LEMMA FeedHeaderIInv ==
  ASSUME IInv, Feed, FeedHeader(tlv_pack(Now)[p + 1])
  PROVE  IInv'
<1> DEFINE byte == tlv_pack(Now)[p + 1]
           header == Append(reader.header, byte)
           n == Len(Now.value)
<1>1. /\ Now \in [packer : Packers, tag : Tags, value : Payloads] /\ k < Len(packed) /\ packed' = packed
      /\ p \in 0 .. TLV_HEADER_SIZE + n
      /\ p < TLV_HEADER_SIZE + n => k' = k /\ p' = p + 1
  BY FeedFacts
<1>2. n \in Lengths
  BY <1>1, PacketShape
<1>3. /\ reader.state = "HEADER" /\ reader \in ReaderType
      /\ Len(reader.header) = p /\ p < 3 /\ reader.body_pos = 0
      /\ p >= 1 => reader.header[1] = Now.tag
      /\ p >= 2 => reader.header[2] = n \div Base
  BY DEF FeedHeader, IInv, Typed, PlaceInv, HeaderInv, TLV_HEADER_SIZE
<1>4. k' = k /\ p' = p + 1
  BY <1>1, <1>2, <1>3, LengthsAreNat DEF TLV_HEADER_SIZE
<1>5. Now' = Now
  BY <1>1, <1>4 DEF Now
<1>6. /\ p = 0 => byte = Now.tag
      /\ p = 1 => byte = n \div Base
      /\ p = 2 => byte = n % Base
  BY <1>1, PacketShape
<1>7. byte \in Byte
  <2>1. Now.tag \in Byte
    BY <1>1, PacketShape
  <2>2. n \div Base \in Byte /\ n % Base \in Byte
    BY <1>2, TwoBytes
  <2>3. p = 0 \/ p = 1 \/ p = 2
    BY <1>1, <1>3
  <2> QED BY <1>6, <2>1, <2>2, <2>3
<1>8. /\ header \in Seq(Byte) /\ Len(header) = p + 1
      /\ header[p + 1] = byte
      /\ \A i \in 1 .. p : header[i] = reader.header[i]
  BY <1>1, <1>3, <1>7 DEF ReaderType
<1>9. UNCHANGED <<val_buf, verdicts>>
  BY DEF FeedHeader
<1> HIDE DEF byte, header, n
<1>10. CASE p < 2
  <2>1. reader' = [reader EXCEPT !.header = header]
    BY <1>1, <1>8, <1>10 DEF FeedHeader, TLV_HEADER_SIZE, header, byte
  <2>2. /\ reader'.state = "HEADER" /\ reader'.header = header
        /\ reader'.body_pos = 0 /\ reader' \in ReaderType
    BY <1>3, <1>8, <2>1 DEF ReaderType
  <2>3. HeaderInv'
    BY <1>1, <1>3, <1>4, <1>5, <1>6, <1>8, <1>10, <2>2 DEF HeaderInv, TLV_HEADER_SIZE, n
  <2>4. PlaceInv' /\ Typed'
    BY <1>1, <1>3, <1>4, <1>9, <2>2, <2>3 DEF IInv, Typed, PlaceInv, BodyInv
  <2> QED BY <1>1, <1>9, <2>4 DEF IInv, VerdictsMatch
<1>11. CASE p = 2
  <2>1. header[1] = Now.tag /\ header[2] = n \div Base /\ header[3] = n % Base
    BY <1>3, <1>6, <1>8, <1>11
  <2>2. header[2] * Base + header[3] = n
    BY ONLY <1>2, <2>1, TwoBytes
  <2>3. reader' = [state |-> IF n = 0 THEN "CRC" ELSE "BODY",
                   header |-> header, tag |-> Now.tag, len |-> n, body_pos |-> 0]
    <3>1. reader' = [state |-> IF header[2] * Base + header[3] = 0 THEN "CRC" ELSE "BODY",
                     header |-> header, tag |-> header[1],
                     len |-> header[2] * Base + header[3], body_pos |-> 0]
      <4>1. ~ (Len(header) < TLV_HEADER_SIZE)
        BY ONLY <1>8, <1>11 DEF TLV_HEADER_SIZE
      <4>2. FeedHeader(byte)
        BY DEF byte
      <4> QED BY ONLY <4>1, <4>2 DEF FeedHeader, header
    <3> QED BY ONLY <2>1, <2>2, <3>1
  <2>4. Now.tag \in Byte
    BY <1>1, PacketShape
  <2>5. reader' \in ReaderType
    BY <1>2, <1>8, <2>3, <2>4, LengthsAreNat DEF ReaderType
  <2>6. BodyInv' /\ HeaderInv'
    BY <1>2, <1>4, <1>5, <1>8, <1>11, <2>3, LengthsAreNat DEF BodyInv, HeaderInv, TLV_HEADER_SIZE, n
  <2>7. PlaceInv' /\ Typed'
    BY <1>1, <1>3, <1>4, <1>9, <2>3, <2>5, <2>6 DEF IInv, Typed, PlaceInv
  <2> QED BY <1>1, <1>9, <2>7 DEF IInv, VerdictsMatch
<1> QED BY <1>1, <1>3, <1>10, <1>11

LEMMA FeedBodyIInv ==
  ASSUME IInv, Feed, FeedBody(tlv_pack(Now)[p + 1])
  PROVE  IInv'
<1> DEFINE byte == tlv_pack(Now)[p + 1]
           n == Len(Now.value)
           pos == reader.body_pos
<1>1. /\ Now \in [packer : Packers, tag : Tags, value : Payloads] /\ k < Len(packed) /\ packed' = packed
      /\ p < TLV_HEADER_SIZE + n => k' = k /\ p' = p + 1
  BY FeedFacts
<1>2. n \in Lengths /\ Now.value \in Seq(Byte)
  BY <1>1, PacketShape
<1>3. /\ reader.state = "BODY" /\ reader \in ReaderType
      /\ Len(reader.header) = TLV_HEADER_SIZE
      /\ reader.tag = Now.tag /\ reader.len = n
      /\ p = TLV_HEADER_SIZE + pos /\ pos < n /\ pos \in Nat
      /\ Len(val_buf) >= pos /\ val_buf \in Seq(Byte)
  BY DEF FeedBody, IInv, Typed, PlaceInv, BodyInv, ReaderType
<1>4. k' = k /\ p' = p + 1
  BY <1>1, <1>2, <1>3, LengthsAreNat DEF TLV_HEADER_SIZE
<1>5. Now' = Now
  BY <1>1, <1>4 DEF Now
<1>6. byte \in Byte
  <2>1. pos + 1 \in 1 .. n
    BY <1>2, <1>3, LengthsAreNat
  <2>2. byte = Now.value[pos + 1]
    BY <1>1, <1>3, <2>1, PacketShape DEF TLV_HEADER_SIZE
  <2> QED BY <1>2, <2>1, <2>2
<1>7. verdicts' = verdicts
  BY DEF FeedBody
<1> HIDE DEF byte, n
<1>8. val_buf' \in Seq(Byte) /\ Len(val_buf') = pos + 1
  <2>1. val_buf' = [i \in 1 .. pos + 1 |-> IF i <= pos THEN val_buf[i] ELSE byte]
    BY DEF FeedBody, byte
  <2>2. \A i \in 1 .. pos + 1 : (IF i <= pos THEN val_buf[i] ELSE byte) \in Byte
    BY <1>3, <1>6
  <2> HIDE DEF pos
  <2>3. val_buf' \in [1 .. pos + 1 -> Byte]
    BY <2>1, <2>2
  <2> QED BY <1>3, <2>3, SeqDef
<1>9. /\ reader'.state = IF pos + 1 >= n THEN "CRC" ELSE "BODY"
      /\ reader'.body_pos = pos + 1
      /\ reader'.header = reader.header /\ reader'.tag = reader.tag /\ reader'.len = reader.len
      /\ reader' \in ReaderType
  <2>1. reader' = [reader EXCEPT !.body_pos = pos + 1,
                                 !.state = IF pos + 1 >= n THEN "CRC" ELSE "BODY"]
    <3>1. FeedBody(byte)
      BY DEF byte
    <3> QED BY ONLY <1>3, <3>1 DEF FeedBody
  <2>2. reader \in ReaderType /\ pos + 1 \in Nat
    BY <1>3
  <2> HIDE DEF pos
  <2> QED BY ONLY <2>1, <2>2 DEF ReaderType
<1>10. BodyInv' /\ HeaderInv'
  BY <1>2, <1>3, <1>4, <1>5, <1>9, LengthsAreNat DEF BodyInv, HeaderInv, TLV_HEADER_SIZE, n
<1>11. PlaceInv' /\ Typed'
  BY <1>1, <1>3, <1>4, <1>7, <1>8, <1>9, <1>10 DEF IInv, Typed, PlaceInv, TLV_HEADER_SIZE
<1> QED BY <1>1, <1>7, <1>11 DEF IInv, VerdictsMatch

(* The checksum byte ends the packet and brings the verdict, and the       *)
(* reader is ready for the next header whatever the verdict is.            *)
LEMMA FeedCrcIInv ==
  ASSUME IInv, Feed, FeedCrc(tlv_pack(Now)[p + 1])
  PROVE  IInv'
<1> DEFINE n == Len(Now.value)
           value == SubSeq(val_buf, 1, reader.body_pos)
           V == [kind : {"packet", "error", "silent", "lost"}, tag : Byte, value : Seq(Byte)]
<1>1. /\ Now \in [packer : Packers, tag : Tags, value : Payloads] /\ k < Len(packed) /\ packed' = packed
      /\ p = TLV_HEADER_SIZE + n => k' = k + 1 /\ p' = 0
  BY FeedFacts
<1>2. n \in Lengths /\ Now.value \in Seq(Byte)
  BY <1>1, PacketShape
<1>3. /\ reader.state = "CRC" /\ reader \in ReaderType
      /\ reader.tag = Now.tag /\ reader.len = n /\ reader.body_pos = n
      /\ p = TLV_HEADER_SIZE + n
      /\ Len(val_buf) >= n /\ val_buf \in Seq(Byte)
      /\ Len(verdicts) = k /\ VerdictsMatch /\ Typed
  BY DEF FeedCrc, IInv, Typed, PlaceInv, BodyInv
<1>4. k' = k + 1 /\ p' = 0
  BY <1>1, <1>3
<1>5. value \in Seq(Byte) /\ Len(value) = n
  BY <1>2, <1>3, LengthsAreNat
<1>6. /\ reader'.state = "HEADER" /\ reader'.header = <<>> /\ reader'.body_pos = 0
      /\ reader' \in ReaderType
  <2>1. reader' = [reader EXCEPT !.state = "HEADER", !.header = <<>>, !.body_pos = 0]
    BY DEF FeedCrc, Initialised
  <2>2. <<>> \in Seq(Byte)
    BY EmptySeq
  <2> QED BY ONLY <1>3, <2>1, <2>2 DEF ReaderType
<1>7. val_buf' = val_buf
  BY DEF FeedCrc
<1>8. PICK e \in {Verdict("error", value), Verdict("silent", <<>>), Verdict("packet", value)} :
        /\ verdicts' = Append(verdicts, e)
        /\ e = Verdict("silent", <<>>) => n = 0
  <2>1. verdicts' = Append(verdicts, Verdict("error", value))
          \/ (reader.len = 0 /\ verdicts' = Append(verdicts, Verdict("silent", <<>>)))
          \/ verdicts' = Append(verdicts, Verdict("packet", value))
    BY DEF FeedCrc
  <2> QED BY <1>3, <2>1 DEF Verdict
<1> HIDE DEF n, value
<1>9. e \in V
  <2>1. reader.tag \in Byte /\ <<>> \in Seq(Byte)
    BY <1>3 DEF ReaderType
  <2>2. /\ Verdict("error", value) \in V /\ Verdict("silent", <<>>) \in V
        /\ Verdict("packet", value) \in V
    BY ONLY <1>5, <2>1 DEF Verdict
  <2> QED BY ONLY <2>2
<1>10. /\ verdicts' \in Seq([kind : {"packet", "error", "silent", "lost"}, tag : Byte, value : Seq(Byte)])
       /\ Len(verdicts') = k + 1 /\ verdicts'[k + 1] = e
       /\ \A i \in 1 .. k : verdicts'[i] = verdicts[i]
  BY <1>3, <1>8, <1>9 DEF Typed
<1>11. Typed'
  BY <1>1, <1>3, <1>4, <1>6, <1>7, <1>10 DEF Typed
<1>12. PlaceInv'
  BY <1>1, <1>3, <1>4, <1>6, <1>7, <1>10 DEF Typed, PlaceInv, HeaderInv, BodyInv, TLV_HEADER_SIZE
<1>13. VerdictsMatch'
  <2>1. /\ e.kind = "packet" => e.tag = packed[k + 1].tag /\ Len(e.value) = Len(packed[k + 1].value)
        /\ e.kind = "silent" => packed[k + 1].value = <<>>
    BY <1>2, <1>3, <1>5, <1>8 DEF Verdict, Now, n
  <2>2. ASSUME NEW i \in 1 .. Len(verdicts')
        PROVE  /\ verdicts'[i].kind = "packet" =>
                    /\ verdicts'[i].tag = packed[i].tag
                    /\ Len(verdicts'[i].value) = Len(packed[i].value)
               /\ verdicts'[i].kind = "silent" => packed[i].value = <<>>
    <3>1. i \in 1 .. k \/ i = k + 1
      BY <1>3, <1>10 DEF Typed
    <3>2. CASE i \in 1 .. k
      BY <1>3, <1>10, <3>2 DEF VerdictsMatch
    <3>3. CASE i = k + 1
      BY ONLY <1>10, <2>1, <3>3
    <3> QED BY <3>1, <3>2, <3>3
  <2> QED BY <1>1, <2>2 DEF VerdictsMatch
<1> QED BY <1>11, <1>12, <1>13 DEF IInv

LEMMA ReconnectIInv ==
  ASSUME IInv, Reconnect
  PROVE  IInv'
<1> DEFINE V == [kind : {"packet", "error", "silent", "lost"}, tag : Byte, value : Seq(Byte)]
           n == Len(packed)
<1>1. /\ Typed /\ VerdictsMatch /\ Len(verdicts) = k /\ k < n
      /\ packed' = packed /\ k' = n /\ p' = 0 /\ val_buf' = val_buf
      /\ verdicts' = [i \in 1 .. n |-> IF i <= k THEN verdicts[i] ELSE Verdict("lost", <<>>)]
  BY DEF IInv, PlaceInv, Reconnect
<1>2. n \in Nat /\ k \in Nat /\ verdicts \in Seq(V)
  BY <1>1 DEF Typed
<1>3. Verdict("lost", <<>>) \in V
  BY <1>1 DEF Verdict, Typed, ReaderType
<1>4. /\ reader'.state = "HEADER" /\ reader'.header = <<>> /\ reader'.body_pos = 0
      /\ reader' \in ReaderType
  <2>1. reader' = [reader EXCEPT !.state = "HEADER", !.header = <<>>, !.body_pos = 0]
    BY DEF Reconnect, Initialised
  <2>2. reader \in ReaderType
    BY <1>1 DEF Typed
  <2>3. <<>> \in Seq(Byte)
    BY EmptySeq
  <2> QED BY ONLY <2>1, <2>2, <2>3 DEF ReaderType
<1> HIDE DEF n
<1>5. verdicts' \in Seq(V) /\ Len(verdicts') = n
  <2>1. \A i \in 1 .. n : (IF i <= k THEN verdicts[i] ELSE Verdict("lost", <<>>)) \in V
    <3>1. \A i \in 1 .. k : verdicts[i] \in V
      BY ONLY <1>1, <1>2, ElementOfSeq
    <3> QED BY ONLY <1>2, <1>3, <3>1
  <2> HIDE DEF V
  <2>2. verdicts' \in [1 .. n -> V]
    BY <1>1, <2>1
  <2> QED BY <1>2, <2>2, SeqDef
<1>6. Typed'
  BY <1>1, <1>2, <1>4, <1>5 DEF Typed, n
<1>7. PlaceInv'
  BY <1>1, <1>2, <1>4, <1>5 DEF Typed, PlaceInv, HeaderInv, BodyInv, TLV_HEADER_SIZE
<1>8. VerdictsMatch'
  BY <1>1, <1>2, <1>5 DEF VerdictsMatch, Verdict
<1> QED BY <1>6, <1>7, <1>8 DEF IInv

LEMMA NextIInv == IInv /\ [Next]_vars => IInv'
<1> SUFFICES ASSUME IInv, [Next]_vars PROVE IInv'
  OBVIOUS
<1>1. CASE \E packer \in Packers, tag \in Tags, value \in Payloads : Send(packer, tag, value)
  BY <1>1, SendIInv
<1>2. CASE Feed
  BY <1>2, FeedFacts, FeedHeaderIInv, FeedBodyIInv, FeedCrcIInv
<1>3. CASE NewCall
  BY <1>3, NewCallIInv
<1>4. CASE Reconnect
  BY <1>4, ReconnectIInv
<1>5. CASE UNCHANGED vars
  BY <1>5 DEF vars, IInv, Typed, PlaceInv, HeaderInv, BodyInv, Now, VerdictsMatch
<1> QED BY <1>1, <1>2, <1>3, <1>4, <1>5 DEF Next

THEOREM Invariance == Spec => []IInv
BY InitIInv, NextIInv, PTL DEF Spec

(* Whatever the values, the cuts, the contents of the buffers and the      *)
(* reconnects are, the reader stands where the sender's bytes stand.       *)
THEOREM ReaderInSync == Spec => []InSync
<1>1. ASSUME IInv PROVE InSync
  <2>1. reader \in ReaderType /\ p \in Nat /\ PlaceInv
    BY <1>1 DEF IInv, Typed
  <2>2. reader.body_pos \in Nat /\ reader.header \in Seq(Byte)
    BY <2>1 DEF ReaderType
  <2>3. reader.header = <<>> <=> Len(reader.header) = 0
    BY <2>2, EmptySeq
  <2>4. CASE reader.state = "HEADER"
    BY <2>1, <2>2, <2>3, <2>4 DEF PlaceInv, HeaderInv, InSync
  <2>5. CASE reader.state # "HEADER"
    <3>1. /\ Len(verdicts) = k /\ Len(reader.header) = 3
          /\ p = 3 + reader.body_pos
      BY <2>1, <2>5 DEF PlaceInv, BodyInv, TLV_HEADER_SIZE
    <3>2. p > 0 /\ p # 0 /\ p = Len(reader.header) + reader.body_pos
      BY ONLY <2>2, <3>1
    <3> QED BY ONLY <2>5, <3>1, <3>2 DEF InSync
  <2> QED BY <2>4, <2>5
<1> QED BY <1>1, Invariance, PTL

(* Every verdict is on the packet it is counted for.                       *)
THEOREM VerdictsCorrect == Spec => []VerdictsMatch
<1>1. IInv => VerdictsMatch
  BY DEF IInv
<1> QED BY <1>1, Invariance, PTL

(* The state of the reader is one its code can be in: never more than a    *)
(* header is collected, and never more of the body than its length.        *)
THEOREM TypeCorrect == Spec => []TypeOK
<1>1. ASSUME IInv PROVE TypeOK
  <2>1. /\ packed \in Seq([packer : Packers, tag : Tags, value : Payloads])
        /\ k \in 0 .. Len(packed) /\ p \in Nat /\ reader \in ReaderType /\ val_buf \in Seq(Byte)
        /\ verdicts \in
             Seq([kind : {"packet", "error", "silent", "lost"}, tag : Byte, value : Seq(Byte)])
        /\ PlaceInv
    BY <1>1 DEF IInv, Typed
  <2>2. /\ reader.header \in Seq(Byte) /\ Len(reader.header) \in Nat
        /\ reader.state \in {"HEADER", "BODY", "CRC"} /\ reader.tag \in Byte
        /\ reader.len \in Lengths /\ reader.body_pos \in Nat
    BY <2>1 DEF ReaderType
  <2>3. Base * Base \in Nat \ {0}
    BY BaseAssumption
  <2>4. reader.len \in 0 .. Base * Base - 1 /\ reader.len \in Nat
    BY <2>2, <2>3 DEF Lengths
  <2>5. /\ Len(reader.header) <= 3 /\ reader.body_pos <= reader.len
        /\ p <= 3 + reader.len
    <3>1. CASE reader.state = "HEADER"
      BY <2>1, <2>2, <2>4, <3>1 DEF PlaceInv, HeaderInv, TLV_HEADER_SIZE
    <3>2. CASE reader.state # "HEADER"
      <4>1. /\ Len(reader.header) = 3 /\ p = 3 + reader.body_pos
            /\ reader.state = "BODY" => reader.body_pos < reader.len
            /\ reader.state = "CRC" => reader.body_pos = reader.len
        BY <2>1, <3>2 DEF PlaceInv, BodyInv, TLV_HEADER_SIZE
      <4>2. reader.body_pos <= reader.len
        BY ONLY <2>2, <2>4, <3>2, <4>1
      <4> QED BY ONLY <2>2, <2>4, <4>1, <4>2
    <3> QED BY <3>1, <3>2
  <2>6. p \in 0 .. 3 + Base * Base
    <3> DEFINE most == Base * Base
    <3>1. p \in Nat /\ most \in Nat \ {0} /\ reader.len \in 0 .. most - 1 /\ p <= 3 + reader.len
      BY ONLY <2>1, <2>3, <2>4, <2>5
    <3> HIDE DEF most
    <3>2. p \in 0 .. 3 + most
      BY ONLY <3>1
    <3> QED BY <3>2 DEF most
  <2>7. \A i \in 1 .. Len(verdicts) : verdicts[i].kind \in {"packet", "error", "silent", "lost"}
    <3> DEFINE V == [kind : {"packet", "error", "silent", "lost"}, tag : Byte, value : Seq(Byte)]
    <3>1. \A v \in V : v.kind \in {"packet", "error", "silent", "lost"}
      OBVIOUS
    <3>2. verdicts \in Seq(V)
      BY <2>1
    <3> HIDE DEF V
    <3>3. \A i \in 1 .. Len(verdicts) : verdicts[i] \in V
      BY ONLY <3>2, ElementOfSeq
    <3> QED BY ONLY <3>1, <3>3
  <2> QED BY <2>1, <2>2, <2>4, <2>5, <2>6, <2>7 DEF TypeOK, TLV_HEADER_SIZE
<1> QED BY <1>1, Invariance, PTL

-----------------------------------------------------------------------------
(* Exclusive or of octets, bit by bit.                                     *)

Octet == 0 .. 255
Places == {1, 2, 4, 8, 16, 32, 64, 128}
Bit(a, m) == (a \div m) % 2

LEMMA BitsAre ==
  ASSUME NEW a \in Octet
  PROVE  /\ \A m \in Places : Bit(a, m) \in {0, 1}
         /\ a = Bit(a, 1) + 2 * Bit(a, 2) + 4 * Bit(a, 4) + 8 * Bit(a, 8)
                  + 16 * Bit(a, 16) + 32 * Bit(a, 32) + 64 * Bit(a, 64) + 128 * Bit(a, 128)
BY DEF Octet, Places, Bit

(* The octet that is put together from bits has these bits.                *)
LEMMA BitsOf ==
  ASSUME NEW d1 \in {0, 1}, NEW d2 \in {0, 1}, NEW d4 \in {0, 1}, NEW d8 \in {0, 1},
         NEW d16 \in {0, 1}, NEW d32 \in {0, 1}, NEW d64 \in {0, 1}, NEW d128 \in {0, 1},
         NEW a, a = d1 + 2 * d2 + 4 * d4 + 8 * d8 + 16 * d16 + 32 * d32 + 64 * d64 + 128 * d128
  PROVE  /\ a \in Octet
         /\ Bit(a, 1) = d1 /\ Bit(a, 2) = d2 /\ Bit(a, 4) = d4 /\ Bit(a, 8) = d8
         /\ Bit(a, 16) = d16 /\ Bit(a, 32) = d32 /\ Bit(a, 64) = d64 /\ Bit(a, 128) = d128
BY DEF Octet, Bit

LEMMA DifferIs ==
  ASSUME NEW a \in Octet, NEW b \in Octet, NEW m \in Places
  PROVE  /\ Differ(a, b, m) \in {0, 1}
         /\ Differ(a, b, m) = (Bit(a, m) + Bit(b, m)) % 2
         /\ Differ(a, b, m) = 0 <=> Bit(a, m) = Bit(b, m)
BY DEF Octet, Places, Bit, Differ

LEMMA XorIs ==
  ASSUME NEW a \in Octet, NEW b \in Octet
  PROVE  /\ Xor(a, b) \in Octet
         /\ \A m \in Places : Bit(Xor(a, b), m) = Differ(a, b, m)
<1>1. \A m \in Places : Differ(a, b, m) \in {0, 1}
  BY DifferIs
<1>2. /\ Differ(a, b, 1) \in {0, 1} /\ Differ(a, b, 2) \in {0, 1}
      /\ Differ(a, b, 4) \in {0, 1} /\ Differ(a, b, 8) \in {0, 1}
      /\ Differ(a, b, 16) \in {0, 1} /\ Differ(a, b, 32) \in {0, 1}
      /\ Differ(a, b, 64) \in {0, 1} /\ Differ(a, b, 128) \in {0, 1}
  BY <1>1 DEF Places
<1>3. PICK x : x = Xor(a, b)
  OBVIOUS
<1>4. /\ x \in Octet
      /\ Bit(x, 1) = Differ(a, b, 1) /\ Bit(x, 2) = Differ(a, b, 2)
      /\ Bit(x, 4) = Differ(a, b, 4) /\ Bit(x, 8) = Differ(a, b, 8)
      /\ Bit(x, 16) = Differ(a, b, 16) /\ Bit(x, 32) = Differ(a, b, 32)
      /\ Bit(x, 64) = Differ(a, b, 64) /\ Bit(x, 128) = Differ(a, b, 128)
  BY <1>2, <1>3, BitsOf DEF Xor
<1> QED BY <1>3, <1>4 DEF Places

LEMMA SameBits ==
  ASSUME NEW a \in Octet, NEW b \in Octet, \A m \in Places : Bit(a, m) = Bit(b, m)
  PROVE  a = b
<1>1. /\ Bit(a, 1) = Bit(b, 1) /\ Bit(a, 2) = Bit(b, 2) /\ Bit(a, 4) = Bit(b, 4)
      /\ Bit(a, 8) = Bit(b, 8) /\ Bit(a, 16) = Bit(b, 16) /\ Bit(a, 32) = Bit(b, 32)
      /\ Bit(a, 64) = Bit(b, 64) /\ Bit(a, 128) = Bit(b, 128)
  BY DEF Places
<1> QED BY <1>1, BitsAre

(* A change of one side changes the result.                                *)
LEMMA XorInjective ==
  ASSUME NEW a \in Octet, NEW b \in Octet, NEW c \in Octet
  PROVE  /\ Xor(a, b) = Xor(a, c) => b = c
         /\ Xor(b, a) = Xor(c, a) => b = c
<1>1. \A m \in Places : /\ Bit(Xor(a, b), m) = (Bit(a, m) + Bit(b, m)) % 2
                        /\ Bit(Xor(a, c), m) = (Bit(a, m) + Bit(c, m)) % 2
                        /\ Bit(Xor(b, a), m) = (Bit(b, m) + Bit(a, m)) % 2
                        /\ Bit(Xor(c, a), m) = (Bit(c, m) + Bit(a, m)) % 2
  BY XorIs, DifferIs
<1>2. \A m \in Places : Bit(a, m) \in {0, 1} /\ Bit(b, m) \in {0, 1} /\ Bit(c, m) \in {0, 1}
  BY BitsAre
<1>3. \A x, y, z \in {0, 1} : /\ (x + y) % 2 = (x + z) % 2 => y = z
                              /\ (y + x) % 2 = (z + x) % 2 => y = z
  OBVIOUS
<1>4. ASSUME Xor(a, b) = Xor(a, c) PROVE b = c
  <2>1. \A m \in Places : Bit(b, m) = Bit(c, m)
    BY <1>1, <1>2, <1>3, <1>4
  <2> QED BY <2>1, SameBits
<1>5. ASSUME Xor(b, a) = Xor(c, a) PROVE b = c
  <2>1. \A m \in Places : Bit(b, m) = Bit(c, m)
    BY <1>1, <1>2, <1>3, <1>5
  <2> QED BY <2>1, SameBits
<1> QED BY <1>4, <1>5

LEMMA XorZero ==
  ASSUME NEW a \in Octet
  PROVE  Xor(0, a) = a
<1>1. 0 \in Octet /\ \A m \in Places : Bit(0, m) = 0
  BY DEF Octet, Places, Bit
<1>2. \A m \in Places : Bit(a, m) \in {0, 1}
  BY BitsAre
<1>3. \A m \in Places : Bit(Xor(0, a), m) = (Bit(0, m) + Bit(a, m)) % 2
  BY <1>1, XorIs, DifferIs
<1>4. \A x \in {0, 1} : (0 + x) % 2 = x
  OBVIOUS
<1>5. \A m \in Places : Bit(Xor(0, a), m) = Bit(a, m)
  BY <1>1, <1>2, <1>3, <1>4
<1> QED BY <1>1, <1>5, XorIs, SameBits

LEMMA XorAssociative ==
  ASSUME NEW a \in Octet, NEW b \in Octet, NEW c \in Octet
  PROVE  Xor(Xor(a, b), c) = Xor(a, Xor(b, c))
<1>1. Xor(a, b) \in Octet /\ Xor(b, c) \in Octet
  BY XorIs
<1>2. \A m \in Places : Bit(a, m) \in {0, 1} /\ Bit(b, m) \in {0, 1} /\ Bit(c, m) \in {0, 1}
  BY BitsAre
<1>3. \A m \in Places : /\ Bit(Xor(a, b), m) = (Bit(a, m) + Bit(b, m)) % 2
                        /\ Bit(Xor(b, c), m) = (Bit(b, m) + Bit(c, m)) % 2
  BY XorIs, DifferIs
<1>4. \A m \in Places : /\ Bit(Xor(Xor(a, b), c), m) = (Bit(Xor(a, b), m) + Bit(c, m)) % 2
                        /\ Bit(Xor(a, Xor(b, c)), m) = (Bit(a, m) + Bit(Xor(b, c), m)) % 2
  BY <1>1, XorIs, DifferIs
<1>5. \A x, y, z \in {0, 1} : (((x + y) % 2) + z) % 2 = (x + ((y + z) % 2)) % 2
  OBVIOUS
<1>6. \A m \in Places : Bit(Xor(Xor(a, b), c), m) = Bit(Xor(a, Xor(b, c)), m)
  BY <1>2, <1>3, <1>4, <1>5
<1> QED BY <1>1, <1>6, XorIs, SameBits

-----------------------------------------------------------------------------
(* The loop of the checksum.  As for EpollServer, induction is by the      *)
(* least counterexample.                                                   *)

LEMMA LeastIs ==
  ASSUME NEW S \in SUBSET Nat, S # {}
  PROVE  \E m \in S : \A n \in S : ~ (n < m)
<1> DEFINE R == {pair \in Nat \X Nat : pair[1] < pair[2]}
<1>1. IsWellFoundedOn(R, Nat)
  BY NatLessThanWellFounded DEF OpToRel
<1>2. PICK m \in S : \A n \in S : <<n, m>> \notin R
  BY <1>1, WFMin
<1>3. ASSUME NEW n \in S PROVE ~ (n < m)
  <2>1. <<n, m>> \in Nat \X Nat
    OBVIOUS
  <2> QED BY <1>2, <2>1
<1> QED BY <1>3

LEMMA SetInduction ==
  ASSUME NEW S, 0 \in S, \A n \in Nat : n \in S => n + 1 \in S
  PROVE  Nat \subseteq S
<1>1. SUFFICES ASSUME Nat \ S # {} PROVE FALSE
  OBVIOUS
<1>2. PICK m \in Nat \ S : \A n \in Nat \ S : ~ (n < m)
  BY <1>1, LeastIs
<1>3. m # 0 /\ m - 1 \in Nat /\ m - 1 < m
  BY <1>2
<1>4. m - 1 \in S
  BY <1>2, <1>3
<1>5. (m - 1) + 1 \in S
  BY <1>3, <1>4
<1> QED BY <1>2, <1>5

(* The recursion in Folded is well defined, and its results are octets.    *)
LEMMA FoldedUnfolds ==
  ASSUME NEW start, NEW bytes, Len(bytes) \in Nat
  PROVE  \E acc : /\ acc[0] = start
                  /\ \A i \in 1 .. Len(bytes) : acc[i] = Xor(acc[i - 1], bytes[i])
                  /\ Folded(start, bytes) = acc[Len(bytes)]
<1> DEFINE Def(g, i) == IF i = 0 THEN start ELSE Xor(g[i - 1], bytes[i])
           acc[i \in 0 .. Len(bytes)] == IF i = 0 THEN start ELSE Xor(acc[i - 1], bytes[i])
           Done == {n \in Nat : \E g : g = [i \in 0 .. n |-> Def(g, i)]}
<1>1. 0 \in Done
  <2>1. [i \in 0 .. 0 |-> start] = [i \in 0 .. 0 |-> Def([j \in 0 .. 0 |-> start], i)]
    OBVIOUS
  <2> QED BY <2>1
<1>2. ASSUME NEW n \in Nat, n \in Done PROVE n + 1 \in Done
  <2>1. PICK g : g = [i \in 0 .. n |-> Def(g, i)]
    BY <1>2
  <2> DEFINE h == [i \in 0 .. n + 1 |-> IF i = n + 1 THEN Def(g, i) ELSE g[i]]
  <2>2. ASSUME NEW i \in 0 .. n + 1 PROVE h[i] = Def(h, i)
    <3>1. CASE i = 0
      <4>1. g[0] = Def(g, 0)
        BY <2>1
      <4> QED BY <3>1, <4>1
    <3>2. CASE i \in 1 .. n
      <4>1. i \in 0 .. n /\ i # 0 /\ i # n + 1 /\ i - 1 \in 0 .. n /\ i - 1 # n + 1
        BY <3>2
      <4>2. h[i] = g[i] /\ h[i - 1] = g[i - 1]
        BY <4>1
      <4>3. g[i] = Def(g, i)
        <5> HIDE DEF Def, h
        <5> QED BY <2>1, <4>1, Zenon
      <4> HIDE DEF h
      <4> QED BY <4>1, <4>2, <4>3
    <3>3. CASE i = n + 1
      <4>1. h[i] = Def(g, i) /\ i - 1 \in 0 .. n + 1 /\ i - 1 # n + 1
        BY <3>3
      <4>2. h[i - 1] = g[i - 1]
        BY <4>1
      <4> HIDE DEF h
      <4> QED BY <3>3, <4>1, <4>2
    <3> QED BY <3>1, <3>2, <3>3
  <2>3. h = [i \in 0 .. n + 1 |-> h[i]]
    OBVIOUS
  <2> HIDE DEF h, Def
  <2>4. h = [i \in 0 .. n + 1 |-> Def(h, i)]
    BY <2>2, <2>3
  <2> QED BY <2>4
<1> HIDE DEF Done
<1>3. Len(bytes) \in Done
  BY <1>1, <1>2, SetInduction
<1>4. \E g : g = [i \in 0 .. Len(bytes) |-> Def(g, i)]
  BY <1>3 DEF Done
<1>5. acc = [i \in 0 .. Len(bytes) |-> Def(acc, i)]
  BY <1>4, Zenon
<1>6. Folded(start, bytes) = acc[Len(bytes)]
  BY Zenon DEF Folded
<1> HIDE DEF acc
<1>7. \A i \in 0 .. Len(bytes) : acc[i] = Def(acc, i)
  <2> HIDE DEF Def
  <2> QED BY <1>5, Zenon
<1>8. acc[0] = start /\ \A i \in 1 .. Len(bytes) : acc[i] = Xor(acc[i - 1], bytes[i])
  BY <1>7
<1> QED BY <1>6, <1>8

LEMMA FoldedIs ==
  ASSUME NEW start \in Octet, NEW bytes \in Seq(Octet)
  PROVE  \E acc : /\ acc[0] = start
                  /\ \A i \in 0 .. Len(bytes) : acc[i] \in Octet
                  /\ \A i \in 1 .. Len(bytes) : acc[i] = Xor(acc[i - 1], bytes[i])
                  /\ Folded(start, bytes) = acc[Len(bytes)]
<1>1. Len(bytes) \in Nat /\ \A i \in 1 .. Len(bytes) : bytes[i] \in Octet
  BY LenProperties, ElementOfSeq
<1>2. PICK acc : /\ acc[0] = start
                 /\ \A i \in 1 .. Len(bytes) : acc[i] = Xor(acc[i - 1], bytes[i])
                 /\ Folded(start, bytes) = acc[Len(bytes)]
  BY <1>1, FoldedUnfolds
<1> DEFINE Done == {n \in Nat : n <= Len(bytes) => acc[n] \in Octet}
<1>3. 0 \in Done
  BY <1>2
<1>4. ASSUME NEW n \in Nat, n \in Done PROVE n + 1 \in Done
  <2>1. SUFFICES ASSUME n + 1 <= Len(bytes) PROVE acc[n + 1] \in Octet
    OBVIOUS
  <2>2. n + 1 \in 1 .. Len(bytes) /\ (n + 1) - 1 = n /\ n <= Len(bytes)
    BY <1>1, <2>1
  <2>3. acc[n + 1] = Xor(acc[n], bytes[n + 1]) /\ acc[n] \in Octet
    BY <1>2, <1>4, <2>2
  <2> QED BY <1>1, <2>2, <2>3, XorIs
<1> HIDE DEF Done
<1>5. Nat \subseteq Done
  BY <1>3, <1>4, SetInduction
<1>6. \A i \in 0 .. Len(bytes) : acc[i] \in Octet
  BY <1>1, <1>5 DEF Done
<1> QED BY <1>2, <1>6

(* One changed byte changes the result: an exclusive or sees every single  *)
(* change.                                                                 *)
LEMMA OneChange ==
  ASSUME NEW start \in Octet, NEW s \in Seq(Octet), NEW t \in Seq(Octet), Len(s) = Len(t),
         NEW a \in 1 .. Len(s), \A j \in 1 .. Len(s) : s[j] # t[j] <=> j = a
  PROVE  Folded(start, s) # Folded(start, t)
<1>1. /\ Len(s) \in Nat /\ \A j \in 1 .. Len(s) : s[j] \in Octet /\ t[j] \in Octet
      /\ a \in Nat /\ a >= 1 /\ a <= Len(s)
  BY LenProperties, ElementOfSeq
<1>2. PICK f : /\ f[0] = start
               /\ \A i \in 0 .. Len(s) : f[i] \in Octet
               /\ \A i \in 1 .. Len(s) : f[i] = Xor(f[i - 1], s[i])
               /\ Folded(start, s) = f[Len(s)]
  BY FoldedIs
<1>3. PICK g : /\ g[0] = start
               /\ \A i \in 0 .. Len(s) : g[i] \in Octet
               /\ \A i \in 1 .. Len(s) : g[i] = Xor(g[i - 1], t[i])
               /\ Folded(start, t) = g[Len(s)]
  <2>1. PICK g : /\ g[0] = start
                 /\ \A i \in 0 .. Len(t) : g[i] \in Octet
                 /\ \A i \in 1 .. Len(t) : g[i] = Xor(g[i - 1], t[i])
                 /\ Folded(start, t) = g[Len(t)]
    BY FoldedIs
  <2> QED BY <2>1
<1> DEFINE Done == {n \in Nat : n <= Len(s) => (f[n] = g[n] <=> n < a)}
<1>4. 0 \in Done
  BY <1>1, <1>2, <1>3
<1>5. ASSUME NEW n \in Nat, n \in Done PROVE n + 1 \in Done
  <2>1. SUFFICES ASSUME n + 1 <= Len(s) PROVE f[n + 1] = g[n + 1] <=> n + 1 < a
    OBVIOUS
  <2>2. /\ n + 1 \in 1 .. Len(s) /\ (n + 1) - 1 = n /\ n \in 0 .. Len(s) /\ n + 1 \in 0 .. Len(s)
        /\ f[n] = g[n] <=> n < a
    BY <1>1, <1>5, <2>1
  <2>3. /\ f[n + 1] = Xor(f[n], s[n + 1]) /\ g[n + 1] = Xor(g[n], t[n + 1])
        /\ f[n] \in Octet /\ g[n] \in Octet /\ s[n + 1] \in Octet /\ t[n + 1] \in Octet
    BY <1>1, <1>2, <1>3, <2>2
  <2>4. s[n + 1] # t[n + 1] <=> n + 1 = a
    BY <2>2
  <2>5. CASE n + 1 < a
    <3>1. n < a /\ n + 1 # a
      BY <1>1, <2>5
    <3> QED BY <2>2, <2>3, <2>4, <2>5, <3>1
  <2>6. CASE n + 1 = a
    <3>1. n < a /\ ~ (n + 1 < a)
      BY <1>1, <2>6
    <3>2. f[n] = g[n] /\ s[n + 1] # t[n + 1]
      BY <2>2, <2>4, <2>6, <3>1
    <3> QED BY <2>3, <3>1, <3>2, XorInjective
  <2>7. CASE a < n + 1
    <3>1. ~ (n < a) /\ n + 1 # a /\ ~ (n + 1 < a)
      BY <1>1, <2>7
    <3>2. f[n] # g[n] /\ s[n + 1] = t[n + 1]
      BY <2>2, <2>4, <3>1
    <3> QED BY <2>3, <3>1, <3>2, XorInjective
  <2> QED BY <1>1, <2>5, <2>6, <2>7
<1> HIDE DEF Done
<1>6. Len(s) \in Done
  BY <1>1, <1>4, <1>5, SetInduction
<1> QED BY <1>1, <1>2, <1>3, <1>6 DEF Done

(* Taking the header byte by byte from 0, as the earlier ai_receiver.py    *)
(* does, or all at once, as tlv_checksum() does, is the same.              *)
LEMMA HeaderFirst ==
  ASSUME NEW a \in Octet, NEW b \in Octet, NEW c \in Octet, NEW value \in Seq(Octet)
  PROVE  Folded(0, <<a, b, c>> \o value) = Folded(Xor(a, Xor(b, c)), value)
<1>1. PICK start : start = Xor(a, Xor(b, c))
  OBVIOUS
<1>2. start \in Octet /\ 0 \in Octet
  <2>1. Xor(b, c) \in Octet
    BY XorIs
  <2>2. Xor(a, Xor(b, c)) \in Octet
    BY <2>1, XorIs
  <2> QED BY <1>1, <2>2 DEF Octet
<1>3. PICK bytes : bytes = <<a, b, c>> \o value
  OBVIOUS
<1>4. /\ bytes \in Seq(Octet) /\ Len(value) \in Nat /\ Len(bytes) = 3 + Len(value)
      /\ bytes[1] = a /\ bytes[2] = b /\ bytes[3] = c
      /\ \A i \in 1 .. Len(value) : bytes[3 + i] = value[i]
  <2> DEFINE head == <<a, b, c>>
  <2>1. head \in Seq(Octet) /\ Len(head) = 3 /\ head[1] = a /\ head[2] = b /\ head[3] = c
    OBVIOUS
  <2> HIDE DEF head
  <2>2. /\ head \o value \in Seq(Octet) /\ Len(head \o value) = Len(head) + Len(value)
        /\ \A i \in 1 .. Len(head) : (head \o value)[i] = head[i]
        /\ \A i \in 1 .. Len(value) : (head \o value)[Len(head) + i] = value[i]
    <3>1. head \in Seq(Octet) /\ value \in Seq(Octet)
      BY <2>1
    <3> QED BY ONLY <3>1, ConcatIndex
  <2>3. /\ (head \o value)[1] = a /\ (head \o value)[2] = b /\ (head \o value)[3] = c
    BY <2>1, <2>2
  <2>4. bytes = head \o value
    BY <1>3 DEF head
  <2>5. Len(value) \in Nat
    BY LenProperties
  <2> QED BY <2>1, <2>2, <2>3, <2>4, <2>5
<1>5. PICK f : /\ f[0] = 0
               /\ \A i \in 1 .. Len(bytes) : f[i] = Xor(f[i - 1], bytes[i])
               /\ Folded(0, bytes) = f[Len(bytes)]
  BY <1>2, <1>4, FoldedIs
<1>6. PICK g : /\ g[0] = start
               /\ \A i \in 1 .. Len(value) : g[i] = Xor(g[i - 1], value[i])
               /\ Folded(start, value) = g[Len(value)]
  BY <1>2, FoldedIs
<1>7. f[3] = start
  <2>1. /\ 1 \in 1 .. Len(bytes) /\ 2 \in 1 .. Len(bytes) /\ 3 \in 1 .. Len(bytes)
        /\ 1 - 1 = 0 /\ 2 - 1 = 1 /\ 3 - 1 = 2
    BY <1>4
  <2>2. f[1] = Xor(f[0], bytes[1]) /\ f[2] = Xor(f[1], bytes[2]) /\ f[3] = Xor(f[2], bytes[3])
    BY <1>5, <2>1
  <2>3. f[3] = Xor(Xor(Xor(0, a), b), c)
    BY <1>4, <1>5, <2>2
  <2> QED BY <1>1, <2>3, XorZero, XorAssociative
<1> DEFINE Done == {n \in Nat : n <= Len(value) => f[3 + n] = g[n]}
<1>8. 0 \in Done
  <2>1. f[3 + 0] = g[0]
    BY <1>6, <1>7
  <2> QED BY <2>1
<1>9. ASSUME NEW n \in Nat, n \in Done PROVE n + 1 \in Done
  <2>1. SUFFICES ASSUME n + 1 <= Len(value) PROVE f[3 + (n + 1)] = g[n + 1]
    OBVIOUS
  <2>2. /\ n + 1 \in 1 .. Len(value) /\ (n + 1) - 1 = n
        /\ 3 + (n + 1) \in 1 .. Len(bytes) /\ (3 + (n + 1)) - 1 = 3 + n
        /\ f[3 + n] = g[n]
    BY <1>4, <1>9, <2>1
  <2>3. f[3 + (n + 1)] = Xor(f[3 + n], bytes[3 + (n + 1)]) /\ g[n + 1] = Xor(g[n], value[n + 1])
    BY <1>5, <1>6, <2>2
  <2>4. bytes[3 + (n + 1)] = value[n + 1]
    BY <1>4, <2>2
  <2> QED BY <2>2, <2>3, <2>4
<1> HIDE DEF Done
<1>10. Len(value) \in Done
  BY <1>4, <1>8, <1>9, SetInduction
<1>11. f[3 + Len(value)] = g[Len(value)]
  BY <1>4, <1>10 DEF Done
<1> QED BY <1>1, <1>3, <1>4, <1>5, <1>6, <1>11

LEMMA BytesAreOctets ==
  Byte \subseteq Octet /\ Seq(Byte) \subseteq Seq(Octet)
<1>1. Byte \subseteq Octet
  BY BaseAssumption DEF Byte, Octet
<1> QED BY <1>1

(* Every program but the present ai_receiver.py packs the checksum that    *)
(* tlv_reader_feed() expects: it starts with the tag and the length, and   *)
(* folds in the value.                                                     *)
LEMMA SentChecksum ==
  ASSUME NEW pkt \in [packer : Packers, tag : Tags, value : Payloads],
         pkt.packer # "ai_receiver"
  PROVE  \E start \in Octet :
           /\ tlv_pack(pkt)[TLV_HEADER_SIZE + Len(pkt.value) + 1] = Folded(start, pkt.value)
           /\ \A value \in Seq(Byte) :
                Len(value) = Len(pkt.value) =>
                  tlv_checksum(pkt.tag, value, Len(pkt.value)) = Folded(start, value)
<1> DEFINE n == Len(pkt.value)
           hi == n \div Base
           lo == n % Base
           start == Xor(pkt.tag, Xor(hi, lo))
<1>1. /\ pkt.tag \in Byte /\ pkt.value \in Seq(Byte) /\ n \in Lengths
      /\ pkt.packer \in {"C", "ai_receiver", "ai_receiver_backup"}
  BY PacketShape, PackerAssumption
<1>2. hi \in Byte /\ lo \in Byte /\ n \in Nat
  <2> HIDE DEF n
  <2> QED BY <1>1, TwoBytes, LengthsAreNat
<1> HIDE DEF n, hi, lo
<1>3. pkt.tag \in Octet /\ hi \in Octet /\ lo \in Octet /\ pkt.value \in Seq(Octet)
  BY <1>1, <1>2, BytesAreOctets
<1>4. start \in Octet
  <2>1. Xor(hi, lo) \in Octet
    BY <1>3, XorIs
  <2> QED BY <1>3, <2>1, XorIs
<1>5. ASSUME NEW value \in Seq(Byte), Len(value) = n
      PROVE  tlv_checksum(pkt.tag, value, n) = Folded(start, value)
  <2>1. SubSeq(value, 1, n) = value
    BY <1>5, SubSeqFull
  <2> QED BY <2>1 DEF tlv_checksum, hi, lo
<1> HIDE DEF start
<1>6. Checksum(pkt) = Folded(start, pkt.value)
  <2>1. CASE pkt.packer = "C"
    <3>1. Checksum(pkt) = tlv_checksum(pkt.tag, pkt.value, n)
      BY <2>1 DEF Checksum, n
    <3> QED BY <1>1, <1>5, <3>1 DEF n
  <2>2. CASE pkt.packer = "ai_receiver_backup"
    <3>1. Checksum(pkt) = crc8_backup(Content(pkt))
      BY <2>2 DEF Checksum
    <3>2. Content(pkt) = <<pkt.tag, hi, lo>> \o pkt.value
      BY DEF Content, hi, lo, n
    <3>3. crc8_backup(Content(pkt)) = Folded(0, <<pkt.tag, hi, lo>> \o pkt.value)
      BY <3>2 DEF crc8_backup
    <3>4. Folded(0, <<pkt.tag, hi, lo>> \o pkt.value) = Folded(Xor(pkt.tag, Xor(hi, lo)), pkt.value)
      BY <1>3, HeaderFirst
    <3> QED BY <3>1, <3>3, <3>4 DEF start
  <2> QED BY <1>1, <2>1, <2>2
<1>7. tlv_pack(pkt)[TLV_HEADER_SIZE + n + 1] = Checksum(pkt)
  <2> DEFINE crc == Checksum(pkt)
             S == Byte \cup {crc}
             content == Content(pkt)
  <2> HIDE DEF crc
  <2>1. content \in Seq(S) /\ Len(content) = 3 + n
    <3> DEFINE head == <<pkt.tag, hi, lo>>
    <3>1. head \in Seq(S) /\ Len(head) = 3 /\ pkt.value \in Seq(S)
      BY <1>1, <1>2
    <3>2. content = head \o pkt.value
      BY DEF Content, hi, lo, n
    <3> HIDE DEF head, content, S
    <3>3. head \o pkt.value \in Seq(S) /\ Len(head \o pkt.value) = Len(head) + Len(pkt.value)
      BY <3>1, ConcatIndex
    <3> QED BY <3>1, <3>2, <3>3 DEF n
  <2>2. <<crc>> \in Seq(S) /\ Len(<<crc>>) = 1 /\ <<crc>>[1] = crc
    OBVIOUS
  <2>3. tlv_pack(pkt) = content \o <<crc>>
    BY DEF tlv_pack, crc
  <2> HIDE DEF content, S
  <2>4. \A i \in 1 .. Len(<<crc>>) : (content \o <<crc>>)[Len(content) + i] = <<crc>>[i]
    BY <2>1, <2>2, ConcatIndex
  <2>5. (content \o <<crc>>)[3 + n + 1] = crc
    BY <2>1, <2>2, <2>4
  <2> QED BY <2>3, <2>5 DEF crc, TLV_HEADER_SIZE
<1> QED BY <1>4, <1>5, <1>6, <1>7 DEF n

-----------------------------------------------------------------------------
(* The verdict on a packet of such a program. *)

(* What DamageDetected says of one verdict. *)
Detected(e, pkt) ==
  LET damaged == {j \in 1 .. Len(pkt.value) : e.value[j] # pkt.value[j]}
  IN  pkt.packer # "ai_receiver" =>
        /\ e.kind = "packet" => \A a \in damaged : damaged # {a}
        /\ e.kind = "error" => damaged # {}

LEMMA CrcDetects ==
  ASSUME IInv, Feed, FeedCrc(tlv_pack(Now)[p + 1])
  PROVE  /\ k' = k + 1 /\ packed' = packed /\ Len(verdicts) = k /\ k \in Nat
         /\ \E e : verdicts' = Append(verdicts, e) /\ Detected(e, Now)
<1> DEFINE pkt == Now
           n == Len(pkt.value)
           byte == tlv_pack(pkt)[p + 1]
           value == SubSeq(val_buf, 1, reader.body_pos)
           damaged == {j \in 1 .. n : value[j] # pkt.value[j]}
<1>1. /\ pkt \in [packer : Packers, tag : Tags, value : Payloads] /\ packed' = packed
      /\ p = TLV_HEADER_SIZE + n => k' = k + 1
  BY FeedFacts
<1>2. n \in Lengths /\ n \in Nat /\ pkt.value \in Seq(Byte)
  BY <1>1, PacketShape, LengthsAreNat
<1>3. /\ reader.state = "CRC" /\ reader.tag = pkt.tag /\ reader.len = n /\ reader.body_pos = n
      /\ p = TLV_HEADER_SIZE + n
      /\ Len(val_buf) >= n /\ val_buf \in Seq(Byte)
      /\ Len(verdicts) = k /\ k \in Nat
  BY DEF FeedCrc, IInv, Typed, PlaceInv, BodyInv
<1>4. value \in Seq(Byte) /\ Len(value) = n
  BY <1>2, <1>3
<1>5. \E e : /\ verdicts' = Append(verdicts, e)
             /\ \/ e = Verdict("error", value) /\ byte # tlv_checksum(pkt.tag, value, n)
                \/ e = Verdict("silent", <<>>)
                \/ e = Verdict("packet", value) /\ byte = tlv_checksum(pkt.tag, value, n)
  <2>1. FeedCrc(byte)
    OBVIOUS
  <2> HIDE DEF byte, value
  <2>2. verdicts' = Append(verdicts,
          IF byte # tlv_checksum(reader.tag, value, reader.body_pos) THEN Verdict("error", value)
          ELSE IF reader.len = 0 THEN Verdict("silent", <<>>)
          ELSE Verdict("packet", value))
    BY <2>1 DEF FeedCrc, value
  <2> QED BY <1>3, <2>2
<1>6. PICK e : /\ verdicts' = Append(verdicts, e)
               /\ \/ e = Verdict("error", value) /\ byte # tlv_checksum(pkt.tag, value, n)
                  \/ e = Verdict("silent", <<>>)
                  \/ e = Verdict("packet", value) /\ byte = tlv_checksum(pkt.tag, value, n)
  BY <1>5
<1> HIDE DEF pkt, n, byte, value
<1>7. ASSUME pkt.packer # "ai_receiver"
      PROVE  /\ e.kind = "packet" => \A a \in damaged : damaged # {a}
             /\ e.kind = "error" => damaged # {}
             /\ e.kind \in {"packet", "error"} => e.value = value
  <2>1. PICK start \in Octet :
          /\ tlv_pack(pkt)[TLV_HEADER_SIZE + n + 1] = Folded(start, pkt.value)
          /\ tlv_checksum(pkt.tag, value, n) = Folded(start, value)
    BY <1>1, <1>4, <1>7, SentChecksum DEF n
  <2>2. byte = Folded(start, pkt.value)
    BY <1>3, <2>1 DEF byte
  <2>3. value \in Seq(Octet) /\ pkt.value \in Seq(Octet) /\ Len(pkt.value) = n
    BY <1>2, <1>4, BytesAreOctets DEF n
  <2>4. ASSUME NEW a \in damaged, damaged = {a}
        PROVE  Folded(start, value) # Folded(start, pkt.value)
    <3>1. a \in 1 .. Len(value) /\ \A j \in 1 .. Len(value) : value[j] # pkt.value[j] <=> j = a
      BY <1>4, <2>4
    <3> QED BY <1>4, <2>3, <3>1, OneChange
  <2>5. ASSUME damaged = {} PROVE Folded(start, value) = Folded(start, pkt.value)
    <3>1. \A j \in 1 .. n : value[j] = pkt.value[j]
      BY <2>5
    <3>2. value = pkt.value
      BY <1>4, <2>3, <3>1, SeqEqual
    <3> QED BY <3>2
  <2> HIDE DEF damaged
  <2> QED BY <1>6, <2>1, <2>2, <2>4, <2>5 DEF Verdict
<1>8. Detected(e, pkt)
  BY <1>7 DEF Detected, n
<1> QED BY <1>1, <1>3, <1>6, <1>8 DEF pkt

LEMMA DetectedIs ==
  DamageDetected <=> \A i \in 1 .. Len(verdicts) : Detected(verdicts[i], packed[i])
BY DEF DamageDetected, Damaged, Detected

LEMMA NextDetects == IInv /\ DamageDetected /\ [Next]_vars => DamageDetected'
<1> SUFFICES ASSUME IInv, DamageDetected, [Next]_vars PROVE DamageDetected'
  OBVIOUS
<1>0. SUFFICES \A i \in 1 .. Len(verdicts') : Detected(verdicts'[i], packed'[i])
  BY DEF DamageDetected, Damaged, Detected
<1>1. \A i \in 1 .. Len(verdicts) : Detected(verdicts[i], packed[i])
  BY DetectedIs
<1>2. /\ packed \in Seq([packer : Packers, tag : Tags, value : Payloads])
      /\ k \in 0 .. Len(packed) /\ Len(packed) \in Nat /\ Len(verdicts) = k
      /\ verdicts \in
           Seq([kind : {"packet", "error", "silent", "lost"}, tag : Byte, value : Seq(Byte)])
  BY LenProperties DEF IInv, Typed, PlaceInv
<1>3. CASE verdicts' = verdicts /\ \A i \in 1 .. k : packed'[i] = packed[i]
  BY <1>1, <1>2, <1>3
<1>4. ASSUME NEW packer \in Packers, NEW tag \in Tags, NEW value \in Payloads,
             Send(packer, tag, value)
      PROVE  verdicts' = verdicts /\ \A i \in 1 .. k : packed'[i] = packed[i]
  <2>1. PICK pkt : pkt = Packet(packer, tag, value)
    OBVIOUS
  <2>2. /\ verdicts' = verdicts /\ packed' = Append(packed, pkt)
        /\ pkt \in [packer : Packers, tag : Tags, value : Payloads]
    BY <1>4, <2>1 DEF Send, Packet
  <2>3. \A i \in 1 .. Len(packed) : packed'[i] = packed[i]
    BY <1>2, <2>2, AppendProperties
  <2> QED BY <1>2, <2>2, <2>3
<1>5. CASE Feed
  <2>1. packed' = packed
    BY <1>5 DEF Feed
  <2>2. CASE verdicts' = verdicts
    BY <1>3, <2>1, <2>2
  <2>3. CASE FeedCrc(tlv_pack(Now)[p + 1])
    <3>1. PICK e : verdicts' = Append(verdicts, e) /\ Detected(e, Now)
      BY <1>5, <2>3, CrcDetects
    <3>2. /\ Len(verdicts') = k + 1 /\ verdicts'[k + 1] = e
          /\ \A i \in 1 .. k : verdicts'[i] = verdicts[i]
      <4>1. DOMAIN verdicts = 1 .. k
        BY <1>2
      <4> QED BY <1>2, <3>1, <4>1
    <3>3. \A i \in 1 .. k + 1 : i \in 1 .. k \/ i = k + 1
      BY <1>2
    <3> QED BY <1>1, <1>2, <2>1, <3>1, <3>2, <3>3 DEF Now
  <2>4. \/ FeedHeader(tlv_pack(Now)[p + 1])
        \/ FeedBody(tlv_pack(Now)[p + 1])
        \/ FeedCrc(tlv_pack(Now)[p + 1])
    BY <1>5, FeedFacts
  <2>5. FeedHeader(tlv_pack(Now)[p + 1]) \/ FeedBody(tlv_pack(Now)[p + 1]) => verdicts' = verdicts
    BY DEF FeedHeader, FeedBody
  <2> QED BY <2>2, <2>3, <2>4, <2>5
<1>6. CASE Reconnect
  <2>1. /\ packed' = packed
        /\ verdicts' = [i \in 1 .. Len(packed) |->
                          IF i <= Len(verdicts) THEN verdicts[i] ELSE Verdict("lost", <<>>)]
    BY <1>6 DEF Reconnect
  <2>2. Len(verdicts') = Len(packed)
    BY <1>2, <2>1
  <2>3. ASSUME NEW i \in 1 .. Len(packed) PROVE Detected(verdicts'[i], packed'[i])
    <3>1. CASE i <= Len(verdicts)
      BY <1>1, <1>2, <2>1, <3>1
    <3>2. CASE ~ (i <= Len(verdicts))
      <4>1. verdicts'[i] = Verdict("lost", <<>>)
        BY <2>1, <3>2
      <4>2. verdicts'[i].kind = "lost"
        BY <4>1 DEF Verdict
      <4> QED BY <4>2 DEF Detected
    <3> QED BY <3>1, <3>2
  <2> QED BY <2>2, <2>3
<1>7. NewCall \/ UNCHANGED vars => verdicts' = verdicts /\ packed' = packed
  BY DEF NewCall, vars
<1> QED BY <1>3, <1>4, <1>5, <1>6, <1>7 DEF Next

(* Whatever the value buffer holds when the checksum comes: no packet is   *)
(* delivered in which exactly one byte was changed, and none is refused    *)
(* that arrived as it was packed, whoever packs with an exclusive or.      *)
THEOREM SingleDamageSeen == Spec => []DamageDetected
<1>1. Init => DamageDetected
  BY DEF Init, DamageDetected
<1> QED BY <1>1, NextDetects, Invariance, PTL DEF Spec

-----------------------------------------------------------------------------
(* The calls' boundaries are the only thing that destroys a packet: runs   *)
(* in which none falls into the body of one.                               *)

UncutNext ==
  \/ \E packer \in Packers, tag \in Tags, value \in Payloads : Send(packer, tag, value)
  \/ Feed
  \/ Reconnect

UncutSpec == Init /\ [][UncutNext]_vars

(* The value buffer holds what was packed. *)
ContentInv ==
  reader.state # "HEADER" => \A i \in 1 .. reader.body_pos : val_buf[i] = Now.value[i]

Streamed(e, pkt) ==
  \/ e.kind = "lost"
  \/ IF pkt.value = <<>> THEN e.kind = "silent" ELSE e.kind = "packet" /\ e.value = pkt.value

LEMMA UncutSend ==
  ASSUME IInv, ContentInv, StreamingParser,
         NEW packer \in Packers, NEW tag \in Tags, NEW value \in Payloads,
         Send(packer, tag, value)
  PROVE  ContentInv' /\ StreamingParser'
<1>1. PICK pkt : pkt = Packet(packer, tag, value)
  OBVIOUS
<1>2. /\ packed' = Append(packed, pkt) /\ UNCHANGED <<k, p, reader, val_buf, verdicts>>
      /\ pkt \in [packer : Packers, tag : Tags, value : Payloads]
  BY <1>1 DEF Send, Packet
<1>3. /\ packed \in Seq([packer : Packers, tag : Tags, value : Payloads])
      /\ k \in 0 .. Len(packed) /\ Len(packed) \in Nat /\ Len(verdicts) = k
  BY LenProperties DEF IInv, Typed, PlaceInv
<1>4. \A i \in 1 .. Len(packed) : packed'[i] = packed[i]
  BY <1>2, <1>3, AppendProperties
<1>5. StreamingParser'
  BY <1>2, <1>3, <1>4 DEF StreamingParser, Intact
<1>6. reader.state # "HEADER" => k + 1 \in 1 .. Len(packed)
  BY <1>3 DEF IInv, Typed, ReaderType, PlaceInv, BodyInv, TLV_HEADER_SIZE
<1>7. reader.state # "HEADER" => Now' = Now
  BY <1>2, <1>4, <1>6 DEF Now
<1> QED BY <1>2, <1>5, <1>7 DEF ContentInv

(* What FeedBody stores is the next byte of the value.                     *)
LEMMA UncutBody ==
  ASSUME IInv, ContentInv, Feed, FeedBody(tlv_pack(Now)[p + 1])
  PROVE  ContentInv' /\ verdicts' = verdicts
<1> DEFINE byte == tlv_pack(Now)[p + 1]
           n == Len(Now.value)
           pos == reader.body_pos
<1>1. /\ Now \in [packer : Packers, tag : Tags, value : Payloads] /\ packed' = packed
      /\ p < TLV_HEADER_SIZE + n => k' = k /\ p' = p + 1
  BY FeedFacts
<1>2. n \in Lengths /\ n \in Nat
  BY <1>1, PacketShape, LengthsAreNat
<1>3. /\ reader.state = "BODY" /\ p = TLV_HEADER_SIZE + pos /\ pos < n /\ pos \in Nat
      /\ reader \in ReaderType
  BY DEF FeedBody, IInv, Typed, PlaceInv, BodyInv, ReaderType
<1>4. Now' = Now
  <2>1. k' = k
    BY <1>1, <1>2, <1>3 DEF TLV_HEADER_SIZE
  <2> QED BY <1>1, <2>1 DEF Now
<1>5. byte = Now.value[pos + 1]
  <2>1. pos + 1 \in 1 .. n
    BY <1>2, <1>3
  <2> QED BY <1>1, <1>3, <2>1, PacketShape DEF TLV_HEADER_SIZE
<1> HIDE DEF byte, n
<1>6. /\ val_buf' = [i \in 1 .. pos + 1 |-> IF i <= pos THEN val_buf[i] ELSE byte]
      /\ reader'.body_pos = pos + 1 /\ verdicts' = verdicts
  <2>1. FeedBody(byte)
    BY DEF byte
  <2> QED BY <1>3, <2>1 DEF FeedBody, ReaderType
<1>7. ASSUME NEW i \in 1 .. pos + 1 PROVE val_buf'[i] = Now.value[i]
  <2>1. CASE i <= pos
    BY <1>3, <1>6, <2>1 DEF ContentInv
  <2>2. CASE ~ (i <= pos)
    <3>1. i = pos + 1
      BY <1>3, <2>2
    <3> QED BY <1>3, <1>5, <1>6, <2>2, <3>1
  <2> QED BY <2>1, <2>2
<1> QED BY <1>4, <1>6, <1>7 DEF ContentInv

(* The checksum fits, and the caller gets the packet.                      *)
LEMMA UncutCrc ==
  ASSUME "ai_receiver" \notin Packers, IInv, ContentInv, Feed, FeedCrc(tlv_pack(Now)[p + 1])
  PROVE  \E e : verdicts' = Append(verdicts, e) /\ Streamed(e, Now)
<1> DEFINE pkt == Now
           n == Len(pkt.value)
           byte == tlv_pack(pkt)[p + 1]
           value == SubSeq(val_buf, 1, reader.body_pos)
<1>1. pkt \in [packer : Packers, tag : Tags, value : Payloads]
  BY FeedFacts
<1>2. n \in Lengths /\ n \in Nat /\ pkt.value \in Seq(Byte)
  BY <1>1, PacketShape, LengthsAreNat
<1>3. /\ reader.state = "CRC" /\ reader.tag = pkt.tag /\ reader.len = n /\ reader.body_pos = n
      /\ p = TLV_HEADER_SIZE + n
      /\ Len(val_buf) >= n /\ val_buf \in Seq(Byte)
  BY DEF FeedCrc, IInv, Typed, PlaceInv, BodyInv
<1>4. value = pkt.value
  <2>1. /\ value \in Seq(Byte) /\ Len(value) = n
        /\ \A i \in 1 .. n : value[i] = val_buf[i]
    BY <1>2, <1>3
  <2>2. \A i \in 1 .. n : val_buf[i] = pkt.value[i]
    BY <1>3 DEF ContentInv
  <2> HIDE DEF pkt, value
  <2> QED BY <1>2, <2>1, <2>2, SeqEqual
<1>5. byte = tlv_checksum(pkt.tag, pkt.value, n)
  <2> HIDE DEF pkt
  <2>1. pkt.packer # "ai_receiver"
    BY <1>1
  <2> QED BY <1>1, <1>2, <1>3, <2>1, SentChecksum
<1>6. verdicts' = Append(verdicts, IF n = 0 THEN Verdict("silent", <<>>)
                                   ELSE Verdict("packet", pkt.value))
  <2>1. FeedCrc(byte)
    OBVIOUS
  <2> HIDE DEF byte, value, pkt
  <2>2. verdicts' = Append(verdicts,
          IF byte # tlv_checksum(reader.tag, value, reader.body_pos) THEN Verdict("error", value)
          ELSE IF reader.len = 0 THEN Verdict("silent", <<>>)
          ELSE Verdict("packet", value))
    BY <2>1 DEF FeedCrc, value
  <2> QED BY <1>3, <1>4, <1>5, <2>2
<1>7. n = 0 <=> pkt.value = <<>>
  <2> HIDE DEF pkt
  <2> QED BY <1>2, EmptySeq
<1> HIDE DEF pkt, n
<1>8. Streamed(IF n = 0 THEN Verdict("silent", <<>>) ELSE Verdict("packet", pkt.value), pkt)
  BY <1>7 DEF Streamed, Verdict
<1> QED BY <1>6, <1>8 DEF pkt

LEMMA UncutKeeps ==
  ASSUME "ai_receiver" \notin Packers, IInv, ContentInv, StreamingParser, [UncutNext]_vars
  PROVE  ContentInv' /\ StreamingParser'
<1>1. /\ packed \in Seq([packer : Packers, tag : Tags, value : Payloads])
      /\ k \in 0 .. Len(packed) /\ Len(packed) \in Nat /\ Len(verdicts) = k
      /\ reader \in ReaderType
      /\ verdicts \in
           Seq([kind : {"packet", "error", "silent", "lost"}, tag : Byte, value : Seq(Byte)])
  BY LenProperties DEF IInv, Typed, PlaceInv
<1>2. \A i \in 1 .. Len(verdicts) : Streamed(verdicts[i], packed[i])
  BY DEF StreamingParser, Intact, Streamed
<1>3. ASSUME \A i \in 1 .. Len(verdicts') : Streamed(verdicts'[i], packed'[i])
      PROVE  StreamingParser'
  BY <1>3 DEF StreamingParser, Intact, Streamed
<1>4. CASE Feed
  <2>1. packed' = packed
    BY <1>4 DEF Feed
  <2>2. CASE FeedHeader(tlv_pack(Now)[p + 1])
    <3>1. PICK byte : byte = tlv_pack(Now)[p + 1]
      OBVIOUS
    <3>2. FeedHeader(byte)
      BY <2>2, <3>1
    <3>3. verdicts' = verdicts
      BY <3>2 DEF FeedHeader
    <3>4. reader'.state = "HEADER" \/ reader'.body_pos = 0
      BY <1>1, <3>2 DEF FeedHeader, ReaderType
    <3>5. ContentInv'
      BY <3>4 DEF ContentInv
    <3> QED BY <1>2, <1>3, <2>1, <3>3, <3>5
  <2>3. CASE FeedBody(tlv_pack(Now)[p + 1])
    BY <1>2, <1>3, <1>4, <2>1, <2>3, UncutBody
  <2>4. CASE FeedCrc(tlv_pack(Now)[p + 1])
    <3>1. PICK e : verdicts' = Append(verdicts, e) /\ Streamed(e, Now)
      BY <1>4, <2>4, UncutCrc
    <3>2. /\ Len(verdicts') = k + 1 /\ verdicts'[k + 1] = e
          /\ \A i \in 1 .. k : verdicts'[i] = verdicts[i]
      <4>1. DOMAIN verdicts = 1 .. k
        BY <1>1
      <4> QED BY <1>1, <3>1, <4>1
    <3>3. \A i \in 1 .. k + 1 : i \in 1 .. k \/ i = k + 1
      BY <1>1
    <3>4. StreamingParser'
      BY <1>1, <1>2, <1>3, <2>1, <3>1, <3>2, <3>3 DEF Now
    <3>5. ContentInv'
      BY <1>1, <2>4 DEF FeedCrc, Initialised, ReaderType, ContentInv
    <3> QED BY <3>4, <3>5
  <2> QED BY <1>4, <2>2, <2>3, <2>4, FeedFacts
<1>5. CASE Reconnect
  <2>1. /\ packed' = packed
        /\ verdicts' = [i \in 1 .. Len(packed) |->
                          IF i <= Len(verdicts) THEN verdicts[i] ELSE Verdict("lost", <<>>)]
    BY <1>5 DEF Reconnect
  <2>2. Len(verdicts') = Len(packed)
    BY <1>1, <2>1
  <2>3. ASSUME NEW i \in 1 .. Len(packed) PROVE Streamed(verdicts'[i], packed'[i])
    <3>1. CASE i <= Len(verdicts)
      BY <1>1, <1>2, <2>1, <3>1
    <3>2. CASE ~ (i <= Len(verdicts))
      <4>1. verdicts'[i] = Verdict("lost", <<>>)
        BY <2>1, <3>2
      <4>2. verdicts'[i].kind = "lost"
        BY <4>1 DEF Verdict
      <4> QED BY <4>2 DEF Streamed
    <3> QED BY <3>1, <3>2
  <2>4. ContentInv'
    BY <1>1, <1>5 DEF Reconnect, Initialised, ReaderType, ContentInv
  <2> QED BY <1>3, <2>2, <2>3, <2>4
<1>6. CASE UNCHANGED vars
  BY <1>6 DEF vars, ContentInv, Now, StreamingParser, Intact
<1> QED BY <1>4, <1>5, <1>6, UncutSend DEF UncutNext

(* As long as no call ends within the body of a packet, the reader is the  *)
(* streaming parser it is said to be, for all programs that pack with the  *)
(* exclusive or: each packet is delivered as it was packed, or was lost    *)
(* with its connection.                                                    *)
THEOREM UncutIsStreamed ==
  ASSUME "ai_receiver" \notin Packers
  PROVE  UncutSpec => []StreamingParser
<1>1. Init => IInv /\ ContentInv /\ StreamingParser
  BY InitIInv DEF Init, ContentInv, StreamingParser
<1>2. IInv /\ ContentInv /\ StreamingParser /\ [UncutNext]_vars
        => IInv' /\ ContentInv' /\ StreamingParser'
  <2>1. [UncutNext]_vars => [Next]_vars
    BY DEF UncutNext, Next
  <2> QED BY <2>1, NextIInv, UncutKeeps
<1> QED BY <1>1, <1>2, PTL DEF UncutSpec

=============================================================================
