------------------------------ MODULE TlvReader ------------------------------
(***************************************************************************)
(* The TLV codec of tlv_protocol.c between two programs: tlv_pack() on one *)
(* end of a TCP connection, tlv_reader_feed() on the other.                *)
(*                                                                         *)
(*   [tag:1][length:2][value:length][checksum:1]                           *)
(*                                                                         *)
(* TCP hands the bytes over in order and in pieces of any size.  The       *)
(* state of the reader survives from piece to piece, but the bytes of the  *)
(* body go to a buffer of the caller's, and every caller in this program   *)
(* (handle_response, handle_ai_result, do_read) has it on its own stack:   *)
(* when a call returns in the middle of a packet, what the next call finds *)
(* in its buffer is indeterminate.                                         *)
(*                                                                         *)
(* Three programs pack: the C programs, ai_receiver.py, and the earlier    *)
(* ai_receiver.py of src/gateway_vm_backup.  They differ in the checksum.  *)
(*                                                                         *)
(* A byte has eight bits, Base = 256; with two, Base = 4, small values     *)
(* already need the second byte of the length.  Exclusive or works bit by  *)
(* bit either way.                                                         *)
(***************************************************************************)
EXTENDS Integers, Sequences, SequencesExt

CONSTANTS
  Base,        \* values of a byte
  Tags,        \* tags that are sent
  Payloads,    \* values that are sent: sequences of bytes
  Packers,     \* programs that send
  Leftovers,   \* what a byte of a stack buffer may hold in the next call
  MaxPackets   \* bound: packets sent

Byte == 0 .. Base - 1
TLV_HEADER_SIZE == 3

ASSUME BaseAssumption == Base \in {4, 256}
ASSUME TagAssumption == Tags \subseteq Byte
ASSUME PayloadAssumption == Payloads \subseteq {v \in Seq(Byte) : Len(v) < Base * Base}
ASSUME LeftoverAssumption == Leftovers \subseteq Byte
ASSUME PackerAssumption ==
  /\ Packers \subseteq {"C", "ai_receiver", "ai_receiver_backup"}
  /\ "ai_receiver" \in Packers => Base = 256

VARIABLES
  packed,      \* the packets sent, in order
  k, p,        \* k packets and p bytes of the next one have been fed
  reader,      \* tlv_reader_t
  val_buf,     \* the caller's value buffer
  verdicts     \* what became of each packet that was fed completely or lost

vars == <<packed, k, p, reader, val_buf, verdicts>>

(* Bitwise exclusive or of two bytes: bit m of the result. *)
Differ(a, b, m) == ((a \div m) + (b \div m)) % 2

Xor(a, b) ==
  Differ(a, b, 1) + 2 * Differ(a, b, 2) + 4 * Differ(a, b, 4) + 8 * Differ(a, b, 8)
    + 16 * Differ(a, b, 16) + 32 * Differ(a, b, 32) + 64 * Differ(a, b, 64)
    + 128 * Differ(a, b, 128)

(* The loop over the bytes.  It is a recursive function, not FoldLeft, so  *)
(* that it can be reasoned about.                                          *)
Folded(start, bytes) ==
  LET acc[i \in 0 .. Len(bytes)] == IF i = 0 THEN start ELSE Xor(acc[i - 1], bytes[i])
  IN  acc[Len(bytes)]

tlv_checksum(tag, value, len) ==
  Folded(Xor(tag, Xor(len \div Base, len % Base)), SubSeq(value, 1, len))

(* crc8() of ai_receiver.py: polynomial 7, starting from 255. *)
Shift(crc) == IF crc >= 128 THEN Xor((2 * crc) % 256, 7) ELSE (2 * crc) % 256

crc8(bytes) ==
  FoldLeft(LAMBDA crc, byte :
             FoldLeft(LAMBDA c, round : Shift(c), Xor(crc, byte), <<1, 2, 3, 4, 5, 6, 7, 8>>),
           255, bytes)

(* Mutant: the accumulator starts as in ai_receiver.py. *)
crc8_backupFrom255(bytes) == Folded(Base - 1, bytes)

(* crc8() of the earlier ai_receiver.py. *)
crc8_backup(bytes) == Folded(0, bytes)

(* A packet, and which program packs it. *)
Packet(packer, tag, value) == [packer |-> packer, tag |-> tag, value |-> value]

Content(pkt) == <<pkt.tag, Len(pkt.value) \div Base, Len(pkt.value) % Base>> \o pkt.value

(* The bytes tlv_pack() of each program writes for a packet. *)
Checksum(pkt) ==
  CASE pkt.packer = "C"                  -> tlv_checksum(pkt.tag, pkt.value, Len(pkt.value))
    [] pkt.packer = "ai_receiver"        -> crc8(Content(pkt))
    [] pkt.packer = "ai_receiver_backup" -> crc8_backup(Content(pkt))

tlv_pack(pkt) == Content(pkt) \o <<Checksum(pkt)>>

(* tlv_reader_init() leaves tag and len as they are. *)
Initialised(r) ==
  [r EXCEPT !.state = "HEADER", !.header = <<>>, !.body_pos = 0]

Init ==
  /\ packed = <<>>
  /\ k = 0 /\ p = 0
  /\ reader = [state |-> "HEADER", header |-> <<>>, tag |-> 0, len |-> 0, body_pos |-> 0]
  /\ val_buf = <<>>
  /\ verdicts = <<>>

Send(packer, tag, value) ==
  /\ Len(packed) < MaxPackets
  /\ packed' = Append(packed, Packet(packer, tag, value))
  /\ UNCHANGED <<k, p, reader, val_buf, verdicts>>

-----------------------------------------------------------------------------
(* tlv_reader_feed() with one byte, as all callers use it. *)

FeedHeader(byte) ==
  LET header == Append(reader.header, byte)
      len == header[2] * Base + header[3]
  IN  /\ reader.state = "HEADER"
      /\ reader' =
           IF Len(header) < TLV_HEADER_SIZE
           THEN [reader EXCEPT !.header = header]
           ELSE [state |-> IF len = 0 THEN "CRC" ELSE "BODY",
                 header |-> header, tag |-> header[1], len |-> len, body_pos |-> 0]
      /\ UNCHANGED <<val_buf, verdicts>>

(* Mutant: > for >=. *)
FeedBodyOneMore(byte) ==
  /\ reader.state = "BODY"
  /\ val_buf' = [i \in 1 .. reader.body_pos + 1 |->
                   IF i <= reader.body_pos THEN val_buf[i] ELSE byte]
  /\ reader' = [reader EXCEPT !.body_pos = @ + 1,
                              !.state = IF reader.body_pos + 1 > reader.len THEN "CRC" ELSE "BODY"]
  /\ UNCHANGED verdicts

FeedBody(byte) ==
  /\ reader.state = "BODY"
  /\ val_buf' = [i \in 1 .. reader.body_pos + 1 |->
                   IF i <= reader.body_pos THEN val_buf[i] ELSE byte]
  /\ reader' = [reader EXCEPT !.body_pos = @ + 1,
                              !.state = IF reader.body_pos + 1 >= reader.len THEN "CRC" ELSE "BODY"]
  /\ UNCHANGED verdicts

(* What the caller learns: a packet, an error, or for an empty value the 0 *)
(* that also means "go on".  The value is in its buffer in any case.       *)
Verdict(kind, value) == [kind |-> kind, tag |-> reader.tag, value |-> value]

(* Mutant: the reader is initialised only when the checksum is right. *)
FeedCrcStays(byte) ==
  LET value == SubSeq(val_buf, 1, reader.body_pos)
      expected == tlv_checksum(reader.tag, value, reader.body_pos)
  IN  /\ reader.state = "CRC"
      /\ reader' = IF byte = expected THEN Initialised(reader) ELSE reader
      /\ verdicts' = Append(verdicts,
           IF byte # expected THEN Verdict("error", value)
           ELSE IF reader.len = 0 THEN Verdict("silent", <<>>)
           ELSE Verdict("packet", value))
      /\ UNCHANGED val_buf

FeedCrc(byte) ==
  LET value == SubSeq(val_buf, 1, reader.body_pos)
      expected == tlv_checksum(reader.tag, value, reader.body_pos)
  IN  /\ reader.state = "CRC"
      /\ reader' = Initialised(reader)
      /\ verdicts' = Append(verdicts,
           IF byte # expected THEN Verdict("error", value)
           ELSE IF reader.len = 0 THEN Verdict("silent", <<>>)
           ELSE Verdict("packet", value))
      /\ UNCHANGED val_buf

(* The next byte of the connection arrives within the current call. *)
Feed ==
  /\ k < Len(packed)
  /\ LET bytes == tlv_pack(packed[k + 1])
         byte == bytes[p + 1]
     IN  /\ FeedHeader(byte) \/ FeedBody(byte) \/ FeedCrc(byte)
         /\ IF p + 1 = Len(bytes) THEN k' = k + 1 /\ p' = 0 ELSE k' = k /\ p' = p + 1
  /\ UNCHANGED packed

(* The caller has read everything there was, returns, and is called again: *)
(* its buffer holds anything where bytes of the body had been stored.      *)
NewCall ==
  /\ reader.body_pos > 0
  /\ val_buf' \in [1 .. reader.body_pos -> Leftovers]
  /\ UNCHANGED <<packed, k, p, reader, verdicts>>

(* Mutant: the reader keeps its state across connections. *)
ReconnectKeepingReader ==
  /\ k < Len(packed)
  /\ verdicts' = [i \in 1 .. Len(packed) |->
                    IF i <= Len(verdicts) THEN verdicts[i] ELSE Verdict("lost", <<>>)]
  /\ k' = Len(packed)
  /\ p' = 0
  /\ UNCHANGED <<packed, reader, val_buf>>

(* The connection breaks: what was sent and not fed is lost, both ends     *)
(* start afresh, and the reader is initialised.                            *)
Reconnect ==
  /\ k < Len(packed)
  /\ verdicts' = [i \in 1 .. Len(packed) |->
                    IF i <= Len(verdicts) THEN verdicts[i] ELSE Verdict("lost", <<>>)]
  /\ k' = Len(packed)
  /\ p' = 0
  /\ reader' = Initialised(reader)
  /\ UNCHANGED <<packed, val_buf>>

Next ==
  \/ \E packer \in Packers, tag \in Tags, value \in Payloads : Send(packer, tag, value)
  \/ Feed
  \/ NewCall
  \/ Reconnect

Spec == Init /\ [][Next]_vars

-----------------------------------------------------------------------------
(* Properties *)

TypeOK ==
  /\ packed \in Seq([packer : Packers, tag : Tags, value : Payloads])
  /\ k \in 0 .. Len(packed)
  /\ p \in 0 .. TLV_HEADER_SIZE + Base * Base
  /\ reader.state \in {"HEADER", "BODY", "CRC"}
  /\ reader.header \in Seq(Byte) /\ Len(reader.header) <= TLV_HEADER_SIZE
  /\ reader.tag \in Byte
  /\ reader.len \in 0 .. Base * Base - 1
  /\ reader.body_pos \in 0 .. reader.len
  /\ val_buf \in Seq(Byte)
  /\ \A i \in 1 .. Len(verdicts) : verdicts[i].kind \in {"packet", "error", "silent", "lost"}

(* The reader never loses its place in the stream, whatever the pieces,    *)
(* the content of the buffers, the failed checksums and the reconnects: it *)
(* is between packets exactly when the sender's bytes are, and has given   *)
(* one verdict on each packet before.                                      *)
InSync ==
  /\ Len(verdicts) = k
  /\ p = 0 <=> reader.state = "HEADER" /\ reader.header = <<>>
  /\ p > 0 => p = Len(reader.header) + reader.body_pos

(* A verdict concerns its own packet: what is delivered has the tag and    *)
(* the length that were packed, even when the content was overwritten.     *)
VerdictsMatch ==
  \A i \in 1 .. Len(verdicts) :
    /\ verdicts[i].kind = "packet" =>
         /\ verdicts[i].tag = packed[i].tag
         /\ Len(verdicts[i].value) = Len(packed[i].value)
    /\ verdicts[i].kind = "silent" =>
         packed[i].value = <<>>

(* The checksum does what an exclusive or can, whichever of the programs   *)
(* with an exclusive or has packed the value: a delivered packet differs   *)
(* from the packed one in no byte or in more than one, and one that is     *)
(* refused was damaged by a call boundary.                                 *)
Damaged(i) == {j \in 1 .. Len(packed[i].value) : verdicts[i].value[j] # packed[i].value[j]}

DamageDetected ==
  \A i \in 1 .. Len(verdicts) :
    packed[i].packer # "ai_receiver" =>
      /\ verdicts[i].kind = "packet" => \A a \in Damaged(i) : Damaged(i) # {a}
      /\ verdicts[i].kind = "error" => Damaged(i) # {}

(* ai_receiver.py:64 says that its crc8() is compatible with tlv_checksum: *)
(* what it packs is refused only when it was damaged, too.                 *)
ChecksumsCompatible ==
  \A i \in 1 .. Len(verdicts) : verdicts[i].kind = "error" => Damaged(i) # {}

(* A packet that no call boundary cuts is delivered as it was packed.      *)
Intact(i) ==
  IF packed[i].value = <<>> THEN verdicts[i].kind = "silent"
  ELSE verdicts[i].kind = "packet" /\ verdicts[i].value = packed[i].value

(* README.md:167 and README.md:57 call the reader a streaming parser:      *)
(* packets arrive whole however TCP cuts the stream.                       *)
StreamingParser ==
  \A i \in 1 .. Len(verdicts) : verdicts[i].kind = "lost" \/ Intact(i)

=============================================================================
