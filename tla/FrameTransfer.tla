---------------------------- MODULE FrameTransfer ----------------------------
(***************************************************************************)
(* A video frame from fs_send_frame() of frame_sender.c to the two         *)
(* programs that put it together again: do_read() of frame_receiver.c and  *)
(* FrameReassembler of ai_receiver.py.  A frame is announced by a          *)
(* FRAME_START packet with its length and cut into FRAME_DATA packets that *)
(* carry neither a frame number nor a position.                            *)
(*                                                                         *)
(* Below is the TLV stream, which delivers packets in order but may lose   *)
(* any of them: the reader drops a packet whose checksum fails, and in     *)
(* frame_receiver.c it does so to packets that straddle two calls (module  *)
(* TlvReader).  A broken connection takes everything that is under way.    *)
(* The packet that straddles two calls and passes the checksum with other  *)
(* bytes is TlvReader's subject: here a packet arrives as it was sent.     *)
(*                                                                         *)
(* Both receivers are fed the same packets here, which lets their results  *)
(* be compared.  A byte of a frame is <<frame, position>>, so that it is   *)
(* known wherever it turns up.                                             *)
(***************************************************************************)
EXTENDS Integers, Sequences

CONSTANTS
  Lengths,      \* lengths of the frames that are sent
  CHUNK_SIZE,   \* most bytes in a FRAME_DATA packet
  MAX_FRAME,    \* bytes a receiver can hold
  MaxFrames,    \* bound: frames sent
  MaxLosses     \* bound: packets dropped on a working connection

(* The capture thread queues no empty frame and none longer than the       *)
(* buffers (gateway_app.cpp:168, ring_buffer.h:40).                        *)
ASSUME ChunkAssumption == CHUNK_SIZE \in Nat \ {0}
ASSUME LengthAssumption == MAX_FRAME \in Nat /\ Lengths \subseteq 1 .. MAX_FRAME
ASSUME LossAssumption == MaxLosses \in Nat

VARIABLES
  lengths,      \* the length of every frame handed to fs_send_frame()
  offset,       \* fs_send_frame's position in the last one
  wire,         \* packets sent and not yet read, on this connection
  fa,           \* frame_assemble_t of frame_receiver.c, data cut at received
  saved,        \* save_frame() calls: the bytes written
  reassembler,  \* FrameReassembler of ai_receiver.py
  frames,       \* the frames it returned
  arrived,      \* history: the packets that arrived
  losses        \* history: how many were dropped

vars == <<lengths, offset, wire, fa, saved, reassembler, frames, arrived, losses>>

sender == <<lengths, offset>>
receivers == <<fa, saved, reassembler, frames>>

AtMost(a, b) == IF a <= b THEN a ELSE b

Start(f, total) == [tag |-> "START", frame |-> f, at |-> 0, total |-> total, value |-> <<>>]
Data(f, at, n) ==
  [tag |-> "DATA", frame |-> f, at |-> at, total |-> n, value |-> [i \in 1 .. n |-> <<f, at + i>>]]

NoFrame == [active |-> FALSE, total |-> 0, data |-> <<>>]
NewReassembler == [expected_size |-> 0, buffer |-> <<>>]

Init ==
  /\ lengths = <<>> /\ offset = 0
  /\ wire = <<>>
  /\ fa = NoFrame /\ saved = <<>>
  /\ reassembler = NewReassembler /\ frames = <<>>
  /\ arrived = {} /\ losses = 0

-----------------------------------------------------------------------------
(* fs_send_frame() *)

f_now == Len(lengths)
Sending == f_now > 0 /\ offset < lengths[f_now]

SendStart(length) ==
  /\ ~ Sending
  /\ f_now < MaxFrames
  /\ lengths' = Append(lengths, length)
  /\ offset' = 0
  /\ wire' = Append(wire, Start(f_now + 1, length))
  /\ UNCHANGED <<receivers, arrived, losses>>

SendData ==
  /\ Sending
  /\ LET chunk == AtMost(lengths[f_now] - offset, CHUNK_SIZE)
     IN  /\ wire' = Append(wire, Data(f_now, offset, chunk))
         /\ offset' = offset + chunk
  /\ UNCHANGED <<lengths, receivers, arrived, losses>>

-----------------------------------------------------------------------------
(* frame_receiver.c *)

(* Mutant: the bytes of the last frame stay. *)
ReceiveStartKeeping(pkt) ==
  /\ fa' = [active |-> TRUE, total |-> pkt.total,
            data |-> SubSeq(fa.data, 1, AtMost(Len(fa.data), pkt.total - 1))]
  /\ UNCHANGED saved

ReceiveStart(pkt) ==
  /\ fa' = [active |-> TRUE, total |-> pkt.total, data |-> <<>>]
  /\ UNCHANGED saved

(* Mutant: the room that is left is not considered. *)
ReceiveDataUncut(pkt) ==
  LET data == fa.data \o pkt.value
      done == fa.active /\ Len(data) >= fa.total
  IN  /\ fa' = IF fa.active THEN [fa EXCEPT !.data = data, !.active = ~ done] ELSE fa
      /\ saved' = IF done THEN Append(saved, SubSeq(data, 1, fa.total)) ELSE saved

(* Mutant: a finished frame is not closed. *)
ReceiveDataOpen(pkt) ==
  LET copy == AtMost(Len(pkt.value), fa.total - Len(fa.data))
      data == fa.data \o SubSeq(pkt.value, 1, copy)
      done == fa.active /\ Len(data) >= fa.total
  IN  /\ fa' = IF fa.active THEN [fa EXCEPT !.data = data] ELSE fa
      /\ saved' = IF done THEN Append(saved, data) ELSE saved

(* A FRAME_DATA outside a frame is ignored; in a frame as much is taken as *)
(* is missing, and a frame that is full is written and closed.             *)
ReceiveData(pkt) ==
  LET copy == AtMost(Len(pkt.value), fa.total - Len(fa.data))
      fits == Len(fa.data) + copy <= MAX_FRAME
      data == IF fits THEN fa.data \o SubSeq(pkt.value, 1, copy) ELSE fa.data
      done == fa.active /\ Len(data) >= fa.total
  IN  /\ fa' = IF fa.active THEN [fa EXCEPT !.data = data, !.active = ~ done] ELSE fa
      /\ saved' = IF done THEN Append(saved, data) ELSE saved

-----------------------------------------------------------------------------
(* ai_receiver.py *)

FeedStart(pkt) ==
  /\ reassembler' = [expected_size |-> pkt.total, buffer |-> <<>>]
  /\ UNCHANGED frames

(* Mutant: the expected size stays after a frame is complete. *)
FeedDataExpecting(pkt) ==
  LET buffer == reassembler.buffer \o pkt.value
      size == reassembler.expected_size
      done == Len(buffer) >= size /\ size > 0
  IN  /\ reassembler' = [reassembler EXCEPT !.buffer = IF done THEN <<>> ELSE buffer]
      /\ frames' = IF done THEN Append(frames, SubSeq(buffer, 1, size)) ELSE frames

(* A FRAME_DATA outside a frame is kept, and forgotten by the next start.  *)
FeedData(pkt) ==
  LET buffer == reassembler.buffer \o pkt.value
      size == reassembler.expected_size
      done == Len(buffer) >= size /\ size > 0
  IN  /\ reassembler' = IF done THEN NewReassembler ELSE [reassembler EXCEPT !.buffer = buffer]
      /\ frames' = IF done THEN Append(frames, SubSeq(buffer, 1, size)) ELSE frames

-----------------------------------------------------------------------------
Deliver ==
  /\ wire # <<>>
  /\ LET pkt == Head(wire)
     IN  /\ \/ pkt.tag = "START" /\ ReceiveStart(pkt) /\ FeedStart(pkt)
            \/ pkt.tag = "DATA" /\ ReceiveData(pkt) /\ FeedData(pkt)
         /\ arrived' = arrived \cup {pkt}
  /\ wire' = Tail(wire)
  /\ UNCHANGED <<sender, losses>>

(* The TLV reader drops a packet. *)
Lose ==
  /\ wire # <<>>
  /\ losses < MaxLosses
  /\ losses' = losses + 1
  /\ wire' = Tail(wire)
  /\ UNCHANGED <<sender, receivers, arrived>>

(* The connection breaks: what is on the wire is gone, fs_send_frame()     *)
(* returns -1 and the frame it was sending is not sent again; the new      *)
(* connection begins with new receiver state.                              *)
Reconnect ==
  /\ f_now > 0
  /\ wire' = <<>>
  /\ offset' = lengths[f_now]
  /\ fa' = NoFrame
  /\ reassembler' = NewReassembler
  /\ UNCHANGED <<lengths, saved, frames, arrived, losses>>

Next ==
  \/ \E length \in Lengths : SendStart(length)
  \/ SendData
  \/ Deliver
  \/ Lose
  \/ Reconnect

Spec == Init /\ [][Next]_vars

-----------------------------------------------------------------------------
(* Properties *)

Bytes == (Nat \ {0}) \X (Nat \ {0})

Packet ==
  [tag : {"START", "DATA"}, frame : Nat, at : Nat, total : Nat, value : Seq(Bytes)]

TypeOK ==
  /\ lengths \in Seq(Lengths)
  /\ offset \in 0 .. MAX_FRAME
  /\ wire \in Seq(Packet)
  /\ fa \in [active : BOOLEAN, total : 0 .. MAX_FRAME, data : Seq(Bytes)]
  /\ Len(fa.data) <= fa.total
  /\ saved \in Seq(Seq(Bytes))
  /\ reassembler \in [expected_size : 0 .. MAX_FRAME, buffer : Seq(Bytes)]
  /\ frames \in Seq(Seq(Bytes))
  /\ losses \in 0 .. MaxLosses

Content(f) == [i \in 1 .. lengths[f] |-> <<f, i>>]

ThisStart(f) == Start(f, lengths[f])
ThisData(f) ==
  {Data(f, at, AtMost(lengths[f] - at, CHUNK_SIZE)) :
     at \in {x \in 0 .. lengths[f] - 1 : x % CHUNK_SIZE = 0}}

(* A frame that arrives in full is saved in full, whatever was lost        *)
(* before and between: a FRAME_START starts afresh.                        *)
DeliveredIsSaved ==
  \A f \in 1 .. Len(lengths) :
    ThisData(f) \cup {ThisStart(f)} \subseteq arrived =>
      \E i \in 1 .. Len(saved) : saved[i] = Content(f)

(* What is saved and is not a frame took two losses: a part of one frame,  *)
(* whose start arrived, and the start of a later one, whose bytes were     *)
(* taken for the missing part.  One loss costs one frame and no more.      *)
TornByTwoLosses ==
  \A i \in 1 .. Len(saved) :
    \/ \E f \in 1 .. Len(lengths) : saved[i] = Content(f)
    \/ \E f, g \in 1 .. Len(lengths) :
         /\ f < g
         /\ ThisStart(f) \in arrived /\ ~ ThisData(f) \subseteq arrived
         /\ ThisStart(g) \notin arrived
         /\ \E j \in 1 .. Len(saved[i]) : saved[i][j][1] = g

(* No byte is saved twice, and frames are saved in the order of capture.   *)
SavedInOrder ==
  \A i, j \in 1 .. Len(saved) :
    i < j => \A a \in 1 .. Len(saved[i]), b \in 1 .. Len(saved[j]) :
               saved[i][a][1] < saved[j][b][1]

(* Given the same packets the C receiver and the Python receiver put the   *)
(* same frames together, torn ones included, although one ignores data     *)
(* outside a frame and the other collects it.                              *)
SameFrames == saved = frames

=============================================================================
