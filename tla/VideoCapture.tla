---------------------------- MODULE VideoCapture ----------------------------
(***************************************************************************)
(* gateway/src/video_capture.c, as the capture thread of the gateway calls *)
(* it: vcap_open(), vcap_start(), vcap_grab() in a loop, vcap_close().     *)
(*                                                                         *)
(* The V4L2 driver owns the buffers that are queued and fills them in      *)
(* order; a filled one waits to be dequeued; one is held while it is       *)
(* copied.  Frames are numbers, in the order in which the sensor made      *)
(* them, and their data comes in parts.  Every call to the kernel may      *)
(* fail.                                                                   *)
(***************************************************************************)
EXTENDS Naturals, Sequences

CONSTANTS
  VCAP_BUF_COUNT,  \* buffers asked for, and the length of the arrays
  MaxGranted,      \* the most that VIDIOC_REQBUFS grants
  FrameSize,       \* VCAP_FRAME_SIZE, in parts: the room in the caller's memory
  Sizes,           \* how much data the driver may report in a buffer
  MaxFrames        \* bound: frames the sensor makes in one stream

ASSUME CameraAssumption ==
  /\ VCAP_BUF_COUNT \in Nat /\ MaxGranted \in Nat /\ MaxFrames \in Nat
  /\ FrameSize \in Nat /\ Sizes \subseteq Nat

VARIABLES
  at,         \* where the capture thread is
  fd,         \* the device is open
  count,      \* buffers granted
  next,       \* i of the loop of vcap_open()
  mapped,     \* the buffers that are mapped
  queued,     \* buffers the driver may fill, oldest first
  filled,     \* buffers the driver has filled, oldest first
  held,       \* the buffers that were dequeued and not given back
  image,      \* the frame each buffer holds
  streaming,  \* the stream is on
  produced,   \* number of the last frame the sensor made
  size,       \* how much the grab copies
  copied,     \* the parts it has copied
  frame,      \* the parts of the last frame that was handed out
  grabs       \* how many were handed out

ring == <<queued, filled, held, image>>
grab == <<size, copied, frame, grabs>>
rest == <<ring, streaming, produced, grab>>
vars == <<at, fd, count, next, mapped, rest>>

Buffers == 0 .. MaxGranted - 1

Init ==
  /\ at = "closed"
  /\ fd = FALSE
  /\ count = 0 /\ next = 0
  /\ mapped = {} /\ held = {}
  /\ queued = <<>> /\ filled = <<>>
  /\ image = [b \in Buffers |-> 0]
  /\ streaming = FALSE
  /\ produced = 0
  /\ size = 0 /\ copied = <<>>
  /\ frame = <<>> /\ grabs = 0

Go(from, to) == at = from /\ at' = to

-----------------------------------------------------------------------------
(* vcap_open() *)

Open ==
  /\ Go("closed", "negotiate")
  /\ fd' = TRUE
  /\ UNCHANGED <<count, next, mapped, rest>>

(* calloc() or open() failed. *)
OpenFailed ==
  /\ Go("closed", "failed")
  /\ UNCHANGED <<fd, count, next, mapped, rest>>

(* VIDIOC_QUERYCAP, the capabilities, VIDIOC_S_FMT. *)
Negotiated ==
  /\ Go("negotiate", "request")
  /\ UNCHANGED <<fd, count, next, mapped, rest>>

(* VIDIOC_REQBUFS. *)
Granted(n) ==
  /\ Go("request", "map")
  /\ count' = n
  /\ next' = 0
  /\ UNCHANGED <<fd, mapped, rest>>

(* VIDIOC_QUERYBUF and mmap() of buffer i.  The arrays have room for       *)
(* VCAP_BUF_COUNT; what happens after a write beyond them is undefined.    *)
MapBuffer ==
  /\ next < count
  /\ Go("map", IF next < VCAP_BUF_COUNT THEN "queue" ELSE "overrun")
  /\ mapped' = mapped \cup {next}
  /\ UNCHANGED <<fd, count, next, rest>>

(* Mutant: i is advanced before the buffer is queued. *)
QueueNextBuffer ==
  /\ Go("queue", "map")
  /\ queued' = Append(queued, next + 1)
  /\ next' = next + 1
  /\ UNCHANGED <<fd, count, mapped, filled, held, image, streaming, produced, grab>>

(* VIDIOC_QBUF of buffer i. *)
QueueBuffer ==
  /\ Go("queue", "map")
  /\ queued' = Append(queued, next)
  /\ next' = next + 1
  /\ UNCHANGED <<fd, count, mapped, filled, held, image, streaming, produced, grab>>

Opened ==
  /\ next = count
  /\ Go("map", "opened")
  /\ UNCHANGED <<fd, count, next, mapped, rest>>

(* fail: the buffers that are mapped already stay mapped.  The driver lets *)
(* go of its buffers with the last reference to the device, and a mapping  *)
(* is one.                                                                 *)
Fail ==
  /\ \/ Go("negotiate", "failed") \/ Go("request", "failed") \/ Go("queue", "failed")
     \/ next < count /\ Go("map", "failed")
  /\ fd' = FALSE
  /\ UNCHANGED <<count, next, mapped, rest>>

-----------------------------------------------------------------------------
(* vcap_start() *)

Start ==
  /\ Go("opened", "started")
  /\ streaming' = TRUE
  /\ UNCHANGED <<fd, count, next, mapped, ring, produced, grab>>

StartFailed ==
  /\ Go("opened", "close")
  /\ UNCHANGED <<fd, count, next, mapped, rest>>

-----------------------------------------------------------------------------
(* vcap_grab() *)

(* Mutant: the buffer is given back before it is copied. *)
DequeueAndQueue(bytesused) ==
  /\ filled # <<>>
  /\ Go("started", "copy")
  /\ held' = {Head(filled)}
  /\ queued' = Append(queued, Head(filled))
  /\ filled' = Tail(filled)
  /\ size' = (IF bytesused < FrameSize THEN bytesused ELSE FrameSize)
  /\ UNCHANGED <<fd, count, next, mapped, image, streaming, produced, copied, frame, grabs>>

(* VIDIOC_DQBUF says which buffer and how much there is in it: all, more   *)
(* than asked for, a part or nothing.  When a signal interrupts it, grab   *)
(* returns 0 and the loop calls it again.  A buffer that the driver flags  *)
(* as damaged is taken like any other.                                     *)
Dequeue(bytesused) ==
  /\ filled # <<>>
  /\ Go("started", "copy")
  /\ held' = {Head(filled)}
  /\ filled' = Tail(filled)
  /\ size' = (IF bytesused < FrameSize THEN bytesused ELSE FrameSize)
  /\ UNCHANGED <<fd, count, next, mapped, queued, image, streaming, produced, copied, frame, grabs>>

(* memcpy() reads one part after the other, as it is then. *)
Copy ==
  /\ Len(copied) < size
  /\ Go("copy", "copy")
  /\ \E b \in held : copied' = Append(copied, image[b])
  /\ UNCHANGED <<fd, count, next, mapped, ring, streaming, produced, size, frame, grabs>>

(* Mutant: the buffer is not given back. *)
RequeueNothing ==
  /\ Len(copied) = size
  /\ Go("copy", "started")
  /\ held' = {}
  /\ size' = 0 /\ copied' = <<>>
  /\ IF size > 0 THEN frame' = copied /\ grabs' = grabs + 1 ELSE UNCHANGED <<frame, grabs>>
  /\ UNCHANGED <<fd, count, next, mapped, queued, filled, image, streaming, produced>>

(* VIDIOC_QBUF, and grab returns: the caller pushes what was copied.  An   *)
(* empty buffer makes it return 0, which the caller takes for a signal.    *)
Requeue ==
  /\ Len(copied) = size
  /\ Go("copy", "started")
  /\ \E b \in held : queued' = Append(queued, b)
  /\ held' = {}
  /\ size' = 0 /\ copied' = <<>>
  /\ IF size > 0 THEN frame' = copied /\ grabs' = grabs + 1 ELSE UNCHANGED <<frame, grabs>>
  /\ UNCHANGED <<fd, count, next, mapped, filled, image, streaming, produced>>

(* An error of VIDIOC_DQBUF or VIDIOC_QBUF ends the caller's loop without  *)
(* the frame, and so does a gateway that stops, once a grab has returned.  *)
Leave ==
  /\ Go("started", "close") \/ (Len(copied) = size /\ Go("copy", "close"))
  /\ size' = 0 /\ copied' = <<>>
  /\ UNCHANGED <<fd, count, next, mapped, ring, streaming, produced, frame, grabs>>

-----------------------------------------------------------------------------
(* vcap_close() *)

(* The driver takes no buffer and fills none any more. *)
StreamEnds ==
  /\ streaming' = FALSE
  /\ queued' = <<>> /\ filled' = <<>>
  /\ held' = {}
  /\ image' = [b \in Buffers |-> 0]
  /\ produced' = 0
  /\ size' = 0 /\ copied' = <<>>
  /\ frame' = <<>> /\ grabs' = 0

(* Mutant: the stream is switched off and nothing is unmapped. *)
CloseMapped ==
  /\ Go("close", "done")
  /\ fd' = FALSE
  /\ StreamEnds
  /\ UNCHANGED <<count, next, mapped>>

Close ==
  /\ Go("close", "done")
  /\ mapped' = mapped \ (0 .. VCAP_BUF_COUNT - 1)
  /\ fd' = FALSE
  /\ StreamEnds
  /\ UNCHANGED <<count, next>>

(* The process has ended: the kernel closes and unmaps. *)
ProcessEnds ==
  /\ at' = "closed"
  /\ fd' = FALSE
  /\ count' = 0 /\ next' = 0
  /\ mapped' = {}
  /\ StreamEnds

-----------------------------------------------------------------------------
(* The driver: a frame goes into the oldest queued buffer, or nowhere.     *)

Fill ==
  /\ streaming /\ produced < MaxFrames
  /\ queued # <<>>
  /\ image' = [image EXCEPT ![Head(queued)] = produced + 1]
  /\ filled' = Append(filled, Head(queued))
  /\ queued' = Tail(queued)
  /\ produced' = produced + 1
  /\ UNCHANGED <<at, fd, count, next, mapped, held, streaming, grab>>

Drop ==
  /\ streaming /\ produced < MaxFrames
  /\ queued = <<>>
  /\ produced' = produced + 1
  /\ UNCHANGED <<at, fd, count, next, mapped, ring, streaming, grab>>

ThreadStep ==
  \/ Open \/ OpenFailed \/ Negotiated \/ (\E n \in 1 .. MaxGranted : Granted(n))
  \/ MapBuffer \/ QueueBuffer \/ Opened \/ Fail
  \/ Start \/ StartFailed
  \/ (\E bytesused \in Sizes : Dequeue(bytesused)) \/ Copy \/ Requeue \/ Leave
  \/ Close

Driver == Fill \/ Drop

Next == ThreadStep \/ Driver \/ ProcessEnds

Spec == Init /\ [][Next]_vars

-----------------------------------------------------------------------------
(* Properties *)

Places ==
  {"closed", "negotiate", "request", "map", "queue", "opened", "started", "copy",
   "close", "done", "failed", "overrun"}

TypeOK ==
  /\ at \in Places
  /\ fd \in BOOLEAN /\ streaming \in BOOLEAN
  /\ count \in 0 .. MaxGranted /\ next \in 0 .. MaxGranted
  /\ mapped \subseteq 0 .. count - 1 /\ held \subseteq 0 .. count - 1
  /\ queued \in Seq(0 .. count - 1) /\ filled \in Seq(0 .. count - 1)
  /\ image \in [Buffers -> 0 .. MaxFrames]
  /\ produced \in 0 .. MaxFrames /\ grabs \in 0 .. MaxFrames
  /\ size \in 0 .. FrameSize /\ Len(copied) <= size
  /\ copied \in Seq(1 .. MaxFrames) /\ frame \in Seq(1 .. MaxFrames)

(* Each buffer is in one place.  While the stream is on it is with the     *)
(* driver, empty or filled, or it is the one that is being copied, so the  *)
(* driver never writes into memory that is read, and it never runs out of  *)
(* buffers for another reason than a slow caller.                          *)
InDriver(b) == \E i \in 1 .. Len(queued) + Len(filled) : (queued \o filled)[i] = b
BuffersAccounted ==
  at \in {"started", "copy"} =>
    /\ Len(queued) + Len(filled) + (IF at = "started" THEN 0 ELSE 1) = count
    /\ \A b \in 0 .. count - 1 : InDriver(b) \/ b \in held
    /\ \A b \in held : ~InDriver(b)

(* Whatever happened on the way, an orderly close leaves no descriptor and *)
(* no mapping, and a failed open leaves no descriptor.  (The mappings that *)
(* a failed open leaves behind live as long as the process.)               *)
CameraReleased ==
  /\ at \in {"closed", "done", "failed"} => ~fd /\ ~streaming
  /\ at \in {"closed", "done"} => mapped = {}

(* What the rest of the gateway takes for granted of vcap_grab(), whose    *)
(* header promises a frame and its size: all that it hands out in one call *)
(* is of one frame, as the driver left it in the buffer, and of a later    *)
(* one than in the call before; a frame comes neither twice nor mixed with *)
(* the next one.                                                           *)
Source == INSTANCE FrameSource
FramesAreNew == Source!Spec

=============================================================================
