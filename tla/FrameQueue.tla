----------------------------- MODULE FrameQueue -----------------------------
(***************************************************************************)
(* What the ring buffer between the capture thread and the network thread  *)
(* promises: a closable bounded FIFO.  Frames come out in the order in     *)
(* which they went in, none lost and none twice, at most Capacity of them  *)
(* are inside at a time, and nothing goes in once the queue is closed.     *)
(* RingBuffer.tla, the code with its mutex, its condition variables and    *)
(* its index arithmetic, is shown to implement this module.                *)
(***************************************************************************)
EXTENDS Integers, Sequences

CONSTANTS
  Frames,     \* the frames that can be put
  Capacity    \* how many frames fit

VARIABLES
  accepted,   \* every frame put so far, in order
  delivered,  \* every frame taken so far, in order
  closed      \* close() has taken effect

vars == <<accepted, delivered, closed>>

Init ==
  /\ accepted = <<>>
  /\ delivered = <<>>
  /\ closed = FALSE

Put(f) ==
  /\ ~closed
  /\ Len(accepted) - Len(delivered) < Capacity
  /\ accepted' = Append(accepted, f)
  /\ UNCHANGED <<delivered, closed>>

Take ==
  /\ Len(delivered) < Len(accepted)
  /\ delivered' = Append(delivered, accepted[Len(delivered) + 1])
  /\ UNCHANGED <<accepted, closed>>

Close ==
  /\ closed' = TRUE
  /\ UNCHANGED <<accepted, delivered>>

Next ==
  \/ \E f \in Frames : Put(f)
  \/ Take
  \/ Close

Spec == Init /\ [][Next]_vars

=============================================================================
