---------------------------- MODULE FrameSource ----------------------------
(***************************************************************************)
(* A source of frames as the capture thread of gateway_app.cpp needs one:  *)
(* every grab between start and close brings data of one frame that the    *)
(* sensor made, and of a later one than the grab before.  (video_capture.h *)
(* promises a frame and its size, and no more.)  How much of the frame     *)
(* comes is left open.                                                     *)
(***************************************************************************)
EXTENDS Naturals, Sequences

CONSTANT FrameSize  \* parts that a frame has at most

VARIABLES
  streaming,  \* the stream is on
  produced,   \* number of the last frame the sensor made
  frame,      \* the last that was handed out: for each part, of which frame it is
  grabs       \* how often something was handed out

vars == <<streaming, produced, frame, grabs>>

Init == streaming = FALSE /\ produced = 0 /\ frame = <<>> /\ grabs = 0

On   == ~streaming /\ streaming' = TRUE /\ UNCHANGED <<produced, frame, grabs>>
Show == streaming /\ produced' = produced + 1 /\ UNCHANGED <<streaming, frame, grabs>>
Off  == streaming' = FALSE /\ produced' = 0 /\ frame' = <<>> /\ grabs' = 0

Later(n) == frame # <<>> => frame[1] < n

Take ==
  /\ streaming
  /\ \E n \in 1 .. produced, parts \in 1 .. FrameSize :
       Later(n) /\ frame' = [i \in 1 .. parts |-> n]
  /\ grabs' = grabs + 1
  /\ UNCHANGED <<streaming, produced>>

Next == On \/ Show \/ Take \/ Off

Spec == Init /\ [][Next]_vars

=============================================================================
