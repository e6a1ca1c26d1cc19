------------------------------- MODULE Board -------------------------------
(***************************************************************************)
(* The board over several lives of the gateway.  The process of            *)
(* gateway/src/gateway_app.cpp exports the pins and then starts a thread   *)
(* that captures (VideoCapture) and one that may sound the alarm (Gpio);   *)
(* beside it somebody runs peripheral_ctrl.  When a process ends, in       *)
(* order or by a signal that kills it, the kernel takes back the camera    *)
(* but leaves the pins as they are.                                        *)
(***************************************************************************)
EXTENDS VideoCapture, Gpio

boardVars == <<vars, pinVars>>

BoardInit == Init /\ PinInit

(* The threads of the gateway run once main() has exported the pins. *)
ThreadsRun ==
  Gateway \in running /\ (script[Gateway] = "start" => todo[Gateway] = <<>>)

CaptureStep == ThreadsRun /\ ThreadStep /\ UNCHANGED pinVars
DriverStep  == Driver /\ UNCHANGED pinVars

PinStep ==
  \E q \in Programs :
    /\ StartProgram(q) \/ (\E c \in Commands : Call(q, c)) \/ Write(q)
    /\ UNCHANGED vars

(* main() returns after both threads have ended, or the process is killed. *)
EndProcess(q) ==
  /\ EndProgram(q)
  /\ IF q = Gateway THEN ProcessEnds ELSE UNCHANGED vars

BoardNext ==
  \/ CaptureStep \/ DriverStep \/ PinStep
  \/ \E q \in Programs : EndProcess(q)

BoardSpec == BoardInit /\ [][BoardNext]_boardVars

-----------------------------------------------------------------------------
(* Properties, beside those of VideoCapture and Gpio.                      *)

(* The types of both parts. *)
BoardTypeOK == TypeOK /\ PinTypeOK

(* A gateway that is started again finds the camera free, whatever became  *)
(* of the last one; see VideoCapture!CameraReleased for an orderly end.    *)
CameraFree ==
  /\ CameraReleased
  /\ Gateway \notin running => at = "closed"

=============================================================================
