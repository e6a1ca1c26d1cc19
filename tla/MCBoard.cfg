\* One gateway and one tool at a time; the driver grants up to one buffer
\* more than the arrays hold.
SPECIFICATION BoardSpec
CONSTANTS
  Gateway = "gateway"
  Tools = {"tool"}
  Commands = {"none", "relay_on", "alarm"}
  VCAP_BUF_COUNT = 2
  MaxGranted = 3
  FrameSize = 2
  Sizes = {0, 1, 3}
  MaxFrames = 3
INVARIANTS
  BoardTypeOK
  AlarmUndisturbed
  StartSilences
  NoStrayOutput
  BuffersAccounted
  CameraFree
PROPERTY
  FramesAreNew
