CONSTANTS
  cap = cap
  net = net
  main = main
  SIGINT = {int}
  SIGTERM = {}
  Frames = {f1}
  RING_BUF_COUNT = 1
  MaxFrames = 2
  MaxInputs = 1
  NoOwner = NoOwner
  NoFrame = NoFrame
  Nobody = Nobody
SPECIFICATION FairSpec
INVARIANTS TypeOK CleanExit SocketDiscipline FramesAccounted
PROPERTIES ShutdownCompletes FramesFlow
CHECK_DEADLOCK FALSE
