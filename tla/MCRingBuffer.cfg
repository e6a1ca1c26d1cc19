CONSTANTS
  Producers = {p1, p2}
  Consumers = {c}
  Closers = {k}
  Frames = {f1, f2}
  RING_BUF_COUNT = 2
  MaxFrames = 4
  NoOwner = NoOwner
  NoFrame = NoFrame
SPECIFICATION FairSpec
INVARIANTS TypeOK FIFO RefusedOnlyWhenDrained NoLostWakeup
PROPERTIES NothingAcceptedAfterClose QueueSpec CloseReleasesEverybody
CHECK_DEADLOCK FALSE
