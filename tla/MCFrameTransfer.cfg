CONSTANTS
  Lengths = {1, 3, 4}
  CHUNK_SIZE = 2
  MAX_FRAME = 4
  MaxFrames = 3
  MaxLosses = 3
SPECIFICATION Spec
INVARIANTS TypeOK DeliveredIsSaved TornByTwoLosses SavedInOrder SameFrames
CHECK_DEADLOCK FALSE
