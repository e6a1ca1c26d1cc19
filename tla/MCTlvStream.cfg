CONSTANTS
  Base = 4
  Tags = {1, 3}
  Payloads <- MCPayloads
  Packers = {"C"}
  Leftovers = {0, 3}
  MaxPackets = 2
SPECIFICATION LinkSpec
INVARIANTS StreamingParser
CHECK_DEADLOCK FALSE
