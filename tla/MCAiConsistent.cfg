CONSTANTS
  Base = 4
  Tags = {1}
  Payloads <- MCPayloads
  Packers = {"C"}
  Leftovers = {0, 3}
  MaxPackets = 2
SPECIFICATION LinkSpec
INVARIANTS ReadersConsistent
CHECK_DEADLOCK FALSE
