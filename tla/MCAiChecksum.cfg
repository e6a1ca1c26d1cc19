CONSTANTS
  Base = 256
  Tags = {48}
  Payloads <- MCPayloads8
  Packers = {"ai_receiver"}
  Leftovers = {0, 255}
  MaxPackets = 1
SPECIFICATION LinkSpec
INVARIANTS ChecksumsCompatible
CHECK_DEADLOCK FALSE
