CONSTANTS
  Base = 4
  Tags = {2}
  Payloads <- MCPayloads
  Packers = {"C", "ai_receiver_backup"}
  Leftovers = {0, 3}
  MaxPackets = 3
SPECIFICATION LinkSpec
INVARIANTS TypeOK InSync VerdictsMatch DamageDetected PyReaderExact
CHECK_DEADLOCK FALSE
