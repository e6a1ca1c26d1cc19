CONSTANTS
  Clients = {c1, c2, c3}
  MAX_CLIENTS = 3
  MAX_EVENTS = 2
  Answers = {TRUE, FALSE}
  MaxParts = 2
  None = None
SYMMETRY Symmetry
SPECIFICATION Spec
INVARIANTS TypeOK EventsExact NoLeak RequestsIntact
CHECK_DEADLOCK FALSE
