CONSTANTS
  MaxLines = 3
  MaxEndings = 2
  MaxAnswers = 2
SPECIFICATION FairSpec
INVARIANTS TypeOK EventsExact StartupFirst
PROPERTIES CommandsServed QuitQuits
CHECK_DEADLOCK FALSE
