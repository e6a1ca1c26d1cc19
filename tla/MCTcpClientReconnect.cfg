CONSTANTS
  MaxLines = 3
  MaxEndings = 2
  MaxAnswers = 2
SPECIFICATION FairSpec
PROPERTIES AutoReconnect
CHECK_DEADLOCK FALSE
