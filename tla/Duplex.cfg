\* Small unequal sockets.  The loops may come to wait for each other.
SPECIFICATION Spec
CONSTANTS
  CapH = 5
  CapP = 6
CHECK_DEADLOCK FALSE
INVARIANTS
  TypeOK
  StandoffTakesAnswers
  ReadsFindFrames
