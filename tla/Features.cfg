\* Any of three pads, two missed deadlines, two requests in the holder's socket.
SPECIFICATION Spec
CONSTANTS
  None = None
  Skips = 1
  Tries = 2
  Reads = 8
  Asks = {"serial", "test"}
  MaxLate = 2
  ReqCap = 2
  Cap = 3
INVARIANTS
  TypeOK
  KindIsRight
  ReplyMatches
PROPERTIES
  RefusalIsDue
  Answered
