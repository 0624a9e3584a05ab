\* Two links, a queue of two outputs and streams that come and go.  The pad makes no
\* more links than its bound: then the writer waits for ever.
SPECIFICATION FairSpec
CONSTANTS
  None = None
  Outputs = {trigger, rumble}
  MaxOutputs = 2
  MaxLinks = 2
  QCap = 1
  SeqMod = 3
  IdleAfter = 1
  Audio = TRUE
INVARIANTS
  TypeOK
  NewestKept
PROPERTIES
  SeqAdvances
  SkipIsSafe
  Serves
CHECK_DEADLOCK FALSE
