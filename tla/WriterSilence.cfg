\* One link on which the audio stops.  The pad makes no
\* more links than its bound: then the writer waits for ever.
SPECIFICATION Spec
CONSTANTS
  None = None
  Outputs = {trigger, rumble}
  MaxOutputs = 3
  MaxLinks = 1
  QCap = 2
  SeqMod = 3
  IdleAfter = 2
  Audio = TRUE
INVARIANT NewestShown
CHECK_DEADLOCK FALSE
