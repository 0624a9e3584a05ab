\* What an overlay that holds is promised, when another has stopped reading.
SPECIFICATION Spec
CONSTANTS
  None = None
  Conns = {a, b}
  Stallers = {a}
  Starved = {}
  MaxLines = 1
INVARIANT HoldPauses
