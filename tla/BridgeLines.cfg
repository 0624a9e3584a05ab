\* Two mode lines sent within the window: only the first is looked at.
SPECIFICATION Spec
CONSTANTS
  None = None
  Conns = {a}
  Stallers = {}
  Starved = {}
  MaxLines = 2
INVARIANT HoldPauses
