\* Two overlays: one may stop reading, and either may get no reader.
SPECIFICATION FairSpec
CONSTANTS
  None = None
  Conns = {a, b}
  Stallers = {a}
  Starved = {a, b}
  MaxLines = 2
INVARIANTS
  TypeOK
  PausedIsHeld
  ClientsAreWatched
PROPERTIES
  EdgesAlternate
  Resumes
  LetGo
