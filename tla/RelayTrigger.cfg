\* What the games see of a trigger that has a chord.
SPECIFICATION Spec
CONSTANTS
  Plain = {"x"}
  Keys = {"t"}
  Digital = TRUE
  Ds4 = FALSE
  Pace = 2
  Hold = 2
  Reloads = FALSE
  Sessions = FALSE
  MaxDown = 1
PROPERTY ChordUnseen
