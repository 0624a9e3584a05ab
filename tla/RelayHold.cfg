\* A PS press after the link was lost during another.
SPECIFICATION Spec
CONSTANTS
  Plain = {"x"}
  Keys = {"t"}
  Digital = TRUE
  Ds4 = FALSE
  Pace = 2
  Hold = 2
  Reloads = FALSE
  Sessions = TRUE
  MaxDown = 1
PROPERTY HoldIsLong
