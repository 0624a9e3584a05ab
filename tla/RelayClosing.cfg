\* The press that ends a pause, when it is part of a chord.
SPECIFICATION Spec
CONSTANTS
  Plain = {"x"}
  Keys = {"b"}
  Digital = TRUE
  Ds4 = FALSE
  Pace = 2
  Hold = 2
  Reloads = FALSE
  Sessions = FALSE
  MaxDown = 1
PROPERTY ClosingHidden
