\* A DualSense over Bluetooth: two reports a pace window, reloads at any time.
SPECIFICATION Spec
CONSTANTS
  Plain = {"x"}
  Keys = {"t"}
  Digital = TRUE
  Ds4 = FALSE
  Pace = 2
  Hold = 1
  Reloads = TRUE
  Sessions = TRUE
  MaxDown = 1
INVARIANTS
  TypeOK
  XiParked
  Settled
PROPERTIES
  ChordHidden
  ChordNeedsRelease
  PsIsSolo
  UnboundClosingHidden
