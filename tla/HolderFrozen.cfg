\* The header's promise taken for both presentations of the pad.
SPECIFICATION Spec
CONSTANTS
  None = None
  Shapes = {usb, bt}
  UsbShapes = {usb}
  Kinds = {"GET"}
  Conns = {c1, c2}
  Waits = TRUE
  MayFail = FALSE
  MaxBinds = 1
  MaxReq = 1
  QCap = 2
  SockCap = 2
INVARIANT NeverFrozen
