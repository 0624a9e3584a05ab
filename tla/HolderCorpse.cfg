\* "Reused" of a device that a failed re-create has destroyed.
SPECIFICATION Spec
CONSTANTS
  None = None
  Shapes = {usb, bt}
  UsbShapes = {usb}
  Kinds = {"GET"}
  Conns = {c1, c2}
  Waits = TRUE
  MayFail = TRUE
  MaxBinds = 1
  MaxReq = 1
  QCap = 2
  SockCap = 2
PROPERTY ReuseIsAlive
