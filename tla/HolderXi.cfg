\* The XInput instance: one shape, no waiting for the ack, live disable.
SPECIFICATION FairSpec
CONSTANTS
  None = None
  Shapes = {usb}
  UsbShapes = {usb}
  Kinds = {"GET"}
  Conns = {c1, c2}
  Waits = FALSE
  MayFail = TRUE
  MaxBinds = 1
  MaxReq = 1
  QCap = 2
  SockCap = 2
PROPERTIES
  EventuallyParked
  EventuallyStarted
