\* The DS instance: one proxy at a time, two presentations of the pad, only
\* one of which has a neutral report; creating a device may fail.
SPECIFICATION Spec
CONSTANTS
  None = None
  Shapes = {usb, bt}
  UsbShapes = {usb}
  Kinds = {"GET", "SET"}
  Conns = {c1, c2}
  Waits = TRUE
  MayFail = TRUE
  MaxBinds = 1
  MaxReq = 1
  QCap = 2
  SockCap = 2
INVARIANTS
  TypeOK
  StartedTracksDriver
PROPERTIES
  ReuseIsLive
  ImplementsPad
  ReplyReachesItsAsker
  BoundPadSurvives
