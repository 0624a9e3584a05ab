\* One pad with two nodes.
SPECIFICATION Spec
CONSTANTS
  Nodes = {raw, event}
  Raw = raw
  None = None
  Stub = Stub
INVARIANTS
  TypeOK
  NoMaskLeft
  OneNode
  SinkServesSession
PROPERTIES
  Stops
  UsbTakesOver
