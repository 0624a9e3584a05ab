\* Sessions over L2CAP, then one over the cable.
SPECIFICATION Spec
CONSTANTS
  Nodes = {raw}
  Raw = raw
  None = None
  Stub = Stub
INVARIANTS
  UsbHasNoSink
