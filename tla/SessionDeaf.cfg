\* A signal, a hidraw pad, and a holder that goes on failing.
SPECIFICATION Spec
CONSTANTS
  Nodes = {raw}
  Raw = raw
  None = None
  Stub = Stub
PROPERTIES
  StopsAnyway
