\* A holder that goes away under a session.
SPECIFICATION Spec
CONSTANTS
  Nodes = {raw}
  Raw = raw
  None = None
  Stub = Stub
PROPERTIES
  LinkSurvivesHolder
