SPECIFICATION Spec
CONSTANTS
  ID = {1, 2}
  Junk = {0, 2}
PROPERTIES WaitsForNode
