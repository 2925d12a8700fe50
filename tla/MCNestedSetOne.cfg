SPECIFICATION Spec
CONSTANTS
  Clients = {a}
  MaxId = 4
  NoRow = NoRow
  MaxFailures = 1
INVARIANTS KeysMatchParents
PROPERTIES RefinesOrderedForest
CHECK_DEADLOCK FALSE
