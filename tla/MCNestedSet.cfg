SPECIFICATION Spec
CONSTANTS
  Clients = {a, b}
  MaxId = 3
  NoRow = NoRow
  MaxFailures = 0
SYMMETRY Perms
INVARIANTS KeysTight
CHECK_DEADLOCK FALSE
