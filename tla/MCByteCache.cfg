SPECIFICATION Spec
CONSTANTS
  Threads = {t1, t2}
  Keys = {k1, k2, k3}
  Values = {0, 1, 3}
  ValSize <- MCValSize
  Nodes = {n1, n2, n3, n4}
  NoNode = NoNode
  NoThread = NoThread
  MaxItems = 0
  InitBytes = 0
  ByteLimits = {0, 2}
SYMMETRY Perms
INVARIANTS IndexMatchesList AccountExact WithinLimits
PROPERTIES LruProtects RefinesBoundedRecency
