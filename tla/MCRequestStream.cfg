SPECIFICATION FairSpec
CONSTANTS
  Kinds <- MCKinds
  MaxRequests = 3
  Limit = 6
CHECK_DEADLOCK FALSE
INVARIANTS BodyIntact RequestsServed
PROPERTIES ParseEnds
