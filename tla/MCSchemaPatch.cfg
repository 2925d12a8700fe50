CONSTANTS
  a = a
  b = b
  u = u
  MadeUp = MadeUp
  Columns <- MCColumns
  UniqueKeys <- MCUniqueKeys
  Tables <- MCTables
  MaxFailures = 1
SPECIFICATION Spec
INVARIANTS OutcomeIsTrue
PROPERTIES StaysRight
