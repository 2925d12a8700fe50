SPECIFICATION ResponsiveSpec
CONSTANTS
  Languages = {ru}
  NoLanguage = NoLanguage
  NoConn = NoConn
  NoRequest = NoRequest
  Conns = {c1, c2}
  Workers = {w1}
  MaxRequests = 2
  MaxToggles = 1
CHECK_DEADLOCK FALSE
INVARIANTS ClosedMeansDone LanguageOfRequest NothingTruncated
PROPERTIES SessionLimited EveryoneServed ShutdownCompletes
