SPECIFICATION FairSpec
CONSTANTS
  Languages = {ru}
  NoLanguage = NoLanguage
  NoConn = NoConn
  NoRequest = NoRequest
  Conns = {c1, c2}
  Workers = {w1}
  MaxRequests = 1
  MaxToggles = 0
CHECK_DEADLOCK FALSE
PROPERTIES SessionLimited
