SPECIFICATION MCSpec
CONSTANTS
  Lines <- MCKeepAliveLines
  Handled = {"/"}
  MaxLines = 6
  MaxRead = 3
  MaxSent = 3
  Conns = {c1}
  Values <- MCValues
  Cacheable = {"/", "/b"}
  kMaxReqCached = 2
  MaxRequests = 0
INVARIANTS
  CloseRequestCloses
CHECK_DEADLOCK FALSE
