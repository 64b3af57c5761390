SPECIFICATION MCSpec
CONSTANTS
  Lines <- MCKeepAliveLines
  Handled = {"/"}
  MaxLines = 0
  MaxRead = 0
  MaxSent = 0
  Conns = {c1}
  Values <- MCPlainValues
  Cacheable = {"/", "/b", "/c"}
  kMaxReqCached = 2
  MaxRequests = 5
INVARIANTS
  HitHasNode
CHECK_DEADLOCK FALSE
