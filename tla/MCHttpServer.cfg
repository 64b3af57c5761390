SPECIFICATION MCSpec
CONSTANTS
  Lines <- MCLines
  Handled = {"/"}
  MaxLines = 5
  MaxRead = 2
  MaxSent = 3
  Conns = {c1, c2}
  Values <- MCValues
  Cacheable = {"/", "/b"}
  kMaxReqCached = 2
  MaxRequests = 4
INVARIANTS
  AnsweredAsUncut
  NoLineLeftBehind
  RightResponse
  CloseAsAsked
CHECK_DEADLOCK FALSE
