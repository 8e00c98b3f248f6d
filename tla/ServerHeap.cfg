SPECIFICATION Spec
CONSTANTS
  c1 = c1
  Connections = {c1, c2, c3}
  Listeners = {l1, l2}
  Requests <- MCRequests
  Routes <- MCRoutes
  RequestLine = 2
  MaxConnections = 2
  Capacity = 3
  Int64Max = 5
  ReadTimeout = 2
  NULL = NULL
INVARIANT NewLivesOn
CHECK_DEADLOCK FALSE
