CONSTANTS
  t1 = t1
  t2 = t2
  r1 = r1
  Conns <- MCConns
  Tracked <- MCTracked
SPECIFICATION Spec
INVARIANT ReturnsOnlyWhenIdle
CHECK_DEADLOCK FALSE
