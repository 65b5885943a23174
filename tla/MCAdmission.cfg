CONSTANTS
  Callers = {c1, c2}
  Addrs = {proxy1, proxy2, client1, client2}
  Trusted = {proxy1, proxy2}
  Clients = {client1, client2}
  Users = {user}
  Paths = {"password-change"}
  NoAddr = NoAddr
  MaxForged = 1
  Keys <- MCKeys
  Limit <- MCLimit
  Window <- MCWindow
  AttemptsCap = 2
  MaxTime = 3
  MaxAttempts = 4
SYMMETRY Symmetry
SPECIFICATION AdmissionSpec
INVARIANT TypeOK
INVARIANT BoundedMap
INVARIANT RefusedForOwnDeeds
INVARIANT BudgetHolds
CHECK_DEADLOCK FALSE
