CONSTANTS
  Ids = {u1}
  Procs = {p1, p2}
  Tokens = {t1, t2, t3}
  Codes = {k1}
  None = None
  MaxHash = 2
  MaxCounter = 0
  MaxExpired = 0
SPECIFICATION Spec
INVARIANT PairingsMatchCredential
