CONSTANTS
  Ids = {u1}
  Procs = {p1}
  Tokens = {t1, t2, t3, t4}
  Codes = {k1}
  None = None
  MaxHash = 0
  MaxCounter = 0
  MaxExpired = 0
  Syncs = {w1}
SPECIFICATION DirSpec
INVARIANT OneSessionPerProof
CHECK_DEADLOCK FALSE
