CONSTANTS
  Ids = {u1}
  Procs = {p1}
  Tokens = {t1, t2, t3, t4}
  Codes = {k1}
  None = None
  MaxHash = 1
  MaxCounter = 1
  MaxExpired = 0
  Syncs = {w1}
SYMMETRY Symmetry
SPECIFICATION DirSpec
INVARIANT DirTypeOK
INVARIANT DisabledStaysSignedOut
INVARIANT NoOrphanGrants
INVARIANT OneSessionPerCounter
CHECK_DEADLOCK FALSE
