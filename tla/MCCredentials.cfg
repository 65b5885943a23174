CONSTANTS
  Ids = {u1}
  Procs = {p1, p2}
  Tokens = {t1, t2, t3, t4}
  Codes = {k1}
  None = None
  MaxHash = 2
  MaxCounter = 1
  MaxExpired = 1
SYMMETRY Symmetry
SPECIFICATION Spec
INVARIANT TypeOK
INVARIANT GrantsMatchCredential
INVARIANT NoInheritedFlag
INVARIANT OneSessionPerProof
PROPERTY ImplementsAuthority
