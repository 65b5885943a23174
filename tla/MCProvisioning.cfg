CONSTANTS
  Ids = {u1, u2, u3}
  Subjects = {s1, s2}
  Names = {n1, n2}
  Procs = {p1, p2}
  None = None
  Window = 0
  MaxTime = 1
  MaxInputs = 2
SYMMETRY Symmetry
SPECIFICATION Spec
INVARIANT TypeOK
INVARIANT AccountsPerSubject
INVARIANT SignOnIsOwn
INVARIANT DisabledForGood
CHECK_DEADLOCK FALSE
