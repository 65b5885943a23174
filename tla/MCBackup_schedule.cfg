CONSTANTS
  Admins = {a1, a2}
  u1 = u1
  u2 = u2
  k1 = k1
  k2 = k2
  Urls = {u1, u2}
  Keys = {k1, k2}
  KeyOf <- MCKeyOf
  Intervals = {0, 1}
  None = None
  MaxRuns = 1
SYMMETRY Symmetry
SPECIFICATION Spec
PROPERTY ScheduleAuditTruthful
