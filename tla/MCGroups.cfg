CONSTANTS
  Users = {u1, u2}
  Procs = {p1, p2}
SYMMETRY Symmetry
SPECIFICATION Spec
INVARIANT NoDanglingMember
INVARIANT CommonMembersSurvive
