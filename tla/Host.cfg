SPECIFICATION Spec
CONSTANTS
  r1 = r1
  r2 = r2
  r = r
  i1 = i1
  i2 = i2
  a = a
  l1 = l1
  l2 = l2
  None = None
INVARIANTS   AccountsSound AttemptsBounded
PROPERTIES UpdatesSafe WindowsSafe
SYMMETRY Symmetry
CHECK_DEADLOCK FALSE
