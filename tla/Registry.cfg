SPECIFICATION Spec
CONSTANTS
  r1 = r1
  r2 = r2
  r = r
  None = None
INVARIANTS RetentionExact
PROPERTIES VersionsAgree
SYMMETRY Symmetry
CHECK_DEADLOCK FALSE
