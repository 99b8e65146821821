SPECIFICATION Spec
CONSTANTS
  r1 = r1
  r2 = r2
  r = r
  alice = alice
INVARIANTS JobsTell
PROPERTIES EnvironmentKept  UpgradesKeep 
SYMMETRY Symmetry
CHECK_DEADLOCK FALSE
