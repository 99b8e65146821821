SPECIFICATION Spec
CONSTANTS
  r = r
  None = None
  Requests = {r1, r2}
  Names = {"adm", "app"}
  Defaults = {"adm"}
  MaxID = 3
  Cap = 1
  Lease = 2
  Users = {"shop", "owner"}
  Passwords = {"a", "b", "c"}
  FirstUser = "shop"
  FirstPassword = "a"
  Failures = 1
  Crashes = 1
  MaxOps = 4
  MaxEdits = 2
  MaxFaults = 2
INVARIANTS LeasesExclude  
  
SYMMETRY Symmetry
CHECK_DEADLOCK FALSE
