SPECIFICATION Spec
CONSTANTS
  None = None
  Requests = {r1, r2}
  Folders = {"f1", "f2"}
  MaxId = 2
  Names = {db, web}
  Databases = {db}
  Volumes = {"data"}
  MaxCrashes = 1
  MaxFailures = 1
  
PROPERTIES OnlyOwnRemoved DeletionsEndClean
SYMMETRY Symmetry
CHECK_DEADLOCK FALSE
