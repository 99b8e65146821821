SPECIFICATION FairSpec
CONSTANTS
  r1 = r1
  r2 = r2
  i1 = i1
  i2 = i2
  a = a
  None = None
PROPERTIES RecoveryEnds
CHECK_DEADLOCK FALSE
