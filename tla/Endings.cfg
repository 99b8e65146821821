SPECIFICATION FairSpec
CONSTANTS
  r1 = r1
  r2 = r2
  r3 = r3
  s1 = s1
  c1 = c1
  f1 = f1
  f2 = f2
  Nil = Nil
PROPERTIES WorkEnds
CHECK_DEADLOCK FALSE
