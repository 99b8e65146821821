SPECIFICATION Spec
CONSTANTS
    Ops = {a}
    Images = {i, j}
    None = None
    MaxRev = 10
    Reconcilers = {r, s}
    PruneOp = prune
    MaxCrashes = 0
    MaxManual = 0
CHECK_DEADLOCK FALSE
INVARIANT UncertainRetainsLock
