SPECIFICATION BoundedSpec
CONSTANTS
    Ops = {a, b}
    Images = {i, j}
    None = None
    MaxRev = 9
    Reconcilers = {r}
    PruneOp = prune
    MaxCrashes = 1
    MaxManual = 1
SYMMETRY Symmetry
CHECK_DEADLOCK FALSE
INVARIANTS ActiveHoldsLock TargetKept UncertainRetainsLock
PROPERTIES CompleteIsVerified AcknowledgedIsFinal ReplacedOnlyWhenClosed
