SPECIFICATION Spec
CONSTANTS
    Requests = {j1, j2, j3, j4}
    Services = {s1, s2}
    Callers = {c1, c2}
    Capacity = 2
    MaxRetained = 1
    None = None
SYMMETRY Symmetry
CHECK_DEADLOCK FALSE
INVARIANTS OneWorkerPerKey AccountsBalance QuietAfterShutdown RecordMirrorsWorker RetentionBounded
