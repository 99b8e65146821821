SPECIFICATION FairSpec
CONSTANTS
    Procs = {p1, p2, p3, p4}
    Keys = {k1, k2}
    Objs = {o1, o2, o3}
    Nil = Nil
INVARIANTS MutualExclusion RefsCountUsers
PROPERTIES WaiterServed ImplementsKeyedMutex
