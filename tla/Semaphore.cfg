SPECIFICATION FairSpec
CONSTANTS
    t1 = t1
    t2 = t2
    t3 = t3
    t4 = t4
    Thread <- Thread4
    NoThread = NoThread
    Initial = 0
    MaxV = 3
INVARIANTS
    NoLostWakeup
    DestroyedUnused
PROPERTIES
    ImplementsAtomic
    ProgressesAtomic
CHECK_DEADLOCK FALSE
