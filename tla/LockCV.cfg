SPECIFICATION FairSpec
CONSTANTS
    t1 = t1
    t2 = t2
    t3 = t3
    t4 = t4
    Thread <- Thread4
    NULL = NULL
INVARIANTS
    OwnerIsRight
    SleepsWithOneSpinlock
    NoLostWakeup
PROPERTIES
    ImplementsMonitor
    ProgressesMonitor
CHECK_DEADLOCK FALSE
