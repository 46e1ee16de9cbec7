CONSTANTS
    kproc = kproc
    p1 = p1
    p2 = p2
    p3 = p3
    Addr <- Addr4
    KProc = kproc
    NULL = NULL
    Garbage = Garbage
    MaxProc = 3
    Code <- OneCode
SPECIFICATION FairSpec
INVARIANTS
    TableConsistent
    WaitTargetStable
    OnlyDeadDestroyed
    OwedPidsKept
PROPERTIES
    StatusFaithful
    WaiterReturns
CHECK_DEADLOCK FALSE
