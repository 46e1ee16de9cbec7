SPECIFICATION Spec
CONSTANTS
    t1 = t1
    t2 = t2
    s1 = s1
    Thread = {t1, t2}
    Space = {s1}
    NoSpace = NoSpace
    nRamFrames = 4
    FirstFree = 1
    KernelSizes = {1, 2}
    SegmentSizes = {0, 1}
    STACKPAGES = 1
    MaxSteal = 1
SYMMETRY Symmetry
CONSTRAINT Unspoiled
INVARIANTS
    OneOwner
    NothingLost
CHECK_DEADLOCK FALSE
