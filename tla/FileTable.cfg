SPECIFICATION Spec
CONSTANTS
    p1 = p1
    p2 = p2
    f1 = f1
    f2 = f2
    con = con
    h1 = h1
    h2 = h2
    l1 = l1
    l2 = l2
    Proc = {p1, p2}
    First = p1
    Openers = {p1}
    File = {f1}
    Con = con
    Heap = {h1, h2}
    Lock = {l1, l2}
    NULL = NULL
    Freed = Freed
    NStd = 1
    OPEN_MAX = 2
    SYSTEM_OPEN_MAX = 2
    MaxOffset = 1
    MaxCount = 2
INVARIANTS
    
    LocksGivenBack
    TransfersSerialized
CHECK_DEADLOCK FALSE
SYMMETRY Symm
VIEW View
