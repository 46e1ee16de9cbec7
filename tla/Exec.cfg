CONSTANTS
    Proc = {p1, p2}
    CPU = {c1, c2}
    None = None
    AS = {a1, a2, a3}
    ArgLists <- MCArgLists
    ARG_WORDS = 6
    BYTE = 20
    NUM_TLB = 3
    ADDRSIZE = 64
    USERSPACETOP = 32
    UserPtrs = {4, 29, 40, 60}
    Images <- MCImages
    MaxEvents = 5
SPECIFICATION Spec
VIEW View
SYMMETRY Symmetry
INVARIANTS ArgsFaithful ReachesOwnMemory AddrspacesOwned
CHECK_DEADLOCK FALSE
