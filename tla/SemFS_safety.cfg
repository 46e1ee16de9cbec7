SPECIFICATION Spec
CONSTANTS
    Thread = {t1, t2, t3}
    Name = {a}
    Sem = {s1, s2}
    NULL = NULL
    UINT_MAX = 2
    Amount = {2}
SYMMETRY Symmetry
INVARIANTS
    VnodeRefs
    OpenSemAlive
    NamesAndSemsAgree
CHECK_DEADLOCK FALSE
