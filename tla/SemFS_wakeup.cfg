SPECIFICATION Spec
CONSTANTS
    Thread = {t1, t2, t3}
    Name = {a}
    Sem = {s1, s2}
    NULL = NULL
    UINT_MAX = 2
    Amount = {1}
SYMMETRY Symmetry
INVARIANTS
    SleepersOnlyAtZero
CHECK_DEADLOCK FALSE
