SPECIFICATION Spec
CONSTANTS
    t0 = t0
    t1 = t1
    t2 = t2
    t3 = t3
    NumCpus = 2
    Thread <- Thread4
    Nobody = Nobody
    Boot <- Boot2
SYMMETRY Symmetry
INVARIANTS
    StackSafe
    ThreadPlaced
    IdleWoken
    IplBalanced
