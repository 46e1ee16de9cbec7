------------------------------ MODULE MCSched ------------------------------
EXTENDS Sched, TLC

CONSTANTS t0, t1, t2, t3
Thread4 == {t0, t1, t2, t3}
Boot2 == (0 :> t0) @@ (1 :> t1)
Symmetry == Permutations({t2, t3})
=============================================================================
