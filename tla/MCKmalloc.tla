----------------------------- MODULE MCKmalloc -----------------------------
EXTENDS Kmalloc, TLC

CONSTANTS t1, t2, t3, p1, p2, p3, p4
Threads == {t1, t2}
Pages == {p1, p2, p3, p4}
PerPage2 == <<2, 1>>
Symmetry == Permutations(Threads) \cup Permutations(Pages)
=============================================================================
