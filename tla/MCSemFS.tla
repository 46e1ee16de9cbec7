------------------------------ MODULE MCSemFS ------------------------------
EXTENDS SemFS, TLC

Symmetry == Permutations(Thread) \cup Permutations(Name) \cup Permutations(Sem)
=============================================================================
