----------------------------- MODULE MCCoremap -----------------------------
EXTENDS Coremap, TLC

CONSTANTS t1, t2, s1

Symmetry == Permutations(Thread)

\* Nothing is promised once as_destroy was given a space that lacks memory:
\* explore that as_destroy and stop after it.
Unspoiled == "nomem" \in spoiled => \E t \in Thread : pc[t] = "free"
=============================================================================
