------------------------------- MODULE MCExec -------------------------------
(* An instance for TLC: two processes on two CPUs.                          *)
EXTENDS Exec, TLC

MCArgLists == {<<>>, <<3, 5>>, <<5, 3>>}

MCImages == {<<0, 1, 2>>, <<1, 0, 4>>}

\* States are told apart by what can still be read: the TLB of a CPU is cleared
\* before the next access when it is idle or at as_activate.
View == LET Used(c) == run[c] # None /\ pr[run[c]].as # None
                       /\ pr[run[c]].pc \notin {"activate", "undo_activate"}
        IN <<pr, exec_lock, kbuf, asp, [c \in CPU |-> IF Used(c) THEN tlb[c] ELSE {}],
             run, file, panicked, strayed, events>>

Symmetry == Permutations(Proc) \cup Permutations(CPU) \cup Permutations(AS)
=============================================================================
