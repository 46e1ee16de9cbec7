----------------------------- MODULE MCProcLife -----------------------------
(***************************************************************************)
(* Values for model checking ProcLife.                                     *)
(***************************************************************************)
EXTENDS ProcLife, TLC

CONSTANTS kproc, p1, p2, p3

Addr3 == {kproc, p1, p2}
Addr4 == {kproc, p1, p2, p3}

\* 257 has a low byte different from itself.
OneCode == {257}

Symmetry3 == Permutations({p1, p2})
Symmetry4 == Permutations({p1, p2, p3})
=============================================================================
