----------------------------- MODULE MCDevices -----------------------------
(* An instance for TLC: two threads that use the same device, and the       *)
(* keyboard.                                                                *)
EXTENDS Devices, TLC

CONSTANT MaxDepth

\* Bounds: vfs_biglock is left held at most MaxDepth times, and one key is
\* pressed while the threads use another device than the console.
Bounded == big.depth <= MaxDepth /\ (typed > 1 => \E t \in Thread : uses[t] = "con")

MCWorkloads == {[t \in Thread |-> d] : d \in Device}

Symmetry == Permutations(Thread)
=============================================================================
