------------------------------ MODULE Monitor ------------------------------
(***************************************************************************)
(* What a lock with a condition variable promises: at most one thread is   *)
(* inside, a thread that waits has left and is outside until somebody      *)
(* signals, and a signal is never lost on a thread that waits.  A thread   *)
(* that was signalled has to ask for the lock again (Mesa semantics).      *)
(***************************************************************************)
CONSTANT Thread

VARIABLE st     \* what each thread is doing, as its caller sees it

States == {"out", "want", "in", "wait", "signal", "broadcast"}
Holding == {"in", "signal", "broadcast"}

Init == st = [t \in Thread |-> "out"]

Move(t, from, to) == st[t] = from /\ st' = [st EXCEPT ![t] = to]

Request(t) == Move(t, "out", "want")

Enter(t) == /\ \A u \in Thread : st[u] \notin Holding
            /\ Move(t, "want", "in")

Leave(t) == Move(t, "in", "out")

Wait(t) == Move(t, "in", "wait")

CallSignal(t) == Move(t, "in", "signal")

Signal(t) ==
    \/ /\ \A u \in Thread : st[u] # "wait"
       /\ Move(t, "signal", "in")
    \/ \E u \in Thread : /\ st[t] = "signal"
                         /\ st[u] = "wait"
                         /\ st' = [st EXCEPT ![t] = "in", ![u] = "want"]

CallBroadcast(t) == Move(t, "in", "broadcast")

Broadcast(t) ==
    /\ st[t] = "broadcast"
    /\ st' = [u \in Thread |-> IF u = t THEN "in"
                               ELSE IF st[u] = "wait" THEN "want" ELSE st[u]]

Next == \E t \in Thread :
            \/ Request(t) \/ Enter(t) \/ Leave(t) \/ Wait(t)
            \/ CallSignal(t) \/ Signal(t) \/ CallBroadcast(t) \/ Broadcast(t)

Spec == Init /\ [][Next]_st

\* A free lock that is wanted is taken, and a call of signal or broadcast ends.
FairSpec == /\ Spec
            /\ WF_st(\E t \in Thread : Enter(t))
            /\ \A t \in Thread : WF_st(Signal(t)) /\ WF_st(Broadcast(t))
=============================================================================
