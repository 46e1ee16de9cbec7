-------------------------- MODULE AtomicSemaphore --------------------------
(***************************************************************************)
(* What a semaphore promises to the rest of the kernel: P and V are single *)
(* steps, P waits until the count is positive, and no V is lost.           *)
(***************************************************************************)
EXTENDS Naturals

CONSTANTS
    Thread,     \* the threads that use the semaphore
    Initial     \* its initial count

VARIABLES
    count,      \* the value of the semaphore
    wants       \* the threads that have called P and not got through

abstract_vars == <<count, wants>>

Init == count = Initial /\ wants = {}

CallP(t) == /\ t \notin wants
            /\ wants' = wants \cup {t}
            /\ UNCHANGED count

DoP(t) == /\ t \in wants
          /\ count > 0
          /\ count' = count - 1
          /\ wants' = wants \ {t}

DoV(t) == /\ t \notin wants
          /\ count' = count + 1
          /\ UNCHANGED wants

Next == \E t \in Thread : CallP(t) \/ DoP(t) \/ DoV(t)

Spec == Init /\ [][Next]_abstract_vars

\* Somebody who wants to get through a positive semaphore does.
FairSpec == Spec /\ WF_abstract_vars(\E t \in Thread : DoP(t))
=============================================================================
