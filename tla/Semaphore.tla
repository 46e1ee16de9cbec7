----------------------------- MODULE Semaphore -----------------------------
(***************************************************************************)
(* kern/thread/synch.c: P, V and sem_destroy, over a wait channel of       *)
(* kern/thread/thread.c and a spinlock of kern/thread/spinlock.c.          *)
(*                                                                         *)
(* A thread is at pc[t]; what it does while it holds sem_lock is cut into  *)
(* the steps another CPU can fall between.  A thread asleep is on sem_wchan *)
(* and has no step until wchan_wakeone makes it runnable.                  *)
(***************************************************************************)
EXTENDS Naturals, Sequences, FiniteSets, SequencesExt

CONSTANTS
    Thread,     \* the threads that use the semaphore
    NoThread,   \* the holder of a free spinlock
    Initial,    \* sem_create's initial_count
    MaxV        \* bound: how many V are begun

ASSUME ThreadAssumption == IsFiniteSet(Thread) /\ NoThread \notin Thread
ASSUME InitialAssumption == Initial \in Nat

VARIABLES
    sem_count,
    sem_lock,   \* the thread whose CPU holds the spinlock
    sem_wchan,  \* wc_threads, head first
    pc,
    freed,      \* sem_destroy has returned the memory
    vs, ps      \* history: V begun, P finished

vars == <<sem_count, sem_lock, sem_wchan, pc, freed, vs, ps>>

Labels == {"out", "P_acquire", "P_test", "P_asleep", "P_wake", "P_take", "P_release",
           "V_acquire", "V_count", "V_wake", "V_release"}

TypeOK ==
    /\ sem_count \in Nat
    /\ sem_lock \in Thread \cup {NoThread}
    /\ sem_wchan \in Seq(Thread)
    /\ pc \in [Thread -> Labels]
    /\ freed \in BOOLEAN
    /\ vs \in Nat
    /\ ps \in Nat

\* sem_create.
Init ==
    /\ sem_count = Initial
    /\ sem_lock = NoThread
    /\ sem_wchan = <<>>
    /\ pc = [t \in Thread |-> "out"]
    /\ freed = FALSE
    /\ vs = 0
    /\ ps = 0

Goto(t, from, to) == pc[t] = from /\ pc' = [pc EXCEPT ![t] = to]

\* spinlock_acquire spins while somebody else holds the lock.
spinlock_acquire(t) == sem_lock = NoThread /\ sem_lock' = t

\* spinlock_release's assertion is SpinlockHeld below.
spinlock_release == sem_lock' = NoThread

-----------------------------------------------------------------------------
P(t) ==
    /\ ~freed
    /\ Goto(t, "out", "P_acquire")
    /\ UNCHANGED <<sem_count, sem_lock, sem_wchan, freed, vs, ps>>

P_Acquire(t) ==
    /\ Goto(t, "P_acquire", "P_test")
    /\ spinlock_acquire(t)
    /\ UNCHANGED <<sem_count, sem_wchan, freed, vs, ps>>

\* thread_switch(S_SLEEP): onto the channel, then the spinlock is released.
wchan_sleep(t) ==
    /\ sem_wchan' = Append(sem_wchan, t)
    /\ spinlock_release
    /\ pc' = [pc EXCEPT ![t] = "P_asleep"]

\* while (sem_count == 0) wchan_sleep
P_Sleep(t) ==
    /\ pc[t] = "P_test"
    /\ sem_count = 0
    /\ wchan_sleep(t)
    /\ UNCHANGED <<sem_count, freed, vs, ps>>

\* Back from thread_switch, wchan_sleep takes the spinlock again and the count
\* is tested again.
P_Wake(t) ==
    /\ Goto(t, "P_wake", "P_test")
    /\ spinlock_acquire(t)
    /\ UNCHANGED <<sem_count, sem_wchan, freed, vs, ps>>

P_Test(t) ==
    /\ Goto(t, "P_test", "P_take")
    /\ sem_count > 0
    /\ UNCHANGED <<sem_count, sem_lock, sem_wchan, freed, vs, ps>>

\* Mutant: the unit is not taken.
P_Take_kept(t) ==
    /\ Goto(t, "P_take", "P_release")
    /\ UNCHANGED <<sem_count, sem_lock, sem_wchan, freed, vs, ps>>

P_Take(t) ==
    /\ Goto(t, "P_take", "P_release")
    /\ sem_count' = sem_count - 1
    /\ UNCHANGED <<sem_lock, sem_wchan, freed, vs, ps>>

P_Release(t) ==
    /\ Goto(t, "P_release", "out")
    /\ spinlock_release
    /\ ps' = ps + 1
    /\ UNCHANGED <<sem_count, sem_wchan, freed, vs>>

-----------------------------------------------------------------------------
V(t) ==
    /\ ~freed
    /\ vs < MaxV
    /\ Goto(t, "out", "V_acquire")
    /\ vs' = vs + 1
    /\ UNCHANGED <<sem_count, sem_lock, sem_wchan, freed, ps>>

V_Acquire(t) ==
    /\ Goto(t, "V_acquire", "V_count")
    /\ spinlock_acquire(t)
    /\ UNCHANGED <<sem_count, sem_wchan, freed, vs, ps>>

\* Mutant: the spinlock protects the count only, not the wakeup.
V_Count_released(t) ==
    /\ Goto(t, "V_count", "V_wake")
    /\ sem_count' = sem_count + 1
    /\ spinlock_release
    /\ UNCHANGED <<sem_wchan, freed, vs, ps>>

V_Count(t) ==
    /\ Goto(t, "V_count", "V_wake")
    /\ sem_count' = sem_count + 1
    /\ UNCHANGED <<sem_lock, sem_wchan, freed, vs, ps>>

\* Mutant: a wakeup is thought needless unless the count was zero.
wchan_wakeone_first(t) ==
    IF sem_wchan = <<>> \/ sem_count # 1
    THEN pc' = [pc EXCEPT ![t] = "V_release"] /\ UNCHANGED sem_wchan
    ELSE /\ pc' = [pc EXCEPT ![t] = "V_release", ![Head(sem_wchan)] = "P_wake"]
         /\ sem_wchan' = Tail(sem_wchan)

\* The head of the channel, if any, becomes runnable.
wchan_wakeone(t) ==
    IF sem_wchan = <<>>
    THEN pc' = [pc EXCEPT ![t] = "V_release"] /\ UNCHANGED sem_wchan
    ELSE /\ pc' = [pc EXCEPT ![t] = "V_release", ![Head(sem_wchan)] = "P_wake"]
         /\ sem_wchan' = Tail(sem_wchan)

V_Wake(t) ==
    /\ pc[t] = "V_wake"
    /\ wchan_wakeone(t)
    /\ UNCHANGED <<sem_count, sem_lock, freed, vs, ps>>

V_Release(t) ==
    /\ Goto(t, "V_release", "out")
    /\ spinlock_release
    /\ UNCHANGED <<sem_count, sem_wchan, freed, vs, ps>>

-----------------------------------------------------------------------------
\* Its user destroys the semaphore once every V it knows of has been matched by
\* a P that returned: proc_wait does so after its P, while the exiting process
\* may still be on its way out of V.
sem_destroy(t) ==
    /\ pc[t] = "out"
    /\ ~freed
    /\ vs > 0
    /\ ps = Initial + vs
    /\ \A u \in Thread : pc[u] \in {"out", "V_acquire", "V_count", "V_wake", "V_release"}
    /\ freed' = TRUE
    /\ UNCHANGED <<sem_count, sem_lock, sem_wchan, pc, vs, ps>>

KernelStep(t) ==
    \/ P_Acquire(t) \/ P_Sleep(t) \/ P_Wake(t) \/ P_Test(t) \/ P_Take(t) \/ P_Release(t)
    \/ V_Acquire(t) \/ V_Count(t) \/ V_Wake(t) \/ V_Release(t)

Next == \E t \in Thread : P(t) \/ V(t) \/ KernelStep(t) \/ sem_destroy(t)

Spec == Init /\ [][Next]_vars

\* A thread that holds the spinlock runs with interrupts off, and a runnable one
\* gets its turn.  Spinning threads are not served in order.
FairSpec == Spec /\ \A t \in Thread : WF_vars(KernelStep(t))

-----------------------------------------------------------------------------
(***************************************************************************)
(* Properties.                                                             *)
(***************************************************************************)
Inside == {"P_test", "P_take", "P_release", "V_count", "V_wake", "V_release"}

\* sem_count and the channel are touched only by the holder of sem_lock, which
\* is one thread at a time (the assertions of spinlock_release, wchan_sleep and
\* wchan_wakeone).
SpinlockHeld == \A t \in Thread : pc[t] \in Inside <=> sem_lock = t

\* No wakeup is lost between P's test and its sleep, or to a thread that
\* overtakes a woken one: while somebody sleeps, there are at least as many
\* threads on their way to the count (woken, testing, or in V and about to wake
\* somebody) as the count has units to give.
OnTheWay == {t \in Thread : pc[t] \in {"P_wake", "P_test", "P_take", "V_wake"}}
NoLostWakeup == sem_wchan # <<>> => sem_count <= Cardinality(OnTheWay)

\* Who sleeps in P is on sem_wchan, once, and nobody else is: wchan_wakeone
\* never makes a running thread runnable.
ChannelIsSleepers ==
    /\ IsInjective(sem_wchan)
    /\ \A t \in Thread : pc[t] = "P_asleep" <=> t \in ToSet(sem_wchan)

\* When the user of a semaphore destroys it after the last P, no thread is still
\* inside V or on the channel: the exiting process does not touch freed memory.
DestroyedUnused == freed => sem_wchan = <<>> /\ \A t \in Thread : pc[t] = "out"

\* P and V, with their spinlock and their wait channel, implement the atomic
\* semaphore, its progress included.
AtomicSem == INSTANCE AtomicSemaphore WITH
                 count <- sem_count,
                 wants <- {t \in Thread : pc[t] \in {"P_acquire", "P_test", "P_asleep",
                                                     "P_wake", "P_take"}}
ImplementsAtomic == AtomicSem!Spec
ProgressesAtomic == AtomicSem!FairSpec
=============================================================================
