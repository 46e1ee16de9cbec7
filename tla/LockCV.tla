------------------------------- MODULE LockCV -------------------------------
(***************************************************************************)
(* kern/thread/synch.c: a sleep lock and a condition variable used with it *)
(* (OPT_SYNCH, SEM 0: the lock has a wait channel and a spinlock of its    *)
(* own).  cv_wait nests the lock's spinlock inside the condition           *)
(* variable's.  A thread between two of the steps below can be overtaken by *)
(* any other; a sleeping one has no step until it is woken.                *)
(***************************************************************************)
EXTENDS Naturals, Sequences, FiniteSets, SequencesExt

CONSTANTS Thread, NULL

ASSUME NullAssumption == NULL \notin Thread

VARIABLES
    thread_who_acquired,
    lock_spinlock,      \* the thread whose CPU holds it, or NULL
    lock_wchan,         \* sleepers, head first
    cv_spinlock,
    cv_wchan,
    pc

vars == <<thread_who_acquired, lock_spinlock, lock_wchan, cv_spinlock, cv_wchan, pc>>

Labels == {"out", "acq_spin", "acq_test", "acq_asleep", "acq_wake", "acq_own", "acq_unspin",
           "in", "rel_spin", "rel_clear", "rel_wake", "rel_unspin",
           "wait_spin", "cv_sleep", "cv_asleep", "cv_wake", "cv_unspin",
           "sig_spin", "sig_wake", "sig_unspin", "bc_spin", "bc_wake", "bc_unspin"}

TypeOK ==
    /\ thread_who_acquired \in Thread \cup {NULL}
    /\ lock_spinlock \in Thread \cup {NULL}
    /\ lock_wchan \in Seq(Thread)
    /\ cv_spinlock \in Thread \cup {NULL}
    /\ cv_wchan \in Seq(Thread)
    /\ pc \in [Thread -> Labels]

lock_create == thread_who_acquired = NULL /\ lock_spinlock = NULL /\ lock_wchan = <<>>

cv_create == cv_spinlock = NULL /\ cv_wchan = <<>>

Init == lock_create /\ cv_create /\ pc = [t \in Thread |-> "out"]

Goto(t, from, to) == pc[t] = from /\ pc' = [pc EXCEPT ![t] = to]

lock_state == <<thread_who_acquired, lock_spinlock, lock_wchan>>
cv_state == <<cv_spinlock, cv_wchan>>

-----------------------------------------------------------------------------
(***************************************************************************)
(* lock_acquire.                                                           *)
(***************************************************************************)
lock_acquire(t) ==
    /\ Goto(t, "out", "acq_spin")
    /\ UNCHANGED <<lock_state, cv_state>>

\* spinlock_acquire(&lock->lock_spinlock), on entry and in wchan_sleep once woken.
AcquireSpin(t) ==
    /\ Goto(t, "acq_spin", "acq_test") \/ Goto(t, "acq_wake", "acq_test")
    /\ lock_spinlock = NULL
    /\ lock_spinlock' = t
    /\ UNCHANGED <<thread_who_acquired, lock_wchan, cv_state>>

\* while (thread_who_acquired != NULL) wchan_sleep: the spinlock is given up with
\* the thread on the channel.
AcquireSleep(t) ==
    /\ Goto(t, "acq_test", "acq_asleep")
    /\ thread_who_acquired # NULL
    /\ lock_wchan' = Append(lock_wchan, t)
    /\ lock_spinlock' = NULL
    /\ UNCHANGED <<thread_who_acquired, cv_state>>

\* Mutant: if instead of while: a woken thread takes the lock as it finds it.
AcquireTest_once(t) ==
    /\ Goto(t, "acq_test", "acq_own")
    /\ UNCHANGED <<lock_state, cv_state>>

AcquireTest(t) ==
    /\ Goto(t, "acq_test", "acq_own")
    /\ thread_who_acquired = NULL
    /\ UNCHANGED <<lock_state, cv_state>>

AcquireOwn(t) ==
    /\ Goto(t, "acq_own", "acq_unspin")
    /\ thread_who_acquired' = t
    /\ UNCHANGED <<lock_spinlock, lock_wchan, cv_state>>

AcquireUnspin(t) ==
    /\ Goto(t, "acq_unspin", "in")
    /\ lock_spinlock' = NULL
    /\ UNCHANGED <<thread_who_acquired, lock_wchan, cv_state>>

-----------------------------------------------------------------------------
(***************************************************************************)
(* lock_release, called by the holder or by cv_wait, which has the         *)
(* condition variable's spinlock: cv_spinlock = t tells the two apart.     *)
(***************************************************************************)
lock_release(t) ==
    /\ Goto(t, "in", "rel_spin")
    /\ UNCHANGED <<lock_state, cv_state>>

ReleaseSpin(t) ==
    /\ Goto(t, "rel_spin", "rel_clear")
    /\ lock_spinlock = NULL
    /\ lock_spinlock' = t
    /\ UNCHANGED <<thread_who_acquired, lock_wchan, cv_state>>

ReleaseClear(t) ==
    /\ Goto(t, "rel_clear", "rel_wake")
    /\ thread_who_acquired' = NULL
    /\ UNCHANGED <<lock_spinlock, lock_wchan, cv_state>>

\* Mutant: nobody is woken.
ReleaseWake_nobody(t) ==
    /\ Goto(t, "rel_wake", "rel_unspin")
    /\ UNCHANGED <<lock_state, cv_state>>

\* wchan_wakeone(lock->lock_wchan).
ReleaseWake(t) ==
    /\ pc[t] = "rel_wake"
    /\ \/ /\ lock_wchan = <<>>
          /\ pc' = [pc EXCEPT ![t] = "rel_unspin"]
          /\ UNCHANGED lock_wchan
       \/ /\ lock_wchan # <<>>
          /\ pc' = [pc EXCEPT ![t] = "rel_unspin", ![Head(lock_wchan)] = "acq_wake"]
          /\ lock_wchan' = Tail(lock_wchan)
    /\ UNCHANGED <<thread_who_acquired, lock_spinlock, cv_state>>

ReleaseUnspin(t) ==
    /\ pc[t] = "rel_unspin"
    /\ pc' = [pc EXCEPT ![t] = IF cv_spinlock = t THEN "cv_sleep" ELSE "out"]
    /\ lock_spinlock' = NULL
    /\ UNCHANGED <<thread_who_acquired, lock_wchan, cv_state>>

-----------------------------------------------------------------------------
(***************************************************************************)
(* cv_wait: the condition variable's spinlock, lock_release, wchan_sleep,  *)
(* and lock_acquire once woken.                                            *)
(***************************************************************************)
cv_wait(t) ==
    /\ Goto(t, "in", "wait_spin")
    /\ UNCHANGED <<lock_state, cv_state>>

WaitSpin(t) ==
    /\ Goto(t, "wait_spin", "rel_spin")
    /\ cv_spinlock = NULL
    /\ cv_spinlock' = t
    /\ UNCHANGED <<lock_state, cv_wchan>>

\* wchan_sleep(cv->cv_wchan, &cv->cv_spinlock).
WaitSleep(t) ==
    /\ Goto(t, "cv_sleep", "cv_asleep")
    /\ cv_wchan' = Append(cv_wchan, t)
    /\ cv_spinlock' = NULL
    /\ UNCHANGED lock_state

WaitWake(t) ==
    /\ Goto(t, "cv_wake", "cv_unspin")
    /\ cv_spinlock = NULL
    /\ cv_spinlock' = t
    /\ UNCHANGED <<lock_state, cv_wchan>>

\* Mutant: the spinlock that wchan_sleep has taken again is kept while the lock
\* is awaited.
WaitUnspin_kept(t) ==
    /\ Goto(t, "cv_unspin", "acq_spin")
    /\ UNCHANGED <<lock_state, cv_state>>

WaitUnspin(t) ==
    /\ Goto(t, "cv_unspin", "acq_spin")
    /\ cv_spinlock' = NULL
    /\ UNCHANGED <<lock_state, cv_wchan>>

-----------------------------------------------------------------------------
(***************************************************************************)
(* cv_signal and cv_broadcast.                                             *)
(***************************************************************************)
cv_signal(t) ==
    /\ Goto(t, "in", "sig_spin")
    /\ UNCHANGED <<lock_state, cv_state>>

cv_broadcast(t) ==
    /\ Goto(t, "in", "bc_spin")
    /\ UNCHANGED <<lock_state, cv_state>>

NotifySpin(t) ==
    /\ Goto(t, "sig_spin", "sig_wake") \/ Goto(t, "bc_spin", "bc_wake")
    /\ cv_spinlock = NULL
    /\ cv_spinlock' = t
    /\ UNCHANGED <<lock_state, cv_wchan>>

\* wchan_wakeone(cv->cv_wchan).
SignalWake(t) ==
    /\ pc[t] = "sig_wake"
    /\ \/ /\ cv_wchan = <<>>
          /\ pc' = [pc EXCEPT ![t] = "sig_unspin"]
          /\ UNCHANGED cv_wchan
       \/ /\ cv_wchan # <<>>
          /\ pc' = [pc EXCEPT ![t] = "sig_unspin", ![Head(cv_wchan)] = "cv_wake"]
          /\ cv_wchan' = Tail(cv_wchan)
    /\ UNCHANGED <<lock_state, cv_spinlock>>

\* Mutant: wakeall leaves the last sleeper on the channel.
BroadcastWake_butlast(t) ==
    /\ pc[t] = "bc_wake"
    /\ cv_wchan' = IF cv_wchan = <<>> THEN <<>> ELSE <<Last(cv_wchan)>>
    /\ pc' = [u \in Thread |-> IF u = t THEN "bc_unspin"
                               ELSE IF u \in ToSet(cv_wchan) \ ToSet(cv_wchan') THEN "cv_wake"
                               ELSE pc[u]]
    /\ UNCHANGED <<lock_state, cv_spinlock>>

\* wchan_wakeall(cv->cv_wchan).
BroadcastWake(t) ==
    /\ pc[t] = "bc_wake"
    /\ pc' = [u \in Thread |-> IF u = t THEN "bc_unspin"
                               ELSE IF u \in ToSet(cv_wchan) THEN "cv_wake" ELSE pc[u]]
    /\ cv_wchan' = <<>>
    /\ UNCHANGED <<lock_state, cv_spinlock>>

NotifyUnspin(t) ==
    /\ Goto(t, "sig_unspin", "in") \/ Goto(t, "bc_unspin", "in")
    /\ cv_spinlock' = NULL
    /\ UNCHANGED <<lock_state, cv_wchan>>

-----------------------------------------------------------------------------
KernelStep(t) ==
    \/ AcquireSpin(t) \/ AcquireSleep(t) \/ AcquireTest(t) \/ AcquireOwn(t) \/ AcquireUnspin(t)
    \/ ReleaseSpin(t) \/ ReleaseClear(t) \/ ReleaseWake(t) \/ ReleaseUnspin(t)
    \/ WaitSpin(t) \/ WaitSleep(t) \/ WaitWake(t) \/ WaitUnspin(t)
    \/ NotifySpin(t) \/ SignalWake(t) \/ BroadcastWake(t) \/ NotifyUnspin(t)

Call(t) == lock_acquire(t) \/ lock_release(t) \/ cv_wait(t) \/ cv_signal(t) \/ cv_broadcast(t)

Next == \E t \in Thread : Call(t) \/ KernelStep(t)

Spec == Init /\ [][Next]_vars

\* A runnable thread gets its turn.  Spinning threads are not served in order,
\* and nothing makes a caller call.
FairSpec == Spec /\ \A t \in Thread : WF_vars(KernelStep(t))

-----------------------------------------------------------------------------
(***************************************************************************)
(* Properties.                                                             *)
(***************************************************************************)
Owning == {"acq_unspin", "in", "rel_spin", "rel_clear", "wait_spin", "sig_spin", "sig_wake",
           "sig_unspin", "bc_spin", "bc_wake", "bc_unspin"}
InLockSpin == {"acq_test", "acq_own", "acq_unspin", "rel_clear", "rel_wake", "rel_unspin"}
InCvSpin == {"cv_sleep", "cv_unspin", "sig_wake", "sig_unspin", "bc_wake", "bc_unspin"}
InRelease == {"rel_spin", "rel_clear", "rel_wake", "rel_unspin"}

\* lock_do_i_hold reads the owner without the spinlock; its answer is right at
\* every moment for the thread that asks, and at most one thread is told yes.
OwnerIsRight == \A t \in Thread : pc[t] \in Owning <=> thread_who_acquired = t

\* Owner and sleepers of the lock are touched only under its spinlock, the
\* channel of the condition variable only under the other; inside lock_release
\* the second may be held as well.
SpinlocksHeld ==
    \A t \in Thread :
        /\ pc[t] \in InLockSpin <=> lock_spinlock = t
        /\ pc[t] \in InCvSpin => cv_spinlock = t
        /\ cv_spinlock = t => pc[t] \in InCvSpin \cup InRelease

\* wchan_sleep's assertion c_spinlocks == 1: a thread that goes to sleep on one
\* channel does not hold the spinlock of the other.
SleepsWithOneSpinlock ==
    \A t \in Thread : /\ pc[t] = "acq_test" => cv_spinlock # t
                      /\ pc[t] = "cv_sleep" => lock_spinlock # t

\* The wait channels hold exactly the sleepers, once each.
ChannelsAreSleepers ==
    /\ IsInjective(lock_wchan) /\ IsInjective(cv_wchan)
    /\ \A t \in Thread : /\ pc[t] = "acq_asleep" <=> t \in ToSet(lock_wchan)
                         /\ pc[t] = "cv_asleep" <=> t \in ToSet(cv_wchan)

\* Nobody sleeps for a lock that is free and that nobody is about to take or
\* to hand on.
NoLostWakeup ==
    lock_wchan # <<>> =>
        \/ thread_who_acquired # NULL
        \/ \E t \in Thread : pc[t] \in {"acq_wake", "acq_test", "acq_own", "rel_wake"}

\* The lock and the condition variable implement the monitor: one thread inside,
\* and no signal lost between the release of the lock in cv_wait and the sleep.
Callers(t) ==
    CASE pc[t] \in {"acq_spin", "acq_test", "acq_asleep", "acq_wake", "acq_own",
                    "cv_wake", "cv_unspin"} -> "want"
      [] pc[t] \in {"cv_sleep", "cv_asleep"} -> "wait"
      [] pc[t] \in {"rel_wake", "rel_unspin"} /\ cv_spinlock = t -> "wait"
      [] pc[t] \in {"sig_spin", "sig_wake"} -> "signal"
      [] pc[t] \in {"bc_spin", "bc_wake"} -> "broadcast"
      [] pc[t] \in {"acq_unspin", "in", "rel_spin", "rel_clear", "wait_spin", "sig_unspin",
                    "bc_unspin"} -> "in"
      [] OTHER -> "out"
st == [t \in Thread |-> Callers(t)]
Mon == INSTANCE Monitor WITH st <- st
ImplementsMonitor == Mon!Spec
ProgressesMonitor == Mon!FairSpec
=============================================================================
