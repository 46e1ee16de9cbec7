---------------------------- MODULE LockCVProofs ----------------------------
(***************************************************************************)
(* Proofs about LockCV, for every set of threads.                          *)
(***************************************************************************)
EXTENDS LockCV, TLAPS

\* Zenon proves the leaves that need no arithmetic; the others name their prover.
USE ZenonT(30)

\* lock_acquire goes on only when the lock is free.
TestedFree == \A t \in Thread : pc[t] = "acq_own" => thread_who_acquired = NULL

IInv == /\ TypeOK
        /\ OwnerIsRight
        /\ SpinlocksHeld
        /\ ChannelsAreSleepers
        /\ TestedFree
        /\ NoLostWakeup

-----------------------------------------------------------------------------
\* The channel as a queue: what joining it and leaving it do to its members.
LEMMA JoinChannel ==
    ASSUME NEW S, NEW q \in Seq(S), NEW t \in S, IsInjective(q), t \notin ToSet(q)
    PROVE  /\ Append(q, t) \in Seq(S)
           /\ IsInjective(Append(q, t))
           /\ ToSet(Append(q, t)) = ToSet(q) \cup {t}
BY SMT DEF IsInjective, ToSet

\* The head leaves, the others stay.
LEMMA LeaveChannel ==
    ASSUME NEW S, NEW q \in Seq(S), IsInjective(q), q # <<>>
    PROVE  /\ Head(q) \in S
           /\ Head(q) \in ToSet(q)
           /\ Tail(q) \in Seq(S)
           /\ IsInjective(Tail(q))
           /\ ToSet(Tail(q)) = ToSet(q) \ {Head(q)}
<1>1. Head(q) \in S /\ Head(q) = q[1] /\ Tail(q) \in Seq(S) /\ Len(q) \in Nat /\ Len(q) > 0
  BY SMT
<1>2. Head(q) \in ToSet(q)
  BY <1>1, SMT DEF ToSet
<1>3. IsInjective(Tail(q))
  BY <1>1, SMT DEF IsInjective
<1>4. ToSet(Tail(q)) \subseteq ToSet(q) \ {Head(q)}
  BY <1>1, SMT DEF ToSet, IsInjective
<1>5. ASSUME NEW x \in ToSet(q), x # Head(q)
      PROVE  x \in ToSet(Tail(q))
  <2>1. PICK i \in DOMAIN q : x = q[i]
    BY DEF ToSet
  <2>2. i \in 2..Len(q)
    BY <2>1, <1>1, <1>5, SMTT(30)
  <2>3. i - 1 \in DOMAIN Tail(q) /\ Tail(q)[i - 1] = x
    BY <2>1, <2>2, <1>1, SMTT(30)
  <2> QED
    BY <2>3 DEF ToSet
<1> QED
  BY <1>1, <1>2, <1>3, <1>4, <1>5

\* Every action keeps the types.
LEMMA TypeStep ==
    ASSUME TypeOK, ChannelsAreSleepers, [Next]_vars
    PROVE  TypeOK'
<1> USE DEF TypeOK, Labels
<1>1. ASSUME NEW t \in Thread, lock_acquire(t) PROVE TypeOK'
  BY <1>1 DEF lock_acquire, Goto, lock_state, cv_state
<1>2. ASSUME NEW t \in Thread, AcquireSpin(t) PROVE TypeOK'
  BY <1>2 DEF AcquireSpin, Goto, lock_state, cv_state
<1>3. ASSUME NEW t \in Thread, AcquireSleep(t) PROVE TypeOK'
  BY <1>3, SMT DEF AcquireSleep, Goto, lock_state, cv_state
<1>4. ASSUME NEW t \in Thread, AcquireTest(t) PROVE TypeOK'
  BY <1>4 DEF AcquireTest, Goto, lock_state, cv_state
<1>5. ASSUME NEW t \in Thread, AcquireOwn(t) PROVE TypeOK'
  BY <1>5 DEF AcquireOwn, Goto, lock_state, cv_state
<1>6. ASSUME NEW t \in Thread, AcquireUnspin(t) PROVE TypeOK'
  BY <1>6 DEF AcquireUnspin, Goto, lock_state, cv_state
<1>7. ASSUME NEW t \in Thread, lock_release(t) PROVE TypeOK'
  BY <1>7 DEF lock_release, Goto, lock_state, cv_state
<1>8. ASSUME NEW t \in Thread, ReleaseSpin(t) PROVE TypeOK'
  BY <1>8 DEF ReleaseSpin, Goto, lock_state, cv_state
<1>9. ASSUME NEW t \in Thread, ReleaseClear(t) PROVE TypeOK'
  BY <1>9 DEF ReleaseClear, Goto, lock_state, cv_state
<1>10. ASSUME NEW t \in Thread, ReleaseWake(t) PROVE TypeOK'
  <2>1. CASE lock_wchan = <<>>
    BY <1>10, <2>1 DEF ReleaseWake, lock_state, cv_state
  <2>2. CASE lock_wchan # <<>>
    <3>1. Head(lock_wchan) \in Thread /\ Tail(lock_wchan) \in Seq(Thread)
      BY <2>2, LeaveChannel DEF ChannelsAreSleepers
    <3> QED
      BY <1>10, <2>2, <3>1 DEF ReleaseWake, lock_state, cv_state
  <2> QED
    BY <2>1, <2>2
<1>11. ASSUME NEW t \in Thread, ReleaseUnspin(t) PROVE TypeOK'
  BY <1>11 DEF ReleaseUnspin, lock_state, cv_state
<1>12. ASSUME NEW t \in Thread, cv_wait(t) PROVE TypeOK'
  BY <1>12 DEF cv_wait, Goto, lock_state, cv_state
<1>13. ASSUME NEW t \in Thread, WaitSpin(t) PROVE TypeOK'
  BY <1>13 DEF WaitSpin, Goto, lock_state, cv_state
<1>14. ASSUME NEW t \in Thread, WaitSleep(t) PROVE TypeOK'
  BY <1>14, SMT DEF WaitSleep, Goto, lock_state, cv_state
<1>15. ASSUME NEW t \in Thread, WaitWake(t) PROVE TypeOK'
  BY <1>15 DEF WaitWake, Goto, lock_state, cv_state
<1>16. ASSUME NEW t \in Thread, WaitUnspin(t) PROVE TypeOK'
  BY <1>16 DEF WaitUnspin, Goto, lock_state, cv_state
<1>17. ASSUME NEW t \in Thread, cv_signal(t) PROVE TypeOK'
  BY <1>17 DEF cv_signal, Goto, lock_state, cv_state
<1>18. ASSUME NEW t \in Thread, cv_broadcast(t) PROVE TypeOK'
  BY <1>18 DEF cv_broadcast, Goto, lock_state, cv_state
<1>19. ASSUME NEW t \in Thread, NotifySpin(t) PROVE TypeOK'
  BY <1>19 DEF NotifySpin, Goto, lock_state, cv_state
<1>20. ASSUME NEW t \in Thread, SignalWake(t) PROVE TypeOK'
  <2>1. CASE cv_wchan = <<>>
    BY <1>20, <2>1 DEF SignalWake, lock_state, cv_state
  <2>2. CASE cv_wchan # <<>>
    <3>1. Head(cv_wchan) \in Thread /\ Tail(cv_wchan) \in Seq(Thread)
      BY <2>2, LeaveChannel DEF ChannelsAreSleepers
    <3> QED
      BY <1>20, <2>2, <3>1 DEF SignalWake, lock_state, cv_state
  <2> QED
    BY <2>1, <2>2
<1>21. ASSUME NEW t \in Thread, BroadcastWake(t) PROVE TypeOK'
  BY <1>21, SMT DEF BroadcastWake, lock_state, cv_state
<1>22. ASSUME NEW t \in Thread, NotifyUnspin(t) PROVE TypeOK'
  BY <1>22 DEF NotifyUnspin, Goto, lock_state, cv_state
<1>23. ASSUME UNCHANGED vars PROVE TypeOK'
  BY <1>23 DEF vars
<1> QED
  BY <1>1, <1>2, <1>3, <1>4, <1>5, <1>6, <1>7, <1>8, <1>9, <1>10, <1>11, <1>12, <1>13, <1>14, <1>15, <1>16, <1>17, <1>18, <1>19, <1>20, <1>21, <1>22, <1>23, SMTT(30) DEF Next, Call, KernelStep

\* The owner is the thread between taking and clearing.
LEMMA OwnerStep ==
    ASSUME TypeOK, OwnerIsRight, SpinlocksHeld, ChannelsAreSleepers, TestedFree, [Next]_vars
    PROVE  OwnerIsRight'
<1> USE DEF TypeOK, OwnerIsRight, Owning
<1>1. ASSUME NEW t \in Thread, lock_acquire(t) PROVE OwnerIsRight'
  BY <1>1, NullAssumption DEF lock_acquire, Goto, lock_state, cv_state
<1>2. ASSUME NEW t \in Thread, AcquireSpin(t) PROVE OwnerIsRight'
  BY <1>2, NullAssumption DEF AcquireSpin, Goto, lock_state, cv_state
<1>3. ASSUME NEW t \in Thread, AcquireSleep(t) PROVE OwnerIsRight'
  BY <1>3, NullAssumption DEF AcquireSleep, Goto, lock_state, cv_state
<1>4. ASSUME NEW t \in Thread, AcquireTest(t) PROVE OwnerIsRight'
  BY <1>4, NullAssumption DEF AcquireTest, Goto, lock_state, cv_state
<1>5. ASSUME NEW t \in Thread, AcquireOwn(t) PROVE OwnerIsRight'
  BY <1>5, NullAssumption DEF AcquireOwn, Goto, TestedFree
<1>6. ASSUME NEW t \in Thread, AcquireUnspin(t) PROVE OwnerIsRight'
  BY <1>6, NullAssumption DEF AcquireUnspin, Goto, lock_state, cv_state
<1>7. ASSUME NEW t \in Thread, lock_release(t) PROVE OwnerIsRight'
  BY <1>7, NullAssumption DEF lock_release, Goto, lock_state, cv_state
<1>8. ASSUME NEW t \in Thread, ReleaseSpin(t) PROVE OwnerIsRight'
  BY <1>8, NullAssumption DEF ReleaseSpin, Goto, lock_state, cv_state
<1>9. ASSUME NEW t \in Thread, ReleaseClear(t) PROVE OwnerIsRight'
  BY <1>9, NullAssumption DEF ReleaseClear, Goto, lock_state, cv_state
<1>10. ASSUME NEW t \in Thread, ReleaseWake(t) PROVE OwnerIsRight'
  <2>1. CASE lock_wchan = <<>>
    BY <1>10, <2>1 DEF ReleaseWake, lock_state, cv_state
  <2>2. CASE lock_wchan # <<>>
    <3>1. Head(lock_wchan) \in Thread /\ pc[Head(lock_wchan)] = "acq_asleep"
      BY <2>2, LeaveChannel DEF ChannelsAreSleepers, TypeOK
    <3> QED
      BY <1>10, <2>2, <3>1 DEF ReleaseWake, lock_state, cv_state
  <2> QED
    BY <2>1, <2>2
<1>11. ASSUME NEW t \in Thread, ReleaseUnspin(t) PROVE OwnerIsRight'
  BY <1>11, NullAssumption DEF ReleaseUnspin, lock_state, cv_state
<1>12. ASSUME NEW t \in Thread, cv_wait(t) PROVE OwnerIsRight'
  BY <1>12, NullAssumption DEF cv_wait, Goto, lock_state, cv_state
<1>13. ASSUME NEW t \in Thread, WaitSpin(t) PROVE OwnerIsRight'
  BY <1>13, NullAssumption DEF WaitSpin, Goto, lock_state, cv_state
<1>14. ASSUME NEW t \in Thread, WaitSleep(t) PROVE OwnerIsRight'
  BY <1>14, NullAssumption DEF WaitSleep, Goto, lock_state, cv_state
<1>15. ASSUME NEW t \in Thread, WaitWake(t) PROVE OwnerIsRight'
  BY <1>15, NullAssumption DEF WaitWake, Goto, lock_state, cv_state
<1>16. ASSUME NEW t \in Thread, WaitUnspin(t) PROVE OwnerIsRight'
  BY <1>16, NullAssumption DEF WaitUnspin, Goto, lock_state, cv_state
<1>17. ASSUME NEW t \in Thread, cv_signal(t) PROVE OwnerIsRight'
  BY <1>17, NullAssumption DEF cv_signal, Goto, lock_state, cv_state
<1>18. ASSUME NEW t \in Thread, cv_broadcast(t) PROVE OwnerIsRight'
  BY <1>18, NullAssumption DEF cv_broadcast, Goto, lock_state, cv_state
<1>19. ASSUME NEW t \in Thread, NotifySpin(t) PROVE OwnerIsRight'
  BY <1>19, NullAssumption DEF NotifySpin, Goto, lock_state, cv_state
<1>20. ASSUME NEW t \in Thread, SignalWake(t) PROVE OwnerIsRight'
  <2>1. CASE cv_wchan = <<>>
    BY <1>20, <2>1 DEF SignalWake, lock_state, cv_state
  <2>2. CASE cv_wchan # <<>>
    <3>1. Head(cv_wchan) \in Thread /\ pc[Head(cv_wchan)] = "cv_asleep"
      BY <2>2, LeaveChannel DEF ChannelsAreSleepers, TypeOK
    <3> QED
      BY <1>20, <2>2, <3>1 DEF SignalWake, lock_state, cv_state
  <2> QED
    BY <2>1, <2>2
<1>21. ASSUME NEW t \in Thread, BroadcastWake(t) PROVE OwnerIsRight'
  <2>1. \A u \in Thread : u \in ToSet(cv_wchan) => pc[u] = "cv_asleep"
    BY DEF ChannelsAreSleepers
  <2> QED
    BY <1>21, <2>1 DEF BroadcastWake, lock_state, cv_state
<1>22. ASSUME NEW t \in Thread, NotifyUnspin(t) PROVE OwnerIsRight'
  BY <1>22, NullAssumption DEF NotifyUnspin, Goto, lock_state, cv_state
<1>23. ASSUME UNCHANGED vars PROVE OwnerIsRight'
  BY <1>23 DEF vars
<1> QED
  BY <1>1, <1>2, <1>3, <1>4, <1>5, <1>6, <1>7, <1>8, <1>9, <1>10, <1>11, <1>12, <1>13, <1>14, <1>15, <1>16, <1>17, <1>18, <1>19, <1>20, <1>21, <1>22, <1>23, SMTT(30) DEF Next, Call, KernelStep

\* The two spinlocks are held where the code holds them.
LEMMA SpinStep ==
    ASSUME TypeOK, SpinlocksHeld, ChannelsAreSleepers, [Next]_vars
    PROVE  SpinlocksHeld'
<1> USE DEF TypeOK, SpinlocksHeld, InLockSpin, InCvSpin, InRelease
<1>1. ASSUME NEW t \in Thread, lock_acquire(t) PROVE SpinlocksHeld'
  BY <1>1, NullAssumption DEF lock_acquire, Goto, lock_state, cv_state
<1>2. ASSUME NEW t \in Thread, AcquireSpin(t) PROVE SpinlocksHeld'
  BY <1>2, NullAssumption DEF AcquireSpin, Goto, lock_state, cv_state
<1>3. ASSUME NEW t \in Thread, AcquireSleep(t) PROVE SpinlocksHeld'
  BY <1>3, NullAssumption DEF AcquireSleep, Goto, lock_state, cv_state
<1>4. ASSUME NEW t \in Thread, AcquireTest(t) PROVE SpinlocksHeld'
  BY <1>4, NullAssumption DEF AcquireTest, Goto, lock_state, cv_state
<1>5. ASSUME NEW t \in Thread, AcquireOwn(t) PROVE SpinlocksHeld'
  BY <1>5, NullAssumption DEF AcquireOwn, Goto, lock_state, cv_state
<1>6. ASSUME NEW t \in Thread, AcquireUnspin(t) PROVE SpinlocksHeld'
  BY <1>6, NullAssumption DEF AcquireUnspin, Goto, lock_state, cv_state
<1>7. ASSUME NEW t \in Thread, lock_release(t) PROVE SpinlocksHeld'
  BY <1>7, NullAssumption DEF lock_release, Goto, lock_state, cv_state
<1>8. ASSUME NEW t \in Thread, ReleaseSpin(t) PROVE SpinlocksHeld'
  BY <1>8, NullAssumption DEF ReleaseSpin, Goto, lock_state, cv_state
<1>9. ASSUME NEW t \in Thread, ReleaseClear(t) PROVE SpinlocksHeld'
  BY <1>9, NullAssumption DEF ReleaseClear, Goto, lock_state, cv_state
<1>10. ASSUME NEW t \in Thread, ReleaseWake(t) PROVE SpinlocksHeld'
  <2>1. CASE lock_wchan = <<>>
    BY <1>10, <2>1 DEF ReleaseWake, lock_state, cv_state
  <2>2. CASE lock_wchan # <<>>
    <3>1. Head(lock_wchan) \in Thread /\ pc[Head(lock_wchan)] = "acq_asleep"
      BY <2>2, LeaveChannel DEF ChannelsAreSleepers, TypeOK
    <3> QED
      BY <1>10, <2>2, <3>1 DEF ReleaseWake, lock_state, cv_state
  <2> QED
    BY <2>1, <2>2
<1>11. ASSUME NEW t \in Thread, ReleaseUnspin(t) PROVE SpinlocksHeld'
  BY <1>11, NullAssumption DEF ReleaseUnspin, lock_state, cv_state
<1>12. ASSUME NEW t \in Thread, cv_wait(t) PROVE SpinlocksHeld'
  BY <1>12, NullAssumption DEF cv_wait, Goto, lock_state, cv_state
<1>13. ASSUME NEW t \in Thread, WaitSpin(t) PROVE SpinlocksHeld'
  BY <1>13, NullAssumption DEF WaitSpin, Goto, lock_state, cv_state
<1>14. ASSUME NEW t \in Thread, WaitSleep(t) PROVE SpinlocksHeld'
  BY <1>14, NullAssumption DEF WaitSleep, Goto, lock_state, cv_state
<1>15. ASSUME NEW t \in Thread, WaitWake(t) PROVE SpinlocksHeld'
  BY <1>15, NullAssumption DEF WaitWake, Goto, lock_state, cv_state
<1>16. ASSUME NEW t \in Thread, WaitUnspin(t) PROVE SpinlocksHeld'
  BY <1>16, NullAssumption DEF WaitUnspin, Goto, lock_state, cv_state
<1>17. ASSUME NEW t \in Thread, cv_signal(t) PROVE SpinlocksHeld'
  BY <1>17, NullAssumption DEF cv_signal, Goto, lock_state, cv_state
<1>18. ASSUME NEW t \in Thread, cv_broadcast(t) PROVE SpinlocksHeld'
  BY <1>18, NullAssumption DEF cv_broadcast, Goto, lock_state, cv_state
<1>19. ASSUME NEW t \in Thread, NotifySpin(t) PROVE SpinlocksHeld'
  BY <1>19, NullAssumption DEF NotifySpin, Goto, lock_state, cv_state
<1>20. ASSUME NEW t \in Thread, SignalWake(t) PROVE SpinlocksHeld'
  <2>1. CASE cv_wchan = <<>>
    BY <1>20, <2>1 DEF SignalWake, lock_state, cv_state
  <2>2. CASE cv_wchan # <<>>
    <3>1. Head(cv_wchan) \in Thread /\ pc[Head(cv_wchan)] = "cv_asleep"
      BY <2>2, LeaveChannel DEF ChannelsAreSleepers, TypeOK
    <3> QED
      BY <1>20, <2>2, <3>1 DEF SignalWake, lock_state, cv_state
  <2> QED
    BY <2>1, <2>2
<1>21. ASSUME NEW t \in Thread, BroadcastWake(t) PROVE SpinlocksHeld'
  <2>1. \A u \in Thread : u \in ToSet(cv_wchan) => pc[u] = "cv_asleep"
    BY DEF ChannelsAreSleepers
  <2> QED
    BY <1>21, <2>1 DEF BroadcastWake, lock_state, cv_state
<1>22. ASSUME NEW t \in Thread, NotifyUnspin(t) PROVE SpinlocksHeld'
  BY <1>22, NullAssumption, SMTT(30) DEF NotifyUnspin, Goto, lock_state, cv_state
<1>23. ASSUME UNCHANGED vars PROVE SpinlocksHeld'
  BY <1>23 DEF vars
<1> QED
  BY <1>1, <1>2, <1>3, <1>4, <1>5, <1>6, <1>7, <1>8, <1>9, <1>10, <1>11, <1>12, <1>13, <1>14, <1>15, <1>16, <1>17, <1>18, <1>19, <1>20, <1>21, <1>22, <1>23, SMTT(30) DEF Next, Call, KernelStep

\* The channels hold the sleepers, once each.
LEMMA ChannelStep ==
    ASSUME TypeOK, ChannelsAreSleepers, [Next]_vars
    PROVE  ChannelsAreSleepers'
<1> USE DEF TypeOK, ChannelsAreSleepers
<1>1. ASSUME NEW t \in Thread, lock_acquire(t) PROVE ChannelsAreSleepers'
  BY <1>1 DEF lock_acquire, Goto, lock_state, cv_state
<1>2. ASSUME NEW t \in Thread, AcquireSpin(t) PROVE ChannelsAreSleepers'
  BY <1>2 DEF AcquireSpin, Goto, lock_state, cv_state
<1>3. ASSUME NEW t \in Thread, AcquireSleep(t) PROVE ChannelsAreSleepers'
  <2>1. t \notin ToSet(lock_wchan)
    BY <1>3 DEF AcquireSleep, Goto
  <2>2. IsInjective(lock_wchan') /\ ToSet(lock_wchan') = ToSet(lock_wchan) \cup {t}
    BY <1>3, <2>1, JoinChannel, SMTT(30) DEF AcquireSleep
  <2> QED
    BY <1>3, <2>2 DEF AcquireSleep, Goto, lock_state, cv_state
<1>4. ASSUME NEW t \in Thread, AcquireTest(t) PROVE ChannelsAreSleepers'
  BY <1>4 DEF AcquireTest, Goto, lock_state, cv_state
<1>5. ASSUME NEW t \in Thread, AcquireOwn(t) PROVE ChannelsAreSleepers'
  BY <1>5 DEF AcquireOwn, Goto, lock_state, cv_state
<1>6. ASSUME NEW t \in Thread, AcquireUnspin(t) PROVE ChannelsAreSleepers'
  BY <1>6 DEF AcquireUnspin, Goto, lock_state, cv_state
<1>7. ASSUME NEW t \in Thread, lock_release(t) PROVE ChannelsAreSleepers'
  BY <1>7 DEF lock_release, Goto, lock_state, cv_state
<1>8. ASSUME NEW t \in Thread, ReleaseSpin(t) PROVE ChannelsAreSleepers'
  BY <1>8 DEF ReleaseSpin, Goto, lock_state, cv_state
<1>9. ASSUME NEW t \in Thread, ReleaseClear(t) PROVE ChannelsAreSleepers'
  BY <1>9 DEF ReleaseClear, Goto, lock_state, cv_state
<1>10. ASSUME NEW t \in Thread, ReleaseWake(t) PROVE ChannelsAreSleepers'
  <2>1. CASE lock_wchan = <<>>
    BY <1>10, <2>1 DEF ReleaseWake, lock_state, cv_state
  <2>2. CASE lock_wchan # <<>>
    <3>1. /\ Head(lock_wchan) \in Thread
          /\ Head(lock_wchan) \in ToSet(lock_wchan)
          /\ IsInjective(Tail(lock_wchan))
          /\ ToSet(Tail(lock_wchan)) = ToSet(lock_wchan) \ {Head(lock_wchan)}
      BY <2>2, LeaveChannel
    <3> QED
      BY <1>10, <2>2, <3>1 DEF ReleaseWake, lock_state, cv_state
  <2> QED
    BY <2>1, <2>2
<1>11. ASSUME NEW t \in Thread, ReleaseUnspin(t) PROVE ChannelsAreSleepers'
  BY <1>11 DEF ReleaseUnspin, lock_state, cv_state
<1>12. ASSUME NEW t \in Thread, cv_wait(t) PROVE ChannelsAreSleepers'
  BY <1>12 DEF cv_wait, Goto, lock_state, cv_state
<1>13. ASSUME NEW t \in Thread, WaitSpin(t) PROVE ChannelsAreSleepers'
  BY <1>13 DEF WaitSpin, Goto, lock_state, cv_state
<1>14. ASSUME NEW t \in Thread, WaitSleep(t) PROVE ChannelsAreSleepers'
  <2>1. t \notin ToSet(cv_wchan)
    BY <1>14 DEF WaitSleep, Goto
  <2>2. IsInjective(cv_wchan') /\ ToSet(cv_wchan') = ToSet(cv_wchan) \cup {t}
    BY <1>14, <2>1, JoinChannel, SMTT(30) DEF WaitSleep
  <2> QED
    BY <1>14, <2>2 DEF WaitSleep, Goto, lock_state, cv_state
<1>15. ASSUME NEW t \in Thread, WaitWake(t) PROVE ChannelsAreSleepers'
  BY <1>15 DEF WaitWake, Goto, lock_state, cv_state
<1>16. ASSUME NEW t \in Thread, WaitUnspin(t) PROVE ChannelsAreSleepers'
  BY <1>16 DEF WaitUnspin, Goto, lock_state, cv_state
<1>17. ASSUME NEW t \in Thread, cv_signal(t) PROVE ChannelsAreSleepers'
  BY <1>17 DEF cv_signal, Goto, lock_state, cv_state
<1>18. ASSUME NEW t \in Thread, cv_broadcast(t) PROVE ChannelsAreSleepers'
  BY <1>18 DEF cv_broadcast, Goto, lock_state, cv_state
<1>19. ASSUME NEW t \in Thread, NotifySpin(t) PROVE ChannelsAreSleepers'
  BY <1>19 DEF NotifySpin, Goto, lock_state, cv_state
<1>20. ASSUME NEW t \in Thread, SignalWake(t) PROVE ChannelsAreSleepers'
  <2>1. CASE cv_wchan = <<>>
    BY <1>20, <2>1 DEF SignalWake, lock_state, cv_state
  <2>2. CASE cv_wchan # <<>>
    <3>1. /\ Head(cv_wchan) \in Thread
          /\ Head(cv_wchan) \in ToSet(cv_wchan)
          /\ IsInjective(Tail(cv_wchan))
          /\ ToSet(Tail(cv_wchan)) = ToSet(cv_wchan) \ {Head(cv_wchan)}
      BY <2>2, LeaveChannel
    <3> QED
      BY <1>20, <2>2, <3>1 DEF SignalWake, lock_state, cv_state
  <2> QED
    BY <2>1, <2>2
<1>21. ASSUME NEW t \in Thread, BroadcastWake(t) PROVE ChannelsAreSleepers'
  <2>1. cv_wchan' = <<>> /\ lock_wchan' = lock_wchan
    BY <1>21 DEF BroadcastWake, lock_state
  <2>2. IsInjective(cv_wchan') /\ ToSet(cv_wchan') = {}
    BY <2>1, SMT DEF IsInjective, ToSet
  <2> QED
    BY <1>21, <2>1, <2>2 DEF BroadcastWake
<1>22. ASSUME NEW t \in Thread, NotifyUnspin(t) PROVE ChannelsAreSleepers'
  BY <1>22 DEF NotifyUnspin, Goto, lock_state, cv_state
<1>23. ASSUME UNCHANGED vars PROVE ChannelsAreSleepers'
  BY <1>23 DEF vars
<1> QED
  BY <1>1, <1>2, <1>3, <1>4, <1>5, <1>6, <1>7, <1>8, <1>9, <1>10, <1>11, <1>12, <1>13, <1>14, <1>15, <1>16, <1>17, <1>18, <1>19, <1>20, <1>21, <1>22, <1>23 DEF Next, Call, KernelStep

\* The owner does not change between test and assignment.
LEMMA TestedStep ==
    ASSUME TypeOK, OwnerIsRight, SpinlocksHeld, ChannelsAreSleepers, TestedFree, [Next]_vars
    PROVE  TestedFree'
<1> USE DEF TypeOK, TestedFree
<1>1. ASSUME NEW t \in Thread, lock_acquire(t) PROVE TestedFree'
  BY <1>1 DEF lock_acquire, Goto, lock_state, cv_state
<1>2. ASSUME NEW t \in Thread, AcquireSpin(t) PROVE TestedFree'
  BY <1>2 DEF AcquireSpin, Goto, lock_state, cv_state
<1>3. ASSUME NEW t \in Thread, AcquireSleep(t) PROVE TestedFree'
  BY <1>3 DEF AcquireSleep, Goto, lock_state, cv_state
<1>4. ASSUME NEW t \in Thread, AcquireTest(t) PROVE TestedFree'
  BY <1>4 DEF AcquireTest, Goto, lock_state, cv_state
<1>5. ASSUME NEW t \in Thread, AcquireOwn(t) PROVE TestedFree'
  BY <1>5, NullAssumption DEF AcquireOwn, Goto, SpinlocksHeld, InLockSpin
<1>6. ASSUME NEW t \in Thread, AcquireUnspin(t) PROVE TestedFree'
  BY <1>6 DEF AcquireUnspin, Goto, lock_state, cv_state
<1>7. ASSUME NEW t \in Thread, lock_release(t) PROVE TestedFree'
  BY <1>7 DEF lock_release, Goto, lock_state, cv_state
<1>8. ASSUME NEW t \in Thread, ReleaseSpin(t) PROVE TestedFree'
  BY <1>8 DEF ReleaseSpin, Goto, lock_state, cv_state
<1>9. ASSUME NEW t \in Thread, ReleaseClear(t) PROVE TestedFree'
  BY <1>9 DEF ReleaseClear, Goto, lock_state, cv_state
<1>10. ASSUME NEW t \in Thread, ReleaseWake(t) PROVE TestedFree'
  <2>1. CASE lock_wchan = <<>>
    BY <1>10, <2>1 DEF ReleaseWake, lock_state, cv_state
  <2>2. CASE lock_wchan # <<>>
    <3>1. Head(lock_wchan) \in Thread /\ pc[Head(lock_wchan)] = "acq_asleep"
      BY <2>2, LeaveChannel DEF ChannelsAreSleepers, TypeOK
    <3> QED
      BY <1>10, <2>2, <3>1 DEF ReleaseWake, lock_state, cv_state
  <2> QED
    BY <2>1, <2>2
<1>11. ASSUME NEW t \in Thread, ReleaseUnspin(t) PROVE TestedFree'
  BY <1>11 DEF ReleaseUnspin, lock_state, cv_state
<1>12. ASSUME NEW t \in Thread, cv_wait(t) PROVE TestedFree'
  BY <1>12 DEF cv_wait, Goto, lock_state, cv_state
<1>13. ASSUME NEW t \in Thread, WaitSpin(t) PROVE TestedFree'
  BY <1>13 DEF WaitSpin, Goto, lock_state, cv_state
<1>14. ASSUME NEW t \in Thread, WaitSleep(t) PROVE TestedFree'
  BY <1>14 DEF WaitSleep, Goto, lock_state, cv_state
<1>15. ASSUME NEW t \in Thread, WaitWake(t) PROVE TestedFree'
  BY <1>15 DEF WaitWake, Goto, lock_state, cv_state
<1>16. ASSUME NEW t \in Thread, WaitUnspin(t) PROVE TestedFree'
  BY <1>16 DEF WaitUnspin, Goto, lock_state, cv_state
<1>17. ASSUME NEW t \in Thread, cv_signal(t) PROVE TestedFree'
  BY <1>17 DEF cv_signal, Goto, lock_state, cv_state
<1>18. ASSUME NEW t \in Thread, cv_broadcast(t) PROVE TestedFree'
  BY <1>18 DEF cv_broadcast, Goto, lock_state, cv_state
<1>19. ASSUME NEW t \in Thread, NotifySpin(t) PROVE TestedFree'
  BY <1>19 DEF NotifySpin, Goto, lock_state, cv_state
<1>20. ASSUME NEW t \in Thread, SignalWake(t) PROVE TestedFree'
  <2>1. CASE cv_wchan = <<>>
    BY <1>20, <2>1 DEF SignalWake, lock_state, cv_state
  <2>2. CASE cv_wchan # <<>>
    <3>1. Head(cv_wchan) \in Thread /\ pc[Head(cv_wchan)] = "cv_asleep"
      BY <2>2, LeaveChannel DEF ChannelsAreSleepers, TypeOK
    <3> QED
      BY <1>20, <2>2, <3>1 DEF SignalWake, lock_state, cv_state
  <2> QED
    BY <2>1, <2>2
<1>21. ASSUME NEW t \in Thread, BroadcastWake(t) PROVE TestedFree'
  <2>1. \A u \in Thread : u \in ToSet(cv_wchan) => pc[u] = "cv_asleep"
    BY DEF ChannelsAreSleepers
  <2> QED
    BY <1>21, <2>1 DEF BroadcastWake, lock_state, cv_state
<1>22. ASSUME NEW t \in Thread, NotifyUnspin(t) PROVE TestedFree'
  BY <1>22 DEF NotifyUnspin, Goto, lock_state, cv_state
<1>23. ASSUME UNCHANGED vars PROVE TestedFree'
  BY <1>23 DEF vars
<1> QED
  BY <1>1, <1>2, <1>3, <1>4, <1>5, <1>6, <1>7, <1>8, <1>9, <1>10, <1>11, <1>12, <1>13, <1>14, <1>15, <1>16, <1>17, <1>18, <1>19, <1>20, <1>21, <1>22, <1>23 DEF Next, Call, KernelStep

\* A thread stops being on its way only by taking the lock or waking another.
LEMMA WakeupStep ==
    ASSUME TypeOK, ChannelsAreSleepers, NoLostWakeup, [Next]_vars
    PROVE  NoLostWakeup'
<1> USE DEF TypeOK, NoLostWakeup
<1>1. ASSUME NEW t \in Thread, lock_acquire(t) PROVE NoLostWakeup'
  BY <1>1, NullAssumption DEF lock_acquire, Goto, lock_state, cv_state
<1>2. ASSUME NEW t \in Thread, AcquireSpin(t) PROVE NoLostWakeup'
  BY <1>2, NullAssumption DEF AcquireSpin, Goto, lock_state, cv_state
<1>3. ASSUME NEW t \in Thread, AcquireSleep(t) PROVE NoLostWakeup'
  BY <1>3 DEF AcquireSleep, Goto
<1>4. ASSUME NEW t \in Thread, AcquireTest(t) PROVE NoLostWakeup'
  BY <1>4, NullAssumption DEF AcquireTest, Goto, lock_state, cv_state
<1>5. ASSUME NEW t \in Thread, AcquireOwn(t) PROVE NoLostWakeup'
  BY <1>5, NullAssumption DEF AcquireOwn, Goto
<1>6. ASSUME NEW t \in Thread, AcquireUnspin(t) PROVE NoLostWakeup'
  BY <1>6, NullAssumption DEF AcquireUnspin, Goto, lock_state, cv_state
<1>7. ASSUME NEW t \in Thread, lock_release(t) PROVE NoLostWakeup'
  BY <1>7, NullAssumption DEF lock_release, Goto, lock_state, cv_state
<1>8. ASSUME NEW t \in Thread, ReleaseSpin(t) PROVE NoLostWakeup'
  BY <1>8, NullAssumption DEF ReleaseSpin, Goto, lock_state, cv_state
<1>9. ASSUME NEW t \in Thread, ReleaseClear(t) PROVE NoLostWakeup'
  BY <1>9 DEF ReleaseClear, Goto
<1>10. ASSUME NEW t \in Thread, ReleaseWake(t) PROVE NoLostWakeup'
  <2>1. CASE lock_wchan = <<>>
    BY <1>10, <2>1 DEF ReleaseWake, lock_state, cv_state
  <2>2. CASE lock_wchan # <<>>
    <3>1. Head(lock_wchan) \in Thread /\ pc[Head(lock_wchan)] = "acq_asleep"
      BY <2>2, LeaveChannel DEF ChannelsAreSleepers, TypeOK
    <3> QED
      BY <1>10, <2>2, <3>1 DEF ReleaseWake, lock_state, cv_state
  <2> QED
    BY <2>1, <2>2
<1>11. ASSUME NEW t \in Thread, ReleaseUnspin(t) PROVE NoLostWakeup'
  BY <1>11, NullAssumption DEF ReleaseUnspin, lock_state, cv_state
<1>12. ASSUME NEW t \in Thread, cv_wait(t) PROVE NoLostWakeup'
  BY <1>12, NullAssumption DEF cv_wait, Goto, lock_state, cv_state
<1>13. ASSUME NEW t \in Thread, WaitSpin(t) PROVE NoLostWakeup'
  BY <1>13, NullAssumption DEF WaitSpin, Goto, lock_state, cv_state
<1>14. ASSUME NEW t \in Thread, WaitSleep(t) PROVE NoLostWakeup'
  BY <1>14, NullAssumption DEF WaitSleep, Goto, lock_state, cv_state
<1>15. ASSUME NEW t \in Thread, WaitWake(t) PROVE NoLostWakeup'
  BY <1>15, NullAssumption DEF WaitWake, Goto, lock_state, cv_state
<1>16. ASSUME NEW t \in Thread, WaitUnspin(t) PROVE NoLostWakeup'
  BY <1>16, NullAssumption DEF WaitUnspin, Goto, lock_state, cv_state
<1>17. ASSUME NEW t \in Thread, cv_signal(t) PROVE NoLostWakeup'
  BY <1>17, NullAssumption DEF cv_signal, Goto, lock_state, cv_state
<1>18. ASSUME NEW t \in Thread, cv_broadcast(t) PROVE NoLostWakeup'
  BY <1>18, NullAssumption DEF cv_broadcast, Goto, lock_state, cv_state
<1>19. ASSUME NEW t \in Thread, NotifySpin(t) PROVE NoLostWakeup'
  BY <1>19, NullAssumption DEF NotifySpin, Goto, lock_state, cv_state
<1>20. ASSUME NEW t \in Thread, SignalWake(t) PROVE NoLostWakeup'
  <2>1. CASE cv_wchan = <<>>
    BY <1>20, <2>1 DEF SignalWake, lock_state, cv_state
  <2>2. CASE cv_wchan # <<>>
    <3>1. Head(cv_wchan) \in Thread /\ pc[Head(cv_wchan)] = "cv_asleep"
      BY <2>2, LeaveChannel DEF ChannelsAreSleepers, TypeOK
    <3> QED
      BY <1>20, <2>2, <3>1 DEF SignalWake, lock_state, cv_state
  <2> QED
    BY <2>1, <2>2
<1>21. ASSUME NEW t \in Thread, BroadcastWake(t) PROVE NoLostWakeup'
  <2>1. \A u \in Thread : u \in ToSet(cv_wchan) => pc[u] = "cv_asleep"
    BY DEF ChannelsAreSleepers
  <2> QED
    BY <1>21, <2>1 DEF BroadcastWake, lock_state, cv_state
<1>22. ASSUME NEW t \in Thread, NotifyUnspin(t) PROVE NoLostWakeup'
  BY <1>22, NullAssumption DEF NotifyUnspin, Goto, lock_state, cv_state
<1>23. ASSUME UNCHANGED vars PROVE NoLostWakeup'
  BY <1>23 DEF vars
<1> QED
  BY <1>1, <1>2, <1>3, <1>4, <1>5, <1>6, <1>7, <1>8, <1>9, <1>10, <1>11, <1>12, <1>13, <1>14, <1>15, <1>16, <1>17, <1>18, <1>19, <1>20, <1>21, <1>22, <1>23, SMTT(30) DEF Next, Call, KernelStep

-----------------------------------------------------------------------------
\* lock_create and cv_create establish the invariant.
LEMMA InitInv == Init => IInv
<1> SUFFICES ASSUME Init PROVE IInv
  OBVIOUS
<1> USE DEF Init, lock_create, cv_create
<1>1. TypeOK
  BY SMT DEF TypeOK, Labels
<1>2. OwnerIsRight /\ TestedFree /\ NoLostWakeup
  BY NullAssumption DEF OwnerIsRight, Owning, TestedFree, NoLostWakeup
<1>3. SpinlocksHeld
  BY NullAssumption DEF SpinlocksHeld, InLockSpin, InCvSpin, InRelease
<1>4. ChannelsAreSleepers
  BY SMT DEF ChannelsAreSleepers, IsInjective, ToSet
<1> QED
  BY <1>1, <1>2, <1>3, <1>4 DEF IInv

\* The lock and the condition variable keep their inductive invariant.
THEOREM Invariance == Spec => []IInv
<1>1. IInv /\ [Next]_vars => IInv'
  <2> SUFFICES ASSUME IInv, [Next]_vars PROVE IInv'
    OBVIOUS
  <2>1. TypeOK' /\ OwnerIsRight' /\ SpinlocksHeld'
    BY TypeStep, OwnerStep, SpinStep DEF IInv
  <2>2. ChannelsAreSleepers' /\ TestedFree' /\ NoLostWakeup'
    BY ChannelStep, TestedStep, WakeupStep DEF IInv
  <2> QED
    BY <2>1, <2>2 DEF IInv
<1> QED
  BY <1>1, InitInv, PTL DEF Spec

\* The variables of the lock and the condition variable keep their types.
THEOREM TypeCorrect == Spec => []TypeOK
BY Invariance, PTL DEF IInv

\* lock_do_i_hold answers rightly although it takes no spinlock, and the lock
\* has one owner at a time.
THEOREM OwnerCorrect == Spec => []OwnerIsRight
BY Invariance, PTL DEF IInv

\* Each channel is used under its own spinlock.
THEOREM Exclusion == Spec => []SpinlocksHeld
BY Invariance, PTL DEF IInv

\* wchan_sleep's assertion that the CPU holds one spinlock never fails.
THEOREM OneSpinlock == Spec => []SleepsWithOneSpinlock
<1>1. IInv => SleepsWithOneSpinlock
  BY DEF IInv, SpinlocksHeld, SleepsWithOneSpinlock, InLockSpin, InCvSpin, InRelease
<1> QED
  BY <1>1, Invariance, PTL

\* The wait channels hold exactly the sleepers.
THEOREM ChannelsCorrect == Spec => []ChannelsAreSleepers
BY Invariance, PTL DEF IInv

\* Nobody sleeps for a free lock that nobody is about to take.
THEOREM NoWakeupLost == Spec => []NoLostWakeup
BY Invariance, PTL DEF IInv

-----------------------------------------------------------------------------
\* Every step of the lock and the condition variable is a step of the monitor
\* or changes nothing its callers can see.
LEMMA StepSimulation ==
    ASSUME IInv, [Next]_vars
    PROVE  [Mon!Next]_st
<1> USE DEF IInv, TypeOK, st
<1>1. ASSUME NEW t \in Thread, lock_acquire(t) PROVE [Mon!Next]_st
  <2>1. st[t] = "out" /\ st' = [st EXCEPT ![t] = "want"]
    BY <1>1, ZenonT(120) DEF lock_acquire, Goto, lock_state, cv_state, Callers
  <2> QED
    BY <2>1 DEF Mon!Next, Mon!Request, Mon!Move
<1>2. ASSUME NEW t \in Thread, AcquireSpin(t) PROVE [Mon!Next]_st
  BY <1>2, NullAssumption, SMTT(30) DEF AcquireSpin, Goto, lock_state, cv_state, Callers, SpinlocksHeld, InCvSpin, InRelease
<1>3. ASSUME NEW t \in Thread, AcquireSleep(t) PROVE [Mon!Next]_st
  BY <1>3, NullAssumption, SMTT(30) DEF AcquireSleep, Goto, lock_state, cv_state, Callers
<1>4. ASSUME NEW t \in Thread, AcquireTest(t) PROVE [Mon!Next]_st
  BY <1>4, NullAssumption, SMTT(30) DEF AcquireTest, Goto, lock_state, cv_state, Callers
<1>5. ASSUME NEW t \in Thread, AcquireOwn(t) PROVE [Mon!Next]_st
  <2>1. st[t] = "want" /\ st' = [st EXCEPT ![t] = "in"]
    BY <1>5, ZenonT(120) DEF AcquireOwn, Goto, lock_state, cv_state, Callers
  <2>2. \A u \in Thread : st[u] \notin Mon!Holding
    BY <1>5, NullAssumption, SMTT(30) DEF AcquireOwn, Goto, Callers, Mon!Holding, TestedFree, OwnerIsRight, Owning
  <2> QED
    BY <2>1, <2>2 DEF Mon!Next, Mon!Enter, Mon!Move
<1>6. ASSUME NEW t \in Thread, AcquireUnspin(t) PROVE [Mon!Next]_st
  BY <1>6, NullAssumption, SMTT(30) DEF AcquireUnspin, Goto, lock_state, cv_state, Callers
<1>7. ASSUME NEW t \in Thread, lock_release(t) PROVE [Mon!Next]_st
  BY <1>7, NullAssumption, SMTT(30) DEF lock_release, Goto, lock_state, cv_state, Callers, SpinlocksHeld, InCvSpin, InRelease
<1>8. ASSUME NEW t \in Thread, ReleaseSpin(t) PROVE [Mon!Next]_st
  BY <1>8, NullAssumption, SMTT(30) DEF ReleaseSpin, Goto, lock_state, cv_state, Callers
<1>9. ASSUME NEW t \in Thread, ReleaseClear(t) PROVE [Mon!Next]_st
  <2>1. CASE cv_spinlock = t
    <3>1. st[t] = "in" /\ st' = [st EXCEPT ![t] = "wait"]
      BY <1>9, <2>1, ZenonT(120) DEF ReleaseClear, Goto, lock_state, cv_state, Callers
    <3> QED
      BY <3>1 DEF Mon!Next, Mon!Wait, Mon!Move
  <2>2. CASE cv_spinlock # t
    <3>1. st[t] = "in" /\ st' = [st EXCEPT ![t] = "out"]
      BY <1>9, <2>2, ZenonT(120) DEF ReleaseClear, Goto, lock_state, cv_state, Callers
    <3> QED
      BY <3>1 DEF Mon!Next, Mon!Leave, Mon!Move
  <2> QED
    BY <2>1, <2>2
<1>10. ASSUME NEW t \in Thread, ReleaseWake(t) PROVE [Mon!Next]_st
  <2>1. CASE lock_wchan = <<>>
    BY <1>10, <2>1, SMTT(30) DEF ReleaseWake, cv_state, Callers
  <2>2. CASE lock_wchan # <<>>
    <3>1. Head(lock_wchan) \in Thread /\ pc[Head(lock_wchan)] = "acq_asleep"
      BY <2>2, LeaveChannel DEF ChannelsAreSleepers
    <3> QED
      BY <1>10, <2>2, <3>1, SMTT(30) DEF ReleaseWake, cv_state, Callers
  <2> QED
    BY <2>1, <2>2
<1>11. ASSUME NEW t \in Thread, ReleaseUnspin(t) PROVE [Mon!Next]_st
  BY <1>11, NullAssumption, SMTT(30) DEF ReleaseUnspin, lock_state, cv_state, Callers
<1>12. ASSUME NEW t \in Thread, cv_wait(t) PROVE [Mon!Next]_st
  BY <1>12, NullAssumption, SMTT(30) DEF cv_wait, Goto, lock_state, cv_state, Callers
<1>13. ASSUME NEW t \in Thread, WaitSpin(t) PROVE [Mon!Next]_st
  BY <1>13, NullAssumption, SMTT(30) DEF WaitSpin, Goto, lock_state, cv_state, Callers, SpinlocksHeld, InCvSpin, InRelease
<1>14. ASSUME NEW t \in Thread, WaitSleep(t) PROVE [Mon!Next]_st
  BY <1>14, NullAssumption, SMTT(30) DEF WaitSleep, Goto, lock_state, cv_state, Callers, SpinlocksHeld, InCvSpin, InRelease
<1>15. ASSUME NEW t \in Thread, WaitWake(t) PROVE [Mon!Next]_st
  BY <1>15, NullAssumption, SMTT(30) DEF WaitWake, Goto, lock_state, cv_state, Callers, SpinlocksHeld, InCvSpin, InRelease
<1>16. ASSUME NEW t \in Thread, WaitUnspin(t) PROVE [Mon!Next]_st
  BY <1>16, NullAssumption, SMTT(30) DEF WaitUnspin, Goto, lock_state, cv_state, Callers, SpinlocksHeld, InCvSpin, InRelease
<1>17. ASSUME NEW t \in Thread, cv_signal(t) PROVE [Mon!Next]_st
  <2>1. st[t] = "in" /\ st' = [st EXCEPT ![t] = "signal"]
    BY <1>17, ZenonT(120) DEF cv_signal, Goto, lock_state, cv_state, Callers
  <2> QED
    BY <2>1 DEF Mon!Next, Mon!CallSignal, Mon!Move
<1>18. ASSUME NEW t \in Thread, cv_broadcast(t) PROVE [Mon!Next]_st
  <2>1. st[t] = "in" /\ st' = [st EXCEPT ![t] = "broadcast"]
    BY <1>18, ZenonT(120) DEF cv_broadcast, Goto, lock_state, cv_state, Callers
  <2> QED
    BY <2>1 DEF Mon!Next, Mon!CallBroadcast, Mon!Move
<1>19. ASSUME NEW t \in Thread, NotifySpin(t) PROVE [Mon!Next]_st
  BY <1>19, NullAssumption, SMTT(30) DEF NotifySpin, Goto, lock_state, cv_state, Callers, SpinlocksHeld, InCvSpin, InRelease
<1>20. ASSUME NEW t \in Thread, SignalWake(t) PROVE [Mon!Next]_st
  <2>1. cv_spinlock = t
    BY <1>20 DEF SignalWake, SpinlocksHeld, InCvSpin
  <2>2. CASE cv_wchan = <<>>
    <3>1. ToSet(cv_wchan) = {}
      BY <2>2, SMT DEF ToSet
    <3>2. \A u \in Thread : st[u] # "wait"
      BY <1>20, <2>1, <3>1, SMTT(30) DEF SignalWake, Callers, ChannelsAreSleepers, SpinlocksHeld, InCvSpin
    <3>3. st[t] = "signal" /\ st' = [st EXCEPT ![t] = "in"]
      BY <1>20, <2>1, <2>2, ZenonT(120) DEF SignalWake, cv_state, Callers
    <3> QED
      BY <3>2, <3>3 DEF Mon!Next, Mon!Signal, Mon!Move
  <2>3. CASE cv_wchan # <<>>
    <3> DEFINE h == Head(cv_wchan)
    <3>1. h \in Thread /\ pc[h] = "cv_asleep"
      BY <2>3, LeaveChannel DEF ChannelsAreSleepers
    <3>2. st[t] = "signal" /\ st[h] = "wait" /\ h # t
      BY <1>20, <3>1, SMTT(30) DEF SignalWake, Callers
    <3>3. st' = [st EXCEPT ![t] = "in", ![h] = "want"]
      BY <1>20, <2>1, <2>3, <3>1, ZenonT(120) DEF SignalWake, cv_state, Callers
    <3> QED
      BY <3>1, <3>2, <3>3 DEF Mon!Next, Mon!Signal
  <2> QED
    BY <2>2, <2>3
<1>21. ASSUME NEW t \in Thread, BroadcastWake(t) PROVE [Mon!Next]_st
  <2>1. cv_spinlock = t /\ cv_spinlock' = t
    BY <1>21 DEF BroadcastWake, SpinlocksHeld, InCvSpin
  <2>2. \A u \in Thread : u \in ToSet(cv_wchan) <=> st[u] = "wait"
    BY <1>21, <2>1, SMTT(30) DEF BroadcastWake, Callers, ChannelsAreSleepers, SpinlocksHeld, InCvSpin
  <2>3. \A u \in Thread : pc'[u] = IF u = t THEN "bc_unspin"
                                   ELSE IF u \in ToSet(cv_wchan) THEN "cv_wake" ELSE pc[u]
    BY <1>21 DEF BroadcastWake
  <2>4. st[t] = "broadcast"
    BY <1>21, SMTT(30) DEF BroadcastWake, Callers
  <2>5. \A u \in Thread : Callers(u)' = IF u = t THEN "in"
                                        ELSE IF st[u] = "wait" THEN "want" ELSE st[u]
    BY <2>1, <2>2, <2>3, SMTT(30) DEF Callers
  <2> QED
    BY <2>4, <2>5 DEF Mon!Next, Mon!Broadcast
<1>22. ASSUME NEW t \in Thread, NotifyUnspin(t) PROVE [Mon!Next]_st
  BY <1>22, NullAssumption, SMTT(30) DEF NotifyUnspin, Goto, lock_state, cv_state, Callers, SpinlocksHeld, InCvSpin, InRelease
<1>23. ASSUME UNCHANGED vars PROVE [Mon!Next]_st
  BY <1>23, SMTT(30) DEF vars, Callers
<1> HIDE DEF st
<1> QED
  BY <1>1, <1>2, <1>3, <1>4, <1>5, <1>6, <1>7, <1>8, <1>9, <1>10, <1>11, <1>12, <1>13, <1>14, <1>15, <1>16, <1>17, <1>18, <1>19, <1>20, <1>21, <1>22, <1>23 DEF Next, Call, KernelStep

\* The lock and the condition variable of synch.c implement the monitor
\* (ImplementsMonitor): no two threads inside, no signal lost.
THEOREM Implements == Spec => ImplementsMonitor
<1>1. Init => Mon!Init
  BY DEF Init, lock_create, cv_create, Mon!Init, Callers, st
<1> QED
  BY <1>1, Invariance, StepSimulation, PTL DEF Spec, ImplementsMonitor, Mon!Spec
=============================================================================
