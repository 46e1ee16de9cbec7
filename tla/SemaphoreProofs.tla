-------------------------- MODULE SemaphoreProofs --------------------------
(***************************************************************************)
(* Proofs about Semaphore, for every finite set of threads, every initial  *)
(* count and every bound on the V.                                         *)
(***************************************************************************)
EXTENDS Semaphore, FiniteSetTheorems, TLAPS

\* Zenon proves the leaves that need no arithmetic; the others name their prover.
USE ZenonT(30)

\* Threads in V that have not counted yet, and in P that have taken a unit and
\* not left yet.
Counting == {t \in Thread : pc[t] \in {"V_acquire", "V_count"}}
Leaving == {t \in Thread : pc[t] = "P_release"}

\* P takes only after its test, and what V has added stays until V lets go of
\* the spinlock.
UnitsInside ==
    \A t \in Thread : pc[t] \in {"P_take", "V_wake", "V_release"} => sem_count > 0

\* Every unit is in the count, still to come, or taken.
Balance ==
    sem_count + Cardinality(Counting) + Cardinality(Leaving) + ps = Initial + vs

IInv == /\ TypeOK
        /\ SpinlockHeld
        /\ ChannelIsSleepers
        /\ UnitsInside
        /\ NoLostWakeup
        /\ Balance
        /\ DestroyedUnused

-----------------------------------------------------------------------------
\* The channel as a queue: what joining it and leaving it do to its members.
LEMMA JoinChannel ==
    ASSUME NEW S, NEW q \in Seq(S), NEW t \in S, IsInjective(q), t \notin ToSet(q)
    PROVE  /\ Append(q, t) \in Seq(S)
           /\ IsInjective(Append(q, t))
           /\ ToSet(Append(q, t)) = ToSet(q) \cup {t}
BY SMT DEF IsInjective, ToSet

\* The head leaves, the others stay.
LEMMA LeaveChannel ==
    ASSUME NEW S, NEW q \in Seq(S), IsInjective(q), q # <<>>
    PROVE  /\ Head(q) \in S
           /\ Head(q) \in ToSet(q)
           /\ Tail(q) \in Seq(S)
           /\ IsInjective(Tail(q))
           /\ ToSet(Tail(q)) = ToSet(q) \ {Head(q)}
<1>1. Head(q) \in S /\ Head(q) = q[1] /\ Tail(q) \in Seq(S) /\ Len(q) \in Nat /\ Len(q) > 0
  BY SMT
<1>2. Head(q) \in ToSet(q)
  BY <1>1, SMT DEF ToSet
<1>3. IsInjective(Tail(q))
  BY <1>1, SMT DEF IsInjective
<1>4. ToSet(Tail(q)) \subseteq ToSet(q) \ {Head(q)}
  BY <1>1, SMT DEF ToSet, IsInjective
<1>5. ASSUME NEW x \in ToSet(q), x # Head(q)
      PROVE  x \in ToSet(Tail(q))
  <2>1. PICK i \in DOMAIN q : x = q[i]
    BY DEF ToSet
  <2>2. i \in 2..Len(q)
    BY <2>1, <1>1, <1>5, SMTT(30)
  <2>3. i - 1 \in DOMAIN Tail(q) /\ Tail(q)[i - 1] = x
    BY <2>1, <2>2, <1>1, SMTT(30)
  <2> QED
    BY <2>3 DEF ToSet
<1> QED
  BY <1>1, <1>2, <1>3, <1>4, <1>5

\* Every action keeps the types.
LEMMA TypeStep ==
    ASSUME TypeOK, UnitsInside, IsInjective(sem_wchan), [Next]_vars
    PROVE  TypeOK'
<1> USE DEF TypeOK, Labels
<1>1. ASSUME NEW t \in Thread, P(t) PROVE TypeOK'
  BY <1>1, ThreadAssumption DEF P, Goto
<1>2. ASSUME NEW t \in Thread, V(t) PROVE TypeOK'
  BY <1>2, ThreadAssumption, SMT DEF V, Goto
<1>3. ASSUME NEW t \in Thread, P_Acquire(t) PROVE TypeOK'
  BY <1>3, ThreadAssumption DEF P_Acquire, Goto, spinlock_acquire
<1>4. ASSUME NEW t \in Thread, P_Sleep(t) PROVE TypeOK'
  BY <1>4, ThreadAssumption, SMT DEF P_Sleep, wchan_sleep, spinlock_release
<1>5. ASSUME NEW t \in Thread, P_Wake(t) PROVE TypeOK'
  BY <1>5, ThreadAssumption DEF P_Wake, Goto, spinlock_acquire
<1>6. ASSUME NEW t \in Thread, P_Test(t) PROVE TypeOK'
  BY <1>6, ThreadAssumption DEF P_Test, Goto
<1>7. ASSUME NEW t \in Thread, P_Take(t) PROVE TypeOK'
  BY <1>7, SMT DEF P_Take, Goto, UnitsInside
<1>8. ASSUME NEW t \in Thread, P_Release(t) PROVE TypeOK'
  BY <1>8, ThreadAssumption, SMT DEF P_Release, Goto, spinlock_release
<1>9. ASSUME NEW t \in Thread, V_Acquire(t) PROVE TypeOK'
  BY <1>9, ThreadAssumption DEF V_Acquire, Goto, spinlock_acquire
<1>10. ASSUME NEW t \in Thread, V_Count(t) PROVE TypeOK'
  BY <1>10, ThreadAssumption, SMT DEF V_Count, Goto
<1>11. ASSUME NEW t \in Thread, V_Wake(t) PROVE TypeOK'
  <2>1. CASE sem_wchan = <<>>
    BY <1>11, <2>1 DEF V_Wake, wchan_wakeone
  <2>2. CASE sem_wchan # <<>>
    <3>1. Head(sem_wchan) \in Thread /\ Tail(sem_wchan) \in Seq(Thread)
      BY <2>2, LeaveChannel
    <3> QED
      BY <1>11, <2>2, <3>1 DEF V_Wake, wchan_wakeone
  <2> QED
    BY <2>1, <2>2
<1>12. ASSUME NEW t \in Thread, V_Release(t) PROVE TypeOK'
  BY <1>12, ThreadAssumption DEF V_Release, Goto, spinlock_release
<1>13. ASSUME NEW t \in Thread, sem_destroy(t) PROVE TypeOK'
  BY <1>13, ThreadAssumption DEF sem_destroy
<1>14. ASSUME UNCHANGED vars PROVE TypeOK'
  BY <1>14 DEF vars
<1> QED
  BY <1>1, <1>2, <1>3, <1>4, <1>5, <1>6, <1>7, <1>8, <1>9, <1>10, <1>11, <1>12, <1>13, <1>14 DEF Next, KernelStep

\* One thread at a time is inside.
LEMMA LockStep ==
    ASSUME TypeOK, SpinlockHeld, ChannelIsSleepers, [Next]_vars
    PROVE  SpinlockHeld'
<1> USE DEF TypeOK, SpinlockHeld, Inside
<1>1. ASSUME NEW t \in Thread, P(t) PROVE SpinlockHeld'
  BY <1>1, ThreadAssumption DEF P, Goto
<1>2. ASSUME NEW t \in Thread, V(t) PROVE SpinlockHeld'
  BY <1>2, ThreadAssumption DEF V, Goto
<1>3. ASSUME NEW t \in Thread, P_Acquire(t) PROVE SpinlockHeld'
  BY <1>3, ThreadAssumption DEF P_Acquire, Goto, spinlock_acquire
<1>4. ASSUME NEW t \in Thread, P_Sleep(t) PROVE SpinlockHeld'
  BY <1>4, ThreadAssumption DEF P_Sleep, wchan_sleep, spinlock_release
<1>5. ASSUME NEW t \in Thread, P_Wake(t) PROVE SpinlockHeld'
  BY <1>5, ThreadAssumption DEF P_Wake, Goto, spinlock_acquire
<1>6. ASSUME NEW t \in Thread, P_Test(t) PROVE SpinlockHeld'
  BY <1>6, ThreadAssumption DEF P_Test, Goto
<1>7. ASSUME NEW t \in Thread, P_Take(t) PROVE SpinlockHeld'
  BY <1>7, ThreadAssumption DEF P_Take, Goto
<1>8. ASSUME NEW t \in Thread, P_Release(t) PROVE SpinlockHeld'
  BY <1>8, ThreadAssumption DEF P_Release, Goto, spinlock_release
<1>9. ASSUME NEW t \in Thread, V_Acquire(t) PROVE SpinlockHeld'
  BY <1>9, ThreadAssumption DEF V_Acquire, Goto, spinlock_acquire
<1>10. ASSUME NEW t \in Thread, V_Count(t) PROVE SpinlockHeld'
  BY <1>10, ThreadAssumption DEF V_Count, Goto
<1>11. ASSUME NEW t \in Thread, V_Wake(t) PROVE SpinlockHeld'
  <2>1. CASE sem_wchan = <<>>
    BY <1>11, <2>1 DEF V_Wake, wchan_wakeone
  <2>2. CASE sem_wchan # <<>>
    <3>1. Head(sem_wchan) \in Thread /\ pc[Head(sem_wchan)] = "P_asleep"
      BY <2>2, LeaveChannel DEF ChannelIsSleepers
    <3> QED
      BY <1>11, <2>2, <3>1 DEF V_Wake, wchan_wakeone
  <2> QED
    BY <2>1, <2>2
<1>12. ASSUME NEW t \in Thread, V_Release(t) PROVE SpinlockHeld'
  BY <1>12, ThreadAssumption DEF V_Release, Goto, spinlock_release
<1>13. ASSUME NEW t \in Thread, sem_destroy(t) PROVE SpinlockHeld'
  BY <1>13, ThreadAssumption DEF sem_destroy
<1>14. ASSUME UNCHANGED vars PROVE SpinlockHeld'
  BY <1>14 DEF vars
<1> QED
  BY <1>1, <1>2, <1>3, <1>4, <1>5, <1>6, <1>7, <1>8, <1>9, <1>10, <1>11, <1>12, <1>13, <1>14, SMTT(30) DEF Next, KernelStep

\* The channel holds the sleepers, once each.
LEMMA ChannelStep ==
    ASSUME TypeOK, ChannelIsSleepers, [Next]_vars
    PROVE  ChannelIsSleepers'
<1> USE DEF TypeOK, ChannelIsSleepers
<1>1. ASSUME NEW t \in Thread, P(t) PROVE ChannelIsSleepers'
  BY <1>1 DEF P, Goto
<1>2. ASSUME NEW t \in Thread, V(t) PROVE ChannelIsSleepers'
  BY <1>2 DEF V, Goto
<1>3. ASSUME NEW t \in Thread, P_Acquire(t) PROVE ChannelIsSleepers'
  BY <1>3 DEF P_Acquire, Goto, spinlock_acquire
<1>4. ASSUME NEW t \in Thread, P_Sleep(t) PROVE ChannelIsSleepers'
  <2>1. t \notin ToSet(sem_wchan)
    BY <1>4 DEF P_Sleep
  <2>2. IsInjective(sem_wchan') /\ ToSet(sem_wchan') = ToSet(sem_wchan) \cup {t}
    BY <1>4, <2>1, JoinChannel, SMT DEF P_Sleep, wchan_sleep
  <2> QED
    BY <1>4, <2>2 DEF P_Sleep, wchan_sleep
<1>5. ASSUME NEW t \in Thread, P_Wake(t) PROVE ChannelIsSleepers'
  BY <1>5 DEF P_Wake, Goto, spinlock_acquire
<1>6. ASSUME NEW t \in Thread, P_Test(t) PROVE ChannelIsSleepers'
  BY <1>6 DEF P_Test, Goto
<1>7. ASSUME NEW t \in Thread, P_Take(t) PROVE ChannelIsSleepers'
  BY <1>7 DEF P_Take, Goto
<1>8. ASSUME NEW t \in Thread, P_Release(t) PROVE ChannelIsSleepers'
  BY <1>8 DEF P_Release, Goto, spinlock_release
<1>9. ASSUME NEW t \in Thread, V_Acquire(t) PROVE ChannelIsSleepers'
  BY <1>9 DEF V_Acquire, Goto, spinlock_acquire
<1>10. ASSUME NEW t \in Thread, V_Count(t) PROVE ChannelIsSleepers'
  BY <1>10 DEF V_Count, Goto
<1>11. ASSUME NEW t \in Thread, V_Wake(t) PROVE ChannelIsSleepers'
  <2>1. CASE sem_wchan = <<>>
    BY <1>11, <2>1 DEF V_Wake, wchan_wakeone
  <2>2. CASE sem_wchan # <<>>
    <3>1. /\ Head(sem_wchan) \in Thread
          /\ IsInjective(sem_wchan')
          /\ ToSet(sem_wchan') = ToSet(sem_wchan) \ {Head(sem_wchan)}
      BY <1>11, <2>2, LeaveChannel DEF V_Wake, wchan_wakeone
    <3> QED
      BY <1>11, <2>2, <3>1 DEF V_Wake, wchan_wakeone
  <2> QED
    BY <2>1, <2>2
<1>12. ASSUME NEW t \in Thread, V_Release(t) PROVE ChannelIsSleepers'
  BY <1>12 DEF V_Release, Goto, spinlock_release
<1>13. ASSUME NEW t \in Thread, sem_destroy(t) PROVE ChannelIsSleepers'
  BY <1>13 DEF sem_destroy
<1>14. ASSUME UNCHANGED vars PROVE ChannelIsSleepers'
  BY <1>14 DEF vars
<1> QED
  BY <1>1, <1>2, <1>3, <1>4, <1>5, <1>6, <1>7, <1>8, <1>9, <1>10, <1>11, <1>12, <1>13, <1>14, SMTT(30) DEF Next, KernelStep

\* Only the holder of the spinlock changes the count.
LEMMA UnitsStep ==
    ASSUME TypeOK, SpinlockHeld, ChannelIsSleepers, UnitsInside, [Next]_vars
    PROVE  UnitsInside'
<1> USE DEF TypeOK, UnitsInside
<1>1. ASSUME NEW t \in Thread, P(t) PROVE UnitsInside'
  BY <1>1, ThreadAssumption DEF P, Goto
<1>2. ASSUME NEW t \in Thread, V(t) PROVE UnitsInside'
  BY <1>2, ThreadAssumption DEF V, Goto
<1>3. ASSUME NEW t \in Thread, P_Acquire(t) PROVE UnitsInside'
  BY <1>3 DEF P_Acquire, Goto
<1>4. ASSUME NEW t \in Thread, P_Sleep(t) PROVE UnitsInside'
  BY <1>4, ThreadAssumption DEF P_Sleep, wchan_sleep, spinlock_release
<1>5. ASSUME NEW t \in Thread, P_Wake(t) PROVE UnitsInside'
  BY <1>5 DEF P_Wake, Goto
<1>6. ASSUME NEW t \in Thread, P_Test(t) PROVE UnitsInside'
  BY <1>6, ThreadAssumption DEF P_Test, Goto
<1>7. ASSUME NEW t \in Thread, P_Take(t) PROVE UnitsInside'
  BY <1>7 DEF P_Take, Goto, SpinlockHeld, Inside
<1>8. ASSUME NEW t \in Thread, P_Release(t) PROVE UnitsInside'
  BY <1>8, ThreadAssumption DEF P_Release, Goto, spinlock_release
<1>9. ASSUME NEW t \in Thread, V_Acquire(t) PROVE UnitsInside'
  BY <1>9, ThreadAssumption DEF V_Acquire, Goto, spinlock_acquire
<1>10. ASSUME NEW t \in Thread, V_Count(t) PROVE UnitsInside'
  BY <1>10, ThreadAssumption, SMT DEF V_Count, Goto
<1>11. ASSUME NEW t \in Thread, V_Wake(t) PROVE UnitsInside'
  <2>1. CASE sem_wchan = <<>>
    BY <1>11, <2>1 DEF V_Wake, wchan_wakeone
  <2>2. CASE sem_wchan # <<>>
    <3>1. Head(sem_wchan) \in Thread /\ pc[Head(sem_wchan)] = "P_asleep"
      BY <2>2, LeaveChannel DEF ChannelIsSleepers
    <3> QED
      BY <1>11, <2>2, <3>1 DEF V_Wake, wchan_wakeone
  <2> QED
    BY <2>1, <2>2
<1>12. ASSUME NEW t \in Thread, V_Release(t) PROVE UnitsInside'
  BY <1>12, ThreadAssumption DEF V_Release, Goto, spinlock_release
<1>13. ASSUME NEW t \in Thread, sem_destroy(t) PROVE UnitsInside'
  BY <1>13, ThreadAssumption DEF sem_destroy
<1>14. ASSUME UNCHANGED vars PROVE UnitsInside'
  BY <1>14 DEF vars
<1> QED
  BY <1>1, <1>2, <1>3, <1>4, <1>5, <1>6, <1>7, <1>8, <1>9, <1>10, <1>11, <1>12, <1>13, <1>14, SMTT(30) DEF Next, KernelStep

\* A thread goes off its way only with a unit, or having sent another on its way.
LEMMA WakeupStep ==
    ASSUME TypeOK, ChannelIsSleepers, NoLostWakeup, [Next]_vars
    PROVE  NoLostWakeup'
<1> USE DEF TypeOK, NoLostWakeup
<1>a. IsFiniteSet(OnTheWay) /\ Cardinality(OnTheWay) \in Nat
  BY ThreadAssumption, FS_Subset, FS_CardinalityType DEF OnTheWay
<1>b. Cardinality(OnTheWay') \in Nat
  BY ThreadAssumption, FS_Subset, FS_CardinalityType DEF OnTheWay
<1>1. ASSUME NEW t \in Thread, P(t) PROVE NoLostWakeup'
  <2>1. OnTheWay' = OnTheWay
    BY <1>1 DEF P, Goto, OnTheWay
  <2> QED
    BY <1>1, <2>1 DEF P, Goto
<1>2. ASSUME NEW t \in Thread, V(t) PROVE NoLostWakeup'
  <2>1. OnTheWay' = OnTheWay
    BY <1>2 DEF V, Goto, OnTheWay
  <2> QED
    BY <1>2, <2>1 DEF V, Goto
<1>3. ASSUME NEW t \in Thread, P_Acquire(t) PROVE NoLostWakeup'
  <2>1. OnTheWay' = OnTheWay \cup {t} /\ t \notin OnTheWay
    BY <1>3 DEF P_Acquire, Goto, OnTheWay
  <2>2. Cardinality(OnTheWay') = Cardinality(OnTheWay) + 1
    BY <2>1, <1>a, FS_AddElement
  <2> QED
    BY <1>3, <2>2, <1>a, SMT DEF P_Acquire
<1>4. ASSUME NEW t \in Thread, P_Sleep(t) PROVE NoLostWakeup'
  <2>1. sem_count' = 0
    BY <1>4 DEF P_Sleep
  <2> QED
    BY <2>1, <1>b, SMT
<1>5. ASSUME NEW t \in Thread, P_Wake(t) PROVE NoLostWakeup'
  <2>1. OnTheWay' = OnTheWay
    BY <1>5 DEF P_Wake, Goto, spinlock_acquire, OnTheWay
  <2> QED
    BY <1>5, <2>1 DEF P_Wake, Goto, spinlock_acquire
<1>6. ASSUME NEW t \in Thread, P_Test(t) PROVE NoLostWakeup'
  <2>1. OnTheWay' = OnTheWay
    BY <1>6 DEF P_Test, Goto, OnTheWay
  <2> QED
    BY <1>6, <2>1 DEF P_Test, Goto
<1>7. ASSUME NEW t \in Thread, P_Take(t) PROVE NoLostWakeup'
  <2>1. OnTheWay' = OnTheWay \ {t} /\ t \in OnTheWay
    BY <1>7 DEF P_Take, Goto, OnTheWay
  <2>2. Cardinality(OnTheWay') = Cardinality(OnTheWay) - 1
    BY <2>1, <1>a, FS_RemoveElement
  <2> QED
    BY <1>7, <2>2, <1>a, SMTT(30) DEF P_Take
<1>8. ASSUME NEW t \in Thread, P_Release(t) PROVE NoLostWakeup'
  <2>1. OnTheWay' = OnTheWay
    BY <1>8 DEF P_Release, Goto, spinlock_release, OnTheWay
  <2> QED
    BY <1>8, <2>1 DEF P_Release, Goto, spinlock_release
<1>9. ASSUME NEW t \in Thread, V_Acquire(t) PROVE NoLostWakeup'
  <2>1. OnTheWay' = OnTheWay
    BY <1>9 DEF V_Acquire, Goto, spinlock_acquire, OnTheWay
  <2> QED
    BY <1>9, <2>1 DEF V_Acquire, Goto, spinlock_acquire
<1>10. ASSUME NEW t \in Thread, V_Count(t) PROVE NoLostWakeup'
  <2>1. OnTheWay' = OnTheWay \cup {t} /\ t \notin OnTheWay
    BY <1>10 DEF V_Count, Goto, OnTheWay
  <2>2. Cardinality(OnTheWay') = Cardinality(OnTheWay) + 1
    BY <2>1, <1>a, FS_AddElement
  <2> QED
    BY <1>10, <2>2, <1>a, SMTT(30) DEF V_Count
<1>11. ASSUME NEW t \in Thread, V_Wake(t) PROVE NoLostWakeup'
  <2>1. CASE sem_wchan = <<>>
    BY <1>11, <2>1 DEF V_Wake, wchan_wakeone
  <2>2. CASE sem_wchan # <<>>
    <3> DEFINE h == Head(sem_wchan)
    <3>1. h \in Thread /\ pc[h] = "P_asleep"
      BY <2>2, LeaveChannel DEF ChannelIsSleepers
    <3>2. /\ t \in OnTheWay /\ h \notin OnTheWay /\ h # t
          /\ OnTheWay' = (OnTheWay \ {t}) \cup {h}
      BY <1>11, <2>2, <3>1 DEF V_Wake, wchan_wakeone, OnTheWay
    <3> HIDE DEF h
    <3>3. /\ IsFiniteSet(OnTheWay \ {t})
          /\ Cardinality(OnTheWay \ {t}) = Cardinality(OnTheWay) - 1
      BY <3>2, <1>a, FS_RemoveElement
    <3>4. Cardinality(OnTheWay') = Cardinality(OnTheWay \ {t}) + 1
      BY <3>2, <3>3, FS_AddElement
    <3> QED
      BY <1>11, <2>2, <3>3, <3>4, <1>a, SMTT(30) DEF V_Wake
  <2> QED
    BY <2>1, <2>2
<1>12. ASSUME NEW t \in Thread, V_Release(t) PROVE NoLostWakeup'
  <2>1. OnTheWay' = OnTheWay
    BY <1>12 DEF V_Release, Goto, spinlock_release, OnTheWay
  <2> QED
    BY <1>12, <2>1 DEF V_Release, Goto, spinlock_release
<1>13. ASSUME NEW t \in Thread, sem_destroy(t) PROVE NoLostWakeup'
  <2>1. OnTheWay' = OnTheWay
    BY <1>13 DEF sem_destroy, OnTheWay
  <2> QED
    BY <1>13, <2>1 DEF sem_destroy
<1>14. ASSUME UNCHANGED vars PROVE NoLostWakeup'
  BY <1>14 DEF vars, OnTheWay
<1> QED
  BY <1>1, <1>2, <1>3, <1>4, <1>5, <1>6, <1>7, <1>8, <1>9, <1>10, <1>11, <1>12, <1>13, <1>14 DEF Next, KernelStep

\* Units are neither made nor lost.
LEMMA BalanceStep ==
    ASSUME TypeOK, ChannelIsSleepers, Balance, [Next]_vars
    PROVE  Balance'
<1>a. /\ IsFiniteSet(Counting) /\ Cardinality(Counting) \in Nat
      /\ IsFiniteSet(Leaving) /\ Cardinality(Leaving) \in Nat
  BY ThreadAssumption, FS_Subset, FS_CardinalityType DEF Counting, Leaving
<1>b. sem_count \in Nat /\ vs \in Nat /\ ps \in Nat
  BY DEF TypeOK
<1>1. ASSUME NEW t \in Thread, P(t) PROVE Balance'
  <2>1. Counting' = Counting /\ Leaving' = Leaving
    BY <1>1 DEF P, Goto, Counting, Leaving, TypeOK
  <2> QED
    BY <1>1, <2>1 DEF P, Goto, Balance
<1>2. ASSUME NEW t \in Thread, V(t) PROVE Balance'
  <2>1. Counting' = Counting \cup {t} /\ t \notin Counting /\ Leaving' = Leaving
    BY <1>2 DEF V, Goto, Counting, Leaving, TypeOK
  <2>2. Cardinality(Counting') = Cardinality(Counting) + 1
    BY <2>1, <1>a, FS_AddElement
  <2>3. sem_count' = sem_count /\ ps' = ps /\ vs' = vs + 1
    BY <1>2 DEF V
  <2>4. Cardinality(Leaving') = Cardinality(Leaving)
    BY <2>1
  <2>5. \A a, b, c, d, i, v \in Nat :
           a + b + c + d = i + v => a + (b + 1) + c + d = i + (v + 1)
    BY SMT
  <2> QED
    BY <2>2, <2>3, <2>4, <2>5, <1>a, <1>b, InitialAssumption, SMTT(30) DEF Balance
<1>3. ASSUME NEW t \in Thread, P_Acquire(t) PROVE Balance'
  <2>1. Counting' = Counting /\ Leaving' = Leaving
    BY <1>3 DEF P_Acquire, Goto, spinlock_acquire, Counting, Leaving, TypeOK
  <2> QED
    BY <1>3, <2>1 DEF P_Acquire, Goto, spinlock_acquire, Balance
<1>4. ASSUME NEW t \in Thread, P_Sleep(t) PROVE Balance'
  <2>1. Counting' = Counting /\ Leaving' = Leaving
    BY <1>4 DEF P_Sleep, wchan_sleep, spinlock_release, Counting, Leaving, TypeOK
  <2> QED
    BY <1>4, <2>1 DEF P_Sleep, wchan_sleep, spinlock_release, Balance
<1>5. ASSUME NEW t \in Thread, P_Wake(t) PROVE Balance'
  <2>1. Counting' = Counting /\ Leaving' = Leaving
    BY <1>5 DEF P_Wake, Goto, spinlock_acquire, Counting, Leaving, TypeOK
  <2> QED
    BY <1>5, <2>1 DEF P_Wake, Goto, spinlock_acquire, Balance
<1>6. ASSUME NEW t \in Thread, P_Test(t) PROVE Balance'
  <2>1. Counting' = Counting /\ Leaving' = Leaving
    BY <1>6 DEF P_Test, Goto, Counting, Leaving, TypeOK
  <2> QED
    BY <1>6, <2>1 DEF P_Test, Goto, Balance
<1>7. ASSUME NEW t \in Thread, P_Take(t) PROVE Balance'
  <2>1. Leaving' = Leaving \cup {t} /\ t \notin Leaving /\ Counting' = Counting
    BY <1>7 DEF P_Take, Goto, Counting, Leaving, TypeOK
  <2>2. Cardinality(Leaving') = Cardinality(Leaving) + 1
    BY <2>1, <1>a, FS_AddElement
  <2>3. sem_count' = sem_count - 1 /\ ps' = ps /\ vs' = vs
    BY <1>7 DEF P_Take
  <2>4. Cardinality(Counting') = Cardinality(Counting)
    BY <2>1
  <2>5. \A a, b, c, d \in Nat : (a - 1) + b + (c + 1) + d = a + b + c + d
    BY SMT
  <2> QED
    BY <2>2, <2>3, <2>4, <2>5, <1>a, <1>b, SMTT(30) DEF Balance
<1>8. ASSUME NEW t \in Thread, P_Release(t) PROVE Balance'
  <2>1. Leaving' = Leaving \ {t} /\ t \in Leaving /\ Counting' = Counting
    BY <1>8 DEF P_Release, Goto, spinlock_release, Counting, Leaving, TypeOK
  <2>2. Cardinality(Leaving') = Cardinality(Leaving) - 1
    BY <2>1, <1>a, FS_RemoveElement
  <2>3. sem_count' = sem_count /\ ps' = ps + 1 /\ vs' = vs
    BY <1>8 DEF P_Release
  <2>4. Cardinality(Counting') = Cardinality(Counting)
    BY <2>1
  <2>5. \A a, b, c, d \in Nat : a + b + (c - 1) + (d + 1) = a + b + c + d
    BY SMT
  <2> QED
    BY <2>2, <2>3, <2>4, <2>5, <1>a, <1>b, SMTT(30) DEF Balance
<1>9. ASSUME NEW t \in Thread, V_Acquire(t) PROVE Balance'
  <2>1. Counting' = Counting /\ Leaving' = Leaving
    BY <1>9 DEF V_Acquire, Goto, spinlock_acquire, Counting, Leaving, TypeOK
  <2> QED
    BY <1>9, <2>1 DEF V_Acquire, Goto, spinlock_acquire, Balance
<1>10. ASSUME NEW t \in Thread, V_Count(t) PROVE Balance'
  <2>1. Counting' = Counting \ {t} /\ t \in Counting /\ Leaving' = Leaving
    BY <1>10 DEF V_Count, Goto, Counting, Leaving, TypeOK
  <2>2. Cardinality(Counting') = Cardinality(Counting) - 1
    BY <2>1, <1>a, FS_RemoveElement
  <2>3. sem_count' = sem_count + 1 /\ ps' = ps /\ vs' = vs
    BY <1>10 DEF V_Count
  <2>4. Cardinality(Leaving') = Cardinality(Leaving)
    BY <2>1
  <2>5. \A a, b, c, d \in Nat : (a + 1) + (b - 1) + c + d = a + b + c + d
    BY SMT
  <2> QED
    BY <2>2, <2>3, <2>4, <2>5, <1>a, <1>b, SMTT(30) DEF Balance
<1>11. ASSUME NEW t \in Thread, V_Wake(t) PROVE Balance'
  <2>1. Counting' = Counting /\ Leaving' = Leaving
    <3>1. CASE sem_wchan = <<>>
      BY <1>11, <3>1 DEF V_Wake, wchan_wakeone, Counting, Leaving, TypeOK
    <3>2. CASE sem_wchan # <<>>
      <4>1. Head(sem_wchan) \in Thread /\ pc[Head(sem_wchan)] = "P_asleep"
        BY <3>2, LeaveChannel DEF ChannelIsSleepers, TypeOK
      <4> QED
        BY <1>11, <3>2, <4>1 DEF V_Wake, wchan_wakeone, Counting, Leaving, TypeOK
    <3> QED
      BY <3>1, <3>2
  <2> QED
    BY <1>11, <2>1 DEF V_Wake, Balance
<1>12. ASSUME NEW t \in Thread, V_Release(t) PROVE Balance'
  <2>1. Counting' = Counting /\ Leaving' = Leaving
    BY <1>12 DEF V_Release, Goto, spinlock_release, Counting, Leaving, TypeOK
  <2> QED
    BY <1>12, <2>1 DEF V_Release, Goto, spinlock_release, Balance
<1>13. ASSUME NEW t \in Thread, sem_destroy(t) PROVE Balance'
  <2>1. Counting' = Counting /\ Leaving' = Leaving
    BY <1>13 DEF sem_destroy, Counting, Leaving, TypeOK
  <2> QED
    BY <1>13, <2>1 DEF sem_destroy, Balance
<1>14. ASSUME UNCHANGED vars PROVE Balance'
  BY <1>14 DEF vars, Counting, Leaving, Balance
<1> QED
  BY <1>1, <1>2, <1>3, <1>4, <1>5, <1>6, <1>7, <1>8, <1>9, <1>10, <1>11, <1>12, <1>13, <1>14, SMTT(30) DEF Next, KernelStep

\* The last P returns after the last V has let go.
LEMMA DestroyStep ==
    ASSUME TypeOK, ChannelIsSleepers, UnitsInside, Balance, DestroyedUnused, [Next]_vars
    PROVE  DestroyedUnused'
<1> USE DEF DestroyedUnused
<1>1. ASSUME NEW t \in Thread, P(t) PROVE DestroyedUnused'
  BY <1>1 DEF P, Goto
<1>2. ASSUME NEW t \in Thread, V(t) PROVE DestroyedUnused'
  BY <1>2 DEF V, Goto
<1>3. ASSUME NEW t \in Thread, P_Acquire(t) PROVE DestroyedUnused'
  BY <1>3 DEF P_Acquire, Goto, spinlock_acquire
<1>4. ASSUME NEW t \in Thread, P_Sleep(t) PROVE DestroyedUnused'
  BY <1>4 DEF P_Sleep
<1>5. ASSUME NEW t \in Thread, P_Wake(t) PROVE DestroyedUnused'
  BY <1>5 DEF P_Wake, Goto, spinlock_acquire
<1>6. ASSUME NEW t \in Thread, P_Test(t) PROVE DestroyedUnused'
  BY <1>6 DEF P_Test, Goto
<1>7. ASSUME NEW t \in Thread, P_Take(t) PROVE DestroyedUnused'
  BY <1>7 DEF P_Take, Goto
<1>8. ASSUME NEW t \in Thread, P_Release(t) PROVE DestroyedUnused'
  BY <1>8 DEF P_Release, Goto, spinlock_release
<1>9. ASSUME NEW t \in Thread, V_Acquire(t) PROVE DestroyedUnused'
  BY <1>9 DEF V_Acquire, Goto, spinlock_acquire
<1>10. ASSUME NEW t \in Thread, V_Count(t) PROVE DestroyedUnused'
  BY <1>10 DEF V_Count, Goto
<1>11. ASSUME NEW t \in Thread, V_Wake(t) PROVE DestroyedUnused'
  BY <1>11 DEF V_Wake
<1>12. ASSUME NEW t \in Thread, V_Release(t) PROVE DestroyedUnused'
  BY <1>12 DEF V_Release, Goto, spinlock_release
<1>13. ASSUME NEW t \in Thread, sem_destroy(t) PROVE DestroyedUnused'
  <2>1. /\ IsFiniteSet(Counting) /\ Cardinality(Counting) \in Nat
        /\ IsFiniteSet(Leaving) /\ Cardinality(Leaving) \in Nat
    BY ThreadAssumption, FS_Subset, FS_CardinalityType DEF Counting, Leaving
  <2>2. sem_count = 0 /\ Cardinality(Counting) = 0
    BY <1>13, <2>1, InitialAssumption, SMTT(30) DEF sem_destroy, TypeOK, Balance
  <2>3. Counting = {}
    BY <2>1, <2>2, FS_EmptySet
  <2>4. \A u \in Thread : pc[u] = "out"
    BY <1>13, <2>2, <2>3, SMTT(30) DEF sem_destroy, UnitsInside, Counting
  <2>5. ToSet(sem_wchan) = {}
    BY <2>4, SMT DEF ChannelIsSleepers, TypeOK, ToSet
  <2>6. sem_wchan = <<>>
    <3>1. sem_wchan \in Seq(Thread) /\ DOMAIN sem_wchan = 1..Len(sem_wchan) /\ Len(sem_wchan) \in Nat
      BY SMT DEF TypeOK
    <3>2. Len(sem_wchan) # 0 => sem_wchan[1] \in ToSet(sem_wchan)
      BY <3>1, SMT DEF ToSet
    <3> QED
      BY <2>5, <3>1, <3>2, SMTT(30)
  <2> QED
    BY <1>13, <2>4, <2>6 DEF sem_destroy
<1>14. ASSUME UNCHANGED vars PROVE DestroyedUnused'
  BY <1>14 DEF vars
<1> QED
  BY <1>1, <1>2, <1>3, <1>4, <1>5, <1>6, <1>7, <1>8, <1>9, <1>10, <1>11, <1>12, <1>13, <1>14 DEF Next, KernelStep

-----------------------------------------------------------------------------
\* sem_create establishes the invariant.
LEMMA InitInv == Init => IInv
<1> SUFFICES ASSUME Init PROVE IInv
  OBVIOUS
<1>1. TypeOK
  <2>1. sem_wchan \in Seq(Thread) /\ pc \in [Thread -> Labels]
    BY SMT DEF Init, Labels
  <2>2. sem_count \in Nat /\ sem_lock \in Thread \cup {NoThread} /\ vs \in Nat /\ ps \in Nat
    BY InitialAssumption DEF Init
  <2>3. freed \in BOOLEAN
    BY DEF Init
  <2> QED
    BY <2>1, <2>2, <2>3 DEF TypeOK
<1>2. SpinlockHeld /\ UnitsInside /\ DestroyedUnused
  BY ThreadAssumption DEF Init, SpinlockHeld, Inside, UnitsInside, DestroyedUnused
<1>3. ChannelIsSleepers
  BY SMT DEF Init, ChannelIsSleepers, IsInjective, ToSet
<1>4. NoLostWakeup
  BY DEF Init, NoLostWakeup
<1>5. Counting = {} /\ Leaving = {}
  BY DEF Init, Counting, Leaving
<1>6. Balance
  BY <1>5, FS_EmptySet, InitialAssumption, SMTT(30) DEF Init, Balance
<1> QED
  BY <1>1, <1>2, <1>3, <1>4, <1>6 DEF IInv

\* The semaphore keeps its inductive invariant.
THEOREM Invariance == Spec => []IInv
<1>1. IInv /\ [Next]_vars => IInv'
  <2> SUFFICES ASSUME IInv, [Next]_vars PROVE IInv'
    OBVIOUS
  <2>1. IsInjective(sem_wchan)
    BY DEF IInv, ChannelIsSleepers
  <2>2. TypeOK' /\ SpinlockHeld' /\ ChannelIsSleepers' /\ UnitsInside'
    BY <2>1, TypeStep, LockStep, ChannelStep, UnitsStep DEF IInv
  <2>3. NoLostWakeup' /\ Balance' /\ DestroyedUnused'
    BY WakeupStep, BalanceStep, DestroyStep DEF IInv
  <2> QED
    BY <2>2, <2>3 DEF IInv
<1> QED
  BY <1>1, InitInv, PTL DEF Spec

\* The variables of the semaphore keep their types; the count never becomes
\* negative.
THEOREM TypeCorrect == Spec => []TypeOK
BY Invariance, PTL DEF IInv

\* The spinlock protects the count and the channel.
THEOREM Exclusion == Spec => []SpinlockHeld
BY Invariance, PTL DEF IInv

\* The wait channel holds exactly the threads that sleep in P.
THEOREM ChannelCorrect == Spec => []ChannelIsSleepers
BY Invariance, PTL DEF IInv

\* While a thread sleeps in P, as many threads are on their way to the count as
\* it has units: no wakeup is lost.
THEOREM NoWakeupLost == Spec => []NoLostWakeup
BY Invariance, PTL DEF IInv

\* A semaphore destroyed after the P that matches its last V is not in use:
\* what proc_wait does to p_sem is safe.
THEOREM DestroySafe == Spec => []DestroyedUnused
BY Invariance, PTL DEF IInv

-----------------------------------------------------------------------------
Waiting == {"P_acquire", "P_test", "P_asleep", "P_wake", "P_take"}

\* Every step of synch.c's semaphore is a step of the atomic one or changes
\* nothing it can see.
LEMMA StepSimulation ==
    ASSUME IInv, [Next]_vars
    PROVE  [AtomicSem!Next]_AtomicSem!abstract_vars
<1> DEFINE W == {t \in Thread : pc[t] \in Waiting}
<1> USE DEF IInv, TypeOK, Waiting, AtomicSem!Next, AtomicSem!abstract_vars
<1>1. ASSUME NEW t \in Thread, P(t) PROVE [AtomicSem!Next]_AtomicSem!abstract_vars
  <2>1. W' = W \cup {t} /\ t \notin W
    BY <1>1 DEF P, Goto, UnitsInside
  <2>2. AtomicSem!CallP(t)
    BY <1>1, <2>1 DEF P, AtomicSem!CallP
  <2> QED
    BY <2>2
<1>2. ASSUME NEW t \in Thread, V(t) PROVE [AtomicSem!Next]_AtomicSem!abstract_vars
  <2>1. W' = W
    BY <1>2 DEF V, Goto
  <2> QED
    BY <1>2, <2>1 DEF V
<1>3. ASSUME NEW t \in Thread, P_Acquire(t) PROVE [AtomicSem!Next]_AtomicSem!abstract_vars
  <2>1. W' = W
    BY <1>3 DEF P_Acquire, Goto, spinlock_acquire
  <2> QED
    BY <1>3, <2>1 DEF P_Acquire
<1>4. ASSUME NEW t \in Thread, P_Sleep(t) PROVE [AtomicSem!Next]_AtomicSem!abstract_vars
  <2>1. W' = W
    BY <1>4 DEF P_Sleep, wchan_sleep, spinlock_release
  <2> QED
    BY <1>4, <2>1 DEF P_Sleep
<1>5. ASSUME NEW t \in Thread, P_Wake(t) PROVE [AtomicSem!Next]_AtomicSem!abstract_vars
  <2>1. W' = W
    BY <1>5 DEF P_Wake, Goto, spinlock_acquire
  <2> QED
    BY <1>5, <2>1 DEF P_Wake
<1>6. ASSUME NEW t \in Thread, P_Test(t) PROVE [AtomicSem!Next]_AtomicSem!abstract_vars
  <2>1. W' = W
    BY <1>6 DEF P_Test, Goto
  <2> QED
    BY <1>6, <2>1 DEF P_Test
<1>7. ASSUME NEW t \in Thread, P_Take(t) PROVE [AtomicSem!Next]_AtomicSem!abstract_vars
  <2>1. W' = W \ {t} /\ t \in W /\ sem_count > 0
    BY <1>7 DEF P_Take, Goto, UnitsInside
  <2>2. AtomicSem!DoP(t)
    BY <1>7, <2>1 DEF P_Take, AtomicSem!DoP
  <2> QED
    BY <2>2
<1>8. ASSUME NEW t \in Thread, P_Release(t) PROVE [AtomicSem!Next]_AtomicSem!abstract_vars
  <2>1. W' = W
    BY <1>8 DEF P_Release, Goto, spinlock_release
  <2> QED
    BY <1>8, <2>1 DEF P_Release
<1>9. ASSUME NEW t \in Thread, V_Acquire(t) PROVE [AtomicSem!Next]_AtomicSem!abstract_vars
  <2>1. W' = W
    BY <1>9 DEF V_Acquire, Goto, spinlock_acquire
  <2> QED
    BY <1>9, <2>1 DEF V_Acquire
<1>10. ASSUME NEW t \in Thread, V_Count(t) PROVE [AtomicSem!Next]_AtomicSem!abstract_vars
  <2>1. W' = W /\ t \notin W
    BY <1>10 DEF V_Count, Goto, UnitsInside
  <2>2. AtomicSem!DoV(t)
    BY <1>10, <2>1 DEF V_Count, AtomicSem!DoV
  <2> QED
    BY <2>2
<1>11. ASSUME NEW t \in Thread, V_Wake(t) PROVE [AtomicSem!Next]_AtomicSem!abstract_vars
  <2>1. CASE sem_wchan = <<>>
    <3>1. W' = W
      BY <1>11, <2>1 DEF V_Wake, wchan_wakeone
    <3> QED
      BY <1>11, <3>1 DEF V_Wake
  <2>2. CASE sem_wchan # <<>>
    <3>1. Head(sem_wchan) \in Thread /\ pc[Head(sem_wchan)] = "P_asleep"
      BY <2>2, LeaveChannel DEF ChannelIsSleepers
    <3>2. W' = W
      BY <1>11, <2>2, <3>1 DEF V_Wake, wchan_wakeone
    <3> QED
      BY <1>11, <3>2 DEF V_Wake
  <2> QED
    BY <2>1, <2>2
<1>12. ASSUME NEW t \in Thread, V_Release(t) PROVE [AtomicSem!Next]_AtomicSem!abstract_vars
  <2>1. W' = W
    BY <1>12 DEF V_Release, Goto, spinlock_release
  <2> QED
    BY <1>12, <2>1 DEF V_Release
<1>13. ASSUME NEW t \in Thread, sem_destroy(t) PROVE [AtomicSem!Next]_AtomicSem!abstract_vars
  <2>1. W' = W
    BY <1>13 DEF sem_destroy
  <2> QED
    BY <1>13, <2>1 DEF sem_destroy
<1>14. ASSUME UNCHANGED vars PROVE [AtomicSem!Next]_AtomicSem!abstract_vars
  BY <1>14 DEF vars
<1> QED
  BY <1>1, <1>2, <1>3, <1>4, <1>5, <1>6, <1>7, <1>8, <1>9, <1>10, <1>11, <1>12, <1>13, <1>14, SMTT(30) DEF Next, KernelStep

\* P and V over a spinlock and a wait channel implement the semaphore whose P
\* and V are atomic (ImplementsAtomic), the one that module ProcLife uses.
THEOREM Implements == Spec => ImplementsAtomic
<1>1. Init => AtomicSem!Init
  BY DEF Init, AtomicSem!Init
<1> QED
  BY <1>1, Invariance, StepSimulation, PTL DEF Spec, ImplementsAtomic, AtomicSem!Spec
=============================================================================
