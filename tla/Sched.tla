------------------------------- MODULE Sched -------------------------------
(***************************************************************************)
(* kern/thread/thread.c on several CPUs: run queues, thread_switch, idling, *)
(* zombies, wait channels, migration and inter-processor interrupts, with  *)
(* the interrupt entry of kern/arch/mips/locore/trap.c, hardclock and      *)
(* timerclock of kern/thread/clock.c and the counting of kern/thread/spl.c. *)
(*                                                                         *)
(* A CPU is at cpu[c].pc.  What it does under one spinlock, where no other *)
(* CPU can look, is one step; a step that takes a spinlock waits until it  *)
(* is free.  Interrupts come only at "run" and at "idle".                  *)
(***************************************************************************)
EXTENDS Integers, Sequences, FiniteSets, SequencesExt

CONSTANTS
    NumCpus,        \* cpuarray_num(&allcpus)
    Thread,         \* bound: the threads ever created
    Nobody,         \* the holder of a free spinlock, and the null thread
    Boot            \* Boot[c]: the thread cpu_create makes for c

Cpu == 0 .. NumCpus - 1

ASSUME CpuAssumption ==
    /\ NumCpus \in Nat \ {0}
    /\ Nobody \notin Cpu \cup Thread
    /\ Boot \in [Cpu -> Thread] /\ IsInjective(Boot)

VARIABLES
    thread,         \* struct thread, with where it resumes once switched out
    cpu,            \* struct cpu, with what the CPU is executing
    wc_threads,     \* the threads asleep on the wait channel (lbolt)
    wc_lock         \* the spinlock that protects it

vars == <<thread, cpu, wc_threads, wc_lock>>

\* No thread structure here.
NoThread == [state |-> "none", cpu |-> 0, ipl |-> 0, spl |-> 0, saved |-> 0,
             ret |-> "run", new |-> Nobody]

\* thread_destroy has freed the structure and its stack.
Destroyed == [NoThread EXCEPT !.state = "destroyed"]

\* thread_create: S_READY, t_curspl high and t_iplhigh_count to match.
thread_create(c) == [NoThread EXCEPT !.state = "READY", !.cpu = c, !.ipl = 1, !.spl = 1]

\* thread_consider_migration's locals.
NoMigration == [i |-> 0, my |-> 0, total |-> 0, share |-> 0, send |-> 0, victims |-> <<>>]

\* cpu_create: the new thread is the CPU's current one.
cpu_create(c) ==
    [cur |-> Boot[c], stack |-> Boot[c], idle |-> FALSE, rq |-> <<>>, rqlock |-> Nobody,
     zombies |-> <<>>, ipi |-> FALSE, pc |-> "boot", new |-> "READY", from |-> "thread",
     causes |-> {}, woken |-> <<>>, mig |-> NoMigration]

Init ==
    /\ thread = [t \in Thread |-> IF \E c \in Cpu : Boot[c] = t
                                  THEN thread_create(CHOOSE c \in Cpu : Boot[c] = t)
                                  ELSE NoThread]
    /\ cpu = [c \in Cpu |-> cpu_create(c)]
    /\ wc_threads = <<>>
    /\ wc_lock = Nobody

TypeOK ==
    /\ \A t \in Thread :
        /\ thread[t].state \in {"none", "READY", "RUN", "SLEEP", "ZOMBIE", "destroyed"}
        /\ thread[t].cpu \in Cpu
        /\ thread[t].ipl \in Nat /\ thread[t].spl \in {0, 1}
    /\ \A c \in Cpu : cpu[c].cur \in Thread /\ cpu[c].mig.send \in Nat
    /\ wc_threads \in Seq(Thread)
    /\ wc_lock \in Cpu \cup {Nobody}

At(c, label) == cpu[c].pc = label
Cur(c) == cpu[c].cur
Self(c) == thread[Cur(c)]

-----------------------------------------------------------------------------
(* spl.c, on the structure of the thread that runs *)

splraise(r) == [r EXCEPT !.ipl = @ + 1]
spllower(r) == [r EXCEPT !.ipl = @ - 1]

\* Interrupt level 0 is on, 1 is off.
splx(r, spl) ==
    IF r.spl < spl THEN [splraise(r) EXCEPT !.spl = spl]
    ELSE IF r.spl > spl THEN [spllower(r) EXCEPT !.spl = spl]
    ELSE r

\* Lists are sequences; the node at i has the head node, 0, or the tail node,
\* Len(tl) + 1, at the ends.
threadlist_insertafternode(tl, i, t) == SubSeq(tl, 1, i) \o <<t>> \o SubSeq(tl, i + 1, Len(tl))
threadlist_insertbeforenode(tl, t, i) == SubSeq(tl, 1, i - 1) \o <<t>> \o SubSeq(tl, i, Len(tl))
threadlist_removenode(tl, i) == SubSeq(tl, 1, i - 1) \o SubSeq(tl, i + 1, Len(tl))

threadlist_addhead(tl, t) == threadlist_insertafternode(tl, 0, t)
threadlist_addtail(tl, t) == threadlist_insertbeforenode(tl, t, Len(tl) + 1)
threadlist_remhead(tl) == threadlist_removenode(tl, 1)
threadlist_remtail(tl) == threadlist_removenode(tl, Len(tl))

-----------------------------------------------------------------------------
(* Making threads runnable *)

\* The interprocessor interrupt line of a CPU.
lamebus_assert_ipi(cs, d) == [cs EXCEPT ![d].ipi = TRUE]
lamebus_clear_ipi(cs, d) == [cs EXCEPT ![d].ipi = FALSE]

\* There is only IPI_UNIDLE here.
ipi_send(cs, d) == lamebus_assert_ipi(cs, d)

\* Mutant: the idle flag of the target CPU is not looked at.
thread_make_runnable_quiet(c, cs, t) ==
    LET d == thread[t].cpu
    IN /\ cs[d].rqlock = Nobody
       /\ cpu' = [cs EXCEPT ![d].rq = threadlist_addtail(@, t)]

\* The target's queue is locked, the thread appended and an idle CPU other
\* than this one woken.  cs is the CPUs' state with the caller's own changes.
thread_make_runnable(c, cs, t) ==
    LET d == thread[t].cpu
        queued == [cs EXCEPT ![d].rq = threadlist_addtail(@, t)]
    IN /\ cs[d].rqlock = Nobody
       /\ cpu' = IF cs[d].idle /\ d # c THEN ipi_send(queued, d) ELSE queued

\* cpu_hatch on the secondary CPUs, mainbus_bootstrap on the first: spl0.
cpu_hatch(c) ==
    /\ At(c, "boot")
    /\ c # 0 => ~At(0, "boot")
    /\ cpu' = [cpu EXCEPT ![c].pc = "run"]
    /\ thread' = [thread EXCEPT ![Cur(c)] = splx(@, 0)]
    /\ UNCHANGED <<wc_threads, wc_lock>>

\* The thread cpu_create made for a secondary CPU only hatches and exits.
Hatching(t) == \E c \in Cpu \ {0} : Boot[c] = t

\* Mutant: the new thread does not count the run-queue lock it comes out with.
fork_level_uncounted(r) == r

\* thread_fork: "new threads come out holding the cpu runqueue lock, we need
\* to account for the spllower() that will be done releasing it".
fork_level(r) == splraise(r)

\* thread_fork up to the point where the thread is made runnable.
thread_fork(c) ==
    /\ At(c, "run") /\ Self(c).new = Nobody /\ ~Hatching(Cur(c))
    /\ \E n \in Thread :
        /\ thread[n].state = "none"
        /\ thread' = [thread EXCEPT ![n] = fork_level([thread_create(Self(c).cpu) EXCEPT !.ret = "startup"]),
                                    ![Cur(c)].new = n]
    /\ UNCHANGED <<cpu, wc_threads, wc_lock>>

thread_fork_run(c) ==
    /\ At(c, "run") /\ Self(c).new # Nobody
    /\ thread_make_runnable(c, cpu, Self(c).new)
    /\ thread' = [thread EXCEPT ![Cur(c)].new = Nobody]
    /\ UNCHANGED <<wc_threads, wc_lock>>

-----------------------------------------------------------------------------
(* Wait channels *)

\* wchan_wakeone or wchan_wakeall, the spinlock taken: the chosen sleepers
\* go to a private list.
WakeFrom(c, n) ==
    /\ wc_lock = Nobody /\ wc_lock' = c
    /\ wc_threads' = SubSeq(wc_threads, n + 1, Len(wc_threads))
    /\ cpu' = [cpu EXCEPT ![c].woken = SubSeq(wc_threads, 1, n), ![c].pc = "wake"]
    /\ thread' = [thread EXCEPT ![Cur(c)] = splraise(@)]

wchan_wake(c) ==
    /\ At(c, "run")
    /\ \E n \in {1, Len(wc_threads)} : n \in 1 .. Len(wc_threads) /\ WakeFrom(c, n)

wchan_wake_next(c) ==
    /\ At(c, "wake") /\ cpu[c].woken # <<>>
    /\ thread_make_runnable(c, [cpu EXCEPT ![c].woken = threadlist_remhead(@)],
                            Head(cpu[c].woken))
    /\ thread' = [thread EXCEPT ![Head(cpu[c].woken)].state = "READY"]
    /\ UNCHANGED <<wc_threads, wc_lock>>

\* The spinlock is released; a handler goes on with its other causes.
wchan_wake_end(c) ==
    /\ At(c, "wake") /\ cpu[c].woken = <<>>
    /\ wc_lock' = Nobody
    /\ cpu' = [cpu EXCEPT ![c].pc = IF cpu[c].from = "thread" THEN "run" ELSE "irq"]
    /\ thread' = [thread EXCEPT ![Cur(c)] = spllower(@)]
    /\ UNCHANGED wc_threads

-----------------------------------------------------------------------------
(* thread_switch *)

\* Its entry: splhigh, the new state and the way back recorded.
Enter(c, newstate, ret) ==
    /\ cpu' = [cpu EXCEPT ![c].pc = "switch", ![c].new = newstate, ![c].from = "thread"]
    /\ thread' = [thread EXCEPT ![Cur(c)] =
                    [splx(IF newstate = "SLEEP" THEN splraise(@) ELSE @, 1)
                        EXCEPT !.saved = thread[Cur(c)].spl, !.ret = ret]]

\* wchan_sleep, the channel's spinlock held by the caller (clocksleep).
wchan_sleep(c) ==
    /\ At(c, "run") /\ Self(c).new = Nobody /\ ~Hatching(Cur(c))
    /\ wc_lock = Nobody /\ wc_lock' = c
    /\ Enter(c, "SLEEP", "run")
    /\ UNCHANGED wc_threads

\* thread_exit; the boot thread of the first CPU runs the menu for ever.
thread_exit(c) ==
    /\ At(c, "run") /\ Self(c).new = Nobody /\ Cur(c) # Boot[0]
    /\ Enter(c, "ZOMBIE", "run")
    /\ UNCHANGED <<wc_threads, wc_lock>>

\* thread_switch's way out: splx to the level at the entry (thread_startup:
\* spl0), and out of the handler if a handler yielded.
Leave(r) ==
    LET out == splx(r, IF r.ret = "startup" THEN 0 ELSE r.saved)
    IN [(IF r.ret = "irq" THEN splx(out, 0) ELSE out) EXCEPT !.saved = 0, !.ret = "run"]

\* The run queue is locked; with nothing else to run a yield returns.
thread_switch(c) ==
    /\ At(c, "switch") /\ cpu[c].rqlock = Nobody
    /\ IF cpu[c].new = "READY" /\ cpu[c].rq = <<>>
       THEN /\ cpu' = [cpu EXCEPT ![c].pc = "run"]
            /\ thread' = [thread EXCEPT ![Cur(c)] = Leave(@)]
       ELSE /\ cpu' = [cpu EXCEPT ![c].pc = "place", ![c].rqlock = c]
            /\ thread' = [thread EXCEPT ![Cur(c)] = splraise(@)]
    /\ UNCHANGED <<wc_threads, wc_lock>>

\* "Put the thread in the right place", and c_isidle becomes true.
PlaceAs(c, level) ==
    LET t == Cur(c)
        idling == [cpu EXCEPT ![c].pc = "pick", ![c].idle = TRUE]
    IN /\ At(c, "place")
       /\ thread' = [thread EXCEPT ![t] = [level EXCEPT !.state = cpu[c].new]]
       /\ cpu' = CASE cpu[c].new = "READY" -> [idling EXCEPT ![c].rq = threadlist_addtail(@, t)]
                   [] cpu[c].new = "ZOMBIE" -> [idling EXCEPT ![c].zombies = threadlist_addtail(@, t)]
                   [] OTHER -> idling

thread_switch_place(c) ==
    /\ cpu[c].new # "SLEEP"
    /\ PlaceAs(c, Self(c))
    /\ UNCHANGED <<wc_threads, wc_lock>>

\* The sleeper is put on the channel, whose spinlock is then released.
thread_switch_sleep(c) ==
    /\ cpu[c].new = "SLEEP"
    /\ PlaceAs(c, spllower(Self(c)))
    /\ wc_threads' = threadlist_addtail(wc_threads, Cur(c))
    /\ wc_lock' = Nobody

\* Get the next thread; while there is none, unlock the queue and idle.
thread_switch_pick(c) ==
    /\ At(c, "pick")
    /\ IF cpu[c].rq = <<>>
       THEN /\ cpu' = [cpu EXCEPT ![c].pc = "idle", ![c].rqlock = Nobody]
            /\ thread' = [thread EXCEPT ![Cur(c)] = spllower(@)]
       ELSE /\ cpu' = [cpu EXCEPT ![c].pc = "switchframe", ![c].idle = FALSE,
                                  ![c].cur = Head(cpu[c].rq), ![c].rq = threadlist_remhead(@)]
            /\ UNCHANGED thread
    /\ UNCHANGED <<wc_threads, wc_lock>>

\* cpu_idle has returned after an interrupt: the queue is locked again.
thread_switch_unidle(c) ==
    /\ At(c, "unidle") /\ cpu[c].rqlock = Nobody
    /\ cpu' = [cpu EXCEPT ![c].pc = "pick", ![c].rqlock = c]
    /\ thread' = [thread EXCEPT ![Cur(c)] = splraise(@)]
    /\ UNCHANGED <<wc_threads, wc_lock>>

\* switchframe_switch, and the tail of thread_switch or the head of
\* thread_startup up to the release of the run queue.
switchframe_switch(c) ==
    /\ At(c, "switchframe")
    /\ cpu' = [cpu EXCEPT ![c].pc = "exorcise", ![c].stack = Cur(c), ![c].rqlock = Nobody]
    /\ thread' = [thread EXCEPT ![Cur(c)] = [spllower(@) EXCEPT !.state = "RUN"]]
    /\ UNCHANGED <<wc_threads, wc_lock>>

\* exorcise destroys the zombies of this CPU; then interrupts go back on.
exorcise(c) ==
    /\ At(c, "exorcise")
    /\ cpu' = [cpu EXCEPT ![c].pc = "run", ![c].zombies = <<>>]
    /\ thread' = [t \in Thread |-> IF t \in Range(cpu[c].zombies) THEN Destroyed
                                   ELSE IF t = Cur(c) THEN Leave(thread[t]) ELSE thread[t]]
    /\ UNCHANGED <<wc_threads, wc_lock>>

-----------------------------------------------------------------------------
(* Interrupts *)

\* mips_trap with EX_IRQ: the causes are read once, and the interrupt level
\* adjusted if it was on.  "bus" is the ltimer's once-a-second interrupt,
\* which has no effect on an empty channel.
mips_trap(c) ==
    /\ cpu[c].pc \in {"run", "idle"}
    /\ \E S \in SUBSET {"bus", "timer"} :
        /\ "bus" \in S => wc_threads # <<>>
        /\ S # {} \/ cpu[c].ipi
        /\ cpu' = [cpu EXCEPT ![c].pc = "irq", ![c].from = cpu[c].pc,
                              ![c].causes = S \cup (IF cpu[c].ipi THEN {"ipi"} ELSE {})]
    /\ thread' = [thread EXCEPT ![Cur(c)] = splx(@, 1)]
    /\ UNCHANGED <<wc_threads, wc_lock>>

\* mainbus_interrupt serves the bus first: timerclock wakes the channel.
timerclock(c) ==
    /\ At(c, "irq") /\ "bus" \in cpu[c].causes
    /\ wc_lock = Nobody /\ wc_lock' = c
    /\ wc_threads' = <<>>
    /\ cpu' = [cpu EXCEPT ![c].woken = wc_threads, ![c].pc = "wake",
                          ![c].causes = @ \ {"bus"}]
    /\ thread' = [thread EXCEPT ![Cur(c)] = splraise(@)]

\* Then the inter-processor interrupt.  interprocessor_interrupt has nothing
\* to do for IPI_UNIDLE; lamebus_clear_ipi lowers the line.
interprocessor_interrupt(c) ==
    /\ At(c, "irq") /\ "bus" \notin cpu[c].causes /\ "ipi" \in cpu[c].causes
    /\ cpu' = lamebus_clear_ipi([cpu EXCEPT ![c].causes = @ \ {"ipi"}], c)
    /\ UNCHANGED <<thread, wc_threads, wc_lock>>

\* Then the timer: hardclock considers migration every MIGRATE_HARDCLOCKS
\* ticks, and yields.
hardclock(c) ==
    /\ At(c, "irq") /\ cpu[c].causes = {"timer"}
    /\ \E label \in {"mig_count", "yield"} :
        cpu' = [cpu EXCEPT ![c].pc = label, ![c].causes = {}]
    /\ UNCHANGED <<thread, wc_threads, wc_lock>>

\* thread_yield in the handler: nothing happens on an idle CPU.
hardclock_yield(c) ==
    /\ At(c, "yield")
    /\ IF cpu[c].idle
       THEN cpu' = [cpu EXCEPT ![c].pc = "irq"] /\ UNCHANGED thread
       ELSE Enter(c, "READY", "irq")
    /\ UNCHANGED <<wc_threads, wc_lock>>

\* The way back to the thread, or to cpu_idle's caller.
mips_trap_return(c) ==
    /\ At(c, "irq") /\ cpu[c].causes = {}
    /\ cpu' = [cpu EXCEPT ![c].pc = IF cpu[c].from = "idle" THEN "unidle" ELSE "run",
                          ![c].from = "thread"]
    /\ thread' = IF cpu[c].from = "idle" THEN thread
                 ELSE [thread EXCEPT ![Cur(c)] = splx(@, 0)]
    /\ UNCHANGED <<wc_threads, wc_lock>>

-----------------------------------------------------------------------------
(* thread_consider_migration *)

Mig(c) == cpu[c].mig
DIVROUNDUP(a, b) == (a + b - 1) \div b

\* Every queue is counted under its own lock, one after the other.
migration_count(c) ==
    LET m == Mig(c)
    IN /\ At(c, "mig_count") /\ m.i < NumCpus /\ cpu[m.i].rqlock = Nobody
       /\ cpu' = [cpu EXCEPT ![c].mig.i = m.i + 1,
                             ![c].mig.total = @ + Len(cpu[m.i].rq),
                             ![c].mig.my = IF m.i = c THEN Len(cpu[c].rq) ELSE @]
       /\ UNCHANGED <<thread, wc_threads, wc_lock>>

\* What is more than one CPU's share is to be sent away.
to_send(m, share) == m.my - share

migration_share(c) ==
    LET m == Mig(c)
        share == DIVROUNDUP(m.total, NumCpus)
    IN /\ At(c, "mig_count") /\ m.i = NumCpus
       /\ cpu' = IF m.my < share
                 THEN [cpu EXCEPT ![c].mig = NoMigration, ![c].pc = "yield"]
                 ELSE [cpu EXCEPT ![c].pc = "mig_take",
                                  ![c].mig = [NoMigration EXCEPT !.share = share,
                                                                 !.send = to_send(m, share)]]
       /\ UNCHANGED <<thread, wc_threads, wc_lock>>

\* The victims come from the tail of the queue and keep their order.
migration_take(c) ==
    LET taken[n \in 0 .. Mig(c).send] ==
            IF n = 0 THEN [rq |-> cpu[c].rq, victims |-> <<>>]
            ELSE LET tl == taken[n - 1].rq
                 IN [rq |-> threadlist_remtail(tl),
                     victims |-> threadlist_addhead(taken[n - 1].victims, tl[Len(tl)])]
        end == taken[Mig(c).send]
    IN /\ At(c, "mig_take") /\ cpu[c].rqlock = Nobody
       /\ cpu' = [cpu EXCEPT ![c].rq = end.rq, ![c].mig.victims = end.victims, ![c].pc = "mig_next"]
       /\ UNCHANGED <<thread, wc_threads, wc_lock>>

\* The next other CPU, its queue locked; or the end of the loop.
migration_next(c) ==
    LET m == Mig(c)
    IN /\ At(c, "mig_next")
       /\ IF m.i = NumCpus \/ m.send = 0
          THEN cpu' = [cpu EXCEPT ![c].pc = "mig_back"] /\ UNCHANGED thread
          ELSE IF m.i = c
          THEN cpu' = [cpu EXCEPT ![c].mig.i = @ + 1] /\ UNCHANGED thread
          ELSE /\ cpu[m.i].rqlock = Nobody
               /\ cpu' = [cpu EXCEPT ![m.i].rqlock = c, ![c].pc = "mig_give"]
               /\ thread' = [thread EXCEPT ![Cur(c)] = splraise(@)]
       /\ UNCHANGED <<wc_threads, wc_lock>>

\* Mutant: the current thread is migrated like any other.
migration_skips_never(c, t) == FALSE

\* "*migrating* curthread can cause bad things to happen".
migration_skips(c, t) == t = Cur(c)

\* One victim is moved, or put last if it is the current thread; or the
\* share of that CPU is full and its queue is unlocked.
migration_give(c) ==
    LET m == Mig(c)
        d == m.i
        t == Head(m.victims)
        moved == [cpu EXCEPT ![d].rq = threadlist_addtail(@, t), ![c].mig.send = @ - 1,
                             ![c].mig.victims = threadlist_remhead(@)]
    IN /\ At(c, "mig_give")
       /\ IF Len(cpu[d].rq) < m.share /\ m.send > 0
          THEN IF migration_skips(c, t)
               THEN /\ cpu' = [cpu EXCEPT ![c].mig.victims = threadlist_addtail(threadlist_remhead(@), t),
                                          ![c].mig.send = @ - 1]
                    /\ UNCHANGED thread
               ELSE /\ cpu' = IF cpu[d].idle THEN ipi_send(moved, d) ELSE moved
                    /\ thread' = [thread EXCEPT ![t].cpu = d]
          ELSE /\ cpu' = [cpu EXCEPT ![d].rqlock = Nobody, ![c].mig.i = @ + 1, ![c].pc = "mig_next"]
               /\ thread' = [thread EXCEPT ![Cur(c)] = spllower(@)]
       /\ UNCHANGED <<wc_threads, wc_lock>>

\* Mutant: the leftovers are dropped with the list.
migration_back_drop(c) ==
    /\ At(c, "mig_back")
    /\ cpu' = [cpu EXCEPT ![c].mig = NoMigration, ![c].pc = "yield"]
    /\ UNCHANGED <<thread, wc_threads, wc_lock>>

\* Leftovers go back on our own queue.
migration_back(c) ==
    /\ At(c, "mig_back")
    /\ Mig(c).victims # <<>> => cpu[c].rqlock = Nobody
    /\ cpu' = [cpu EXCEPT ![c].rq = @ \o Mig(c).victims, ![c].mig = NoMigration, ![c].pc = "yield"]
    /\ UNCHANGED <<thread, wc_threads, wc_lock>>

-----------------------------------------------------------------------------
Next ==
    \E c \in Cpu :
        \/ cpu_hatch(c)
        \/ thread_fork(c) \/ thread_fork_run(c)
        \/ wchan_wake(c) \/ wchan_wake_next(c) \/ wchan_wake_end(c)
        \/ wchan_sleep(c) \/ thread_exit(c)
        \/ thread_switch(c) \/ thread_switch_place(c) \/ thread_switch_sleep(c)
        \/ thread_switch_pick(c) \/ thread_switch_unidle(c)
        \/ switchframe_switch(c) \/ exorcise(c)
        \/ mips_trap(c) \/ timerclock(c) \/ interprocessor_interrupt(c)
        \/ hardclock(c) \/ hardclock_yield(c) \/ mips_trap_return(c)
        \/ migration_count(c) \/ migration_share(c) \/ migration_take(c)
        \/ migration_next(c) \/ migration_give(c) \/ migration_back(c)

Spec == Init /\ [][Next]_vars

-----------------------------------------------------------------------------
Live == {t \in Thread : thread[t].state \notin {"none", "destroyed"}}

\* thread_switch, exorcise and thread_consider_migration: no two CPUs ever run
\* on the same kernel stack, and none runs on the stack of a thread that
\* thread_destroy has freed.
StackSafe ==
    /\ \A c, d \in Cpu : cpu[c].stack = cpu[d].stack => c = d
    /\ \A c \in Cpu : cpu[c].stack \in Live /\ Cur(c) \in Live

\* Where the thread's list node is linked.
Linked(t) ==
    LET In(kind, c, tl) == {<<kind, c, i>> : i \in {i \in DOMAIN tl : tl[i] = t}}
    IN In("wchan", 0, wc_threads) \cup
       UNION {In("rq", c, cpu[c].rq) \cup In("zombies", c, cpu[c].zombies)
              \cup In("woken", c, cpu[c].woken) \cup In("victims", c, cpu[c].mig.victims) : c \in Cpu}

Runs(t) == {c \in Cpu : Cur(c) = t /\ ~cpu[c].idle}
Forks(t) == {s \in Thread : thread[s].new = t}

\* Every thread is in one place at any time: on one list, or running on one
\* CPU, or still held by the thread_fork that made it; and a thread on a run
\* queue, or running, is where its t_cpu says.  Nothing is lost or run twice
\* through thread_switch, the wakeups and thread_consider_migration.
ThreadPlaced ==
    \A t \in Thread :
        /\ Cardinality(Linked(t)) + Cardinality(Runs(t)) + Cardinality(Forks(t))
             = IF t \in Live THEN 1 ELSE 0
        /\ \A c \in Cpu : (t \in Range(cpu[c].rq) \/ t = Cur(c)) => thread[t].cpu = c

\* A CPU suspended in cpu_idle has an empty run queue, or an interrupt on its
\* way: a wakeup is never left for the next clock tick, although
\* lamebus_clear_ipi may wipe out an interrupt sent after the handler looked.
IdleWoken ==
    \A c \in Cpu : At(c, "idle") => cpu[c].rq = <<>> \/ cpu[c].ipi

Held(c) == Cardinality({d \in Cpu : cpu[d].rqlock = c}) + (IF wc_lock = c THEN 1 ELSE 0)

\* t_iplhigh_count of the thread that runs counts its spinlocks and its
\* splhigh, across switches in which one thread takes the run-queue lock and
\* another releases it; so interrupts are on outside the kernel's critical
\* sections (mips_trap asserts it) and off inside them.
IplBalanced ==
    /\ \A c \in Cpu : /\ Self(c).ipl = Self(c).spl + Held(c)
                      /\ At(c, "run") => Self(c).ipl = 0
                      /\ cpu[c].pc \notin {"run", "idle"} => Self(c).ipl > 0
    /\ \A t \in Live \ {Cur(c) : c \in Cpu} : thread[t].ipl = 2 /\ thread[t].spl = 1
=============================================================================
