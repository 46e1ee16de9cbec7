------------------------------ MODULE ProcLife ------------------------------
(***************************************************************************)
(* The life of a process in the kernel: creation of the proc structure and *)
(* its registration in processTable (kern/proc/proc.c), fork               *)
(* (kern/syscall/fork.c), _exit (kern/syscall/exit.c), waitpid             *)
(* (kern/syscall/waitpid.c) and the boot menu's common_prog                *)
(* (kern/main/menu.c), which starts a program and waits for it.            *)
(*                                                                         *)
(* A process is identified by the address of its struct proc, because that *)
(* is how the code identifies it (curproc, p_parent, p_children).  An      *)
(* address is reused once the structure is freed.  Each process has one    *)
(* thread; pc says where in the kernel it is.  A step is what the thread   *)
(* does between two points where another thread can observe or change the  *)
(* shared state.  The semaphore p_sem is the one of AtomicSemaphore, which  *)
(* Semaphore shows kern/thread/synch.c to implement.                       *)
(***************************************************************************)
EXTENDS Integers

CONSTANTS
    Addr,       \* addresses kmalloc can return for a struct proc
    KProc,      \* the address of kproc
    NULL,
    Garbage,    \* what a field of unwritten or freed (0xdeadbeef) memory holds
    MaxProc,    \* MAX_PROC
    Code        \* the arguments programs give to _exit

ASSUME KProcAssumption == KProc \in Addr
ASSUME NullAssumption == NULL \notin Addr /\ Garbage \notin Addr /\ NULL # Garbage
ASSUME MaxProcAssumption == MaxProc \in Nat /\ MaxProc > 1
ASSUME CodeAssumption == Code \subseteq Int

VARIABLES
    table,          \* processTable.proc, indices 1..MAX_PROC
    last_i,         \* processTable.last_i
    live,           \* the addresses that are allocated
    p_pid, p_parent, p_children, p_status, p_exited, p_sem, p_numthreads,
    pc,             \* where the thread of a process is
    arg,            \* that thread's local proc pointer: child, or proc, or p
    want,           \* the pid argument of its waitpid
    ret,            \* what its last system call gives back to user mode
    panicked,       \* the kernel has called panic
    owed,           \* history: pids it got from fork and has not collected
    exit_arg        \* history: the argument of its _exit

table_vars == <<table, last_i>>
field_vars == <<p_pid, p_parent, p_children, p_status, p_exited, p_sem, p_numthreads>>
local_vars == <<arg, want, ret>>
history_vars == <<owed, exit_arg>>
vars == <<table, last_i, live, p_pid, p_parent, p_children, p_status, p_exited,
          p_sem, p_numthreads, pc, arg, want, ret, panicked, owed, exit_arg>>

PID_MIN == 2
Pids == 1..MaxProc
Slots == Addr \cup {NULL}

Labels == {"none", "start", "run", "sysret",
           "init", "made", "linked", "undo_unregister", "undo_free",
           "wait_check", "wait_P", "reap_unregister", "reap_free", "wait_return",
           "exit_remthread", "exit_flag", "exit_V"}

Calls == {"none", "failed", "fork", "waitpid", "waitpid_nohang"}
\* val is the call's value in user mode, status what waitpid stores through
\* statusp (for the menu, the exit code common_prog returns).  Which errno a
\* failing call reports is left out.
Results == [call : Calls, val : Int, status : Int]
Result(call, val, status) == [call |-> call, val |-> val, status |-> status]
NoResult == Result("none", 0, 0)
Failed == Result("failed", 0, 0)

(***************************************************************************)
(* kern/include/kern/wait.h: the exit code sits above two type bits.       *)
(***************************************************************************)
\* Mutant: the type bits are forgotten.
MKWAIT_EXIT_unshifted(x) == x

MKWAIT_EXIT(x) == 4 * x
WIFEXITED(x) == x % 4 = 0
WEXITSTATUS(x) == x \div 4

TypeOK ==
    /\ table \in [Pids -> Slots]
    /\ last_i \in Pids
    /\ live \subseteq Addr
    /\ p_pid \in [Addr -> 0..MaxProc]
    /\ p_parent \in [Addr -> Addr \cup {NULL, Garbage}]
    /\ p_children \in [Addr -> SUBSET Addr]
    /\ p_status \in [Addr -> 0..255]
    /\ p_exited \in [Addr -> BOOLEAN]
    /\ p_sem \in [Addr -> Nat]
    /\ p_numthreads \in [Addr -> Int]
    /\ pc \in [Addr -> Labels]
    /\ arg \in [Addr -> Slots]
    /\ want \in [Addr -> Int]
    /\ ret \in [Addr -> Results]
    /\ panicked \in BOOLEAN
    /\ owed \in [Addr -> SUBSET Pids]
    /\ exit_arg \in [Addr -> Int]

(***************************************************************************)
(* After proc_bootstrap: kproc is the first proc_create, so it took slot 1 *)
(* and its thread is the menu.                                             *)
(***************************************************************************)
Init ==
    /\ table = [i \in Pids |-> IF i = 1 THEN KProc ELSE NULL]
    /\ last_i = 1
    /\ live = {KProc}
    /\ p_pid = [a \in Addr |-> IF a = KProc THEN 1 ELSE 0]
    /\ p_parent = [a \in Addr |-> IF a = KProc THEN NULL ELSE Garbage]
    /\ p_children = [a \in Addr |-> {}]
    /\ p_status = [a \in Addr |-> 0]
    /\ p_exited = [a \in Addr |-> FALSE]
    /\ p_sem = [a \in Addr |-> 0]
    /\ p_numthreads = [a \in Addr |-> IF a = KProc THEN 1 ELSE 0]
    /\ pc = [a \in Addr |-> IF a = KProc THEN "run" ELSE "none"]
    /\ arg = [a \in Addr |-> NULL]
    /\ want = [a \in Addr |-> 0]
    /\ ret = [a \in Addr |-> NoResult]
    /\ panicked = FALSE
    /\ owed = [a \in Addr |-> {}]
    /\ exit_arg = [a \in Addr |-> 0]

At(t, l) == ~panicked /\ pc[t] = l
Goto(t, l) == pc' = [pc EXCEPT ![t] = l]
Return(t, r) == /\ ret' = [ret EXCEPT ![t] = r]
                /\ Goto(t, "sysret")

(***************************************************************************)
(* Back in user mode the thread drops the result and its kernel locals.    *)
(***************************************************************************)
Resume(t) ==
    /\ At(t, "sysret")
    /\ Goto(t, "run")
    /\ ret' = [ret EXCEPT ![t] = NoResult]
    /\ arg' = [arg EXCEPT ![t] = NULL]
    /\ want' = [want EXCEPT ![t] = 0]
    /\ UNCHANGED <<table_vars, field_vars, live, panicked, history_vars>>

-----------------------------------------------------------------------------
(***************************************************************************)
(* Creation.  proc_init_waitpid searches circularly from last_i + 1 and    *)
(* stops before last_i, whose slot is never tested.                        *)
(***************************************************************************)
SlotAfter(k) == IF last_i + k > MaxProc THEN last_i + k - MaxProc ELSE last_i + k

\* Mutant: the slot is taken without looking whether it is free.
FirstFree_untested(i) == i = SlotAfter(1)

FirstFree(i) ==
    \E k \in 1..(MaxProc - 1) :
        /\ i = SlotAfter(k)
        /\ table[i] = NULL
        /\ \A j \in 1..(k - 1) : table[SlotAfter(j)] # NULL

NoSlotFound == \A k \in 1..(MaxProc - 1) : table[SlotAfter(k)] # NULL

\* sys_fork's test on the caller's own pid; the menu makes no such test.
MayCreate(t) == t = KProc \/ p_pid[t] + 1 <= MaxProc

ForkTooManyProcesses(t) ==
    /\ At(t, "run")
    /\ ~MayCreate(t)
    /\ Return(t, Failed)
    /\ UNCHANGED <<table_vars, field_vars, live, arg, want, panicked, history_vars>>

\* proc_create's kmalloc fails.
CreateNoMemory(t) ==
    /\ At(t, "run")
    /\ MayCreate(t)
    /\ Return(t, Failed)
    /\ UNCHANGED <<table_vars, field_vars, live, arg, want, panicked, history_vars>>

\* Under processTable.lk the structure enters the table; the rest of it is
\* still what kmalloc returned.
CreateRegister(t, c) ==
    /\ At(t, "run")
    /\ MayCreate(t)
    /\ c \in Addr \ live
    /\ \E i \in Pids :
        /\ FirstFree(i)
        /\ table' = [table EXCEPT ![i] = c]
        /\ last_i' = i
        /\ p_pid' = [p_pid EXCEPT ![c] = i]
    /\ live' = live \cup {c}
    /\ arg' = [arg EXCEPT ![t] = c]
    /\ Goto(t, "init")
    /\ UNCHANGED <<p_parent, p_children, p_status, p_exited, p_sem, p_numthreads,
                   want, ret, panicked, history_vars>>

CreatePanic(t, c) ==
    /\ At(t, "run")
    /\ MayCreate(t)
    /\ c \in Addr \ live
    /\ NoSlotFound
    /\ panicked' = TRUE
    /\ UNCHANGED <<table_vars, field_vars, local_vars, live, pc, history_vars>>

\* The rest of proc_init_waitpid and proc_create.
CreateInit(t) ==
    LET c == arg[t] IN
    /\ At(t, "init")
    /\ p_status' = [p_status EXCEPT ![c] = 0]
    /\ p_sem' = [p_sem EXCEPT ![c] = 0]
    /\ p_exited' = [p_exited EXCEPT ![c] = FALSE]
    /\ p_numthreads' = [p_numthreads EXCEPT ![c] = 0]
    /\ p_parent' = [p_parent EXCEPT ![c] = NULL]
    /\ p_children' = [p_children EXCEPT ![c] = {}]
    /\ Goto(t, "made")
    /\ UNCHANGED <<table_vars, local_vars, live, p_pid, panicked, history_vars>>

-----------------------------------------------------------------------------
(***************************************************************************)
(* fork, after proc_create_runprogram returned the child.                  *)
(***************************************************************************)

\* The trapframe cannot be allocated or as_copy fails: the child is destroyed.
\* So it is when its pid is out of range.
ForkFail(t) ==
    /\ At(t, "made")
    /\ t # KProc
    /\ ret' = [ret EXCEPT ![t] = Failed]
    /\ Goto(t, "undo_unregister")
    /\ UNCHANGED <<table_vars, field_vars, live, arg, want, panicked, history_vars>>

ForkLink(t) ==
    LET c == arg[t] IN
    /\ At(t, "made")
    /\ t # KProc
    /\ p_pid[c] >= PID_MIN
    /\ p_parent' = [p_parent EXCEPT ![c] = t]
    /\ p_children' = [p_children EXCEPT ![t] = @ \cup {c}]
    /\ Goto(t, "linked")
    /\ UNCHANGED <<table_vars, local_vars, live, p_pid, p_status, p_exited, p_sem,
                   p_numthreads, panicked, history_vars>>

\* thread_fork succeeds: the child's thread is attached and runnable.
ForkThread(t) ==
    LET c == arg[t] IN
    /\ At(t, "linked")
    /\ p_numthreads' = [p_numthreads EXCEPT ![c] = @ + 1]
    /\ pc' = [pc EXCEPT ![t] = "sysret", ![c] = "run"]
    /\ ret' = [ret EXCEPT ![t] = Result("fork", p_pid[c], 0)]
    /\ owed' = [owed EXCEPT ![t] = @ \cup {p_pid[c]}]
    /\ UNCHANGED <<table_vars, live, p_pid, p_parent, p_children, p_status, p_exited,
                   p_sem, arg, want, panicked, exit_arg>>

\* thread_fork fails: proc_destroy(child), which stays in p_children.
ForkThreadFail(t) ==
    /\ At(t, "linked")
    /\ ret' = [ret EXCEPT ![t] = Failed]
    /\ Goto(t, "undo_unregister")
    /\ UNCHANGED <<table_vars, field_vars, live, arg, want, panicked, history_vars>>

-----------------------------------------------------------------------------
(***************************************************************************)
(* The menu's common_prog: thread_fork(cmd_progthread), then proc_wait.    *)
(***************************************************************************)
MenuThread ==
    LET c == arg[KProc] IN
    /\ At(KProc, "made")
    /\ p_numthreads' = [p_numthreads EXCEPT ![c] = @ + 1]
    /\ pc' = [pc EXCEPT ![KProc] = "wait_P", ![c] = "start"]
    /\ want' = [want EXCEPT ![KProc] = p_pid[c]]
    /\ owed' = [owed EXCEPT ![KProc] = @ \cup {p_pid[c]}]
    /\ UNCHANGED <<table_vars, live, p_pid, p_parent, p_children, p_status, p_exited,
                   p_sem, arg, ret, panicked, exit_arg>>

MenuThreadFail ==
    /\ At(KProc, "made")
    /\ ret' = [ret EXCEPT ![KProc] = Failed]
    /\ Goto(KProc, "undo_unregister")
    /\ UNCHANGED <<table_vars, field_vars, live, arg, want, panicked, history_vars>>

\* cmd_progthread: runprogram enters user mode ...
StartProgram(t) ==
    /\ At(t, "start")
    /\ Goto(t, "run")
    /\ UNCHANGED <<table_vars, field_vars, local_vars, live, panicked, history_vars>>

\* ... or returns an error, and the thread ends in thread_exit.
StartFail(t) ==
    /\ At(t, "start")
    /\ p_numthreads' = [p_numthreads EXCEPT ![t] = @ - 1]
    /\ Goto(t, "none")
    /\ UNCHANGED <<table_vars, local_vars, live, p_pid, p_parent, p_children, p_status,
                   p_exited, p_sem, panicked, history_vars>>

-----------------------------------------------------------------------------
(***************************************************************************)
(* sys__exit.  Closing the files is in module FileTable.                   *)
(***************************************************************************)
Exit(t, code) ==
    /\ At(t, "run")
    /\ t # KProc
    /\ p_status' = [p_status EXCEPT ![t] = code % 256]
    /\ exit_arg' = [exit_arg EXCEPT ![t] = code]
    /\ Goto(t, "exit_remthread")
    /\ UNCHANGED <<table_vars, local_vars, live, p_pid, p_parent, p_children, p_exited,
                   p_sem, p_numthreads, panicked, owed>>

\* Mutant: the thread stays attached to the process.
ExitRemthread_attached(t) ==
    /\ At(t, "exit_remthread")
    /\ Goto(t, "exit_flag")
    /\ UNCHANGED <<table_vars, field_vars, local_vars, live, panicked, history_vars>>

ExitRemthread(t) ==
    /\ At(t, "exit_remthread")
    /\ p_numthreads' = [p_numthreads EXCEPT ![t] = @ - 1]
    /\ Goto(t, "exit_flag")
    /\ UNCHANGED <<table_vars, local_vars, live, p_pid, p_parent, p_children, p_status,
                   p_exited, p_sem, panicked, history_vars>>

ExitFlag(t) ==
    /\ At(t, "exit_flag")
    /\ p_exited' = [p_exited EXCEPT ![t] = TRUE]
    /\ Goto(t, "exit_V")
    /\ UNCHANGED <<table_vars, local_vars, live, p_pid, p_parent, p_children, p_status,
                   p_sem, p_numthreads, panicked, history_vars>>

\* Mutant: the waiter is not signalled.
ExitV_silent(t) ==
    /\ At(t, "exit_V")
    /\ Goto(t, "none")
    /\ UNCHANGED <<table_vars, field_vars, local_vars, live, panicked, history_vars>>

ExitV(t) ==
    /\ At(t, "exit_V")
    /\ p_sem' = [p_sem EXCEPT ![t] = @ + 1]
    /\ Goto(t, "none")
    /\ UNCHANGED <<table_vars, local_vars, live, p_pid, p_parent, p_children, p_status,
                   p_exited, p_numthreads, panicked, history_vars>>

-----------------------------------------------------------------------------
(***************************************************************************)
(* sys_waitpid.                                                            *)
(***************************************************************************)

\* The checks on statusp and options.
WaitBadArgument(t) ==
    /\ At(t, "run")
    /\ t # KProc
    /\ Return(t, Failed)
    /\ UNCHANGED <<table_vars, field_vars, live, arg, want, panicked, history_vars>>

\* pid <= 0, or proc_search_pid finds nothing.
WaitNoSuchProcess(t, pid) ==
    /\ At(t, "run")
    /\ t # KProc
    /\ pid \in Pids => table[pid] = NULL
    /\ Return(t, Failed)
    /\ UNCHANGED <<table_vars, field_vars, live, arg, want, panicked, history_vars>>

\* proc_search_pid returns p and releases processTable.lk.
WaitSearch(t, pid) ==
    /\ At(t, "run")
    /\ t # KProc
    /\ pid \in Pids
    /\ table[pid] # NULL
    /\ p_pid[table[pid]] = pid
    /\ arg' = [arg EXCEPT ![t] = table[pid]]
    /\ want' = [want EXCEPT ![t] = pid]
    /\ Goto(t, "wait_check")
    /\ UNCHANGED <<table_vars, field_vars, live, ret, panicked, history_vars>>

\* Mutant: any process but the caller and its parent may be waited for.
WaitPermitted_anyone(t, p) ==
    want[t] >= PID_MIN /\ p # t /\ p # p_parent[t]

\* The checks on p: pid >= PID_MIN, not the caller, not its parent, a child of
\* it, it has children, not a sibling.
WaitPermitted(t, p) ==
    /\ want[t] >= PID_MIN
    /\ p # t
    /\ p # p_parent[t]
    /\ t = p_parent[p]
    /\ p_children[t] # {}
    /\ p_parent[p] # p_parent[t]

WaitRefused(t) ==
    /\ At(t, "wait_check")
    /\ ~WaitPermitted(t, arg[t])
    /\ Return(t, Failed)
    /\ UNCHANGED <<table_vars, field_vars, live, arg, want, panicked, history_vars>>

\* options = WNOHANG and p has not exited.
WaitNohang(t) ==
    /\ At(t, "wait_check")
    /\ WaitPermitted(t, arg[t])
    /\ ~p_exited[arg[t]]
    /\ Return(t, Result("waitpid_nohang", 0, 0))
    /\ UNCHANGED <<table_vars, field_vars, live, arg, want, panicked, history_vars>>

WaitAllowed(t) ==
    /\ At(t, "wait_check")
    /\ WaitPermitted(t, arg[t])
    /\ Goto(t, "wait_P")
    /\ UNCHANGED <<table_vars, field_vars, local_vars, live, panicked, history_vars>>

\* proc_wait: P(p_sem), read the status, then proc_destroy.
WaitP(t) ==
    LET p == arg[t] IN
    /\ At(t, "wait_P")
    /\ p_sem[p] > 0
    /\ p_sem' = [p_sem EXCEPT ![p] = @ - 1]
    /\ ret' = [ret EXCEPT ![t] = Result("waitpid", 0, MKWAIT_EXIT(p_status[p]))]
    /\ Goto(t, "reap_unregister")
    /\ UNCHANGED <<table_vars, live, p_pid, p_parent, p_children, p_status, p_exited,
                   p_numthreads, arg, want, panicked, history_vars>>

\* proc_end_waitpid's critical section.
Unregister(t) ==
    LET p == arg[t] IN
    /\ table' = [table EXCEPT ![p_pid[p]] = NULL]
    /\ UNCHANGED <<last_i, field_vars, local_vars, live, panicked>>

\* The rest of proc_destroy; the freed block is filled with 0xdeadbeef.
Free(t) ==
    LET p == arg[t] IN
    /\ live' = live \ {p}
    /\ p_pid' = [p_pid EXCEPT ![p] = 0]
    /\ p_parent' = [p_parent EXCEPT ![p] = Garbage]
    /\ p_children' = [p_children EXCEPT ![p] = {}]
    /\ p_status' = [p_status EXCEPT ![p] = 0]
    /\ p_exited' = [p_exited EXCEPT ![p] = FALSE]
    /\ p_sem' = [p_sem EXCEPT ![p] = 0]
    /\ owed' = [owed EXCEPT ![p] = {}]
    /\ exit_arg' = [exit_arg EXCEPT ![p] = 0]
    /\ UNCHANGED <<table_vars, p_numthreads, want, panicked>>

ReapUnregister(t) ==
    /\ At(t, "reap_unregister")
    /\ Unregister(t)
    /\ owed' = [owed EXCEPT ![t] = @ \ {p_pid[arg[t]]}]
    /\ Goto(t, "reap_free")
    /\ UNCHANGED exit_arg

ReapFree(t) ==
    /\ At(t, "reap_free")
    /\ Free(t)
    /\ Goto(t, "wait_return")
    /\ UNCHANGED <<arg, ret>>

\* sys_waitpid copies the status out and returns p->p_pid, which the system
\* call dispatcher drops: the user sees retval's initial 0.  (The menu returns
\* the status as the command's exit code.)  copyout may fail: the child is gone
\* and its status lost.
WaitReturn(t) ==
    /\ At(t, "wait_return")
    /\ \/ Return(t, ret[t])
       \/ t # KProc /\ Return(t, Failed)
    /\ UNCHANGED <<table_vars, field_vars, live, arg, want, panicked, history_vars>>

\* proc_destroy on the error paths of fork and common_prog.
UndoUnregister(t) ==
    /\ At(t, "undo_unregister")
    /\ Unregister(t)
    /\ Goto(t, "undo_free")
    /\ UNCHANGED history_vars

UndoFree(t) ==
    /\ At(t, "undo_free")
    /\ Free(t)
    /\ Goto(t, "sysret")
    /\ UNCHANGED <<arg, ret>>

-----------------------------------------------------------------------------
\* A thread in the kernel that is not waiting for anything.
KernelStep(t) ==
    \/ Resume(t)
    \/ CreateInit(t)
    \/ ForkFail(t) \/ ForkLink(t) \/ ForkThread(t) \/ ForkThreadFail(t)
    \/ (t = KProc /\ (MenuThread \/ MenuThreadFail))
    \/ StartProgram(t) \/ StartFail(t)
    \/ ExitRemthread(t) \/ ExitFlag(t) \/ ExitV(t)
    \/ WaitRefused(t) \/ WaitNohang(t) \/ WaitAllowed(t)
    \/ WaitP(t) \/ ReapUnregister(t) \/ ReapFree(t) \/ WaitReturn(t)
    \/ UndoUnregister(t) \/ UndoFree(t)

\* A program, or the person at the menu, asks for something.
Request(t) ==
    \/ ForkTooManyProcesses(t) \/ CreateNoMemory(t)
    \/ \E c \in Addr : CreateRegister(t, c) \/ CreatePanic(t, c)
    \/ \E code \in Code : Exit(t, code)
    \/ WaitBadArgument(t)
    \/ \E pid \in 0..(MaxProc + 1) : WaitNoSuchProcess(t, pid) \/ WaitSearch(t, pid)

Next == \E t \in Addr : KernelStep(t) \/ Request(t)

Spec == Init /\ [][Next]_vars

(***************************************************************************)
(* thread.c schedules round-robin with a timer interrupt, so a thread that *)
(* can run gets to run.                                                    *)
(***************************************************************************)
FairSpec == Spec /\ \A t \in Addr : WF_vars(KernelStep(t))

-----------------------------------------------------------------------------
(***************************************************************************)
(* Properties.                                                             *)
(***************************************************************************)
Waiting == {"wait_P", "reap_unregister", "reap_free"}
Making == {"init", "made", "linked", "undo_unregister", "undo_free"}
Freeing == {"reap_free", "undo_free"}

\* Every occupied slot of processTable names an allocated structure whose p_pid
\* is the slot's index, and every allocated structure is in its slot unless its
\* destroyer has just taken it out: no two processes share a pid and no pid
\* leads to freed memory (proc_init_waitpid, proc_end_waitpid).
TableConsistent ==
    /\ \A i \in Pids : table[i] # NULL => table[i] \in live /\ p_pid[table[i]] = i
    /\ \A a \in live : \/ p_pid[a] \in Pids /\ table[p_pid[a]] = a
                       \/ \E t \in Addr : pc[t] \in Freeing /\ arg[t] = a

\* A thread inside proc_wait holds a structure that stays allocated, that bears
\* the pid it asked for and that no other thread is waiting for, making or
\* destroying: P never touches a freed semaphore, and sem_destroy never finds a
\* sleeper, although proc_search_pid's result is used without processTable.lk.
WaitTargetStable ==
    \A t \in Addr : pc[t] \in Waiting =>
        /\ arg[t] \in live \ {t, KProc}
        /\ p_pid[arg[t]] = want[t]
        /\ \A u \in Addr \ {t} : pc[u] \in Waiting \cup Making => arg[u] # arg[t]

\* What proc_destroy is applied to has no thread left, and if it was waited for
\* it has exited (the assertions of proc_wait and proc_destroy); so a process
\* is never destroyed while its thread can still run.
OnlyDeadDestroyed ==
    /\ \A t \in Addr : pc[t] \in {"reap_unregister", "reap_free"} =>
        p_exited[arg[t]] /\ p_numthreads[arg[t]] = 0 /\ pc[arg[t]] = "none"
    /\ \A t \in Addr : pc[t] \in {"undo_unregister", "undo_free"} =>
        p_numthreads[arg[t]] = 0 /\ pc[arg[t]] = "none"
    /\ \A a \in Addr : pc[a] # "none" => a \in live

\* A pid that fork (or the menu's start) handed to a process keeps naming that
\* very child until it is collected: the circular allocator never recycles it
\* earlier, whatever other processes are created, exit or fail meanwhile.
OwedPidsKept ==
    \A t \in live : \A pid \in owed[t] :
        /\ table[pid] # NULL
        /\ p_parent[table[pid]] = IF t = KProc THEN NULL ELSE t

\* The status a waiter obtains is the low byte of what the process bearing the
\* awaited pid gave to _exit, encoded as a normal exit.
StatusFaithful ==
    [][\A t \in Addr : (pc[t] = "wait_P" /\ pc'[t] = "reap_unregister") =>
            LET s == ret'[t].status IN
            /\ WIFEXITED(s)
            /\ WEXITSTATUS(s) = exit_arg[table[want[t]]] % 256]_vars

\* Once the process it waits for is exiting, or has exited, a thread in
\* proc_wait gets out of it.
WaiterReturns ==
    \A t \in Addr :
        (pc[t] = "wait_P" /\ (pc[arg[t]] = "exit_remthread" \/ p_exited[arg[t]]))
            ~> (pc[t] = "sysret" \/ panicked)

\* README: a process can perform waitpid just on its children.
OnlyOwnChildren ==
    \A t \in Addr : pc[t] = "wait_P" => want[t] \in owed[t]

\* common_prog's comment: the new process is destroyed when the program exits;
\* so the menu, which waits for that, comes back once the program has no thread.
MenuComesBack ==
    (pc[KProc] = "wait_P" /\ pc[arg[KProc]] = "none") ~> (pc[KProc] = "sysret" \/ panicked)
=============================================================================
