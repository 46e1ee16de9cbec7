# A verification of the OS/161 shell kernel

This directory holds TLA+ models of the kernel in `src/kern` (configuration
`kern/conf/SHELL`: options shell, synch, dumbvm, sfs, semfs, assertions on),
TLC configurations that check them on small instances, and TLAPS proofs that
hold for instances of every size.

## The system and its parts

The kernel runs user programs as processes with one thread each. A process is a
`struct proc`; `processTable` maps pids to structures. Threads run on several
CPUs, are preempted by a timer, and block on wait channels, on which the
semaphores, locks and condition variables are built. Processes share open files
through the system file table, physical pages through dumbvm's page maps, and
named semaphores through semfs. Paths lead through the VFS layer to SFS on a
disk, to semfs, or to the emulator's file system; the drivers wait for
interrupts on semaphores.

| part | sources | module |
|---|---|---|
| process table, fork, exit, waitpid, starting programs from the menu | `proc/proc.c`, `syscall/{fork,exit,waitpid}.c`, `main/menu.c` | `ProcLife` |
| semaphores | `thread/synch.c`, `thread/spinlock.c` | `Semaphore`, `AtomicSemaphore` |
| locks, condition variables | `thread/synch.c` | `LockCV`, `Monitor` |
| threads, run queues, interrupts, inter-processor interrupts | `thread/{thread,threadlist,clock,spl}.c`, `locore/trap.c` | `Sched` |
| open files | `syscall/file_syscalls.c` | `FileTable` |
| execv, runprogram, ELF loading, user copies, faults, TLB | `syscall/{execv,runprogram,loadelf}.c`, `vm/copyinout.c`, `arch/mips/vm/dumbvm.c` | `Exec` |
| physical pages | `arch/mips/vm/{dumbvm,ram}.c` | `Coremap` |
| kernel heap | `vm/kmalloc.c` | `Kmalloc` |
| named semaphores | `fs/semfs/*.c`, `vfs/vnode.c` | `SemFS` |
| SFS | `fs/sfs/*.c`, `lib/bitmap.c` | `SFS` |
| VFS, current directory, mounting | `vfs/*.c`, `syscall/curdir_syscalls.c` | `VFS`, over `SFS` |
| disk, console, emulator file system, bus | `dev/**` | `Lhd`, `Console`, `Emu`, composed in `Devices` |

How the models fit together: `ProcLife`, `FileTable`, `SemFS`, `VFS` and the
drivers take `P`, `V` and sleep locks as single steps. `Semaphore` and `LockCV`
show that the code of `synch.c` implements exactly that (`AtomicSemaphore`,
`Monitor`), given spinlocks and wait channels. `Sched` shows what those need: a
thread runs on one CPU at a time, is on one list, and is not forgotten. `Exec`
takes the pages of an address space as given, which is `Coremap`'s subject;
`Kmalloc` takes whole pages from `alloc_kpages`. `VFS` and `SFS` are composed in one
state space, as are the three drivers with the bus. `SFS` is written as
functions from a state to the set of its outcomes, because all of it runs under
`vfs_biglock`; `VFS` makes the actions.

An `MC*` module gives the constants of an instance, the symmetry, and where
needed a constraint or a view. A view leaves out only what no later step or
property can read (a stopped kernel's variables, the contents of a free block,
the TLB of an idle CPU). Comments marked `Mutant` introduce variants of a
definition with a plausible bug, against which each property is tested: it is
violated when the definition is replaced by the variant.

## The runs

`tlc -config <cfg> <module>` in this directory.

| run | config | instance | states | checks |
|---|---|---|---|---|
| `proc` | `ProcLife.cfg` | 3 user addresses, 3 slots | 5,847 | `TableConsistent`, `WaitTargetStable`, `OnlyDeadDestroyed`, `OwedPidsKept`, `StatusFaithful`, `WaiterReturns` |
| `semaphore` | `Semaphore.cfg` | 4 threads, 3 `V` | 15,235 | `NoLostWakeup`, `DestroyedUnused`, `ImplementsAtomic`, `ProgressesAtomic` |
| `lock_cv` | `LockCV.cfg` | 4 threads | 35,648 | `OwnerIsRight`, `SleepsWithOneSpinlock`, `NoLostWakeup`, `ImplementsMonitor`, `ProgressesMonitor` |
| `sched` | `Sched.cfg` | 2 CPUs, 4 threads | 832,441 | `StackSafe`, `ThreadPlaced`, `IdleWoken`, `IplBalanced` |
| `file` | `FileTable.cfg` | 2 processes, 2 slots, 2 blocks | 2,936,616 | `DescriptorFaithful`, `LocksGivenBack`, `TransfersSerialized` |
| `exec` | `Exec.cfg` | 2 processes, 2 CPUs, 3 address spaces | about 800,000 | `ArgsFaithful`, `ReachesOwnMemory`, `AddrspacesOwned` |
| `mem` | `Coremap.cfg` | 2 threads, 1 address space, 4 pages | 520,144 | `OneOwner`, `NothingLost` |
| `heap` | `Kmalloc.cfg` | 2 threads, 4 pages, 2 block sizes | 301,303 | `PagesAccounted`, `BlocksAccounted`, `PagerefsAccounted` |
| `semfs` | `SemFS_safety.cfg` | 3 threads, 1 name, 2 semaphores | 623,627 | `VnodeRefs`, `OpenSemAlive`, `NamesAndSemsAgree` |
| `semfs_wakeup` | `SemFS_wakeup.cfg` | the same, one unit at a time | | `SleepersOnlyAtZero` (violated) |
| `fs` | `VFS.cfg` | 2 processes, 7 blocks, 2 names, 1 disk error | 218,577 | `VnodeRefs`, `VolumeConsistent`, `CleanVolume` |
| `devices` | `Devices.cfg` | 2 threads on one device, a keyboard | 623,693 | `TransferFaithful`, `WritePermission`, `InputFaithful`, `HandlesMatch` |

Five more configurations reproduce disagreements between the code and its
comments (see "Where the code does not do what it says"); `ProcLife_safety.cfg` is
the safety part of `proc` on a larger instance (three processes at a time and
four slots, 1.6 million states up to symmetry).

### Fairness

Only `proc`, `semaphore` and `lock_cv` check liveness, and the only fairness is weak
fairness of each thread's kernel steps: a runnable thread runs. The code
justifies it by the timer (`hardclock` calls `thread_yield`), first-in-first-out run
queues and migration; `Sched` shows that no runnable thread drops out of the
queues. Nothing is assumed about what programs request, about the order in which
competitors get a spinlock, or about who is overtaken.

### Deadlock

It is checked in `sched`, `heap`, `fs` and `devices`: there some thread, CPU or
device can always go on. It is not in the others, which may really stop: a panic
or a failed assertion ends the kernel (`proc`, `file`, `mem`, `exec`, `semfs`), the
number of `V` is bounded (`semaphore`), or all threads may wait for a signal
(`lock_cv`).

## ProcLife

### State and its correspondence to the code

| variable | code |
|---|---|
| `table`, `last_i` | `processTable.proc[1..MAX_PROC]`, `processTable.last_i` |
| `live` | the `struct proc` blocks that kmalloc has handed out |
| `p_pid` ... `p_numthreads` | the fields of the structure at an address |
| `pc`, `arg`, `want`, `ret` | where the process's thread is in the kernel and the locals it keeps there |
| `panicked` | `panic` was called |
| `owed`, `exit_arg` | history: the pids handed to a process and not yet collected; the argument of `_exit` |

A structure is identified by its ADDRESS, an element of `Addr`, and a freed
address can be handed out again. That is what makes stale pointers visible: the
`p_parent` of an orphan and the pointer that `proc_search_pid` returns are
addresses whose meaning can change.

One action is one stretch of code between two points where another thread can
change what the action reads: a critical section under `processTable.lk`, a
semaphore operation, the update of one shared field. `P` and `V` are atomic.
Creation is `CreateRegister` (the critical section of `proc_init_waitpid`) and
`CreateInit` (the rest of `proc_create`), because the structure is reachable
through the table between the two. Destruction is `Unregister` and `Free`.
`_exit` is four actions, in the order of the code: status, detaching the
thread, `p_exited`, `V`. `waitpid` searches the table in one action and looks at
what it found in another.

Left out: errno values (a failed call is `Failed`), names, the current
directory, the file table and the address space of the process. kfree's fill
pattern 0xdeadbeef is the value `Garbage` of `p_parent`.

### What the run checks

In `proc` two user processes and the kernel live at a time, at three addresses, in
a table of three slots: the table gets full, pids come round, and an address is
given to a new process while somebody remembers the old one. The one exit code,
257, does not fit in a byte. `WaiterReturns` is the liveness property: a thread in
`proc_wait` returns once the process it waits for has begun to exit.

### What is proved

`ProcLifeProofs` proves, for every finite or infinite set of addresses, every
`MAX_PROC` above 1 and every set of exit codes,
the five safety properties of `proc` and type correctness (`TypeCorrect`,
`TableCorrect`, `WaitersSafe`, `DestroysOnlyTheDead`, `PidsKept`,
`StatusHandedOver`). The assumptions are the named ASSUMEs of `ProcLife`: the
kernel's process is an address, NULL and the fill pattern are none, and exit
codes are integers.

None of the properties is inductive. `IInv` adds what the code relies on without
saying so:

* `TableInv`: a structure that is not in its slot is in the hands of exactly the
  thread that is about to free it;
* `HoldInv`: at most one thread makes, awaits or destroys a structure;
* `ParentInv`: the reason for it. A waiter is the structure's `p_parent`, and so
  is its maker (or the field is still NULL or garbage), and a freed structure
  has no parent. Hence a thread that passes `waitpid`'s test on `p_parent` is the
  only one that can, even if the pointer it got from the table is stale;
* `ThreadInv`: where the thread of a process can be, given `p_numthreads`,
  `p_exited` and `p_sem`;
* `StatusInv`, `OwedInv`: the history variables.

The proof has one step per action for each of these parts.

## Semaphore and AtomicSemaphore

`AtomicSemaphore` is what callers rely on: a count, and threads that want to
subtract one from it or add one to it, each in a single step. `Semaphore` is the
code: `sem_lock`, `sem_count` and the queue `sem_wchan`, with one action for each
stretch of `P` and `V` between two operations on the spinlock. A thread that
`wchan_wakeone` has taken off the channel still has to get the spinlock and test
the count again, and a newcomer may be faster. `sem_destroy` is possible once
every `V` begun has been matched by a `P` that returned and nobody is inside `P`,
which is how `proc_destroy` uses it: the thread that made the `V` can still be on
its way out.

`semaphore` shows that no sleeper is left behind with a unit that nobody is coming
for, that a destroyed semaphore is not touched, and that the code implements
`AtomicSemaphore`, and with weak fairness the fair one: some waiter gets each
unit. Four threads are enough for two sleepers, a thread that overtakes and a `V`
in flight. `MaxV` bounds the number of calls of `V`.

`SemaphoreProofs` proves the safety properties and the refinement for any finite
set of threads and any initial count. Two facts are added to make the invariant
inductive: `UnitsInside` (the count is positive while a thread is about to take a
unit or has just added one) and `Balance` (the count, the `V`s that have not counted
yet, the `P`s on their way out and those finished add up to the initial count and
the `V`s begun). `Balance` is what makes `sem_destroy` safe.

## LockCV and Monitor

`Monitor` is the abstract monitor with Mesa semantics, one state per thread: `out`,
`want`, `in`, `wait`, `signal`, `broadcast`. `LockCV` is the code of `lock_*` and
`cv_*` with `SEM` = 0: the lock's spinlock, owner and channel, the condition
variable's spinlock and channel. `lock_do_i_hold` reads the owner without the
spinlock, which is right because only the caller itself writes the caller's name
there (`OwnerIsRight`). `cv_wait` takes the condition variable's spinlock before it
releases the lock, so that a signal in between finds it on the channel.

`lock_cv` shows that owner, spinlocks and channels agree with where the threads
are, that no thread sleeps holding a spinlock other than the one `wchan_sleep`
releases, no lost wakeup, and the refinement of `Monitor`; with weak fairness a free
lock that somebody wants is taken, and signalled threads want the lock again.

`LockCVProofs` proves the safety properties, mutual exclusion and the refinement
for any set of threads. `TestedFree` is the added fact: between the test of the
owner and the assignment the spinlock keeps the lock free.

## Sched

`thread[t]` is `struct thread` with the place where it resumes, `cpu[c]` is
`struct cpu` with its run queue, zombies and pending interrupt, and what the CPU is
executing: `cur` is `c_curthread`, and `stack` the thread on whose stack it really
runs, which differs while the CPU idles or is between two threads. `wc_threads` is
one wait channel, `lbolt`. A step is what a CPU does under one spinlock.

All of `thread_switch` is there: the early return, putting the thread on its list
before its context is saved, idling with the queue unlocked, `exorcise` on the
other side; `thread_fork`, `thread_exit`, `wchan_sleep`, `wchan_wakeone`,
`wchan_wakeall`, the clock interrupt with `thread_consider_migration` and
`thread_yield`, and inter-processor interrupts, which `lamebus_clear_ipi` clears after
the handler. Interrupts come at "run" and at "idle", where they are enabled.

`StackSafe` is the answer to the exercise in the comment of
`thread_consider_migration` (migrating `curthread` "can cause bad things to
happen"): without the test for `curthread` two CPUs run on one stack. `IdleWoken`
says that the clearing of an interrupt that came after the handler does no harm.
`IplBalanced` says that `t_iplhigh_count`, which counts spinlocks and `splhigh` of the
thread and is handed over at a switch, comes out right, which `mips_trap`
asserts. Two CPUs and four threads (the two boot threads and two others) are
enough for a migration that meets a sleeper's wakeup, and for a zombie whose
stack is in use while another CPU wants to run.

## FileTable

`fileTable[p][fd]` points to an openfile: a slot of `systemFileTable` or a block
from kmalloc (standard streams, dup2). `vn`, `offset`, `file_lock` and `ref_count` are
its fields, `owner` the state of the locks, `opens` the references `vfs_open` has
handed out. `pc` and `my` are the position and locals of a process in the kernel,
`opened` a history variable: the file a descriptor was opened for. `fault` says what
stopped the kernel: a NULL openfile or vnode, a lock that does not exist, the panic
of `sys__exit`. Once it is set nothing happens any more, so the properties describe
the executions up to that point.

Steps are cut where another CPU can see or change a shared openfile. The search
for a slot and its filling are two steps, `ref_count++` and `ref_count--` a read and
a write, and a transfer reads the offset, waits for the VOP and writes the offset.
A process's own descriptor table changes with the step that uses it.

`file` lets only one process call open, because with two the slots are not safe
(`FileTable_slot.cfg`): it shows that everything else is. One standard stream
stands for three; two descriptors and two slots, one beyond the streams, make the
tables full. `MaxCount` keeps a process whose counts are high from forking, as lost
decrements let counts grow without bound.

`FileTableProofs` proves the three properties of `file` for any number of processes,
files, descriptors, slots and blocks. The assumptions are the ASSUMEs of `FileTable`:
`SizesAssumption` (sizes are natural numbers, and the streams fit both tables) and
`NamesAssumption` (NULL and the mark of a freed lock are nothing else). The theorems
also have the hypothesis `OneOpener`, at most one process calls open, without which
`DescriptorFaithful` is false (`FileTable_slot.cfg`). The inductive invariant is `FtInv`:

* `Proper`: a process has an openfile in its hands exactly in the middle of a call on
  it, and that openfile is a block in use or a slot that was filled, never a free one;
  the slot that `sys_open` has found is still free when it is filled;
* `Table`: every descriptor points to such an openfile, whose vnode is the one the
  descriptor was opened for or was cleared by a close;
* `Apart`: an openfile between its filling and its descriptor, or between dup2's kmalloc
  and the copy of the fields, is nobody else's; a child being forked has one parent.
  Without it the assignments of open and dup2 could change the file of a descriptor
  of another process;
* `Started` or `Booting`: the entries of the standard streams are taken from the start on,
  so that `sys_open` does not find them free, though they never get a lock;
* `LocksGivenBack` and `TransfersSerialized` themselves. `TransfersSerialized` says nothing of
  a transfer whose lock was destroyed meanwhile: as `ref_count++` is not atomic, a close
  that is not the last may do that, and `lock_release` then stops the kernel.

The lemmas `Bystander` to `Acts` say what a step of one process must respect for each part;
every action has one lemma that shows it does.

`CountsArePositive` needs no `OneOpener`: however many processes open, dup2, fork, close
and exit, and whichever increments and decrements of `ref_count` are lost, the count that
`sys_close` decrements is above 1, as its `KASSERT` says (`file_syscalls.c:548`), and the
openfile of a descriptor has a positive count. Its inductive invariant `CountInv` says that
whatever a process points to or has in its hands is counted, except the slot that open
is filling and the block that dup2 has not filled yet, and that what a process has read of
a count and not written back is positive. `CountsPositive` has no run; TLC has checked it
and `CountInv` with one and with two openers (8 and 4.7 million states).

## Exec

A process is at `pr[p].pc` in `sys_execv`, `runprogram`, fork, exit or user mode, on
one of the CPUs. `kbuf` is the argument buffer in words: a part of a string, an
offset, of which one byte is stored, or a pointer. `asp` are the address spaces,
`tlb` the valid entries of each CPU, `file` the executable, which another process may
rewrite between the two passes of `load_elf` over its headers. Copies fail where
`copycheck` refuses the range or where `vm_fault` cannot serve the page; a fault
from user mode ends the process. `events` bounds how many programs are started,
processes forked and switched, and faults taken.

`ArgsFaithful` follows the arguments from the caller's memory through the padding,
the offsets and the relocation to the new stack. It excludes what the code is
known to spoil (below). `ReachesOwnMemory` relates every TLB entry to the process
that runs, through `proc_setas`, `as_activate`, switches and the undoing of a failed
execv. `AddrspacesOwned` says that each address space belongs to exactly one process
or call on every error path. The addresses passed to copies include ones beyond
user space and ranges that wrap around. `exec` has 802,366 states.

`ExecProofs` proves the three properties for any processes, CPUs, address spaces,
executables, lists of arguments of any number and lengths, buffer and address sizes.
`ExecAssumption` says that sizes are natural numbers, those of a byte and of the
address space not 0, that None is neither a process nor an address space, and that
`kbuf` fits in the address space. The properties say
what a process finds when it has arrived; the inductive invariant `ExecInv` says what
it has on the way:

* `Place`: at each point of execv and runprogram, which address space the process runs
  in and which it can go back to or has to destroy, and that the one it can go back to
  is loaded. `undo` works because of it;
* `Owned`: an address space in use is some process's current or other one, and of one
  process only; `ReachesOwnMemory` and `AddrspacesOwned` rest on it;
* `Running`, `MapsOwn`: a process is on one CPU, whose TLB maps only its address space,
  but for the time between `proc_setas` and `as_activate` and while it has none;
* `Locked`, `Buffered`: an execv has `exec_lock`, and `kbuf` holds the strings it has
  counted, each behind the one before, their offsets in the first words and zeroes in
  the words of the others and of the NULL behind them, unless one of the excluded
  cases spoiled it;
* `ArgsFaithful` itself, and that no copy has left user space.

The strings lie at sums of padded lengths. That these sums exist, grow and stay whole
words is proved from the least counterexample (`LeastNat`), not by induction, which
the provers do not have. `copycheck`'s test on a range that wraps is an arithmetic
lemma of its own.

## Coremap

Memory is counted in pages. `freeRamFrames` is the set of pages marked 1,
`allocSize` the table of sizes, `firstpaddr` the end of what `ram_stealmem` has
handed out. `kernel` is the set of blocks `alloc_kpages` has returned; `state`,
`pbase` and `npages` describe address spaces, which take their three segments one
after the other. A request goes through the three critical sections of
`getppages` (`getfreeppages`, `ram_stealmem`, the entry in `allocSize`), each a step,
as is each `freeppages` of `as_destroy`. `bootTop` and `spoiled` are history.

`mem`: two threads, one address space, four pages of which one is the kernel's
image, requests of one or two pages and segments of none or one. Memory runs
out at every point of an allocation, and pages are freed and found again while the
other thread allocates. An instance with five pages (5.2 million states) also
passes. `MCCoremap` stops exploring once `as_destroy` has freed a segment that was
never allocated, and `NothingLost` excludes empty segments: see below. Segments
larger than RAM are left out (`SizesAssumption`).

`CoremapProofs` proves `OneOwner`, `OwnedNotFree` and `NothingLost` for any memory, any
sizes and any number of threads and address spaces, from `SizesAssumption` alone.
None of them is inductive: freeing trusts `allocSize` and the address space, which
they do not mention. The inductive invariant is `CoreInv`:

* `Claims`: kernel blocks, segments and requests on their way back are three kinds of
  holder; the pages of two holders are disjoint, and are not free, not of the image
  and not still in RAM. The lemma `Flow` says what a step must respect for this to
  last: one holder takes pages that were free or in RAM, or gives its own back;
* `Covered`: the converse, every page taken after `vm_bootstrap` is a holder's or free;
* `Spaces`: an address space is prepared or destroyed by one thread, which has its
  memory for exactly the segments before, or from, the one it has come to;
* `SizesKept`: `allocSize` is right for the kernel's blocks, or was cleared by a request
  for no pages, in which case pages are lost but not shared.

All of it holds until `as_destroy` is given an address space that lacks memory
(`"nomem"`): after that, pages of address 0 are marked free and no ownership is left
to speak of.

## Kmalloc

`kheaproots`, `pageref`, `sizebases` and `allbase` are the code's tables and lists. What
happens under `kmalloc_spinlock` is one step; `alloc_kpages` and `free_kpages`, around
which the code drops it, are steps of their own, so that two threads may both
find that the heap needs a page, or a root a page of references, and one of them
gives its page back. `owned` are the blocks in the hands of callers, `lost` the
reference slots that a failed `allocpagerefpage` leaves marked.

Two roots of two slots and four pages make roots, references and pages run out;
one block size has two blocks per page and one a single block, so that pages
become empty in both ways.

## SemFS

`sems`, `dents`, `vnodes` and `sem` are the table of semaphores, the directory, the
reference counts and `struct semfs_sem`. Sleep locks make a step of what they
protect, except that `sems_hasvnode` and `sems_linked` are read and written under
different locks by `semfs_remove`, `semfs_reclaim` and `semfs_getvnode`, whose steps are
cut there. Between `vnode_decref` and `semfs_reclaim` other threads run. Any
allocation may fail.

`semfs`: three threads, one name, two semaphores: enough for a name that is
removed and created again while the first semaphore is open; 658,866 states. `Next`
ends at a panic or a use of freed memory (action `UseAfterFree`, below).

`SemFSProofs` proves the three properties of `semfs` for any finite sets of threads
and semaphores and any names; `SemFSAssumption` adds that amounts fit `UINT_MAX` and
that NULL is nothing else. `NamesAndSemsAgree` speaks only of states in which neither
lock is held and `OpenSemAlive` only of open files, so neither is inductive. `SemFSInv`
says of every state:

* `Table`, `HasVnodes`: the allocated semaphores are those of the table, each in one
  slot, and `sems_hasvnode` is set exactly when there is a vnode;
* `Dents`: a name's semaphore is linked, but for the one name that the thread with
  `semfs_dirlock` is dealing with;
* `Reachable`: a semaphore is linked, has a vnode, or some thread is in the middle of
  creating, removing or reclaiming it. So none leaks, whichever of `semfs_remove` and
  `semfs_reclaim` comes first;
* `VnodeRefs` with `Position`, which says what a thread holds at each point. A count is the
  cardinality of the set of references; the lemmas `RefGained`, `RefLost` and `RefMoved`
  are all the actions need of it;
* `Checking`, `Uses`, `Directory`: what a thread read under a lock and relies on after.
  A removal that saw no vnode finds none when it destroys the semaphore, since one is
  made only under `semfs_dirlock`, which it holds; one that saw a vnode leaves the
  semaphore to a thread that has it open or is between the two halves of
  `semfs_reclaim`. Its own pointer may by then be to a destroyed semaphore:
  `Directory` allows that, and it is `UseAfterFree`.

TLC has checked `SemFSInv` with three threads, one name and two semaphores and with two
threads, two names and three semaphores (1,696,008 states). Steps that change no slot
(`OutsideStep`), only the table (`TableStep`) or happen under `semfs_dirlock`
(`DirectoryStep`) have a lemma each that says what such a step must respect, and every
action one that shows it does. `SleepersOnlyAtZero` is false (`semfs_wakeup`).

## SFS and VFS

`SFS` is the volume: free map (words of bits, `bitmap.c`), inodes with one direct and
one indirect level, directory, vnodes in memory and the disk. Each routine returns
the set of its outcomes, and every transfer may fail, at most `MaxFaults` times in a
behaviour; what was done before the failure stays. `VFS` has path translation,
`vfs_open` with `O_CREAT`, `O_EXCL` and `O_TRUNC`, close, remove, rename, link, mkdir
(which SFS refuses), chdir, getcwd, the boot file system, mount, unmount, sync, swapon and the raw device.
What holds `vfs_biglock` is one step; `vfs_open` and the others are not, and between
their calls, and between the two halves of `vnode_decref`, other processes run.
`vfs_link`, `vfs_symlink`, `vfs_rename` and `vfs_swapon` have no caller in this kernel; they are in the
model as the interface they are.

`VnodeRefs` counts the holders of every vnode. `VolumeConsistent` is what fsck would
check, at every moment, on what memory and disk together say; `CleanVolume` the
same on the disk alone after an unmount. Seven blocks, of which three are reserved,
one direct block and an indirect block of two let the volume, the inode and the
directory fill up. `MaxLoad` bounds references and blocks at one time.

The formatting tool is outside the kernel: a fresh volume is as `mksfs` leaves it
(`FreshVolume`), and bits past the end of the volume are set by it. File data is
left out; sizes are in blocks. The root directory is bounded to direct blocks.

## Devices: Lhd, Console, Emu

`Devices` composes the three drivers with the bus: autoconfiguration attaches them,
threads use one of them (`Workloads`), and all interrupts go to one dispatcher, which
reads which slots are asserting and calls the handlers in turn.

* `Lhd`: `lh_clear` gives the card to one thread per sector, `lh_done` says that the
  interrupt handler has saved the result. The uio of the caller advances.
* `Console`: `cs_wsem` is the permission to write, which the write-done interrupt
  gives back. From interrupt handlers and under spinlocks characters are sent
  polled, in the middle of an interrupt-driven write; `lser_writepolled` then leaves
  the interrupt asserted. Input goes through a ring of three places, one of which
  is never used.
* `Emu`: `e_lock` gives the card to one thread; a vnode has a handle, closed by
  `emufs_reclaim` with retries (`EMU_RETRIES` stands for ten). Handles are fresh for
  each open, as the host gives them.

The cards are modelled from how the drivers use them: an operation takes its time,
succeeds or fails, and asserts an interrupt until the register is cleared.

`DevicesProofs` proves the four properties of `devices` for the
composed system: any disk, any ring, any handles and retries, any set of threads
(finite for the emulator, whose vnodes are counted) and any workload. The
assumptions are `LhdAssumption`, `ConAssumption`, `EmuAssumption` (sizes are natural
numbers, a sector and the ring are not empty, nobody is not a thread) and
`DevicesAssumption`. `DevInv` is the conjunction of one invariant per part, and each
mentions the bus only to say where its own handler is, so that a step of one device
leaves the others' alone:

* `LhdInv`: `lh_clear` is a token that one thread has; the result of its transfer is in
  exactly one place (the card, `lhd_irq`'s local, `lh_result` with `lh_done` raised); and
  the buffer, the sector and the uio are the ones of the request;
* `ConInv`: the permission to write is in exactly one place (`cs_wsem`, a thread about
  to send, the port, the handler before `con_start`), also while `lser_writepolled`
  borrows the port; the ring holds the characters accepted and not yet taken, and
  `cs_rsem` never exceeds them;
* `EmuInv`: the card has one user and an operation is at one stage; a handle that was
  opened and is not in the table yet is one thread's; a vnode counts at least its
  holders, and is closed only after the last.

## Where the code does not do what it says

`semfs_wakeup` is a run of its own. `semfs_wakeup` relies on "sleepers, which should
only be the case if the old count is 0" (`fs/semfs/semfs_vnops.c:136`): two readers
sleep, a write of 1 signals one, a second write of 1 comes before it has run and
wakes nobody, and the second reader sleeps although the count is 1.

Five more disagreements have a configuration, in which TLC finds the property
violated:

| config, module | property | what happens |
|---|---|---|
| `ProcLife_adopt.cfg`, `MCProcLife` | `OnlyOwnChildren` | waitpid succeeds on a process the caller did not fork: `p_parent` of an orphan points to its dead parent's structure, and a new process gets that address (`waitpid.c:82`; `src/README.md:26` says "a process can perform waitpid **just** on its children") |
| `ProcLife_menu.cfg`, `MCProcLife` | `MenuComesBack` | a program that cannot be loaded ends without `V(p_sem)`, and the menu waits for ever (`menu.c:95`; `menu.c:142` says "The new process will be destroyed when the program exits") |
| `FileTable_slot.cfg`, `MCFileTable` | `DescriptorFaithful` | two opens at the same time take the same slot of the system file table (`file_syscalls.c:454`) |
| `FileTable_exit.cfg`, `MCFileTable` | `ExitClosesFiles` | close clears `of->vn` for all holders; the exit of another holder panics (`exit.c:42`; `src/README.md:44` says "all open files of `curproc` are closed") |
| `Coremap_image.cfg`, `MCCoremap` | `ImageKept` | as_destroy frees segments that were never allocated, at address 0, after load_elf has refused a file or memory ran out (`dumbvm.c:376`; `ram.c:88` says that address 0 is not allocatable) |

The models have more behaviours that a reader of the comments would not expect.
They are actions or excluded cases, named where there is one:

* Processes: fork with a full table panics (`sys_fork` means to return ENPROC, but
  tests the caller's pid), and does so with slot `last_i` free, as the search never
  tests that slot. `proc_destroy` frees a structure to which a thread inside
  `sys_waitpid` still has a pointer (it does not wait through it:
  `WaitTargetStable`). A failing copyout of the status loses it. A successful
  waitpid returns 0, not the pid. Failures of `sem_create` and `array_create` in
  `proc_create` are not looked at.
* Files: a full system file table is a NULL dereference, not ENFILE (`OpenFull`);
  slots whose file was closed keep their lock pointer and stay taken. After a fork
  and a close by each holder the vnode is never closed. A lost increment of
  `ref_count` lets a close that is not the last destroy the lock (four processes
  with one stream, 26 steps). dup2 starts the copy at offset 0, gives it a count of
  its own and shares the lock; dup2 of a closed standard descriptor dereferences
  NULL (`Dup2Null`).
* execv: `kbuf` is cleared after `exec_lock` is released, although it is one of the
  "shared data structures" (`execv.c:21`), and is not cleared when execv fails, so
  that the next argv may lack its NULL; offsets are stored in one byte
  (`execv.c:67`). `spoiled` marks these cases. Too many arguments, and a failing
  `proc_start_filetable`, return with `exec_lock` held. A copy of length 0 is refused
  by `copycheck`. Not in the model: arguments that do not fit `kbuf`, the leak of
  `kprogram`, the direct reads of `args[i]` and `program` from user memory, and
  `runprogram`'s `argvptr[argc]`, one past what was allocated.
* Memory: a program with one segment makes `getppages(0)`. The address it gets is
  not allocated; by the time size 0 is entered there, another thread may own the
  page, and its `free_kpages` then frees nothing. Pages are lost but never shared.
  At the end of RAM `as_destroy` fails `KASSERT(nRamFrames>first)` (`DestroyPanics`).
* Heap: when a root's page cannot be had, the slot of the reference stays marked in
  use (`lost`).
* semfs: `semfs_remove` goes on using a semaphore that `semfs_reclaim` has destroyed
  (`UseAfterFree`); `semfs_getdirentry` dereferences the NULL that a removed name
  leaves; when `semfs_direntry_create` fails, `semfs_creat` returns 0 without a vnode
  and `vfs_open` panics (`drop_dir`).
* SFS and VFS: a reclaim that fails leaves the vnode with a reference that is
  nobody's (`stuck`), and the volume cannot be unmounted any more; a second disk
  error while `sfs_rename` undoes itself panics, as its message says. `sfs_itrunc`
  is off by one in the indirect block, which does not matter for length 0, the only
  one used. `vfs_setbootfs` refuses a name with a colon. Not in the model:
  `dir_parser` (`curdir_syscalls.c:168`) allocates the size of a pointer for a string.
* Devices: when kmalloc fails, `emufs_loadvnode` leaves `vfs_biglock` held. A close
  that fails for good leaves the vnode in the table. `kgets` in the menu calls `getch`
  without `con_userlock_read`; that reader is not in the model.

## What is proved, and what is only model-checked

Proved with TLAPS, for every value of the constants: type correctness and the
safety properties of `ProcLife`, `Semaphore` and `LockCV`; that `Semaphore` implements
`AtomicSemaphore` and `LockCV` implements `Monitor`; the safety properties of `Coremap`,
`Exec`, `SemFS` and `Devices`, and of `FileTable` with one opener. In the proof modules
`USE ZenonT(30)` makes Zenon the prover of the leaves that name none; those that need
arithmetic or records name SMT.

Checked with TLC only:

* liveness (`WaiterReturns`, `ProgressesAtomic`, `ProgressesMonitor`), which is beyond
  TLAPS;
* `Sched`, `Kmalloc`, `VFS` and the `SFS` below it, which have no proof yet. `Sched` needs
  an invariant on where every thread is at each point of a switch, over run queues that
  are split and joined. `Kmalloc` takes pages off its lists with `SelectSeq`, and
  `VnodeRefs` of `VFS` sums with `FoldSet`; the library has no theorem on either, so
  these would have to be proved first, as the sums of `Exec` are. `VolumeConsistent` and
  `CleanVolume` are about the whole of a volume after every operation of `SFS`.

`FileTable` with two processes that call open has only the proof about reference counts
and the configuration that shows what goes wrong.

## Not modelled

* Command parsing and the test menus of `menu.c`, boot, `kprintf`, `kgets`, string
  and 64-bit arithmetic routines: no shared state, or input and output only.
* Assembly code, register layout, the decoding of system call numbers.
* The pointer checks and the copying of names in `sys_mkdir` and `sys_chdir`, and
  `dir_parser`: a call they refuse changes nothing; the others are in `VFS`.
* Path strings, file data, directory listing, `stat` contents, time.
* `lock_destroy`, `cv_destroy` (assert and free), the overflow of `sem_count`.
* Inter-processor interrupts for panic and shutdown, TLB shootdown (dumbvm
  panics), `hangman` (not compiled).
* The random, clock, beep and trace devices: one register each, no state.
* Mounting of semfs and emufs, at boot only; unmounting them: `findmount` skips what
  has no raw device, and `emufs_unmount` refuses.
