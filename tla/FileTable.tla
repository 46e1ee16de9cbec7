----------------------------- MODULE FileTable -----------------------------
(***************************************************************************)
(* kern/syscall/file_syscalls.c: the system file table, the descriptor     *)
(* tables of the processes, and open, close, dup2, read, write, lseek and  *)
(* fstat on them; the copy that thread_fork makes of a descriptor table    *)
(* (proc_file_table_copy) and the closing of all files in sys__exit.       *)
(*                                                                         *)
(* An openfile is a slot of systemFileTable or, for the standard streams   *)
(* and for dup2, a block from kmalloc, which is never freed.  Several      *)
(* processes hold the same openfile after a fork.  What one process does   *)
(* to a shared openfile is cut into steps where another CPU can intervene; *)
(* ref_count++ and ref_count-- are a read and a write.  Read and write are *)
(* one operation, Transfer, which moves the offset by one; which bytes     *)
(* move, and the access mode, whose check has the same effect as a failing *)
(* VOP, are left out.                                                      *)
(***************************************************************************)
EXTENDS Naturals, FiniteSetsExt

CONSTANTS
    Proc,       \* processes (one thread each)
    First,      \* the process that the menu has started
    Openers,    \* the processes that call open
    File,       \* the vnodes that vfs_open can return
    Con,        \* the vnode of con:
    Heap,       \* blocks for openfiles outside the table
    Lock,       \* blocks for file locks
    NULL,
    Freed,      \* the state of a lock that does not exist
    NStd,       \* the number of standard streams: 3
    OPEN_MAX,
    SYSTEM_OPEN_MAX,
    MaxOffset,  \* bound: the largest offset
    MaxCount    \* bound: a process with a count this large does not fork

FD == 0..OPEN_MAX - 1
Std == 0..NStd - 1
Slot == 0..SYSTEM_OPEN_MAX - 1
Obj == Slot \cup Heap
Vnode == File \cup {Con}
Offset == 0..MaxOffset

ASSUME SizesAssumption ==
    /\ {NStd, OPEN_MAX, SYSTEM_OPEN_MAX, MaxOffset, MaxCount} \subseteq Nat
    /\ 0 < NStd /\ NStd <= OPEN_MAX /\ NStd <= SYSTEM_OPEN_MAX

ASSUME NamesAssumption ==
    /\ First \in Proc /\ Openers \subseteq Proc
    /\ Con \notin File /\ Heap \cap Slot = {}
    /\ NULL \notin Proc \cup Vnode \cup Lock \cup Obj
    /\ Freed \notin Proc \cup {NULL}

VARIABLES
    fileTable,                              \* of each process
    vn, offset, file_lock, ref_count,       \* the fields of the openfiles
    used,       \* blocks of Heap in use
    owner,      \* of each lock: a process, NULL or Freed
    opens,      \* references that vfs_open has given on each vnode
    pc, my,     \* where a process is in the kernel, and its local variables
    fault,      \* what stopped the kernel: a failed assertion, a panic
    exec_lock,  \* its holder
    opened      \* history: the file each descriptor was opened for

fields == <<vn, offset, file_lock, ref_count>>
vars == <<fileTable, fields, used, owner, opens, pc, my, fault, exec_lock, opened>>

Labels == {"user", "dead", "born", "gone", "start", "open_find", "open_fill", "open_fd",
           "close_clear", "close_lock", "close_test", "close_dec", "close_destroy",
           "exit", "fork_read", "fork_inc", "dup2_read", "dup2_write",
           "xfer_lock", "xfer_start", "xfer_io", "seek_lock", "seek_set"}

Locals == [of : Obj \cup {NULL}, v : Vnode \cup {NULL}, n : Nat, fd : FD, old : FD,
           child : Proc, to : {"user", "exit", "dup2_read"}]

\* Local variables that are not in use have these values.
Blank == [of |-> NULL, v |-> NULL, n |-> 0, fd |-> 0, old |-> 0, child |-> First, to |-> "user"]

TypeOK ==
    /\ fileTable \in [Proc -> [FD -> Obj \cup {NULL}]]
    /\ vn \in [Obj -> Vnode \cup {NULL}]
    /\ offset \in [Obj -> Offset]
    /\ file_lock \in [Obj -> Lock \cup {NULL}]
    /\ ref_count \in [Obj -> Nat]
    /\ used \in SUBSET Heap
    /\ owner \in [Lock -> Proc \cup {NULL, Freed}]
    /\ opens \in [Vnode -> Nat]
    /\ pc \in [Proc -> Labels]
    /\ my \in [Proc -> Locals]
    /\ fault \in {"none", "open", "dup2", "stat", "lock", "exit"}
    /\ exec_lock \in Proc \cup {NULL}
    /\ opened \in [Proc -> [FD -> Vnode \cup {NULL}]]

\* The table is zero; the first process is in runprogram.
Init ==
    /\ fileTable = [p \in Proc |-> [fd \in FD |-> NULL]]
    /\ vn = [o \in Obj |-> NULL]
    /\ offset = [o \in Obj |-> 0]
    /\ file_lock = [o \in Obj |-> NULL]
    /\ ref_count = [o \in Obj |-> 0]
    /\ used = {}
    /\ owner = [l \in Lock |-> Freed]
    /\ opens = [v \in Vnode |-> 0]
    /\ pc = [p \in Proc |-> IF p = First THEN "start" ELSE "dead"]
    /\ my = [p \in Proc |-> Blank]
    /\ fault = "none"
    /\ exec_lock = NULL
    /\ opened = [p \in Proc |-> [fd \in FD |-> NULL]]

Goto(p, from, to) == pc[p] = from /\ pc' = [pc EXCEPT ![p] = to]
Return(p, from) == Goto(p, from, "user") /\ my' = [my EXCEPT ![p] = Blank]
Fail(what) == fault' = what /\ UNCHANGED <<fileTable, fields, used, owner, opens, pc, my, opened, exec_lock>>

\* lock_acquire(of->file_lock); NULL and a destroyed lock stop the kernel.
Dangling(o) == file_lock[o] \notin {l \in Lock : owner[l] # Freed}
lock_acquire(p, o) == ~Dangling(o) /\ owner[file_lock[o]] = NULL
                      /\ owner' = [owner EXCEPT ![file_lock[o]] = p]
lock_release(p, o) == owner' = [owner EXCEPT ![file_lock[o]] = NULL]
Holds(p, o) == ~Dangling(o) /\ owner[file_lock[o]] = p

vfs_close(v) == opens' = [opens EXCEPT ![v] = @ - 1]

\* is_valid_fd
is_valid_fd(p, fd) == fd \in Std \/ fileTable[p][fd] # NULL

-----------------------------------------------------------------------------
(***************************************************************************)
(* proc_start_filetable, one stream per step, called by runprogram and by  *)
(* execv.  The openfile that the descriptor had is not closed, and nothing *)
(* tests what lock_create returns.  When it fails, execv returns with      *)
(* exec_lock held to a program that has lost its address space and dies,   *)
(* and runprogram ends the thread.                                         *)
(***************************************************************************)
sys_execv(p) ==
    /\ Goto(p, "user", "start")
    /\ exec_lock = NULL
    /\ exec_lock' = p
    /\ my' = [my EXCEPT ![p].fd = 0]
    /\ UNCHANGED <<fileTable, fields, used, owner, opens, fault, opened>>

Stream(objs, l) ==
    /\ vn' = [o \in Obj |-> IF o \in objs THEN Con ELSE vn[o]]
    /\ offset' = [o \in Obj |-> IF o \in objs THEN 0 ELSE offset[o]]
    /\ file_lock' = [o \in Obj |-> IF o \in objs THEN l ELSE file_lock[o]]
    /\ ref_count' = [o \in Obj |-> IF o \in objs THEN 1 ELSE ref_count[o]]
    /\ owner' = [x \in Lock |-> IF x = l THEN NULL ELSE owner[x]]
    /\ opens' = [opens EXCEPT ![Con] = @ + 1]

NewLocks == {l \in Lock : owner[l] = Freed} \cup {NULL}

StartStream(p) ==
    LET i == my[p].fd
    IN  /\ pc[p] = "start"
        /\ \E h \in Heap \ used, l \in NewLocks :
              /\ Stream({i, h}, l)
              /\ used' = used \cup {h}
              /\ fileTable' = [fileTable EXCEPT ![p][i] = h]
              /\ opened' = [opened EXCEPT ![p][i] = Con]
        /\ IF i + 1 \in Std
           THEN my' = [my EXCEPT ![p].fd = i + 1] /\ UNCHANGED <<pc, exec_lock>>
           ELSE /\ Return(p, "start")
                /\ exec_lock' = IF exec_lock = p THEN NULL ELSE exec_lock
        /\ UNCHANGED fault

StartFailed(p) ==
    /\ Goto(p, "start", IF exec_lock = p THEN "exit" ELSE "gone")
    /\ my' = [my EXCEPT ![p] = Blank]

StartNoVnode(p) ==
    /\ StartFailed(p)
    /\ UNCHANGED <<fileTable, fields, used, owner, opens, fault, opened, exec_lock>>

StartNoBlock(p) ==
    /\ StartFailed(p)
    /\ \E l \in NewLocks : Stream({my[p].fd}, l)
    /\ fileTable' = [fileTable EXCEPT ![p][my[p].fd] = NULL]
    /\ opened' = [opened EXCEPT ![p][my[p].fd] = NULL]
    /\ UNCHANGED <<used, fault, exec_lock>>

-----------------------------------------------------------------------------
(***************************************************************************)
(* sys_open.  The table is searched and the slot filled without a lock.    *)
(***************************************************************************)
sys_open(p) ==
    /\ Goto(p, "user", "open_find")
    /\ p \in Openers
    /\ \E f \in File : /\ opens' = [opens EXCEPT ![f] = @ + 1]
                       /\ my' = [my EXCEPT ![p].v = f]
    /\ UNCHANGED <<exec_lock, fileTable, fields, used, owner, fault, opened>>

FreeSlots == {i \in Slot : vn[i] = NULL /\ file_lock[i] = NULL}

OpenFind(p) ==
    /\ Goto(p, "open_find", "open_fill")
    /\ FreeSlots # {}
    /\ my' = [my EXCEPT ![p].of = Min(FreeSlots)]
    /\ UNCHANGED <<exec_lock, fileTable, fields, used, owner, opens, fault, opened>>

\* of stays NULL and of->file_lock is read before of is tested.
OpenFull(p) ==
    /\ pc[p] = "open_find"
    /\ FreeSlots = {}
    /\ Fail("open")

Fill(o, v, l) ==
    /\ vn' = [vn EXCEPT ![o] = v]
    /\ offset' = [offset EXCEPT ![o] = 0]
    /\ file_lock' = [file_lock EXCEPT ![o] = l]
    /\ ref_count' = [ref_count EXCEPT ![o] = 1]

OpenFill(p) ==
    /\ Goto(p, "open_fill", "open_fd")
    /\ \E l \in Lock : /\ owner[l] = Freed
                       /\ Fill(my[p].of, my[p].v, l)
                       /\ owner' = [owner EXCEPT ![l] = NULL]
    /\ UNCHANGED <<exec_lock, fileTable, used, opens, my, fault, opened>>

\* lock_create returns NULL: ENOMEM; the slot keeps the vnode.
OpenNoLock(p) ==
    /\ Return(p, "open_fill")
    /\ Fill(my[p].of, my[p].v, NULL)
    /\ vfs_close(my[p].v)
    /\ UNCHANGED <<exec_lock, fileTable, used, owner, fault, opened>>

FreeFds(p) == {fd \in FD : fileTable[p][fd] = NULL}

\* The offset is that of the file's end for O_APPEND.  The slot is not given back
\* when VOP_STAT fails or the process has no free descriptor (OpenNoFd).
OpenFd(p) ==
    /\ Return(p, "open_fd")
    /\ FreeFds(p) # {}
    /\ fileTable' = [fileTable EXCEPT ![p][Min(FreeFds(p))] = my[p].of]
    /\ opened' = [opened EXCEPT ![p][Min(FreeFds(p))] = my[p].v]
    /\ \/ UNCHANGED offset
       \/ vn[my[p].of] # NULL /\ offset' = [offset EXCEPT ![my[p].of] = MaxOffset]
    /\ UNCHANGED <<exec_lock, vn, file_lock, ref_count, used, owner, opens, fault>>

OpenNoFd(p) ==
    /\ Return(p, "open_fd")
    /\ vfs_close(my[p].v)
    /\ UNCHANGED <<exec_lock, fileTable, fields, used, owner, fault, opened>>

-----------------------------------------------------------------------------
(***************************************************************************)
(* sys_close, called by the program, by close_all_files in sys__exit and   *)
(* by sys_dup2; my.to is where it returns to.                              *)
(***************************************************************************)
Close(p, fd, to) ==
    /\ fileTable[p][fd] # NULL
    /\ fileTable' = [fileTable EXCEPT ![p][fd] = NULL]
    /\ my' = [my EXCEPT ![p].of = fileTable[p][fd], ![p].v = vn[fileTable[p][fd]], ![p].to = to]
    /\ pc' = [pc EXCEPT ![p] = "close_clear"]
    /\ opened' = [opened EXCEPT ![p][fd] = NULL]
    /\ UNCHANGED <<exec_lock, fields, used, owner, opens, fault>>

sys_close(p) == pc[p] = "user" /\ \E fd \in FD : Close(p, fd, "user")

CloseClear(p) ==
    /\ Goto(p, "close_clear", "close_lock")
    /\ my[p].v # NULL
    /\ vn' = [vn EXCEPT ![my[p].of] = NULL]
    /\ UNCHANGED <<exec_lock, fileTable, offset, file_lock, ref_count, used, owner, opens, my, fault, opened>>

\* Back to the caller; dup2 goes on with its own variables.
CloseReturn(p, from) ==
    /\ Goto(p, from, my[p].to)
    /\ my' = [my EXCEPT ![p] = [Blank EXCEPT !.old = my[p].old, !.fd = my[p].fd]]

\* EINVAL, if another process has closed the file.  sys__exit panics, dup2 fails.
CloseFails(p) ==
    /\ pc[p] = "close_clear"
    /\ my[p].v = NULL
    /\ vn' = [vn EXCEPT ![my[p].of] = NULL]
    /\ pc' = [pc EXCEPT ![p] = "user"]
    /\ my' = [my EXCEPT ![p] = Blank]
    /\ fault' = IF my[p].to = "exit" THEN "exit" ELSE fault
    /\ UNCHANGED <<exec_lock, fileTable, offset, file_lock, ref_count, used, owner, opens, opened>>

CloseLock(p) ==
    /\ Goto(p, "close_lock", "close_test")
    /\ lock_acquire(p, my[p].of)
    /\ UNCHANGED <<exec_lock, fileTable, fields, used, opens, my, fault, opened>>

LastReference(o) == ref_count[o] = 1

CloseLast(p) ==
    /\ Goto(p, "close_test", "close_destroy")
    /\ Holds(p, my[p].of)
    /\ LastReference(my[p].of)
    /\ vfs_close(my[p].v)
    /\ lock_release(p, my[p].of)
    /\ UNCHANGED <<exec_lock, fileTable, fields, used, my, fault, opened>>

\* lock_destroy, of a lock that is not NULL.  The openfile keeps its pointer to it.
CloseDestroy(p) ==
    /\ CloseReturn(p, "close_destroy")
    /\ file_lock[my[p].of] # NULL
    /\ owner' = [owner EXCEPT ![file_lock[my[p].of]] = Freed]
    /\ UNCHANGED <<exec_lock, fileTable, fields, used, opens, fault, opened>>

CloseShared(p) ==
    /\ Goto(p, "close_test", "close_dec")
    /\ Holds(p, my[p].of)
    /\ ~LastReference(my[p].of)
    /\ my' = [my EXCEPT ![p].n = ref_count[my[p].of]]
    /\ UNCHANGED <<exec_lock, fileTable, fields, used, owner, opens, fault, opened>>

CloseDec(p) ==
    /\ CloseReturn(p, "close_dec")
    /\ Holds(p, my[p].of)
    /\ ref_count' = [ref_count EXCEPT ![my[p].of] = my[p].n - 1]
    /\ lock_release(p, my[p].of)
    /\ UNCHANGED <<exec_lock, fileTable, vn, offset, file_lock, used, opens, fault, opened>>

-----------------------------------------------------------------------------
(***************************************************************************)
(* sys__exit and fork.                                                     *)
(***************************************************************************)
OpenFds(p) == {fd \in FD : fileTable[p][fd] # NULL}

sys__exit(p) ==
    /\ Goto(p, "user", "exit")
    /\ UNCHANGED <<exec_lock, fileTable, fields, used, owner, opens, my, fault, opened>>

close_all_files(p) ==
    /\ pc[p] = "exit"
    /\ OpenFds(p) # {}
    /\ Close(p, Min(OpenFds(p)), "exit")

ExitDone(p) ==
    /\ Goto(p, "exit", "dead")
    /\ OpenFds(p) = {}
    /\ UNCHANGED <<exec_lock, fileTable, fields, used, owner, opens, my, fault, opened>>

\* proc_file_table_copy: the pointers belong to the two processes alone, and the
\* child does not run yet; the counts are incremented one by one.
ForkGoOn(p, q, rest) ==
    IF rest = {}
    THEN /\ pc' = [pc EXCEPT ![p] = "user", ![q] = "user"]
         /\ my' = [my EXCEPT ![p] = Blank]
    ELSE /\ pc' = [pc EXCEPT ![p] = "fork_read", ![q] = "born"]
         /\ my' = [my EXCEPT ![p] = [Blank EXCEPT !.child = q, !.fd = Min(rest)]]

sys_fork(p) ==
    /\ pc[p] = "user"
    /\ \A fd \in OpenFds(p) : ref_count[fileTable[p][fd]] < MaxCount
    /\ \E q \in Proc :
          /\ pc[q] = "dead"
          /\ fileTable' = [fileTable EXCEPT ![q] = fileTable[p]]
          /\ opened' = [opened EXCEPT ![q] = opened[p]]
          /\ ForkGoOn(p, q, OpenFds(p))
    /\ UNCHANGED <<exec_lock, fields, used, owner, opens, fault>>

ForkRead(p) ==
    /\ Goto(p, "fork_read", "fork_inc")
    /\ my' = [my EXCEPT ![p].n = ref_count[fileTable[p][my[p].fd]]]
    /\ UNCHANGED <<exec_lock, fileTable, fields, used, owner, opens, fault, opened>>

ForkInc(p) ==
    /\ pc[p] = "fork_inc"
    /\ ref_count' = [ref_count EXCEPT ![fileTable[p][my[p].fd]] = my[p].n + 1]
    /\ ForkGoOn(p, my[p].child, {fd \in OpenFds(p) : fd > my[p].fd})
    /\ UNCHANGED <<exec_lock, fileTable, vn, offset, file_lock, used, owner, opens, fault, opened>>

-----------------------------------------------------------------------------
(***************************************************************************)
(* sys_dup2.                                                               *)
(***************************************************************************)
sys_dup2(p) ==
    /\ pc[p] = "user"
    /\ \E old, new \in FD :
          /\ is_valid_fd(p, old)
          /\ old # new
          /\ fileTable[p][new] = NULL
          /\ my' = [my EXCEPT ![p].old = old, ![p].fd = new]
    /\ pc' = [pc EXCEPT ![p] = "dup2_read"]
    /\ UNCHANGED <<exec_lock, fileTable, fields, used, owner, opens, fault, opened>>

\* new_fd is open: sys_close first.
Dup2Close(p) ==
    /\ pc[p] = "user"
    /\ \E old, new \in FD :
          /\ is_valid_fd(p, old)
          /\ old # new
          /\ fileTable[p][new] # NULL
          /\ fileTable' = [fileTable EXCEPT ![p][new] = NULL]
          /\ opened' = [opened EXCEPT ![p][new] = NULL]
          /\ my' = [my EXCEPT ![p].old = old, ![p].fd = new, ![p].of = fileTable[p][new],
                              ![p].v = vn[fileTable[p][new]], ![p].to = "dup2_read"]
    /\ pc' = [pc EXCEPT ![p] = "close_clear"]
    /\ UNCHANGED <<exec_lock, fields, used, owner, opens, fault>>

Dup2NoMemory(p) ==
    /\ Return(p, "dup2_read")
    /\ UNCHANGED <<exec_lock, fileTable, fields, used, owner, opens, fault, opened>>

Dup2Read(p) ==
    /\ Goto(p, "dup2_read", "dup2_write")
    /\ fileTable[p][my[p].old] # NULL
    /\ \E h \in Heap \ used :
          /\ used' = used \cup {h}
          /\ fileTable' = [fileTable EXCEPT ![p][my[p].fd] = h]
    /\ my' = [my EXCEPT ![p].n = ref_count[fileTable[p][my[p].old]]]
    /\ UNCHANGED <<exec_lock, fields, owner, opens, fault, opened>>

\* A standard descriptor counts as valid when it is closed: NULL->ref_count++.
Dup2Null(p) ==
    /\ pc[p] = "dup2_read"
    /\ fileTable[p][my[p].old] = NULL
    /\ Fail("dup2")

\* Mutant: the vnode is that of the system table's entry old_fd.
Dup2Write_system(p) ==
    LET o == fileTable[p][my[p].old]
        h == fileTable[p][my[p].fd]
    IN  /\ Return(p, "dup2_write")
        /\ vn' = [vn EXCEPT ![h] = vn[my[p].old]]
        /\ offset' = [offset EXCEPT ![h] = 0]
        /\ file_lock' = [file_lock EXCEPT ![h] = file_lock[o]]
        /\ ref_count' = [ref_count EXCEPT ![o] = my[p].n + 1, ![h] = my[p].n + 1]
        /\ opened' = [opened EXCEPT ![p][my[p].fd] = opened[p][my[p].old]]
        /\ UNCHANGED <<exec_lock, fileTable, used, owner, opens, fault>>

Dup2Write(p) ==
    LET o == fileTable[p][my[p].old]
        h == fileTable[p][my[p].fd]
    IN  /\ Return(p, "dup2_write")
        /\ vn' = [vn EXCEPT ![h] = vn[o]]
        /\ offset' = [offset EXCEPT ![h] = 0]
        /\ file_lock' = [file_lock EXCEPT ![h] = file_lock[o]]
        /\ ref_count' = [ref_count EXCEPT ![o] = my[p].n + 1, ![h] = my[p].n + 1]
        /\ opened' = [opened EXCEPT ![p][my[p].fd] = opened[p][my[p].old]]
        /\ UNCHANGED <<exec_lock, fileTable, used, owner, opens, fault>>

-----------------------------------------------------------------------------
(***************************************************************************)
(* sys_read and sys_write (file_read and file_write), sys_lseek, sys_fstat. *)
(* A closed standard descriptor is served by getch and putch.              *)
(***************************************************************************)
Begin(p, fd, to) ==
    /\ fileTable[p][fd] # NULL
    /\ Goto(p, "user", to)
    /\ my' = [my EXCEPT ![p].of = fileTable[p][fd]]
    /\ UNCHANGED <<exec_lock, fileTable, fields, used, owner, opens, fault, opened>>

Transfer(p) == \E fd \in FD : Begin(p, fd, "xfer_lock")

sys_lseek(p) == \E fd \in FD \ {0} : Begin(p, fd, "seek_lock")

XferLock(p) ==
    /\ Goto(p, "xfer_lock", "xfer_start")
    /\ lock_acquire(p, my[p].of)
    /\ UNCHANGED <<exec_lock, fileTable, fields, used, opens, my, fault, opened>>

XferStart(p) ==
    /\ Goto(p, "xfer_start", "xfer_io")
    /\ vn[my[p].of] # NULL
    /\ my' = [my EXCEPT ![p].n = offset[my[p].of]]
    /\ UNCHANGED <<exec_lock, fileTable, fields, used, owner, opens, fault, opened>>

\* Mutant: an early return without lock_release.
XferRefused_locked(p) ==
    /\ Return(p, "xfer_start")
    /\ UNCHANGED <<exec_lock, fileTable, fields, used, owner, opens, fault, opened>>

\* EINVAL, EBADF.
XferRefused(p) ==
    /\ Return(p, "xfer_start")
    /\ Holds(p, my[p].of)
    /\ lock_release(p, my[p].of)
    /\ UNCHANGED <<exec_lock, fileTable, fields, used, opens, fault, opened>>

\* VOP_READ or VOP_WRITE is done: all, nothing or an error.
XferEnd(p) ==
    /\ Return(p, "xfer_io")
    /\ Holds(p, my[p].of)
    /\ \E d \in {0, 1} : /\ my[p].n + d \in Offset
                         /\ offset' = [offset EXCEPT ![my[p].of] = my[p].n + d]
    /\ lock_release(p, my[p].of)
    /\ UNCHANGED <<exec_lock, fileTable, vn, file_lock, ref_count, used, opens, fault, opened>>

\* Mutant: no lock around the assignment.
SeekLock_free(p) ==
    /\ Return(p, "seek_lock")
    /\ offset' = [offset EXCEPT ![my[p].of] = 0]
    /\ UNCHANGED <<exec_lock, fileTable, vn, file_lock, ref_count, used, owner, opens, fault, opened>>

SeekLock(p) ==
    /\ Goto(p, "seek_lock", "seek_set")
    /\ lock_acquire(p, my[p].of)
    /\ UNCHANGED <<exec_lock, fileTable, fields, used, opens, my, fault, opened>>

\* SEEK_SET, SEEK_CUR or SEEK_END; unchanged if the result is negative.
SeekSet(p) ==
    /\ Return(p, "seek_set")
    /\ Holds(p, my[p].of)
    /\ \E z \in Offset : offset' = [offset EXCEPT ![my[p].of] = z]
    /\ lock_release(p, my[p].of)
    /\ UNCHANGED <<exec_lock, fileTable, vn, file_lock, ref_count, used, opens, fault, opened>>

\* SEEK_END, O_APPEND and fstat hand a NULL vnode to VOP_STAT, whose check panics.
StatNull(p) ==
    /\ \/ pc[p] \in {"seek_set", "open_fd"} /\ vn[my[p].of] = NULL
       \/ /\ pc[p] = "user"
          /\ \E fd \in FD \ Std : /\ fileTable[p][fd] # NULL
                                  /\ file_lock[fileTable[p][fd]] # NULL
                                  /\ vn[fileTable[p][fd]] = NULL
    /\ Fail("stat")

\* The file lock is destroyed or never was; or it is not ours any more when it
\* is released, because the slot was filled again.
LockFault(p) ==
    /\ \/ pc[p] \in {"close_lock", "xfer_lock", "seek_lock", "close_destroy"} /\ Dangling(my[p].of)
       \/ pc[p] \in {"close_test", "close_dec", "xfer_start", "xfer_io", "seek_set"}
          /\ ~Holds(p, my[p].of)
    /\ Fail("lock")

-----------------------------------------------------------------------------
Call(p) ==
    \/ sys_execv(p) \/ sys_open(p) \/ sys_close(p) \/ sys__exit(p) \/ sys_fork(p)
    \/ sys_dup2(p) \/ Dup2Close(p) \/ Transfer(p) \/ sys_lseek(p)

KernelStep(p) ==
    \/ StartStream(p) \/ StartNoVnode(p) \/ StartNoBlock(p)
    \/ OpenFind(p) \/ OpenFull(p) \/ OpenFill(p) \/ OpenNoLock(p) \/ OpenFd(p) \/ OpenNoFd(p)
    \/ CloseClear(p) \/ CloseFails(p) \/ CloseLock(p) \/ CloseLast(p) \/ CloseDestroy(p)
    \/ CloseShared(p) \/ CloseDec(p) \/ close_all_files(p) \/ ExitDone(p)
    \/ ForkRead(p) \/ ForkInc(p) \/ Dup2NoMemory(p) \/ Dup2Read(p) \/ Dup2Null(p) \/ Dup2Write(p)
    \/ XferLock(p) \/ XferStart(p) \/ XferRefused(p) \/ XferEnd(p) \/ SeekLock(p) \/ SeekSet(p)
    \/ StatNull(p) \/ LockFault(p)

Next == fault = "none" /\ \E p \in Proc : Call(p) \/ KernelStep(p)

Spec == Init /\ [][Next]_vars

-----------------------------------------------------------------------------
(***************************************************************************)
(* Properties.                                                             *)
(***************************************************************************)
\* A descriptor names the file it was opened for, through dup2 and fork, as long
\* as nobody has closed it (vn is not NULL): slots of the system file table are
\* not handed to two files at once.
DescriptorFaithful ==
    \A p \in Proc, fd \in FD :
        /\ fileTable[p][fd] # NULL
        /\ pc[p] = "user"
        /\ vn[fileTable[p][fd]] # NULL
        => vn[fileTable[p][fd]] = opened[p][fd]

\* sys_close's assertion ref_count > 1 for a shared file, and no count wraps
\* below zero, whatever increments and decrements of other processes are lost.
CountsPositive ==
    \A p \in Proc : /\ pc[p] = "close_dec" => my[p].n > 1
                    /\ \A fd \in FD : fileTable[p][fd] # NULL /\ pc[p] = "user"
                                      => ref_count[fileTable[p][fd]] > 0

\* Between the moment a transfer reads the offset and the moment it writes it
\* back, nobody moves it: processes that share an openfile do not read the same
\* bytes twice or overwrite each other's.  Unless a close, after lost increments,
\* has destroyed the lock meanwhile: then lock_release stops the kernel.
TransfersSerialized ==
    \A p \in Proc : pc[p] = "xfer_io" /\ Holds(p, my[p].of) => offset[my[p].of] = my[p].n

\* Every path through the calls, error paths included, gives the file lock back:
\* a lock with an owner is the lock of the openfile on which its owner is in the
\* middle of a close, a transfer or a seek.
LocksGivenBack ==
    \A l \in Lock : owner[l] \in Proc =>
        /\ pc[owner[l]] \in {"close_test", "close_dec", "xfer_start", "xfer_io", "seek_set"}
        /\ file_lock[my[owner[l]].of] = l

\* sys__exit closes all open files of the process, and does not panic.
ExitClosesFiles == fault # "exit"
=============================================================================
