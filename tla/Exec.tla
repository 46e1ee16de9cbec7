-------------------------------- MODULE Exec --------------------------------
(***************************************************************************)
(* Programs and their address spaces: sys_execv (kern/syscall/execv.c),    *)
(* runprogram, load_elf, the copies to and from user space                 *)
(* (kern/vm/copyinout.c), and dumbvm's vm_fault and as_* functions with    *)
(* the TLB of each CPU.  A page is the region or the stack it belongs to;  *)
(* the frame behind it is known by its address space.                      *)
(*                                                                         *)
(* kbuf is an array of 4-byte words.  A word is zero, a part of a string,  *)
(* an offset (of which only one byte is stored) or a pointer, which is     *)
(* given relative to the stack pointer.                                    *)
(***************************************************************************)
EXTENDS Integers, Sequences, FiniteSets

CONSTANTS
    Proc, CPU, None,
    AS,             \* address spaces there is memory for
    ArgLists,       \* lengths of a program's arguments, with their terminators
    ARG_WORDS,      \* ARG_MAX, in words
    BYTE,           \* one more than the largest value of an unsigned char
    NUM_TLB,
    ADDRSIZE,       \* the addresses are 0 .. ADDRSIZE - 1 ...
    USERSPACETOP,   \* ... and these are the user's, below it
    MaxEvents,
    UserPtrs,       \* the addresses a process passes for an argument
    Images          \* what the executable may hold, as many headers in each:
                    \* the page of a PT_LOAD, 0 for one to skip, -1 for another

ASSUME ExecAssumption ==
    /\ None \notin Proc \cup AS
    /\ ArgLists \subseteq Seq(Nat) /\ Images \subseteq Seq(Int)
    /\ ARG_WORDS \in Nat /\ BYTE \in Nat \ {0}
    /\ ADDRSIZE \in Nat \ {0} /\ USERSPACETOP \in Nat /\ UserPtrs \subseteq Nat
    /\ 4 * ARG_WORDS <= ADDRSIZE

VARIABLES
    pr,         \* where each process is in execv, runprogram or user mode
    exec_lock,  \* its holder
    kbuf,
    asp,        \* the address spaces
    tlb,        \* the valid entries of each CPU's TLB
    run,        \* the process each CPU runs
    file,       \* the executable
    panicked,
    strayed,    \* a copy has touched an address that is not the user's
    events      \* how many programs and processes were started, writes made to
                \* the executable, switches, and faults taken from user mode

vars == <<pr, exec_lock, kbuf, asp, tlb, run, file, panicked, strayed, events>>

Stack == 9           \* the stack has two pages; this is the upper one
StackPages == {8, Stack}
Zero == <<"zero", None, 0, 0>>
Str(p, i, k) == <<"str", p, i, k>>
Offset(n) == <<"offset", None, n, 0>>
Pointer(n) == <<"pointer", None, n, 0>>

NoProc == [pc |-> "none", kind |-> "none", as |-> None, other |-> None, args |-> <<>>, i |-> 0,
           argv |-> "none", spoiled |-> FALSE]
NoAS == [live |-> FALSE, regions |-> <<>>, ready |-> FALSE, done |-> FALSE]

Init ==
    /\ pr = [p \in Proc |-> NoProc]
    /\ exec_lock = None
    /\ kbuf = [w \in 0 .. ARG_WORDS - 1 |-> Zero]
    /\ asp = [a \in AS |-> NoAS]
    /\ tlb = [c \in CPU |-> {}]
    /\ run = [c \in CPU |-> None]
    /\ file \in Images
    /\ panicked = FALSE /\ strayed = FALSE /\ events = 0

-----------------------------------------------------------------------------
(* Memory *)

\* Bound: one of the events that are counted.
Event == events < MaxEvents /\ events' = events + 1

\* p is at pc, on a CPU.
On(p, c, pc) == pr[p].pc = pc /\ run[c] = p /\ ~panicked

\* as_create
as_create == {a \in AS : ~asp[a].live}

\* as_destroy: the frames go back, and an entry that maps one maps nobody's.
as_destroy(a) ==
    /\ asp' = [asp EXCEPT ![a] = NoAS]
    /\ tlb' = [c \in CPU |-> {[e EXCEPT !.as = IF @ = a THEN None ELSE @] : e \in tlb[c]}]

\* as_define_region: there is room for two.
as_define_region(a, page) == [asp EXCEPT ![a].regions = Append(@, page)]
RoomForRegion(a) == Len(asp[a].regions) < 2

Pages(a) == StackPages \cup {asp[a].regions[i] : i \in DOMAIN asp[a].regions}

\* vm_fault on the page: the entries of the TLB after the access, if it can be
\* made.  An entry is never replaced.
Mapped(c, page) == \E e \in tlb[c] : e.page = page
Entry(p, page) == [page |-> page, as |-> pr[p].as]
SetUp(a) == asp[a].ready /\ Len(asp[a].regions) = 2
vm_fault(p, c, page) ==
    /\ SetUp(pr[p].as) /\ page \in Pages(pr[p].as)
    /\ Mapped(c, page) \/ Cardinality(tlb[c]) < NUM_TLB
Touched(p, c, page) == IF Mapped(c, page) THEN tlb[c] ELSE tlb[c] \cup {Entry(p, page)}

\* copycheck: how much of the block may be copied, 0 for none.  The last
\* address is computed modulo the size of an address.
Min2(m, n) == IF m < n THEN m ELSE n
copycheck(bot, len) ==
    LET top == (bot + len - 1) % ADDRSIZE
    IN IF top < bot \/ bot >= USERSPACETOP THEN 0
       ELSE IF top >= USERSPACETOP THEN USERSPACETOP - bot ELSE len

\* copystr stops at the terminator, at maxlen and at the end of user space.
copystr(slen, maxlen, stoplen) == Min2(slen, Min2(maxlen, stoplen))
Strays(bot, n) == n > 0 /\ bot + n > USERSPACETOP

\* A fault in a copy that vm_fault cannot resolve: mips_trap resumes at copyfail,
\* and copyinstr, copyoutstr or copyout returns EFAULT.
copyfail(p, c, page) == ~vm_fault(p, c, page)
Copied(p, c, page) == tlb' = [tlb EXCEPT ![c] = Touched(p, c, page)]
copyinstr(p, c, page, bot, slen) ==
    LET maxlen == 4 * ARG_WORDS
        n == copystr(slen, maxlen, copycheck(bot, maxlen))
    IN [ok |-> n = slen /\ ~copyfail(p, c, page), stray |-> Strays(bot, n)]
copyoutstr(p, c, page, bot, slen) ==
    LET n == copystr(slen, slen, copycheck(bot, slen))
    IN [ok |-> n = slen /\ ~copyfail(p, c, page), stray |-> Strays(bot, n)]
copyout(p, c, page, bot, len) ==
    LET n == copycheck(bot, len)
    IN [ok |-> n = len /\ ~copyfail(p, c, page), stray |-> n = len /\ Strays(bot, len)]

\* as_activate leaves the TLB alone when there is no address space.
as_activate(c, a) == IF a = None THEN tlb ELSE [tlb EXCEPT ![c] = {}]

\* thread_switch
switch_in(c, p) ==
    /\ ~panicked /\ run[c] = None /\ pr[p].pc \notin {"none", "exited", "failed"}
    /\ \A d \in CPU : run[d] # p
    /\ run' = [run EXCEPT ![c] = p]
    /\ tlb' = as_activate(c, pr[p].as)
    /\ UNCHANGED <<pr, exec_lock, kbuf, asp, file, panicked, strayed, events>>

switch_out(c) ==
    /\ ~panicked /\ run[c] # None
    /\ Event
    /\ run' = [run EXCEPT ![c] = None]
    /\ UNCHANGED <<pr, exec_lock, kbuf, asp, tlb, file, panicked, strayed>>

-----------------------------------------------------------------------------
(* Failures *)

To(p, pc) == pr' = [pr EXCEPT ![p].pc = pc]
ToUser(r) == [r EXCEPT !.pc = "user", !.kind = "none", !.args = <<>>, !.i = 0,
                       !.argv = "none", !.spoiled = FALSE]

\* A new program starts with the arguments it was given, which the state of the
\* call is no longer needed for.
enter_new_process(r) == ToUser(r)

\* proc_setas returns the old address space, which the caller keeps.
proc_setas(r, newas) == [r EXCEPT !.as = newas, !.other = r.as]

\* Before the new address space is set: execv releases exec_lock and returns,
\* runprogram returns and the thread ends.
Refuse(p) ==
    /\ pr' = [pr EXCEPT ![p] = IF @.kind = "exec" THEN ToUser(@) ELSE [@ EXCEPT !.pc = "exit"]]
    /\ exec_lock' = IF pr[p].kind = "exec" THEN None ELSE exec_lock
    /\ UNCHANGED <<kbuf, asp, tlb, run, file, panicked, strayed, events>>

\* After it: execv goes back to the old one.
Undo(p) ==
    /\ To(p, IF pr[p].kind = "exec" THEN "undo" ELSE "exit")
    /\ UNCHANGED <<exec_lock, kbuf, asp, tlb, run, file, panicked, strayed, events>>

\* Mutant: the TLB is not flushed.
undo_setas_only(p, c) ==
    /\ On(p, c, "undo")
    /\ pr' = [pr EXCEPT ![p] = [proc_setas(@, @.other) EXCEPT !.pc = "undo_destroy"]]
    /\ UNCHANGED <<exec_lock, kbuf, asp, tlb, run, file, panicked, strayed, events>>

undo_setas(p, c) ==
    /\ On(p, c, "undo")
    /\ pr' = [pr EXCEPT ![p] = [proc_setas(@, @.other) EXCEPT !.pc = "undo_activate"]]
    /\ UNCHANGED <<exec_lock, kbuf, asp, tlb, run, file, panicked, strayed, events>>

undo_activate(p, c) ==
    /\ On(p, c, "undo_activate")
    /\ To(p, "undo_destroy")
    /\ tlb' = as_activate(c, pr[p].as)
    /\ UNCHANGED <<exec_lock, kbuf, asp, run, file, panicked, strayed, events>>

\* Mutant: the new address space is not destroyed.
undo_destroy_leak(p, c) ==
    /\ On(p, c, "undo_destroy")
    /\ pr' = [pr EXCEPT ![p] = [ToUser(@) EXCEPT !.other = None]]
    /\ exec_lock' = None
    /\ UNCHANGED <<kbuf, asp, tlb, run, file, panicked, strayed, events>>

undo_destroy(p, c) ==
    /\ On(p, c, "undo_destroy")
    /\ as_destroy(pr[p].other)
    /\ pr' = [pr EXCEPT ![p] = [ToUser(@) EXCEPT !.other = None]]
    /\ exec_lock' = None
    /\ UNCHANGED <<kbuf, run, file, panicked, strayed, events>>

-----------------------------------------------------------------------------
(* The arguments of execv *)

padded_length(len) == IF len % 4 = 0 THEN len ELSE len + (4 - (len % 4))

\* What the first n strings take, each padded to whole words.
Padded(args, n) ==
    LET sum[k \in 0 .. Len(args)] == IF k = 0 THEN 0 ELSE sum[k - 1] + padded_length(args[k])
    IN sum[n]
StringAt(args, i) == 4 * (Len(args) + 1) + Padded(args, i - 1)

\* Mutant: exec_lock is not waited for.
sys_execv_unlocked(p, c) ==
    /\ On(p, c, "user") /\ exec_lock # p
    /\ Event
    /\ panicked' = (exec_lock = p)
    /\ exec_lock' = p
    /\ \E args \in ArgLists :
          /\ StringAt(args, Len(args) + 1) <= 4 * ARG_WORDS
          /\ pr' = [pr EXCEPT ![p] = [@ EXCEPT !.pc = "count", !.kind = "exec", !.args = args, !.i = 1,
                                     !.argv = "none",
                                     !.spoiled = (\E w \in DOMAIN kbuf : kbuf[w] # Zero)
                                                 \/ \E i \in 1 .. Len(args) : StringAt(args, i) >= BYTE]]
    /\ UNCHANGED <<kbuf, asp, tlb, run, file, strayed>>

\* sys_execv takes exec_lock; it is asserted that the process does not have it
\* already.  The arguments are assumed to fit in kbuf.  (History: whether kbuf
\* is not clear, or an offset does not fit in a byte.)
sys_execv(p, c) ==
    /\ On(p, c, "user") /\ exec_lock \in {None, p}
    /\ Event
    /\ panicked' = (exec_lock = p)
    /\ exec_lock' = p
    /\ \E args \in ArgLists :
          /\ StringAt(args, Len(args) + 1) <= 4 * ARG_WORDS
          /\ pr' = [pr EXCEPT ![p] = [@ EXCEPT !.pc = "count", !.kind = "exec", !.args = args, !.i = 1,
                                     !.argv = "none",
                                     !.spoiled = (\E w \in DOMAIN kbuf : kbuf[w] # Zero)
                                                 \/ \E i \in 1 .. Len(args) : StringAt(args, i) >= BYTE]]
    /\ UNCHANGED <<kbuf, asp, tlb, run, file, strayed>>

\* More than ARG_MAX arguments: execv returns, and does not release exec_lock.
sys_execv_E2BIG(p, c) ==
    /\ On(p, c, "user") /\ exec_lock = None
    /\ Event
    /\ exec_lock' = p
    /\ UNCHANGED <<pr, kbuf, asp, tlb, run, file, panicked, strayed>>

buflen(p) == StringAt(pr[p].args, Len(pr[p].args) + 1)

\* copy_args_to_kbuf, for one argument: the string is copied behind the others,
\* and one byte of its offset is stored.
KbufWith(p, i) ==
    LET args == pr[p].args
        at == StringAt(args, i) \div 4
        n == padded_length(args[i]) \div 4
    IN [w \in DOMAIN kbuf |-> CASE w = i - 1 -> Offset(StringAt(args, i) % BYTE)
                              [] w \in at .. at + n - 1 -> Str(p, i, w - at)
                              [] OTHER -> kbuf[w]]

copy_args_to_kbuf(p, c) ==
    /\ On(p, c, "count") /\ pr[p].i <= Len(pr[p].args)
    /\ \E bot \in UserPtrs :
          LET copy == copyinstr(p, c, 1, bot, pr[p].args[pr[p].i])
          IN /\ copy.ok
             /\ Copied(p, c, 1)
             /\ strayed' = (strayed \/ copy.stray)
    /\ kbuf' = KbufWith(p, pr[p].i)
    /\ pr' = [pr EXCEPT ![p].i = @ + 1]
    /\ UNCHANGED <<exec_lock, asp, run, file, panicked, events>>

\* An argument that cannot be copied.  What was copied stays in kbuf.
copy_args_EFAULT(p, c) ==
    /\ On(p, c, "count") /\ pr[p].i <= Len(pr[p].args)
    /\ \E bot \in UserPtrs : ~copyinstr(p, c, 1, bot, pr[p].args[pr[p].i]).ok
    /\ Refuse(p)

\* change_kbuf_for_userstack
Changed(n) == [w \in DOMAIN kbuf |-> IF w < n THEN Pointer(IF kbuf[w][1] \in {"offset", "pointer"} THEN kbuf[w][3] ELSE 0)
                                     ELSE kbuf[w]]

\* What main() will find: every pointer at its string, and a NULL at the end.
Right(p, kb) ==
    LET args == pr[p].args
    IN /\ kb[Len(args)] = Zero
       /\ \A i \in 1 .. Len(args) :
             LET at == StringAt(args, i)
             IN /\ kb[i - 1] = Pointer(at)
                /\ \A k \in 0 .. padded_length(args[i]) \div 4 - 1 : kb[at \div 4 + k] = Str(p, i, k)

-----------------------------------------------------------------------------
(* Opening and loading the executable *)

\* A new process runs a program from the menu.
runprogram(p) ==
    /\ pr[p].pc = "none" /\ ~panicked
    /\ Event
    /\ pr' = [pr EXCEPT ![p] = [NoProc EXCEPT !.pc = "count", !.kind = "run", !.i = 1]]
    /\ UNCHANGED <<exec_lock, kbuf, asp, tlb, run, file, panicked, strayed>>

\* vfs_open, and before it kmalloc and copyinstr of the program's name; then
\* as_create and proc_setas.
open_and_setas(p, c) ==
    /\ On(p, c, "count") /\ pr[p].i > Len(pr[p].args)
    /\ \E a \in as_create :
          /\ asp' = [asp EXCEPT ![a].live = TRUE]
          /\ pr' = [pr EXCEPT ![p] = [proc_setas(@, a) EXCEPT !.pc = "activate"]]
    /\ UNCHANGED <<exec_lock, kbuf, tlb, run, file, panicked, strayed, events>>

open_fail(p, c) == On(p, c, "count") /\ pr[p].i > Len(pr[p].args) /\ Refuse(p)

activate(p, c) ==
    /\ On(p, c, "activate")
    /\ To(p, "filetable")
    /\ tlb' = as_activate(c, pr[p].as)
    /\ UNCHANGED <<exec_lock, kbuf, asp, run, file, panicked, strayed, events>>

proc_start_filetable(p, c) ==
    /\ On(p, c, "filetable")
    /\ pr' = [pr EXCEPT ![p].pc = "define", ![p].i = 1]
    /\ UNCHANGED <<exec_lock, kbuf, asp, tlb, run, file, panicked, strayed, events>>

\* When it fails execv just returns: the process has an empty address space,
\* and the first instruction in user mode meets an assertion of vm_fault.
proc_start_filetable_fail(p, c) ==
    /\ On(p, c, "filetable")
    /\ IF pr[p].kind = "exec" THEN panicked' = TRUE /\ UNCHANGED pr ELSE To(p, "exit") /\ UNCHANGED panicked
    /\ UNCHANGED <<exec_lock, kbuf, asp, tlb, run, file, strayed, events>>

\* load_elf: the segments are defined ...
Phdr(p) == file[pr[p].i]
load_elf_define(p, c) ==
    /\ On(p, c, "define") /\ pr[p].i <= Len(file)
    /\ Phdr(p) = 0 \/ (Phdr(p) > 0 /\ RoomForRegion(pr[p].as))
    /\ asp' = IF Phdr(p) > 0 THEN as_define_region(pr[p].as, Phdr(p)) ELSE asp
    /\ pr' = [pr EXCEPT ![p].i = @ + 1]
    /\ UNCHANGED <<exec_lock, kbuf, tlb, run, file, panicked, strayed, events>>

\* ... as_prepare_load gets their memory ...
as_prepare_load(p, c) ==
    /\ On(p, c, "define") /\ pr[p].i > Len(file)
    /\ asp' = [asp EXCEPT ![pr[p].as].ready = TRUE]
    /\ pr' = [pr EXCEPT ![p].pc = "load", ![p].i = 1]
    /\ UNCHANGED <<exec_lock, kbuf, tlb, run, file, panicked, strayed, events>>

\* ... and the headers are read again, and the segments read.
load_segment(p, c) ==
    /\ On(p, c, "load") /\ pr[p].i <= Len(file)
    /\ Phdr(p) = 0 \/ (Phdr(p) > 0 /\ vm_fault(p, c, Phdr(p)))
    /\ tlb' = IF Phdr(p) > 0 THEN [tlb EXCEPT ![c] = Touched(p, c, Phdr(p))] ELSE tlb
    /\ pr' = [pr EXCEPT ![p].i = @ + 1]
    /\ UNCHANGED <<exec_lock, kbuf, asp, run, file, panicked, strayed, events>>

\* A file that is no executable, a header of another type, a third region, no
\* memory, a page that is not there or no TLB entry for it, or an error of the
\* disk.
load_elf_fail(p, c) ==
    /\ On(p, c, "define") \/ (On(p, c, "load") /\ pr[p].i <= Len(file))
    /\ Undo(p)

as_complete_load(p, c) ==
    /\ On(p, c, "load") /\ pr[p].i > Len(file)
    /\ asp' = [asp EXCEPT ![pr[p].as].done = TRUE]
    /\ To(p, "args")
    /\ UNCHANGED <<exec_lock, kbuf, tlb, run, file, panicked, strayed, events>>

\* An access when fewer than two regions have been defined: an assertion of
\* vm_fault fails.
vm_fault_assert(p, c) ==
    /\ On(p, c, "args") \/ (On(p, c, "load") /\ pr[p].i <= Len(file) /\ Phdr(p) > 0)
    /\ ~SetUp(pr[p].as)
    /\ panicked' = TRUE
    /\ UNCHANGED <<pr, exec_lock, kbuf, asp, tlb, run, file, strayed, events>>

\* as_define_stack, and execv's arguments are copied to the stack.
copyout_args(p, c) ==
    LET copy == copyout(p, c, Stack, USERSPACETOP - buflen(p), buflen(p))
    IN /\ On(p, c, "args") /\ pr[p].kind = "exec" /\ SetUp(pr[p].as)
       /\ kbuf' = Changed(Len(pr[p].args))
       /\ tlb' = IF copy.ok THEN [tlb EXCEPT ![c] = Touched(p, c, Stack)] ELSE tlb
       /\ strayed' = (strayed \/ copy.stray)
       /\ pr' = [pr EXCEPT ![p].pc = IF copy.ok THEN "release" ELSE "undo",
                           ![p].argv = IF ~copy.ok THEN "none" ELSE IF Right(p, kbuf') THEN "right" ELSE "wrong"]
       /\ UNCHANGED <<exec_lock, asp, run, file, panicked, events>>

\* runprogram puts each string on the stack, and the argument vector below
\* them; its NULL is already there.  The results of copyoutstr are not looked at.
copyoutstr_args(p, c) ==
    /\ On(p, c, "args") /\ pr[p].kind = "run" /\ SetUp(pr[p].as)
    /\ \E args \in ArgLists \ {<<>>} :
         LET argc == Len(args)
             String(i) == copyoutstr(p, c, Stack, USERSPACETOP - Padded(args, i), args[i])
             argv == copyout(p, c, Stack, USERSPACETOP - Padded(args, argc) - 4 * (argc + 1), 4 * argc)
         IN \E ok \in {FALSE, argv.ok} :
              /\ pr' = [pr EXCEPT ![p] = IF ok THEN enter_new_process(@) ELSE [@ EXCEPT !.pc = "exit"]]
              /\ tlb' = IF ok THEN [tlb EXCEPT ![c] = Touched(p, c, Stack)] ELSE tlb
              /\ strayed' = (strayed \/ argv.stray \/ \E i \in 1 .. argc : String(i).stray)
    /\ UNCHANGED <<exec_lock, kbuf, asp, run, file, panicked, events>>

\* execv releases exec_lock, destroys the old address space, and only then
\* clears kbuf.
execv_release(p, c) ==
    /\ On(p, c, "release")
    /\ exec_lock' = None
    /\ as_destroy(pr[p].other)
    /\ pr' = [pr EXCEPT ![p] = [ToUser(@) EXCEPT !.pc = "flush", !.other = None]]
    /\ UNCHANGED <<kbuf, run, file, panicked, strayed, events>>

execv_flush(p, c) ==
    /\ On(p, c, "flush")
    /\ kbuf' = [kbuf EXCEPT ![pr[p].i] = Zero]
    /\ pr' = [q \in Proc |->
                 IF q = p THEN IF pr[p].i = ARG_WORDS - 1 THEN enter_new_process(pr[p]) ELSE [pr[p] EXCEPT !.i = @ + 1]
                 ELSE IF q = exec_lock THEN [pr[q] EXCEPT !.spoiled = TRUE] ELSE pr[q]]
    /\ UNCHANGED <<exec_lock, asp, tlb, run, file, panicked, strayed, events>>

-----------------------------------------------------------------------------
(* User mode *)

\* mips_trap: an access that vm_fault resolves ...
user_access(p, c) ==
    /\ On(p, c, "user")
    /\ Event
    /\ \E page \in Pages(pr[p].as) : vm_fault(p, c, page) /\ ~Mapped(c, page) /\ Copied(p, c, page)
    /\ UNCHANGED <<pr, exec_lock, kbuf, asp, run, file, panicked, strayed>>

\* ... or not: kill_curthread; or the process exits.
Off(p, c, pc) ==
    /\ To(p, pc)
    /\ run' = [run EXCEPT ![c] = None]
    /\ UNCHANGED <<kbuf, asp, tlb, file, panicked, strayed, events>>
sys__exit(p, c) ==
    /\ On(p, c, "user")
    /\ exec_lock' = IF exec_lock = p THEN "gone" ELSE exec_lock
    /\ Off(p, c, "exited")

\* cmd_progthread after a runprogram that failed: the thread ends, and nobody
\* is told.
cmd_progthread(p, c) == On(p, c, "exit") /\ Off(p, c, "failed") /\ UNCHANGED exec_lock

\* proc_destroy, by whoever waits for it.
proc_destroy(p) ==
    /\ pr[p].pc = "exited" /\ ~panicked
    /\ as_destroy(pr[p].as)
    /\ pr' = [pr EXCEPT ![p] = NoProc]
    /\ UNCHANGED <<exec_lock, kbuf, run, file, panicked, strayed, events>>

\* sys_fork: as_copy.
as_copy(p, c) ==
    /\ On(p, c, "user")
    /\ Event
    /\ \E a \in as_create, q \in Proc :
          /\ pr[q].pc = "none"
          /\ asp' = [asp EXCEPT ![a] = asp[pr[p].as]]
          /\ pr' = [pr EXCEPT ![q] = [NoProc EXCEPT !.pc = "forked", !.as = a]]
    /\ UNCHANGED <<exec_lock, kbuf, tlb, run, file, panicked, strayed>>

enter_forked_process(p, c) ==
    /\ On(p, c, "forked")
    /\ To(p, "user")
    /\ tlb' = as_activate(c, pr[p].as)
    /\ UNCHANGED <<exec_lock, kbuf, asp, run, file, panicked, strayed, events>>

\* A process in user mode writes to the executable.
sys_write(p, c) ==
    /\ On(p, c, "user")
    /\ Event
    /\ file' \in Images \ {file}
    /\ UNCHANGED <<pr, exec_lock, kbuf, asp, tlb, run, panicked, strayed>>

Step(p, c) ==
    \/ undo_setas(p, c) \/ undo_activate(p, c) \/ undo_destroy(p, c)
    \/ sys_execv(p, c) \/ sys_execv_E2BIG(p, c)
    \/ copy_args_to_kbuf(p, c) \/ copy_args_EFAULT(p, c)
    \/ open_and_setas(p, c) \/ open_fail(p, c) \/ activate(p, c)
    \/ proc_start_filetable(p, c) \/ proc_start_filetable_fail(p, c)
    \/ load_elf_define(p, c) \/ load_elf_fail(p, c) \/ as_prepare_load(p, c)
    \/ load_segment(p, c) \/ as_complete_load(p, c) \/ vm_fault_assert(p, c)
    \/ copyout_args(p, c) \/ copyoutstr_args(p, c)
    \/ execv_release(p, c) \/ execv_flush(p, c)
    \/ user_access(p, c) \/ sys__exit(p, c) \/ cmd_progthread(p, c) \/ as_copy(p, c) \/ enter_forked_process(p, c) \/ sys_write(p, c)

Next ==
    \/ \E p \in Proc : runprogram(p) \/ proc_destroy(p)
    \/ \E c \in CPU : switch_out(c)
    \/ \E p \in Proc, c \in CPU : switch_in(c, p) \/ Step(p, c)

Spec == Init /\ [][Next]_vars

-----------------------------------------------------------------------------
\* sys_execv: the new program gets the arguments it was given, every argv[i]
\* at its own string and a NULL behind the last, unless kbuf was not clear when
\* exec_lock was taken, another execv cleared it meanwhile, or an offset did
\* not fit in the byte that is kept of it.
ArgsFaithful == \A p \in Proc : pr[p].argv = "wrong" => pr[p].spoiled

\* as_activate, proc_setas, as_destroy, vm_fault, copycheck: on a CPU that runs
\* a process, whatever the TLB maps is memory of that process's own address
\* space as it is now, except between proc_setas and as_activate; and no copy
\* touches an address above user space.
ReachesOwnMemory ==
    /\ ~strayed
    /\ \A c \in CPU : LET p == run[c]
                      IN p # None =>
                           \/ pr[p].as = None \/ pr[p].pc \in {"activate", "undo_activate"}
                           \/ \A e \in tlb[c] : e.as = pr[p].as

\* sys_execv, runprogram, proc_destroy: a process in user mode has an address
\* space that is loaded, nobody else has it, and every address space belongs
\* to one process, so none is lost on any path that does not panic.
AddrspacesOwned ==
    ~panicked =>
       /\ \A p \in Proc : pr[p].pc = "user" => asp[pr[p].as].live /\ asp[pr[p].as].done /\ SetUp(pr[p].as)
       /\ \A a \in AS : asp[a].live <=>
             Cardinality({p \in Proc : pr[p].as = a}) + Cardinality({p \in Proc : pr[p].other = a}) = 1
=============================================================================
