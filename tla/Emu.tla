-------------------------------- MODULE Emu --------------------------------
(***************************************************************************)
(* The emulator file system, kern/dev/lamebus/emu.c: files of the host,    *)
(* opened by handle on a card that does one operation at a time.  e_lock   *)
(* gives the card to one thread, e_sem tells it that the operation is done.*)
(* Every vnode of ef_vnodes has a handle of its own, which emufs_reclaim   *)
(* closes.                                                                 *)
(***************************************************************************)
EXTENDS Integers, FiniteSets

CONSTANTS EmuThread, Handle, EMU_RETRIES, None

ASSUME EmuAssumption ==
    /\ IsFiniteSet(EmuThread)
    /\ EMU_RETRIES \in Nat
    /\ None \notin EmuThread /\ None \notin Handle

VARIABLES
    em,         \* emu_softc and the card's registers
    hopen,      \* the handles that are open on the host
    refs,       \* ef_vnodes: the reference count of the vnode of each handle
    big,        \* vfs_biglock
    et          \* the operation each thread is in

emuvars == <<em, hopen, refs, big, et>>

NoEt == [pc |-> "out", op |-> "none", h |-> None, fd |-> None, tries |-> 0]

EmuInit ==
    /\ em = [lock |-> None, sem |-> 0, oper |-> "none", handle |-> None, code |-> "none",
             reply |-> None, result |-> "none", fatal |-> FALSE]
    /\ hopen = {}
    /\ refs = [h \in Handle |-> 0]
    /\ big = [owner |-> None, depth |-> 0]
    /\ et = [t \in EmuThread |-> NoEt]

EAt(t, pc) == et[t].pc = pc
Et(t, r) == et' = [et EXCEPT ![t] = r]
Return(t, fd) == [NoEt EXCEPT !.fd = fd]

\* vfs_biglock is recursive.
BiglockFor(t) == big.owner \in {None, t}
vfs_biglock_acquire(t, n) == [owner |-> t, depth |-> big.depth + n]
vfs_biglock_release(n) == IF big.depth = n THEN [owner |-> None, depth |-> 0] ELSE [big EXCEPT !.depth = @ - n]

\* The registers are written and the operation started.
Start(e, op, h) == [e EXCEPT !.oper = op, !.handle = h]

\* vfs_lookup holds vfs_biglock over emufs_lookup; VOP_CREAT is called without it.
emufs_lookup(t) ==
    /\ EAt(t, "out") /\ et[t].fd = None /\ BiglockFor(t)
    /\ big' = vfs_biglock_acquire(t, 1)
    /\ Et(t, [et[t] EXCEPT !.pc = "open", !.op = "lookup"])
    /\ UNCHANGED <<em, hopen, refs>>

emufs_creat(t) ==
    /\ EAt(t, "out") /\ et[t].fd = None
    /\ Et(t, [et[t] EXCEPT !.pc = "open", !.op = "creat"])
    /\ UNCHANGED <<em, hopen, refs, big>>

\* The end of a lookup or creat: vfs_lookup gives vfs_biglock back.
EndOpen(t, fd) ==
    /\ Et(t, Return(t, fd))
    /\ big' = IF et[t].op = "lookup" THEN vfs_biglock_release(1) ELSE big

emu_open(t) ==
    /\ EAt(t, "open") /\ em.lock = None
    /\ em' = Start([em EXCEPT !.lock = t], "open", None)
    /\ Et(t, [et[t] EXCEPT !.pc = "opening"])
    /\ UNCHANGED <<hopen, refs, big>>

\* emu_waitdone and translate_err: P(e_sem); some codes are fatal.
Waitdone(t, pc) == EAt(t, pc) /\ em.sem > 0
Done == [em EXCEPT !.sem = @ - 1, !.fatal = @ \/ em.result = "BADHANDLE"]

\* The new handle is read before e_lock is released.
emu_open_done(t) ==
    /\ Waitdone(t, "opening")
    /\ em' = [Done EXCEPT !.lock = None]
    /\ IF em.result = "SUCCESS"
       THEN Et(t, [et[t] EXCEPT !.pc = "load", !.h = em.reply]) /\ UNCHANGED big
       ELSE EndOpen(t, None)
    /\ UNCHANGED <<hopen, refs>>

\* emufs_loadvnode: vfs_biglock, e_lock, and the vnode of the handle is found
\* or made.  When kmalloc fails vfs_biglock is not released.
emufs_loadvnode_biglock(t) ==
    /\ EAt(t, "load") /\ BiglockFor(t)
    /\ big' = vfs_biglock_acquire(t, 1)
    /\ Et(t, [et[t] EXCEPT !.pc = "table"])
    /\ UNCHANGED <<em, hopen, refs>>

emufs_loadvnode(t) ==
    /\ EAt(t, "table") /\ em.lock = None
    /\ refs' = [refs EXCEPT ![et[t].h] = @ + 1]
    /\ Et(t, Return(t, et[t].h))
    /\ big' = vfs_biglock_release(IF et[t].op = "lookup" THEN 2 ELSE 1)
    /\ UNCHANGED <<em, hopen>>

emufs_loadvnode_fail(t) ==
    /\ EAt(t, "table") /\ em.lock = None /\ refs[et[t].h] = 0
    /\ Et(t, [et[t] EXCEPT !.pc = "close"])
    /\ big' \in {vfs_biglock_release(1), big}
    /\ UNCHANGED <<em, hopen, refs>>

\* Mutant: emu_close does not take e_lock.
emu_close_unlocked(t) ==
    /\ EAt(t, "close")
    /\ em' = Start(em, "close", et[t].h)
    /\ Et(t, [et[t] EXCEPT !.pc = "closing"])
    /\ UNCHANGED <<hopen, refs, big>>

\* emu_close, of a handle that got no vnode.
emu_close(t) ==
    /\ EAt(t, "close") /\ em.lock = None
    /\ em' = Start([em EXCEPT !.lock = t], "close", et[t].h)
    /\ Et(t, [et[t] EXCEPT !.pc = "closing"])
    /\ UNCHANGED <<hopen, refs, big>>

Retry(t) == em.result = "MEDIA" /\ et[t].tries < EMU_RETRIES

\* An I/O error is tried again, with e_lock held.
emu_close_retry(t) ==
    /\ Waitdone(t, "closing") \/ Waitdone(t, "reclaiming")
    /\ Retry(t)
    /\ em' = Start(Done, "close", et[t].h)
    /\ Et(t, [et[t] EXCEPT !.tries = @ + 1])
    /\ UNCHANGED <<hopen, refs, big>>

emu_close_done(t) ==
    /\ Waitdone(t, "closing") /\ ~Retry(t)
    /\ em' = [Done EXCEPT !.lock = None]
    /\ EndOpen(t, None)
    /\ UNCHANGED <<hopen, refs>>

\* emu_read, emu_readdir, emu_write, emu_getsize, emu_trunc on an open file;
\* emufs_read and emufs_write call them again for the next EMU_MAXIO bytes.
emufs_io(t) ==
    /\ EAt(t, "out") /\ et[t].fd # None /\ em.lock = None
    /\ em' = Start([em EXCEPT !.lock = t], "io", et[t].fd)
    /\ Et(t, [et[t] EXCEPT !.pc = "io"])
    /\ UNCHANGED <<hopen, refs, big>>

emufs_io_done(t) ==
    /\ Waitdone(t, "io")
    /\ em' = [Done EXCEPT !.lock = None]
    /\ Et(t, Return(t, et[t].fd))
    /\ UNCHANGED <<hopen, refs, big>>

\* Another holder of the vnode (fork copies p_cwd): VOP_INCREF.
VOP_INCREF(t) ==
    /\ EAt(t, "out") /\ et[t].fd = None
    /\ \E u \in EmuThread :
          /\ EAt(u, "out") /\ et[u].fd # None
          /\ refs' = [refs EXCEPT ![et[u].fd] = @ + 1]
          /\ Et(t, [et[t] EXCEPT !.fd = et[u].fd])
    /\ UNCHANGED <<em, hopen, big>>

\* vnode_decref: the last reference goes to VOP_RECLAIM.
vnode_decref(t) ==
    /\ EAt(t, "out") /\ et[t].fd # None
    /\ IF refs[et[t].fd] > 1
       THEN refs' = [refs EXCEPT ![et[t].fd] = @ - 1] /\ Et(t, NoEt)
       ELSE Et(t, [et[t] EXCEPT !.pc = "reclaim", !.h = et[t].fd, !.fd = None]) /\ UNCHANGED refs
    /\ UNCHANGED <<em, hopen, big>>

\* emufs_reclaim: vfs_biglock, then e_lock, then the count is looked at.
emufs_reclaim_biglock(t) ==
    /\ EAt(t, "reclaim") /\ BiglockFor(t)
    /\ big' = vfs_biglock_acquire(t, 1)
    /\ Et(t, [et[t] EXCEPT !.pc = "count"])
    /\ UNCHANGED <<em, hopen, refs>>

emufs_reclaim(t) ==
    /\ EAt(t, "count") /\ em.lock = None
    /\ LET busy == refs[et[t].h] > 1
       IN /\ refs' = IF busy THEN [refs EXCEPT ![et[t].h] = @ - 1] ELSE refs
          /\ big' = IF busy THEN vfs_biglock_release(1) ELSE big
          /\ em' = IF busy THEN em ELSE Start([em EXCEPT !.lock = t], "close", et[t].h)
          /\ Et(t, IF busy THEN NoEt ELSE [et[t] EXCEPT !.pc = "reclaiming"])
    /\ UNCHANGED hopen

\* The vnode goes; it stays, with nobody's reference, when close has failed.
emufs_reclaim_done(t) ==
    /\ Waitdone(t, "reclaiming") /\ ~Retry(t)
    /\ em' = [Done EXCEPT !.lock = None]
    /\ refs' = IF em.result = "SUCCESS" THEN [refs EXCEPT ![et[t].h] = 0] ELSE refs
    /\ big' = vfs_biglock_release(1)
    /\ Et(t, NoEt)
    /\ UNCHANGED hopen

\* The card: open gives a handle that is not open yet, and an operation on a
\* handle that is not open fails.
emu_card ==
    /\ em.oper # "none"
    /\ \E code \in {"SUCCESS", "MEDIA"}, h \in Handle :
          /\ em.oper = "open" /\ code = "SUCCESS" => h \notin hopen
          /\ em.oper # "open" => h = em.handle
          /\ em' = [em EXCEPT !.oper = "none", !.reply = h,
                              !.code = IF em.oper # "open" /\ h \notin hopen THEN "BADHANDLE" ELSE code]
          /\ hopen' = CASE code = "SUCCESS" /\ em.oper = "open" -> hopen \cup {h}
                        [] code = "SUCCESS" /\ em.oper = "close" -> hopen \ {h}
                        [] OTHER -> hopen
    /\ UNCHANGED <<refs, big, et>>

emu_asserts == em.code # "none"

\* emu_irq: the result is saved and cleared, then V(e_sem).
emu_irq ==
    /\ em' = [em EXCEPT !.result = em.code, !.code = "none"]
    /\ UNCHANGED <<hopen, refs, big, et>>

emu_irq_V ==
    /\ em' = [em EXCEPT !.sem = @ + 1]
    /\ UNCHANGED <<hopen, refs, big, et>>

-----------------------------------------------------------------------------
\* emu_open, emufs_loadvnode, emufs_reclaim: a vnode that a thread holds has
\* its handle open on the host and is counted for each of its holders; the
\* card works, and a completion is outstanding, only for the thread that has
\* e_lock, so each thread gets the answer to its own operation; translate_err
\* never meets a fatal code.
HandlesMatch ==
    /\ ~em.fatal
    /\ em.lock = None => em.oper = "none" /\ em.code = "none" /\ em.sem = 0
    /\ \A h \in Handle :
          /\ Cardinality({t \in EmuThread : et[t].fd = h \/ (et[t].h = h /\ et[t].pc \in {"reclaim", "count"})}) <= refs[h]
          /\ refs[h] > 0 => h \in hopen \/ \E t \in EmuThread : EAt(t, "reclaiming") /\ et[t].h = h
=============================================================================
