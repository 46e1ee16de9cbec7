------------------------------- MODULE SemFS -------------------------------
(***************************************************************************)
(* kern/fs/semfs: named user-level semaphores as a file system with one    *)
(* directory, and the reference counts of kern/vfs/vnode.c under it.       *)
(*                                                                         *)
(* A process holds at most one open file.  semfs_dirlock, semfs_tablelock  *)
(* and each sems_lock are sleep locks: what one thread does while it holds *)
(* one is a single step unless the code takes another lock, or another     *)
(* thread reads the same field under a different lock (sems_hasvnode and   *)
(* sems_linked).  Any kmalloc may fail.                                    *)
(***************************************************************************)
EXTENDS Naturals, Sequences, FiniteSets, FiniteSetsExt

CONSTANTS
    Thread, Name,
    Sem,            \* bound: the semfs_sem structures that are ever allocated
    NULL,
    UINT_MAX,
    Amount          \* bound: the lengths passed to read, write and truncate

ASSUME SemFSAssumption ==
    /\ IsFiniteSet(Thread) /\ IsFiniteSet(Sem)
    /\ UINT_MAX \in Nat
    /\ Amount \subseteq 0 .. UINT_MAX
    /\ NULL \notin Thread \cup Name \cup Sem

VARIABLES
    dirlock, tablelock, \* the owner, or NULL
    sems,           \* semfs_sems: a sequence of semaphores and NULLs
    dents,          \* semfs_dents: a sequence of <<name, semnum>> and NULLs
    vnodes,         \* vn_refcount by semnum; 0 when there is no vnode
    sem,            \* struct semfs_sem
    th              \* what each thread is doing

vars == <<dirlock, tablelock, sems, dents, vnodes, sem, th>>

SEMFS_ROOTDIR == 0
Semnum == 1 .. Cardinality(Sem)
NoDent == <<NULL, 0>>

Out(fd) == [pc |-> "out", op |-> "none", name |-> NULL, dir |-> FALSE, num |-> 0,
            sem |-> NULL, resid |-> 0, vn |-> {}, fd |-> fd]

TypeOK ==
    /\ {dirlock, tablelock} \subseteq Thread \cup {NULL}
    /\ sems \in Seq(Sem \cup {NULL})
    /\ dents \in Seq((Name \X Semnum) \cup {NoDent})
    /\ vnodes \in [{SEMFS_ROOTDIR} \cup Semnum -> Nat]
    /\ sem \in [Sem -> [state : {"fresh", "live", "destroyed"}, lock : Thread \cup {NULL},
                        count : 0 .. UINT_MAX, hasvnode : BOOLEAN, linked : BOOLEAN]]
    /\ \A t \in Thread : th[t].fd \subseteq {SEMFS_ROOTDIR} \cup Semnum

Init ==
    /\ dirlock = NULL /\ tablelock = NULL
    /\ sems = <<>> /\ dents = <<>>
    /\ vnodes = [n \in {SEMFS_ROOTDIR} \cup Semnum |-> 0]
    /\ sem = [s \in Sem |-> [state |-> "fresh", lock |-> NULL, count |-> 0,
                             hasvnode |-> FALSE, linked |-> FALSE]]
    /\ th = [t \in Thread |-> Out({})]

-----------------------------------------------------------------------------
(* Vnodes *)

\* semfs_getvnode, the table lock held: the vnode gains a reference, or is
\* made with one; its semaphore is then told so.
semfs_getvnode(n) ==
    /\ tablelock = NULL
    /\ vnodes' = [vnodes EXCEPT ![n] = @ + 1]
    /\ sem' = IF n = SEMFS_ROOTDIR \/ vnodes[n] > 0 THEN sem
              ELSE [sem EXCEPT ![sems[n]].hasvnode = TRUE]

\* ENOMEM: no vnode was there and none could be made.
getvnode_nomem(n) == tablelock = NULL /\ vnodes[n] = 0

vnode_decref_always(t, n, next) ==
    /\ vnodes' = [vnodes EXCEPT ![n] = @ - 1]
    /\ th' = [th EXCEPT ![t] = IF vnodes[n] > 1 THEN next
                               ELSE [next EXCEPT !.pc = "reclaim", !.num = n, !.vn = {n}]]

\* vnode_decref under vn_countlock.  The last reference is not dropped but
\* passed to VOP_RECLAIM, after the spinlock is released.
vnode_decref(t, n, next) ==
    IF vnodes[n] > 1
    THEN vnodes' = [vnodes EXCEPT ![n] = @ - 1] /\ th' = [th EXCEPT ![t] = next]
    ELSE th' = [th EXCEPT ![t] = [next EXCEPT !.pc = "reclaim", !.num = n, !.vn = {n}]] /\ UNCHANGED vnodes

\* semfs_reclaim: someone may have found the vnode in the table meanwhile.
Referenced(n) == vnodes[n] > 1

semfs_reclaim(t) ==
    LET n == th[t].num IN
    /\ th[t].pc = "reclaim" /\ tablelock = NULL
    /\ \/ /\ Referenced(n)
          /\ vnodes' = [vnodes EXCEPT ![n] = @ - 1]
          /\ th' = [th EXCEPT ![t] = Out(@.fd)]
          /\ UNCHANGED <<tablelock, sem>>
       \/ /\ ~Referenced(n)
          /\ vnodes' = [vnodes EXCEPT ![n] = 0]
          /\ IF n = SEMFS_ROOTDIR
             THEN th' = [th EXCEPT ![t] = Out(@.fd)] /\ UNCHANGED <<tablelock, sem>>
             ELSE /\ tablelock' = t
                  /\ sem' = [sem EXCEPT ![sems[n]].hasvnode = FALSE]
                  /\ th' = [th EXCEPT ![t] = [@ EXCEPT !.pc = "reclaim_check", !.vn = {}]]
    /\ UNCHANGED <<dirlock, sems, dents>>

\* semfs_sem_destroy; nothing checks that the lock is free.
semfs_sem_destroy(s) == sem' = [sem EXCEPT ![s].state = "destroyed"]

semfs_reclaim_check_keep(t) ==
    /\ th[t].pc = "reclaim_check"
    /\ tablelock' = NULL
    /\ th' = [th EXCEPT ![t] = Out(@.fd)]
    /\ UNCHANGED <<dirlock, dents, vnodes, sem, sems>>

\* The rest of it: sems_linked is read without sems_lock.
semfs_reclaim_check(t) ==
    LET n == th[t].num IN
    /\ th[t].pc = "reclaim_check"
    /\ IF sem[sems[n]].linked THEN UNCHANGED <<sem, sems>>
       ELSE semfs_sem_destroy(sems[n]) /\ sems' = [sems EXCEPT ![n] = NULL]
    /\ tablelock' = NULL
    /\ th' = [th EXCEPT ![t] = Out(@.fd)]
    /\ UNCHANGED <<dirlock, dents, vnodes>>

-----------------------------------------------------------------------------
(* Names: open, create and remove *)

\* The path is translated from the root's vnode, which stays referenced for
\* the call.  Opening "sem:" itself returns that reference.
semfs_getroot(t) ==
    /\ th[t].pc = "out"
    /\ \E op \in {"lookup", "creat", "excl", "remove", "opendir"}, n \in Name :
        /\ op # "remove" => th[t].fd = {}
        /\ semfs_getvnode(SEMFS_ROOTDIR)
        /\ th' = [th EXCEPT ![t] = IF op = "opendir" THEN Out({SEMFS_ROOTDIR})
                                   ELSE [@ EXCEPT !.pc = "dir", !.op = op, !.name = n, !.dir = TRUE]]
    /\ UNCHANGED <<dirlock, tablelock, sems, dents>>

Found(name) == LET I == {i \in DOMAIN dents : dents[i][1] = name} IN IF I = {} THEN 0 ELSE Min(I)

\* semfs_lookup, semfs_creat and semfs_remove take semfs_dirlock and scan.
semfs_scan(t) ==
    LET i == Found(th[t].name)
        op == th[t].op
        goto == CASE i = 0 /\ op \in {"creat", "excl"} -> "insert"
                  [] i = 0 /\ op \notin {"creat", "excl"} -> "dropdir"
                  [] i # 0 /\ op = "excl" -> "dropdir"
                  [] i # 0 /\ op = "remove" -> "getsembynum"
                  [] i # 0 /\ op \notin {"excl", "remove"} -> "getvnode"
    IN /\ th[t].pc = "dir" /\ dirlock = NULL
       /\ dirlock' = IF goto = "dropdir" THEN NULL ELSE t
       /\ th' = [th EXCEPT ![t].pc = goto, ![t].num = IF i = 0 THEN 0 ELSE dents[i][2]]
       /\ UNCHANGED <<tablelock, sems, dents, vnodes, sem>>

\* The vnode of the name found, or of the semaphore just created, which then
\* counts as linked.  On ENOMEM a creation is undone.
semfs_opened(t) ==
    LET n == th[t].num IN
    /\ th[t].pc = "getvnode"
    /\ \/ /\ semfs_getvnode(n)
          /\ dirlock' = NULL
          /\ th' = [th EXCEPT ![t] = [@ EXCEPT !.pc = "dropdir", !.fd = {n}]]
       \/ /\ getvnode_nomem(n)
          /\ dirlock' = NULL
          /\ th' = [th EXCEPT ![t].pc = "dropdir"]
          /\ UNCHANGED <<vnodes, sem>>
    /\ UNCHANGED <<tablelock, sems, dents>>

semfs_creat_link(t) ==
    LET n == th[t].num
        i == Found(th[t].name)
    IN /\ th[t].pc = "getvnode_new" /\ tablelock = NULL
       /\ \/ /\ vnodes' = [vnodes EXCEPT ![n] = 1]
             /\ sem' = [sem EXCEPT ![th[t].sem] = [@ EXCEPT !.hasvnode = TRUE, !.linked = TRUE]]
             /\ dirlock' = NULL
             /\ th' = [th EXCEPT ![t] = [@ EXCEPT !.pc = "dropdir", !.fd = {n}, !.sem = NULL]]
             /\ UNCHANGED dents
          \/ /\ dents' = [dents EXCEPT ![i] = NoDent]
             /\ th' = [th EXCEPT ![t].pc = "uninsert"]
             /\ UNCHANGED <<vnodes, sem, dirlock>>
       /\ UNCHANGED <<tablelock, sems>>

\* semfs_sem_insert: the first NULL slot of the table, or a new one.
FreeSlot(seq, null) == LET I == {i \in DOMAIN seq : seq[i] = null} IN IF I = {} THEN Len(seq) + 1 ELSE Min(I)

Set(seq, i, x) == IF i > Len(seq) THEN Append(seq, x) ELSE [seq EXCEPT ![i] = x]

\* semfs_sem_create and semfs_sem_insert; without memory the lock is dropped.
semfs_sem_insert(t) ==
    /\ th[t].pc = "insert" /\ tablelock = NULL
    /\ \/ \E s \in Sem :
            /\ sem[s].state = "fresh"
            /\ sem' = [sem EXCEPT ![s].state = "live"]
            /\ sems' = Set(sems, FreeSlot(sems, NULL), s)
            /\ th' = [th EXCEPT ![t] = [@ EXCEPT !.pc = "dent", !.sem = s, !.num = FreeSlot(sems, NULL)]]
            /\ UNCHANGED dirlock
       \/ /\ th' = [th EXCEPT ![t].pc = "dropdir"]
          /\ dirlock' = NULL
          /\ UNCHANGED <<sem, sems>>
    /\ UNCHANGED <<tablelock, dents, vnodes>>

\* semfs_direntry_create and the slot for it; either may fail.
semfs_creat_dent(t) ==
    /\ th[t].pc = "dent"
    /\ \/ /\ dents' = Set(dents, FreeSlot(dents, NoDent), <<th[t].name, th[t].num>>)
          /\ th' = [th EXCEPT ![t].pc = "getvnode_new"]
       \/ \E failed \in {"nodent"} \cup (IF FreeSlot(dents, NoDent) > Len(dents) THEN {"noslot"} ELSE {}) :
            /\ th' = [th EXCEPT ![t] = [@ EXCEPT !.pc = "uninsert", !.op = failed]]
            /\ UNCHANGED dents
    /\ UNCHANGED <<dirlock, tablelock, sems, vnodes, sem>>

semfs_uninsert(t) ==
    /\ th[t].pc = "uninsert" /\ tablelock = NULL
    /\ sems' = [sems EXCEPT ![th[t].num] = NULL]
    /\ semfs_sem_destroy(th[t].sem)
    /\ dirlock' = NULL
    /\ th' = [th EXCEPT ![t] = [@ EXCEPT !.pc = "dropdir", !.sem = NULL]]
    /\ UNCHANGED <<tablelock, dents, vnodes>>

\* semfs_remove: the semaphore, its lock, and the name is gone ...
semfs_remove_find(t) ==
    /\ th[t].pc = "getsembynum" /\ tablelock = NULL
    /\ th' = [th EXCEPT ![t] = [@ EXCEPT !.pc = "unlink", !.sem = sems[th[t].num]]]
    /\ UNCHANGED <<dirlock, tablelock, sems, dents, vnodes, sem>>

semfs_remove_unlink(t) ==
    LET s == th[t].sem IN
    /\ th[t].pc = "unlink" /\ sem[s].lock = NULL
    /\ sem' = [sem EXCEPT ![s] = [@ EXCEPT !.lock = t, !.linked = FALSE]]
    /\ th' = [th EXCEPT ![t].pc = "hasvnode"]
    /\ UNCHANGED <<dirlock, tablelock, sems, dents, vnodes>>

semfs_remove_hasvnode_blind(t) ==
    /\ th[t].pc = "hasvnode" /\ sem[th[t].sem].state = "live"
    /\ th' = [th EXCEPT ![t].pc = "remove"]
    /\ UNCHANGED <<dirlock, tablelock, sems, dents, vnodes, sem>>

\* ... sems_hasvnode is read without the table lock ...
semfs_remove_hasvnode(t) ==
    /\ th[t].pc = "hasvnode" /\ sem[th[t].sem].state = "live"
    /\ th' = [th EXCEPT ![t].pc = IF sem[th[t].sem].hasvnode THEN "unlock" ELSE "remove"]
    /\ UNCHANGED <<dirlock, tablelock, sems, dents, vnodes, sem>>

\* The name's slot becomes NULL and semfs_dirlock is released.
Forget(t) ==
    /\ dents' = [dents EXCEPT ![Found(th[t].name)] = NoDent]
    /\ dirlock' = NULL
    /\ th' = [th EXCEPT ![t] = [@ EXCEPT !.pc = "dropdir", !.sem = NULL]]

\* ... and a semaphore nobody has open is destroyed.
semfs_remove(t) ==
    LET s == th[t].sem IN
    /\ th[t].pc \in {"remove", "unlock"} /\ sem[s].state = "live"
    /\ \/ /\ th[t].pc = "remove" /\ tablelock = NULL
          /\ sems' = [sems EXCEPT ![th[t].num] = NULL]
          /\ semfs_sem_destroy(s)
       \/ /\ th[t].pc = "unlock"
          /\ sem' = [sem EXCEPT ![s].lock = NULL]
          /\ UNCHANGED sems
    /\ Forget(t)
    /\ UNCHANGED <<tablelock, vnodes>>

\* The semaphore was destroyed by semfs_reclaim while semfs_remove was using
\* it: whatever follows is undefined, and the behaviour ends.
UseAfterFree(t) ==
    /\ th[t].pc \in {"hasvnode", "remove", "unlock"}
    /\ sem[th[t].sem].state = "destroyed"
    /\ th' = [th EXCEPT ![t].pc = "stopped"]
    /\ UNCHANGED <<dirlock, tablelock, sems, dents, vnodes, sem>>

\* semfs_getdirentry does not test for the NULL a removed name leaves.
semfs_getdirentry(t) ==
    /\ th[t].pc = "out" /\ dirlock = NULL
    /\ SEMFS_ROOTDIR \in th[t].fd /\ \E i \in DOMAIN dents : dents[i] = NoDent
    /\ th' = [th EXCEPT ![t].pc = "stopped"]
    /\ UNCHANGED <<dirlock, tablelock, sems, dents, vnodes, sem>>

\* vfs_open and vfs_remove drop the directory; vfs_close drops the file.
\* When semfs_direntry_create fails semfs_creat returns 0 and no vnode, and
\* vfs_open panics on its assertion.
drop_dir(t) ==
    /\ th[t].pc = "dropdir"
    /\ IF th[t].op = "nodent"
       THEN th' = [th EXCEPT ![t].pc = "stopped"] /\ UNCHANGED vnodes
       ELSE vnode_decref(t, SEMFS_ROOTDIR, Out(th[t].fd))
    /\ UNCHANGED <<dirlock, tablelock, sems, dents, sem>>

vfs_close(t) ==
    /\ th[t].pc = "out"
    /\ \E n \in th[t].fd : vnode_decref(t, n, Out({}))
    /\ UNCHANGED <<dirlock, tablelock, sems, dents, sem>>

-----------------------------------------------------------------------------
(* P and V *)

\* semfs_getsem: the pointer is used after semfs_tablelock is released.
semfs_getsem(t) ==
    /\ th[t].pc = "out" /\ tablelock = NULL
    /\ \E n \in th[t].fd \ {SEMFS_ROOTDIR}, op \in {"read", "write", "truncate", "stat"}, k \in Amount :
        th' = [th EXCEPT ![t] = [@ EXCEPT !.pc = op, !.sem = sems[n], !.resid = k]]
    /\ UNCHANGED <<dirlock, tablelock, sems, dents, vnodes, sem>>

Sleeper(s) == {t \in Thread : th[t].pc = "asleep" /\ th[t].sem = s}

\* semfs_wakeup: nobody when the count was not zero, one when it becomes 1,
\* all when it becomes more (cv_signal, cv_broadcast).
Woken(s, newcount) ==
    IF sem[s].count > 0 \/ newcount = 0 THEN {{}}
    ELSE IF newcount = 1 /\ Sleeper(s) # {} THEN {{t} : t \in Sleeper(s)}
    ELSE {Sleeper(s)}

\* The count is set, the sleepers chosen are made runnable, and t returns.
semfs_wakeup(t, s, newcount) ==
    \E W \in Woken(s, newcount) :
        /\ sem' = [sem EXCEPT ![s].count = newcount]
        /\ th' = [u \in Thread |-> IF u = t THEN Out(th[t].fd)
                                   ELSE IF u \in W THEN [th[u] EXCEPT !.pc = "read"] ELSE th[u]]

\* P: takes what there is, and sleeps for the rest.
semfs_read(t) ==
    LET s == th[t].sem
        consume == IF th[t].resid > sem[s].count THEN sem[s].count ELSE th[t].resid
    IN /\ th[t].pc = "read" /\ sem[s].lock = NULL
       /\ sem' = [sem EXCEPT ![s].count = @ - consume]
       /\ th' = [th EXCEPT ![t] = IF th[t].resid = consume THEN Out(@.fd)
                                  ELSE [@ EXCEPT !.pc = "asleep", !.resid = th[t].resid - consume]]
       /\ UNCHANGED <<dirlock, tablelock, sems, dents, vnodes>>

\* V: EFBIG when the unsigned sum wraps.
semfs_write(t) ==
    LET s == th[t].sem
        newcount == (sem[s].count + th[t].resid) % (UINT_MAX + 1)
    IN /\ th[t].pc = "write" /\ sem[s].lock = NULL
       /\ IF newcount < sem[s].count \/ th[t].resid = 0
          THEN th' = [th EXCEPT ![t] = Out(@.fd)] /\ UNCHANGED sem
          ELSE semfs_wakeup(t, s, newcount)
       /\ UNCHANGED <<dirlock, tablelock, sems, dents, vnodes>>

semfs_truncate(t) ==
    /\ th[t].pc = "truncate" /\ sem[th[t].sem].lock = NULL
    /\ semfs_wakeup(t, th[t].sem, th[t].resid)
    /\ UNCHANGED <<dirlock, tablelock, sems, dents, vnodes>>

semfs_semstat(t) ==
    /\ th[t].pc = "stat" /\ sem[th[t].sem].lock = NULL
    /\ th' = [th EXCEPT ![t] = Out(@.fd)]
    /\ UNCHANGED <<dirlock, tablelock, sems, dents, vnodes, sem>>

-----------------------------------------------------------------------------
\* One process runs its kernel code.
Step(t) ==
    \/ semfs_getroot(t) \/ semfs_scan(t) \/ semfs_opened(t)
    \/ semfs_sem_insert(t) \/ semfs_creat_dent(t) \/ semfs_creat_link(t) \/ semfs_uninsert(t)
    \/ semfs_remove_find(t) \/ semfs_remove_unlink(t) \/ semfs_remove_hasvnode(t)
    \/ semfs_remove(t) \/ UseAfterFree(t)
    \/ drop_dir(t) \/ vfs_close(t) \/ semfs_reclaim(t) \/ semfs_reclaim_check(t)
    \/ semfs_getdirentry(t) \/ semfs_semstat(t)
    \/ semfs_getsem(t) \/ semfs_read(t) \/ semfs_write(t) \/ semfs_truncate(t)

\* A panic, or what follows an access to freed memory, ends the behaviour.
Running == \A t \in Thread : th[t].pc # "stopped"

Next == Running /\ \E t \in Thread : Step(t)

Spec == Init /\ [][Next]_vars

-----------------------------------------------------------------------------
(* Properties *)

\* The references to a vnode that the threads hold: an open file, the directory
\* of the call a thread is in, and a last one on its way to VOP_RECLAIM.
Refs(n) == {r \in Thread \X (1 .. 3) : \/ r[2] = 1 /\ n \in th[r[1]].fd
                                       \/ r[2] = 2 /\ n = SEMFS_ROOTDIR /\ th[r[1]].dir
                                       \/ r[2] = 3 /\ n \in th[r[1]].vn}

\* vnode.c: vn_refcount is the number of references the threads hold, also
\* while vnode_decref has handed the last one over to semfs_reclaim and
\* semfs_getvnode may find the vnode in the table; and a vnode exists as long
\* as there is one.
VnodeRefs == \A n \in DOMAIN vnodes : vnodes[n] = Cardinality(Refs(n))

\* semfs_remove ("it may not actually go away if it's currently open"): a
\* semaphore that a process has open, or is sleeping on, is allocated, is in
\* the table under its number, and is known to have a vnode.
OpenSemAlive ==
    \A t \in Thread : \A n \in th[t].fd \ {SEMFS_ROOTDIR} :
        /\ sems[n] # NULL
        /\ sem[sems[n]].state = "live" /\ sem[sems[n]].hasvnode
        /\ th[t].pc \in {"read", "write", "truncate", "stat", "asleep"} => th[t].sem = sems[n]

\* While no creation or removal is under way a name of the directory means a
\* semaphore of the table that knows it is linked, no two names are equal or
\* mean the same one; and every semaphore is reachable by a name or by an
\* open file, so the two ways of going away between them destroy each one.
NamesAndSemsAgree ==
    dirlock = NULL /\ tablelock = NULL =>
        /\ \A i, j \in DOMAIN dents :
            /\ dents[i] # NoDent => sems[dents[i][2]] # NULL /\ sem[sems[dents[i][2]]].linked
            /\ dents[i] # NoDent /\ i # j => dents[i][1] # dents[j][1] /\ dents[i][2] # dents[j][2]
        /\ \A s \in Sem : sem[s].state = "live" =>
            \E n \in DOMAIN sems : sems[n] = s /\ (sem[s].linked \/ vnodes[n] > 0)

\* semfs_wakeup relies on "sleepers, which should only be the case if the old
\* count is 0": when nobody is about to act on a semaphore, its count is 0 or
\* nobody sleeps on it.
SleepersOnlyAtZero ==
    \A s \in Sem : Sleeper(s) # {} /\ (\A t \in Thread : th[t].sem = s => th[t].pc = "asleep") => sem[s].count = 0
=============================================================================
