-------------------------------- MODULE VFS --------------------------------
(***************************************************************************)
(* kern/vfs: path translation, current directories, the boot file system,  *)
(* mounting and the reference counts of vnodes, over one disk (lhd0, with  *)
(* its raw device) and SFS.                                                *)
(*                                                                         *)
(* vfs_biglock is held by vfs_lookup, vfs_lookparent, vfs_mount,           *)
(* vfs_unmount, vfs_sync and by every operation of SFS, so each of those   *)
(* is one step.  vfs_open, vfs_remove, vfs_rename, vfs_link, vfs_chdir and *)
(* vfs_close do not hold it: between the calls they make, and between the  *)
(* two halves of vnode_decref, other processes run.  Only someone who has  *)
(* a reference to a vnode adds one without the lock, so the count is not 1 *)
(* then.                                                                   *)
(***************************************************************************)
EXTENDS SFS, Sequences

CONSTANTS Thread, Name, FileBlock

VARIABLES
    fs,         \* the volume of lhd0: the disk, and what is in memory of it
    kd_fs,      \* knowndev: "none", "sfs" or "swap"
    kd_ref,     \* the references to kd_vnode, the raw device
    bootfs,     \* bootfs_vnode: an inode number or 0
    cwd,        \* p_cwd of each process
    th          \* pc, the vnodes a call has to drop and what follows, and the open file

vars == <<fs, kd_fs, kd_ref, bootfs, cwd, th>>

RAW == NBLOCKS      \* the vnode of lhd0raw, beside those of the inodes

Out(fd) == [pc |-> "out", held |-> <<>>, then |-> "out", fd |-> fd]

TypeOK ==
    /\ fs.freemap \subseteq Block /\ fs.disk.freemap \subseteq Block
    /\ fs.vn \in [Block -> [ref : Nat, dirty : BOOLEAN,
                     i : [type : {"INVAL", "FILE", "DIR"}, linkcount : Nat, size : Nat,
                          direct : [0 .. SFS_NDIRECT - 1 -> Block], indirect : Block]]]
    /\ kd_fs \in {"none", "sfs", "swap"} /\ kd_ref \in Nat
    /\ bootfs \in Block /\ cwd \in [Thread -> Block]
    /\ \A t \in Thread : th[t].fd \in 0 .. RAW /\ th[t].held \in Seq(0 .. RAW)

\* vfs_adddev(lhd0) keeps the first reference to the raw device.
Init ==
    /\ fs = FreshVolume
    /\ kd_fs = "none" /\ kd_ref = 1
    /\ bootfs = 0 /\ cwd = [t \in Thread |-> 0]
    /\ th = [t \in Thread |-> Out(0)]

-----------------------------------------------------------------------------
(* Path translation *)

Incref(F, ino) == Ok([F EXCEPT !.vn[ino].ref = @ + 1], ino)

\* vfs_getcurdir
vfs_getcurdir(F, t) == IF cwd[t] = 0 THEN {Err(F)} ELSE {Incref(F, cwd[t])}

\* vfs_getroot of "lhd0:" or of the volume's name: ENXIO without a file system.
vfs_getroot(F) == IF kd_fs = "sfs" THEN sfs_getroot(F) ELSE {Err(F)}

\* getdevice: dev:path, path, /path and :path.
getdevice(F, t, start) ==
    CASE start = "dev" -> vfs_getroot(F)
      [] start = "rel" -> vfs_getcurdir(F, t)
      [] start = "slash" -> IF bootfs = 0 THEN {Err(F)} ELSE {Incref(F, bootfs)}
      [] start = "colon" -> Try(vfs_getcurdir(F, t), LAMBDA G, d : Drop(sfs_getroot(G), d))

Start == {"dev", "rel", "slash", "colon"}

\* The empty path is the directory itself.
vfs_lookup(F, t, start, name) ==
    Try(getdevice(F, t, start), LAMBDA G, d :
        IF name = NoName THEN {Ok(G, d)} ELSE Drop(sfs_lookup(G, name), d))

\* sfs_lookparent returns the directory with one more reference.
vfs_lookparent(F, t, start) ==
    Try(getdevice(F, t, start), LAMBDA G, d : Drop({Incref(G, d)}, d))

\* The outcomes over the forms a path can have.
Lookups(t, name) == UNION {vfs_lookup(fs, t, start, name) : start \in Start}
Lookparents(t) == UNION {vfs_lookparent(fs, t, start) : start \in Start}

-----------------------------------------------------------------------------
(* Dropping references *)

Go(t, r) == th' = [th EXCEPT ![t] = r]

\* A call is left through its drops, then it is over.
After(t, held, fd, then) ==
    Go(t, IF held = <<>> THEN [Out(fd) EXCEPT !.pc = then]
          ELSE [Out(fd) EXCEPT !.pc = "drop", !.held = held, !.then = then])
Leave(t, held, fd) == After(t, held, fd, th[t].then)

\* vnode_decref: the last reference is passed to VOP_RECLAIM.  The device's
\* last one is the device table's and is never dropped.
vnode_decref(t) ==
    LET v == Head(th[t].held) IN
    /\ th[t].pc = "drop"
    /\ \/ /\ v = RAW
          /\ kd_ref' = kd_ref - 1
          /\ Leave(t, Tail(th[t].held), th[t].fd)
          /\ UNCHANGED fs
       \/ /\ v # RAW /\ fs.vn[v].ref > 1
          /\ fs' = [fs EXCEPT !.vn[v].ref = @ - 1]
          /\ Leave(t, Tail(th[t].held), th[t].fd)
          /\ UNCHANGED kd_ref
       \/ /\ v # RAW /\ fs.vn[v].ref <= 1
          /\ Go(t, [th[t] EXCEPT !.pc = "reclaim"])
          /\ UNCHANGED <<fs, kd_ref>>
    /\ UNCHANGED <<kd_fs, bootfs, cwd>>

VOP_RECLAIM(t) ==
    /\ th[t].pc = "reclaim"
    /\ \E r \in sfs_reclaim(fs, Head(th[t].held)) : fs' = r.fs
    /\ Leave(t, Tail(th[t].held), th[t].fd)
    /\ UNCHANGED <<kd_fs, kd_ref, bootfs, cwd>>

-----------------------------------------------------------------------------
(* vfs_open and vfs_close *)

\* Without O_CREAT the path is looked up.
vfs_open(t) ==
    /\ th[t].pc = "out" /\ th[t].fd = 0
    /\ \E name \in Name \cup {NoName} : \E r \in Lookups(t, name) :
          /\ fs' = r.fs
          /\ Go(t, IF r.ok THEN [Out(r.v) EXCEPT !.pc = "opened"] ELSE Out(0))
    /\ UNCHANGED <<kd_fs, kd_ref, bootfs, cwd>>

\* A directory is opened for reading only, a device without O_TRUNC, and any
\* file as one likes.
sfs_eachopendir(canwrite) == ~canwrite
dev_eachopen(trunc) == ~trunc
VOP_EACHOPEN(v, canwrite, trunc) ==
    /\ v = SFS_ROOTDIR_INO => sfs_eachopendir(canwrite)
    /\ v = RAW => dev_eachopen(trunc)

\* Then O_TRUNC empties the file.  The vnode is given up if that fails, if the
\* file was not opened for writing, or if it is a directory to be written.
vfs_open_trunc(t) ==
    /\ th[t].pc = "opened"
    /\ \E canwrite, trunc \in BOOLEAN :
       \E r \in IF ~VOP_EACHOPEN(th[t].fd, canwrite, trunc) \/ (trunc /\ ~canwrite) THEN {Err(fs)}
               ELSE IF trunc THEN sfs_truncate(fs, th[t].fd, 0) ELSE {Ok(fs, 0)} :
          /\ fs' = r.fs
          /\ IF r.ok THEN Go(t, Out(th[t].fd)) ELSE Leave(t, <<th[t].fd>>, 0)
    /\ UNCHANGED <<kd_fs, kd_ref, bootfs, cwd>>

\* "lhd0raw:" names the device, file system or not (dev_lookup).
vfs_open_raw(t) ==
    /\ th[t].pc = "out" /\ th[t].fd = 0
    /\ kd_ref' = kd_ref + 1
    /\ Go(t, [Out(RAW) EXCEPT !.pc = "opened"])
    /\ UNCHANGED <<fs, kd_fs, bootfs, cwd>>

vfs_close(t) ==
    /\ th[t].pc = "out" /\ th[t].fd # 0
    /\ Leave(t, <<th[t].fd>>, 0)
    /\ UNCHANGED <<fs, kd_fs, kd_ref, bootfs, cwd>>

-----------------------------------------------------------------------------
(* Names: vfs_open(O_CREAT), vfs_remove and vfs_rename find the directory   *)
(* first.  Which of them it is, and for which name, makes a difference     *)
(* only at the operation, and is chosen there.                             *)

vfs_dirop(t) ==
    /\ th[t].pc = "out"
    /\ \E r \in Lookparents(t) :
          /\ fs' = r.fs
          /\ Go(t, IF r.ok THEN [th[t] EXCEPT !.pc = "dir", !.held = <<r.v>>] ELSE th[t])
    /\ UNCHANGED <<kd_fs, kd_ref, bootfs, cwd>>

\* vfs_open(O_CREAT): the new or existing file's vnode; the directory is
\* dropped, and the file is opened.
VOP_CREAT(t) ==
    /\ th[t].pc = "dir" /\ th[t].fd = 0
    /\ \E name \in Name, excl \in BOOLEAN : \E r \in sfs_creat(fs, name, excl) :
          /\ fs' = r.fs
          /\ IF r.ok THEN After(t, th[t].held, r.v, "opened") ELSE Leave(t, th[t].held, 0)
    /\ UNCHANGED <<kd_fs, kd_ref, bootfs, cwd>>

VOP_REMOVE(t) ==
    /\ th[t].pc = "dir"
    /\ \E name \in Name : \E r \in sfs_remove(fs, name) : fs' = r.fs
    /\ Leave(t, th[t].held, th[t].fd)
    /\ UNCHANGED <<kd_fs, kd_ref, bootfs, cwd>>

\* vfs_rename finds a second directory before the operation.
vfs_rename(t) ==
    /\ th[t].pc = "dir"
    /\ \E r \in Lookparents(t) :
          /\ fs' = r.fs
          /\ IF r.ok THEN Go(t, [th[t] EXCEPT !.pc = "rename", !.held = <<r.v>> \o @])
             ELSE Leave(t, th[t].held, th[t].fd)
    /\ UNCHANGED <<kd_fs, kd_ref, bootfs, cwd>>

VOP_RENAME(t) ==
    /\ th[t].pc = "rename"
    /\ \E n1, n2 \in Name : \E r \in sfs_rename(fs, n1, n2) : fs' = r.fs
    /\ Leave(t, th[t].held, th[t].fd)
    /\ UNCHANGED <<kd_fs, kd_ref, bootfs, cwd>>

\* vfs_mkdir, vfs_rmdir and vfs_symlink: SFS does not support them, and the
\* directory is dropped.
VOP_NOSYS(t) ==
    /\ th[t].pc = "dir"
    /\ Leave(t, th[t].held, th[t].fd)
    /\ UNCHANGED <<fs, kd_fs, kd_ref, bootfs, cwd>>

vfs_symlink(t) == VOP_NOSYS(t)

\* sys_mkdir: a bad pointer is refused before vfs_mkdir finds the directory.
sys_mkdir(t) == VOP_NOSYS(t)

\* vfs_readlink: the same, of a file.
vfs_readlink(t) ==
    /\ th[t].pc = "out"
    /\ \E name \in Name : \E r \in Lookups(t, name) :
          /\ fs' = r.fs
          /\ Leave(t, IF r.ok THEN <<r.v>> ELSE <<>>, th[t].fd)
    /\ UNCHANGED <<kd_fs, kd_ref, bootfs, cwd>>

\* vfs_link: the file is looked up, then the directory, and both are dropped.
vfs_link(t) ==
    /\ th[t].pc = "out"
    /\ \E name \in Name : \E r \in Lookups(t, name) :
          /\ fs' = r.fs
          /\ Go(t, IF r.ok THEN [th[t] EXCEPT !.pc = "linkdir", !.held = <<r.v>>] ELSE th[t])
    /\ UNCHANGED <<kd_fs, kd_ref, bootfs, cwd>>

vfs_link_dir(t) ==
    /\ th[t].pc = "linkdir"
    /\ \E r \in Lookparents(t) :
          /\ fs' = r.fs
          /\ IF r.ok THEN Go(t, [th[t] EXCEPT !.pc = "link", !.held = <<r.v>> \o @])
             ELSE Leave(t, th[t].held, th[t].fd)
    /\ UNCHANGED <<kd_fs, kd_ref, bootfs, cwd>>

VOP_LINK(t) ==
    /\ th[t].pc = "link"
    /\ \E name \in Name : \E r \in sfs_link(fs, name, th[t].held[2]) : fs' = r.fs
    /\ Leave(t, th[t].held, th[t].fd)
    /\ UNCHANGED <<kd_fs, kd_ref, bootfs, cwd>>

-----------------------------------------------------------------------------
(* Current directories and the boot file system *)

vfs_chdir(t) ==
    /\ th[t].pc = "out"
    /\ \E name \in Name \cup {NoName} : \E r \in Lookups(t, name) :
          /\ fs' = r.fs
          /\ Go(t, IF r.ok THEN [th[t] EXCEPT !.pc = "chdir", !.held = <<r.v>>] ELSE th[t])
    /\ UNCHANGED <<kd_fs, kd_ref, bootfs, cwd>>

\* vfs_setcurdir takes its own reference, and the old directory is dropped
\* before the one the lookup returned.  ENOTDIR for a file.
vfs_setcurdir(t) ==
    LET d == Head(th[t].held)
        old == IF cwd[t] = 0 THEN <<>> ELSE <<cwd[t]>>
    IN /\ th[t].pc = "chdir"
       /\ IF fs.vn[d].i.type = "DIR"
          THEN /\ fs' = [fs EXCEPT !.vn[d].ref = @ + 1]
               /\ cwd' = [cwd EXCEPT ![t] = d]
               /\ Leave(t, old \o th[t].held, th[t].fd)
          ELSE Leave(t, th[t].held, th[t].fd) /\ UNCHANGED <<fs, cwd>>
       /\ UNCHANGED <<kd_fs, kd_ref, bootfs>>

\* sys_chdir: a bad pointer, a path that dir_parser refuses ("//") or a failed
\* allocation changes nothing; everything else goes to vfs_chdir.
sys_chdir(t) == vfs_chdir(t)

vfs_clearcurdir(t) ==
    /\ th[t].pc = "out" /\ cwd[t] # 0
    /\ cwd' = [cwd EXCEPT ![t] = 0]
    /\ Leave(t, <<cwd[t]>>, th[t].fd)
    /\ UNCHANGED <<fs, kd_fs, kd_ref, bootfs>>

\* A process that runs a program starts in its creator's directory.
proc_create_runprogram(t) ==
    /\ th[t].pc = "out" /\ cwd[t] # 0
    /\ \E u \in Thread :
          /\ th[u] = Out(0) /\ cwd[u] = 0
          /\ cwd' = [cwd EXCEPT ![u] = cwd[t]]
    /\ fs' = Incref(fs, cwd[t]).fs
    /\ UNCHANGED <<kd_fs, kd_ref, bootfs, th>>

\* proc_destroy gives it back.
proc_destroy(t) ==
    /\ th[t] = Out(0) /\ cwd[t] # 0
    /\ cwd' = [cwd EXCEPT ![t] = 0]
    /\ Leave(t, <<cwd[t]>>, 0)
    /\ UNCHANGED <<fs, kd_fs, kd_ref, bootfs>>

\* vfs_getcwd holds a reference while it copies the name out.
vfs_getcwd(t) ==
    /\ th[t].pc = "out"
    /\ \E r \in vfs_getcurdir(fs, t) :
          /\ r.ok
          /\ fs' = r.fs
          /\ Leave(t, <<r.v>>, th[t].fd)
    /\ UNCHANGED <<kd_fs, kd_ref, bootfs, cwd>>

\* ENOTDIR for a process without a directory, which the menu's pwd may be.
sys___getcwd(t) == cwd[t] # 0 /\ vfs_getcwd(t)

\* change_bootfs and vfs_setcurdir give back what they replace.
Replace(S, old) == IF old = 0 THEN S ELSE Drop(S, old)

\* vfs_setbootfs: vfs_chdir to the device, vfs_getcurdir and change_bootfs,
\* with vfs_biglock held throughout.
vfs_setbootfs(t) ==
    /\ th[t].pc = "out"
    /\ \E r \in Try(vfs_getroot(fs), LAMBDA G, d :
                    Replace(Drop(Replace({Incref(Incref(G, d).fs, d)}, cwd[t]), d), bootfs)) :
          /\ fs' = r.fs
          /\ IF r.ok THEN cwd' = [cwd EXCEPT ![t] = r.v] /\ bootfs' = r.v ELSE UNCHANGED <<cwd, bootfs>>
    /\ UNCHANGED <<kd_fs, kd_ref, th>>

vfs_clearbootfs(t) ==
    /\ th[t].pc = "out" /\ bootfs # 0
    /\ \E r \in Replace({Ok(fs, 0)}, bootfs) : fs' = r.fs
    /\ bootfs' = 0
    /\ UNCHANGED <<kd_fs, kd_ref, cwd, th>>

-----------------------------------------------------------------------------
(* The device table *)

vfs_mount(t) ==
    /\ th[t].pc = "out" /\ kd_fs = "none"
    /\ \E r \in sfs_domount(fs) : fs' = r.fs /\ kd_fs' = (IF r.ok THEN "sfs" ELSE "none")
    /\ UNCHANGED <<kd_ref, bootfs, cwd, th>>

\* FSOP_SYNC, then FSOP_UNMOUNT.
unmount(F) == Try(sfs_sync(F), LAMBDA G, x : sfs_unmount(G))

vfs_unmount(t) ==
    /\ th[t].pc = "out" /\ kd_fs = "sfs"
    /\ \E r \in unmount(fs) : fs' = r.fs /\ kd_fs' = (IF r.ok THEN "none" ELSE "sfs")
    /\ UNCHANGED <<kd_ref, bootfs, cwd, th>>

vfs_sync(t) ==
    /\ th[t].pc = "out" /\ kd_fs = "sfs"
    /\ \E r \in sfs_sync(fs) : fs' = r.fs
    /\ UNCHANGED <<kd_fs, kd_ref, bootfs, cwd, th>>

\* Swap takes the place of a file system and hands the raw device back.
vfs_swapon(t) ==
    /\ th[t].pc = "out" /\ th[t].fd = 0 /\ kd_fs = "none"
    /\ kd_fs' = "swap" /\ kd_ref' = kd_ref + 1
    /\ Go(t, [Out(RAW) EXCEPT !.pc = "opened"])
    /\ UNCHANGED <<fs, bootfs, cwd>>

vfs_swapoff(t) ==
    /\ th[t].pc = "out" /\ kd_fs = "swap"
    /\ kd_fs' = "none"
    /\ UNCHANGED <<fs, kd_ref, bootfs, cwd, th>>

-----------------------------------------------------------------------------
(* File input and output *)

IsFile(v) == v \in Block \ {0} /\ fs.vn[v].i.type = "FILE"

sfs_rw(t) ==
    /\ th[t].pc = "out" /\ IsFile(th[t].fd)
    /\ \E r \in UNION {sfs_io(fs, th[t].fd, fb, write) : fb \in FileBlock, write \in BOOLEAN} : fs' = r.fs
    /\ UNCHANGED <<kd_fs, kd_ref, bootfs, cwd, th>>

sfs_fsync(t) ==
    /\ th[t].pc = "out" /\ IsFile(th[t].fd)
    /\ \E r \in sfs_sync_inode(fs, th[t].fd) : fs' = r.fs
    /\ UNCHANGED <<kd_fs, kd_ref, bootfs, cwd, th>>

\* One process runs kernel code of the file system.
Step(t) ==
    \/ vnode_decref(t) \/ VOP_RECLAIM(t)
    \/ vfs_open(t) \/ vfs_open_trunc(t) \/ vfs_open_raw(t) \/ vfs_close(t)
    \/ vfs_dirop(t) \/ VOP_CREAT(t) \/ VOP_REMOVE(t) \/ vfs_rename(t) \/ VOP_RENAME(t)
    \/ vfs_symlink(t) \/ sys_mkdir(t) \/ vfs_readlink(t)
    \/ vfs_link(t) \/ vfs_link_dir(t) \/ VOP_LINK(t)
    \/ sys_chdir(t) \/ vfs_setcurdir(t) \/ vfs_clearcurdir(t) \/ sys___getcwd(t)
    \/ proc_create_runprogram(t) \/ proc_destroy(t) \/ vfs_setbootfs(t) \/ vfs_clearbootfs(t)
    \/ vfs_mount(t) \/ vfs_unmount(t) \/ vfs_sync(t) \/ vfs_swapon(t) \/ vfs_swapoff(t)
    \/ sfs_rw(t) \/ sfs_fsync(t)

Next == \E t \in Thread : Step(t)

Spec == Init /\ [][Next]_vars

-----------------------------------------------------------------------------
(* Properties *)

Count(v, seq) == Cardinality({i \in DOMAIN seq : seq[i] = v})
Holds(t, v) == Count(v, th[t].held) + Count(v, <<th[t].fd, IF v = RAW THEN 0 ELSE cwd[t]>>)
Holders(v) == FoldSet(LAMBDA t, n : n + Holds(t, v), 0, Thread)

\* vnode.c, vfscwd.c, vfslookup.c: the count of a vnode is the number of
\* references in open files, current directories, bootfs_vnode and calls
\* under way, through every error path; one more for a vnode whose reclaim
\* failed.  So a vnode that someone refers to is loaded, and with vfs_unmount
\* refusing while any is, no reference outlives the file system.
VnodeRefs ==
    /\ \A v \in Block \ {0} :
        fs.vn[v].ref = Holders(v) + Count(v, <<bootfs>>) + (IF v \in fs.stuck THEN 1 ELSE 0)
    /\ kd_ref = 1 + Holders(RAW)
    /\ kd_fs # "sfs" => Loaded(fs) = {}

\* The inode as the running system sees it, or as the disk has it.
Current(F, ino, ondisk) == IF ~ondisk /\ F.vn[ino].ref > 0 THEN F.vn[ino].i ELSE F.disk.inode[ino]

RootNow(F, ondisk) == Current(F, SFS_ROOTDIR_INO, ondisk)
EntriesOf(F, ondisk) ==
    {<<s, F.disk.dents[RootNow(F, ondisk).direct[s \div DirPerBlock]][s % DirPerBlock]>>
        : s \in {x \in 0 .. RootNow(F, ondisk).size - 1 : RootNow(F, ondisk).direct[x \div DirPerBlock] # 0}}
Links(F, ino, ondisk) == Cardinality({e \in EntriesOf(F, ondisk) : e[2][2] = ino})

InodesOf(F, ondisk) ==
    {SFS_ROOTDIR_INO} \cup {e[2][2] : e \in EntriesOf(F, ondisk)} \cup (IF ondisk THEN {} ELSE Loaded(F))

\* What refers to a block: <<inode, role, index, block>>.
UsesOf(F, ino, ondisk) ==
    LET i == Current(F, ino, ondisk)
        id == IF i.indirect = 0 THEN Zeros ELSE F.disk.idb[i.indirect]
    IN {u \in {<<ino, "inode", 0, ino>>, <<ino, "indirect", 0, i.indirect>>}
              \cup {<<ino, "direct", k, i.direct[k]>> : k \in DOMAIN i.direct}
              \cup {<<ino, "data", k, id[k]>> : k \in DOMAIN id} : u[4] # 0}

Consistent(F, ondisk) ==
    LET inodes == InodesOf(F, ondisk) \ {0}
        uses == UNION {UsesOf(F, ino, ondisk) : ino \in inodes}
        used == {u[4] : u \in uses}
        map == IF ondisk THEN F.disk.freemap ELSE F.freemap
    IN /\ Cardinality(uses) = Cardinality(used)
       /\ IF F.faults = 0 THEN map = Reserved \cup used ELSE used \subseteq map
       /\ \A ino \in inodes \ {SFS_ROOTDIR_INO} : Current(F, ino, ondisk).linkcount = Links(F, ino, ondisk)

\* While SFS is mounted no block belongs to two files or twice to one, every
\* block in use is marked so in the free map, link counts are the number of
\* names, and, unless a transfer has failed, nothing is marked that is not in
\* use; and none of the panics and assertions of SFS about this is reached.
VolumeConsistent == ~fs.panic /\ (kd_fs = "sfs" => Consistent(fs, FALSE))

\* vfs_unmount: what is then on the disk is consistent by itself, whatever
\* was kept in memory before and whichever transfer failed.
CleanVolume == kd_fs = "none" => Consistent(fs, TRUE)
=============================================================================
