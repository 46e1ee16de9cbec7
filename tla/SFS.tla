-------------------------------- MODULE SFS --------------------------------
(***************************************************************************)
(* kern/fs/sfs: the on-disk file system, as functions of its state.        *)
(*                                                                         *)
(* Every routine runs under vfs_biglock, so it is a function from the      *)
(* state of a file system to the set of its possible outcomes: a record    *)
(* with the new state, whether it succeeded, and the value handed back.    *)
(* There is more than one because any disk transfer may fail, and after    *)
(* ten retries sfs_rwblock reports it.  What a routine has done before the *)
(* failure stays done.                                                     *)
(*                                                                         *)
(* A state F holds the free map, the vnodes loaded (with their inodes) and *)
(* the disk.  Sizes are in blocks, the directory's in entries, and file    *)
(* data is left out: only which block belongs to whom matters.             *)
(***************************************************************************)
EXTENDS Naturals, FiniteSets, FiniteSetsExt

CONSTANTS
    NBLOCKS,            \* sb_nblocks
    BITS_PER_WORD,      \* of a bitmap
    SFS_NDIRECT, SFS_DBPERIDB,
    DirPerBlock,        \* directory entries in a block
    NoName,
    MaxFaults           \* bound: disk transfers that fail in a behaviour

ASSUME SFSAssumption ==
    /\ {NBLOCKS, BITS_PER_WORD, SFS_NDIRECT, SFS_DBPERIDB, DirPerBlock} \subseteq Nat \ {0}
    /\ MaxFaults \in Nat

SFS_SUPER_BLOCK == 0
SFS_ROOTDIR_INO == 1
SFS_FREEMAP_START == 2
Reserved == {SFS_SUPER_BLOCK, SFS_ROOTDIR_INO, SFS_FREEMAP_START}
Block == 0 .. NBLOCKS - 1

Zeros == [j \in 0 .. SFS_DBPERIDB - 1 |-> 0]
NoEntry == <<NoName, 0>>
NoEntries == [i \in 0 .. DirPerBlock - 1 |-> NoEntry]
Inode(type, links) == [type |-> type, linkcount |-> links, size |-> 0,
                       direct |-> [i \in 0 .. SFS_NDIRECT - 1 |-> 0], indirect |-> 0]
NoInode == Inode("INVAL", 0)
NoVnode == [ref |-> 0, i |-> NoInode, dirty |-> FALSE]

\* A volume as mksfs leaves it, and nothing mounted.
FreshVolume ==
    [freemap |-> {}, fdirty |-> FALSE, vn |-> [b \in Block |-> NoVnode],
     disk |-> [freemap |-> Reserved,
               inode |-> [b \in Block |-> IF b = SFS_ROOTDIR_INO THEN Inode("DIR", 1) ELSE NoInode],
               dents |-> [b \in Block |-> NoEntries],
               idb |-> [b \in Block |-> Zeros]],
     faults |-> 0, stuck |-> {}, panic |-> FALSE]

-----------------------------------------------------------------------------
(* Outcomes *)

Ok(F, v) == [fs |-> F, ok |-> TRUE, v |-> v]
Err(F) == [fs |-> F, ok |-> FALSE, v |-> 0]
Panic(F) == Err([F EXCEPT !.panic = TRUE])
IOErr(F) == IF F.faults < MaxFaults THEN {Err([F EXCEPT !.faults = @ + 1])} ELSE {}

\* Run Op on every outcome that is not an error.
Try(S, Op(_, _)) == UNION {IF r.ok THEN Op(r.fs, r.v) ELSE {r} : r \in S}

sfs_readblock(F, v) == {Ok(F, v)} \cup IOErr(F)
sfs_writeblock(F, disk) == {Ok([F EXCEPT !.disk = disk], 0)} \cup IOErr(F)

SetInode(F, ino, i) == [F EXCEPT !.vn[ino] = [@ EXCEPT !.i = i, !.dirty = TRUE]]

-----------------------------------------------------------------------------
(* bitmap.c: the set of the bits that are set.  Those past the volume's end *)
(* are set on the disk by mksfs and stay so.                                *)

bitmap_translate(bitno) == <<bitno \div BITS_PER_WORD, bitno % BITS_PER_WORD>>
Words == {bitmap_translate(b)[1] : b \in Block}
Word == [ix \in Words |-> {b \in Block : bitmap_translate(b)[1] = ix}]

bitmap_isset(map, b) == b \in map

\* The first clear bit of the first word that is not full, or ENOSPC.
bitmap_alloc(map) ==
    LET open == {ix \in Words : ~ Word[ix] \subseteq map} IN
    IF open = {} THEN {} ELSE {Min(Word[Min(open)] \ map)}

\* bitmap_unmark asserts that the bit is set.
bitmap_unmark(F, B) ==
    IF \A b \in B : bitmap_isset(F.freemap, b) THEN [F EXCEPT !.freemap = @ \ B]
    ELSE [F EXCEPT !.panic = TRUE]

-----------------------------------------------------------------------------
(* sfs_balloc.c *)

\* The block is cleared on the disk, and given back if that fails.
sfs_balloc(F) ==
    IF bitmap_alloc(F.freemap) = {} THEN {Err(F)}
    ELSE UNION {LET G == [F EXCEPT !.freemap = @ \cup {b}, !.fdirty = TRUE]
                    clear == [F.disk EXCEPT !.inode[b] = NoInode, !.dents[b] = NoEntries, !.idb[b] = Zeros]
                IN {Ok([G EXCEPT !.disk = clear], b)} \cup IOErr(bitmap_unmark(G, {b})) :
                b \in bitmap_alloc(F.freemap)}

sfs_bfree_clean(F, B) == bitmap_unmark(F, B)

sfs_bfree(F, B) == [bitmap_unmark(F, B) EXCEPT !.fdirty = @ \/ B # {}]

sfs_bused(F, b) == IF b # 0 /\ ~ bitmap_isset(F.freemap, b) THEN {Panic(F)} ELSE {Ok(F, b)}

-----------------------------------------------------------------------------
(* sfs_bmap.c *)

\* The disk block of block fb of a file; with doalloc a missing one is made.
bmap_direct(F, ino, fb, doalloc) ==
    IF F.vn[ino].i.direct[fb] = 0 /\ doalloc
    THEN Try(sfs_balloc(F), LAMBDA G, b : {Ok(SetInode(G, ino, [G.vn[ino].i EXCEPT !.direct[fb] = b]), b)})
    ELSE sfs_bused(F, F.vn[ino].i.direct[fb])

\* The indirect block: a new one is recorded in the inode, one there is read.
bmap_idblock(F, ino) ==
    IF F.vn[ino].i.indirect = 0
    THEN Try(sfs_balloc(F), LAMBDA G, b : {Ok(SetInode(G, ino, [G.vn[ino].i EXCEPT !.indirect = b]), Zeros)})
    ELSE sfs_readblock(F, F.disk.idb[F.vn[ino].i.indirect])

bmap_indirect(F, ino, off, doalloc) ==
    IF F.vn[ino].i.indirect = 0 /\ ~doalloc THEN {Ok(F, 0)}
    ELSE Try(bmap_idblock(F, ino), LAMBDA G, idbuf :
            IF idbuf[off] = 0 /\ doalloc
            THEN Try(sfs_balloc(G), LAMBDA H, b :
                    Try(sfs_writeblock(H, [H.disk EXCEPT !.idb[H.vn[ino].i.indirect] = [idbuf EXCEPT ![off] = b]]),
                        LAMBDA K, x : {Ok(K, b)}))
            ELSE sfs_bused(G, idbuf[off]))

sfs_bmap(F, ino, fb, doalloc) ==
    IF fb < SFS_NDIRECT THEN bmap_direct(F, ino, fb, doalloc)
    ELSE IF fb - SFS_NDIRECT >= SFS_DBPERIDB THEN {Err(F)}
    ELSE bmap_indirect(F, ino, fb - SFS_NDIRECT, doalloc)

\* The last step of sfs_itrunc.
SetSize(F, ino, len) == {Ok(SetInode(F, ino, [F.vn[ino].i EXCEPT !.size = len]), 0)}

\* The blocks of the indirect block past the new end go, and it goes with
\* them when it is empty; otherwise it is written back.
itrunc_indirect(F, ino, len) ==
    LET id == F.vn[ino].i.indirect IN
    IF ~(len < SFS_NDIRECT + SFS_DBPERIDB - 1 /\ id # 0) THEN SetSize(F, ino, len)
    ELSE Try(sfs_readblock(F, F.disk.idb[id]), LAMBDA G, idbuf :
            LET past == {j \in DOMAIN idbuf : len < SFS_NDIRECT + j /\ idbuf[j] # 0}
                left == [j \in DOMAIN idbuf |-> IF j \in past THEN 0 ELSE idbuf[j]]
                H == sfs_bfree(G, {idbuf[j] : j \in past})
            IN IF left = Zeros
               THEN SetSize(SetInode(sfs_bfree(H, {id}), ino, [H.vn[ino].i EXCEPT !.indirect = 0]), ino, len)
               ELSE IF past = {} THEN SetSize(H, ino, len)
               ELSE Try(sfs_writeblock(H, [H.disk EXCEPT !.idb[id] = left]), LAMBDA K, x : SetSize(K, ino, len)))

sfs_itrunc(F, ino, len) ==
    LET I == F.vn[ino].i
        past == {i \in 0 .. SFS_NDIRECT - 1 : i >= len /\ I.direct[i] # 0}
        G == sfs_bfree(F, {I.direct[i] : i \in past})
        cut == [i \in DOMAIN I.direct |-> IF i \in past THEN 0 ELSE I.direct[i]]
    IN itrunc_indirect(IF past = {} THEN F ELSE SetInode(G, ino, [I EXCEPT !.direct = cut]), ino, len)

sfs_truncate(F, ino, len) == sfs_itrunc(F, ino, len)

-----------------------------------------------------------------------------
(* sfs_inode.c *)

sfs_sync_inode(F, ino) ==
    IF F.vn[ino].dirty
    THEN Try(sfs_writeblock(F, [F.disk EXCEPT !.inode[ino] = F.vn[ino].i]),
             LAMBDA G, x : {Ok([G EXCEPT !.vn[ino].dirty = FALSE], 0)})
    ELSE {Ok(F, 0)}

\* The inode found among the loaded ones, or read from the disk.
sfs_loadvnode(F, ino, forcetype) ==
    IF F.vn[ino].ref > 0
    THEN IF forcetype = "INVAL" /\ ino \in F.freemap THEN {Ok([F EXCEPT !.vn[ino].ref = @ + 1], ino)}
         ELSE {Panic(F)}
    ELSE IF ino \notin F.freemap THEN {Panic(F)}
    ELSE Try(sfs_readblock(F, F.disk.inode[ino]), LAMBDA G, i :
            IF (forcetype = "INVAL") = (i.type = "INVAL") THEN {Panic(G)}
            ELSE {Ok([G EXCEPT !.vn[ino] = [ref |-> 1, dirty |-> forcetype # "INVAL",
                          i |-> IF forcetype = "INVAL" THEN i ELSE [i EXCEPT !.type = forcetype]]], ino)})

\* A block for the inode; it is freed again if the vnode cannot be made.
sfs_makeobj(F, type) ==
    Try(sfs_balloc(F), LAMBDA G, ino :
        {IF r.ok THEN r ELSE [r EXCEPT !.fs = sfs_bfree(@, {ino})] : r \in sfs_loadvnode(G, ino, type)})

sfs_getroot(F) == sfs_loadvnode(F, SFS_ROOTDIR_INO, "INVAL")

Discard(F, ino) == Ok([F EXCEPT !.vn[ino] = NoVnode], 0)

\* The last reference: a file without a name is erased, the inode written.
reclaim_last(F, ino) ==
    IF F.vn[ino].i.linkcount > 0
    THEN Try(sfs_sync_inode(F, ino), LAMBDA G, x : {Discard(G, ino)})
    ELSE Try(sfs_itrunc(F, ino, 0), LAMBDA G, x :
            Try(sfs_sync_inode(G, ino), LAMBDA H, y : {Discard(sfs_bfree(H, {ino}), ino)}))

sfs_reclaim_unchecked(F, ino) ==
    {IF r.ok THEN r ELSE [r EXCEPT !.fs.stuck = @ \cup {ino}] : r \in reclaim_last(F, ino)}

\* After an error the vnode stays in the table, with a reference that is
\* nobody's (stuck).
sfs_reclaim(F, ino) ==
    IF F.vn[ino].ref > 1 THEN {Ok([F EXCEPT !.vn[ino].ref = @ - 1], 0)}
    ELSE {IF r.ok THEN r ELSE [r EXCEPT !.fs.stuck = @ \cup {ino}] : r \in reclaim_last(F, ino)}

\* VOP_DECREF with vfs_biglock held: its two halves are not separated, and
\* what it returns is not looked at.
VOP_DECREF(F, ino) ==
    IF F.vn[ino].ref > 1 THEN {[F EXCEPT !.vn[ino].ref = @ - 1]} ELSE {r.fs : r \in sfs_reclaim(F, ino)}

\* The same after a call: its result is kept.
Drop(S, ino) == UNION {{[r EXCEPT !.fs = G] : G \in VOP_DECREF(r.fs, ino)} : r \in S}

-----------------------------------------------------------------------------
(* sfs_dir.c: the root is the only directory *)

Root(F) == F.vn[SFS_ROOTDIR_INO].i

\* sfs_readdir through sfs_metaio: an entry of a block that is not there
\* reads as zeros.
Entry(F, slot) ==
    LET b == Root(F).direct[slot \div DirPerBlock]
    IN IF b = 0 THEN NoEntry ELSE F.disk.dents[b][slot % DirPerBlock]

Slots(F) == 0 .. Root(F).size - 1
SlotsOf(F, name) == {s \in Slots(F) : Entry(F, s)[2] # 0 /\ Entry(F, s)[1] = name}

\* The slot of a name, or ENOENT (v is a set of at most one slot).
sfs_dir_findname(F, name) ==
    IF Cardinality(SlotsOf(F, name)) > 1 THEN {Panic(F)} ELSE sfs_readblock(F, SlotsOf(F, name))

\* sfs_metaio writing an entry: the block is found or made, read, changed and
\* written; then the size grows.
sfs_metaio(F, slot, entry) ==
    Try(sfs_bmap(F, SFS_ROOTDIR_INO, slot \div DirPerBlock, TRUE), LAMBDA G, b :
        Try(sfs_writeblock(G, [G.disk EXCEPT !.dents[b][slot % DirPerBlock] = entry]), LAMBDA H, x :
            {Ok(IF slot >= Root(H).size
                THEN SetInode(H, SFS_ROOTDIR_INO, [Root(H) EXCEPT !.size = slot + 1]) ELSE H, slot)}))

sfs_writedir(F, slot, entry) == sfs_metaio(F, slot, entry)

EmptySlot_last(F) == IF Root(F).size = 0 THEN 0 ELSE Root(F).size - 1

\* The last empty slot that the scan saw, or one at the end.
EmptySlot(F) ==
    LET empty == {s \in Slots(F) : Entry(F, s)[2] = 0} IN IF empty = {} THEN Root(F).size ELSE Max(empty)

sfs_dir_link(F, name, ino) ==
    Try(sfs_dir_findname(F, name), LAMBDA G, found :
        IF found # {} THEN {Err(G)} ELSE sfs_writedir(G, EmptySlot(G), <<name, ino>>))

sfs_dir_unlink(F, slot) == sfs_writedir(F, slot, NoEntry)

\* The slot of a name and the vnode of its file.
sfs_lookonce(F, name) ==
    Try(sfs_dir_findname(F, name), LAMBDA G, found :
        IF found = {} THEN {Err(G)}
        ELSE LET s == Min(found)
                 ino == Entry(G, s)[2]
             IN Try(sfs_loadvnode(G, ino, "INVAL"), LAMBDA H, x :
                    IF H.vn[ino].i.linkcount = 0 THEN {Panic(H)} ELSE {Ok(H, <<ino, s>>)}))

-----------------------------------------------------------------------------
(* sfs_vnops.c *)

AddLink(F, ino, k) == SetInode(F, ino, [F.vn[ino].i EXCEPT !.linkcount = @ + k])
DropLink(F, ino) ==
    IF F.vn[ino].i.linkcount = 0 THEN [F EXCEPT !.panic = TRUE]
    ELSE SetInode(F, ino, [F.vn[ino].i EXCEPT !.linkcount = @ - 1])

sfs_lookup(F, name) == Try(sfs_lookonce(F, name), LAMBDA G, x : {Ok(G, x[1])})

\* A file that cannot be linked is dropped, and goes away with its inode.
sfs_creat(F, name, excl) ==
    Try(sfs_dir_findname(F, name), LAMBDA G, found :
        IF found # {}
        THEN IF excl THEN {Err(G)} ELSE sfs_loadvnode(G, Entry(G, Min(found))[2], "INVAL")
        ELSE Try(sfs_makeobj(G, "FILE"), LAMBDA H, ino :
                LET linked == sfs_dir_link(H, name, ino)
                IN {Ok(AddLink(r.fs, ino, 1), ino) : r \in {q \in linked : q.ok}}
                   \cup Drop({q \in linked : ~q.ok}, ino)))

sfs_link(F, name, ino) ==
    IF F.vn[ino].i.type = "DIR" THEN {Err(F)}
    ELSE Try(sfs_dir_link(F, name, ino), LAMBDA G, x : {Ok(AddLink(G, ino, 1), 0)})

sfs_remove(F, name) ==
    Try(sfs_lookonce(F, name), LAMBDA G, x :
        Drop(Try(sfs_dir_unlink(G, x[2]), LAMBDA H, y : {Ok(DropLink(H, x[1]), 0)}), x[1]))

\* The new name first, then the old one goes; if that fails the new one is
\* taken back, and if that fails too the kernel panics.
rename_undo(r, ino, slot) ==
    IF r.ok THEN {Ok(DropLink(r.fs, ino), 0)}
    ELSE {IF q.ok THEN Err(DropLink(q.fs, ino)) ELSE Panic(q.fs) : q \in sfs_dir_unlink(r.fs, slot)}

sfs_rename(F, n1, n2) ==
    Try(sfs_lookonce(F, n1), LAMBDA G, x :
        Drop(Try(sfs_dir_link(G, n2, x[1]), LAMBDA H, slot2 :
                UNION {rename_undo(r, x[1], slot2) : r \in sfs_dir_unlink(AddLink(H, x[1], 1), x[2])}), x[1]))

\* One block, whole or in part: a part is written into what is read first,
\* and a block that is not there reads as zeros.
sfs_blockio(F, ino, fb, write) ==
    Try(sfs_bmap(F, ino, fb, write), LAMBDA G, b : IF b = 0 THEN {Ok(G, 0)} ELSE sfs_readblock(G, b))

\* Reading stops at the end of the file; writing moves it.
sfs_io(F, ino, fb, write) ==
    IF ~write /\ fb >= F.vn[ino].i.size THEN {Ok(F, 0)}
    ELSE Try(sfs_blockio(F, ino, fb, write), LAMBDA G, x :
            {Ok(IF write /\ fb >= G.vn[ino].i.size
                THEN SetInode(G, ino, [G.vn[ino].i EXCEPT !.size = fb + 1]) ELSE G, 0)})

-----------------------------------------------------------------------------
(* sfs_fsops.c *)

Loaded(F) == {b \in Block : F.vn[b].ref > 0}

sfs_sync_freemap(F) ==
    IF F.fdirty
    THEN Try(sfs_writeblock(F, [F.disk EXCEPT !.freemap = F.freemap]),
             LAMBDA G, x : {Ok([G EXCEPT !.fdirty = FALSE], 0)})
    ELSE {Ok(F, 0)}

\* Every loaded inode (errors ignored), then the free map.
sfs_sync(F) ==
    LET sync(b, S) == UNION {{[r EXCEPT !.ok = TRUE] : r \in sfs_sync_inode(q.fs, b)} : q \in S}
    IN Try(FoldSet(sync, {Ok(F, 0)}, Loaded(F)), LAMBDA G, x : sfs_sync_freemap(G))

\* EBUSY while a vnode is loaded.  The structure is freed: of the volume only
\* the disk remains.
sfs_unmount(F) ==
    IF Loaded(F) # {} THEN {Err(F)}
    ELSE IF F.fdirty THEN {Panic(F)} ELSE {Ok([F EXCEPT !.freemap = {}], 0)}

\* The superblock and the free map are read.
sfs_domount(F) == Try(sfs_readblock(F, 0), LAMBDA G, x :
    Try(sfs_readblock(G, 0), LAMBDA H, y : {Ok([H EXCEPT !.freemap = H.disk.freemap, !.fdirty = FALSE], 0)}))
=============================================================================
