------------------------------- MODULE MCVFS -------------------------------
EXTENDS VFS, TLC

CONSTANT MaxLoad

Symmetry == Permutations(Thread) \cup Permutations(Name)

\* Bound: the references held at one time and the blocks in use.
Load == kd_ref - 1 + FoldSet(LAMBDA b, n : n + fs.vn[b].ref, 0, Block) + Cardinality(fs.freemap \ Reserved)
BoundedLoad == Load <= MaxLoad

\* States are told apart by what can still be read: a free block is cleared
\* before it is used, and a dirty inode or free map is written before the
\* disk's copy is read.
Readable(F, mounted) ==
    LET used == IF mounted THEN F.freemap ELSE F.disk.freemap
        keep(f, B, none) == [b \in Block |-> IF b \in B THEN f[b] ELSE none]
    IN [F EXCEPT !.disk = [@ EXCEPT !.freemap = IF mounted /\ F.fdirty THEN {} ELSE F.disk.freemap,
                           !.inode = keep(F.disk.inode, {b \in used : ~F.vn[b].dirty}, NoInode),
                           !.idb = keep(F.disk.idb, used, Zeros)]]

View == <<Readable(fs, kd_fs = "sfs"), kd_fs, kd_ref, bootfs, cwd, th>>
=============================================================================
