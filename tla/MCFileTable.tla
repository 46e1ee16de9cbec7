---------------------------- MODULE MCFileTable ----------------------------
EXTENDS FileTable, Functions, TLC

CONSTANTS p1, p2, f1, f2, con, h1, h2, l1, l2

Symm == Permutations(File) \cup Permutations(Lock) \cup Permutations(Heap)

\* States are told apart by what can still be read: a stopped kernel reads nothing,
\* the offset and the count of an openfile that nobody points to are assigned
\* before they are read, and no guard depends on the references of a vnode.
View ==
    LET Reached == UNION {Range(fileTable[p]) \cup {my[p].of} : p \in Proc}
        Read(f) == [o \in Obj |-> IF o \in Reached THEN f[o] ELSE 0]
    IN  IF fault # "none" THEN <<fault>>
        ELSE <<fileTable, vn, Read(offset), file_lock, Read(ref_count), used, owner,
               pc, my, exec_lock, opened>>
=============================================================================
