-------------------------- MODULE FileTableProofs --------------------------
(***************************************************************************)
(* Proofs about FileTable: the file locks are given back, transfers on a   *)
(* shared openfile are serialized, and a descriptor names the file it was  *)
(* opened for, for any number of processes, files, slots and descriptors,  *)
(* if one process calls open; and, however many do, the reference count of *)
(* a file in use is positive.                                              *)
(***************************************************************************)
EXTENDS FileTable, WellFoundedInduction, TLAPS

\* Zenon proves the leaves that need no arithmetic; the others name their prover.
USE ZenonT(30)

\* With two processes that call open, both may fill the same slot.
OneOpener == \A p, q \in Openers : p = q

-----------------------------------------------------------------------------
(* The inductive invariant *)

\* In the middle of an operation on the openfile my.of.
Holding == {"close_test", "close_dec", "xfer_start", "xfer_io", "seek_set"}
Busy == Holding \cup {"open_fill", "open_fd", "close_clear", "close_lock", "close_destroy",
                      "xfer_lock", "seek_lock"}

\* An openfile that processes may point to: a block, or a slot that was filled.
Placed(o) == o \in used \/ (o \in Slot \ Std /\ file_lock[o] # NULL)

MyType(m) ==
    /\ DOMAIN m = DOMAIN Blank
    /\ m.of \in Obj \cup {NULL} /\ m.fd \in FD /\ m.old \in FD
    /\ m.child \in Proc /\ m.to \in {"user", "exit", "dup2_read"}

Types ==
    /\ fileTable \in [Proc -> [FD -> Obj \cup {NULL}]]
    /\ DOMAIN vn = Obj /\ DOMAIN offset = Obj
    /\ file_lock \in [Obj -> Lock \cup {NULL}]
    /\ used \subseteq Heap
    /\ owner \in [Lock -> Proc \cup {NULL, Freed}]
    /\ pc \in [Proc -> Labels]
    /\ DOMAIN my = Proc /\ \A p \in Proc : MyType(my[p])
    /\ DOMAIN opened = Proc /\ \A p \in Proc : DOMAIN opened[p] = FD

\* Where a process is says what it has.
Proper(p) ==
    /\ my[p].of # NULL <=> pc[p] \in Busy
    /\ pc[p] = "start" => my[p].fd \in Std
    /\ pc[p] \in {"open_find", "open_fill", "open_fd"} => p \in Openers
    /\ pc[p] = "open_fill" => my[p].of \in Slot \ Std /\ file_lock[my[p].of] = NULL
    /\ pc[p] \in Busy \ {"open_fill"} => Placed(my[p].of)
    /\ pc[p] = "open_fd" => my[p].of \in Slot /\ vn[my[p].of] = my[p].v
    /\ pc[p] = "dup2_write" => /\ fileTable[p][my[p].fd] \in used
                               /\ fileTable[p][my[p].old] # NULL
    /\ pc[p] \in {"fork_read", "fork_inc"} => pc[my[p].child] = "born"

\* The descriptors of a process.
Table(p) ==
    \A fd \in FD : fileTable[p][fd] # NULL =>
        /\ Placed(fileTable[p][fd])
        /\ vn[fileTable[p][fd]] \in {NULL, opened[p][fd]}

\* The openfile that open or dup2 is making is nobody else's, nor is a child
\* that fork is making.
Apart ==
    /\ \A p, q \in Proc : pc[p] = "open_fd" =>
          /\ \A fd \in FD : fileTable[q][fd] # my[p].of
          /\ q # p => my[q].of # my[p].of
    /\ \A p, q \in Proc : pc[p] = "dup2_write" =>
          /\ \A fd \in FD : fileTable[q][fd] = fileTable[p][my[p].fd] => q = p /\ fd = my[p].fd
          /\ my[q].of # fileTable[p][my[p].fd]
    /\ \A p, q \in Proc : {pc[p], pc[q]} \subseteq {"fork_read", "fork_inc"} /\ my[p].child = my[q].child
                          => p = q

\* The first entries of the system table are con: once the first process has
\* started, so that open does not find them free.
Started == \A i \in Std : vn[i] = Con
Booting ==
    /\ \A p \in Proc \ {First} : pc[p] = "dead"
    /\ exec_lock # First
    /\ \/ pc[First] = "gone"
       \/ pc[First] = "start" /\ \A i \in Std : i < my[First].fd => vn[i] = Con

Unused == \A h \in Heap \ used : vn[h] = NULL

FtInv ==
    /\ Types
    /\ \A p \in Proc : Proper(p) /\ Table(p)
    /\ Apart
    /\ Started \/ Booting
    /\ Unused
    /\ LocksGivenBack
    /\ TransfersSerialized

-----------------------------------------------------------------------------
(* Constants and minima *)

\* Descriptors, entries of the system table, heap blocks and NULL are distinct.
LEMMA Names ==
    /\ Std \subseteq FD /\ Std \subseteq Slot /\ 0 \in Std /\ 0 \in FD
    /\ FD \subseteq Nat /\ Slot \subseteq Nat /\ Slot \cap Heap = {} /\ Obj = Slot \cup Heap
    /\ NULL \notin Obj /\ NULL \notin Lock /\ NULL \notin Proc /\ Con # NULL
    /\ Freed \notin Proc /\ Freed # NULL
<1>1. /\ Std \subseteq FD /\ Std \subseteq Slot /\ 0 \in Std /\ 0 \in FD
      /\ FD \subseteq Nat /\ Slot \subseteq Nat
  BY SizesAssumption, SMT DEF Std, FD, Slot
<1> QED
  BY <1>1, NamesAssumption DEF Obj, Vnode

\* The locals of a process that is in no call.
LEMMA BlankType ==
    /\ MyType(Blank) /\ Blank.of = NULL
    /\ DOMAIN Blank = {"of", "v", "n", "fd", "old", "child", "to"}
BY Names, NamesAssumption, SMT DEF MyType, Blank

\* The first of the free descriptors is one of them.
LEMMA Least ==
    ASSUME NEW S, S \subseteq Nat, S # {}
    PROVE  Min(S) \in S
<1>1. PICK x \in S : \A y \in S : ~(<<y, x>> \in OpToRel(<, Nat))
  BY NatLessThanWellFounded, WFMin
<1>2. \A y \in S : ~(y < x)
  BY <1>1 DEF OpToRel
<1>3. \A y \in S : x <= y
  BY <1>2, SMT
<1> QED
  BY <1>3 DEF Min

-----------------------------------------------------------------------------
(* What a step of one process must respect *)

Forking == {"fork_read", "fork_inc"}

Reaches(q, o) == my[q].of = o \/ \E fd \in FD : fileTable[q][fd] = o

\* An openfile that nobody has made yet.
Fresh(o) == o \in Heap \ used \/ (o \in Slot /\ file_lock[o] = NULL)

\* An openfile that a process reaches is allocated and placed, or is the one it
\* is filling.
LEMMA Reached ==
    ASSUME FtInv, NEW q \in Proc, NEW o \in Obj, Reaches(q, o)
    PROVE  /\ o \notin Std /\ o \notin Heap \ used
           /\ Placed(o) \/ (pc[q] = "open_fill" /\ o = my[q].of /\ o \in Slot /\ file_lock[o] = NULL)
<1>1. Types /\ Proper(q) /\ Table(q)
  BY DEF FtInv
<1>2. o # NULL
  BY Names
<1>3. CASE my[q].of = o /\ pc[q] = "open_fill"
  BY <1>1, <1>3, Names DEF Proper
<1>4. CASE Placed(o)
  BY <1>1, <1>4, Names DEF Placed, Types
<1> QED
  BY <1>1, <1>2, <1>3, <1>4 DEF Reaches, Proper, Table

\* Only process p moves.
Alone(p) ==
    \A q \in Proc \ {p} : /\ pc'[q] = pc[q] /\ my'[q] = my[q]
                          /\ fileTable'[q] = fileTable[q] /\ opened'[q] = opened[q]

\* What the others reach is left alone, but for vnodes that are cleared.
Respects(p) ==
    \A q \in Proc \ {p} :
        /\ \A o \in Obj : Reaches(q, o) => file_lock'[o] = file_lock[o] /\ vn'[o] \in {NULL, vn[o]}
        /\ pc[q] = "open_fd" => vn'[my[q].of] = vn[my[q].of]
        /\ pc[q] = "xfer_io" /\ Holds(q, my[q].of) => offset'[my[q].of] = offset[my[q].of]
        /\ \A l \in Lock : owner'[l] = q => owner[l] = q

\* A step that respects what the others reach keeps what is known of them.
LEMMA Bystander ==
    ASSUME FtInv, NEW p \in Proc, Alone(p), Respects(p), used \subseteq used',
           NEW q \in Proc, q # p,
           pc[q] \in Forking => pc'[my[q].child] = "born"
    PROVE  Proper(q)' /\ Table(q)'
<1>1. Types /\ Proper(q) /\ Table(q)
  BY DEF FtInv
<1>2. pc'[q] = pc[q] /\ my'[q] = my[q] /\ fileTable'[q] = fileTable[q] /\ opened'[q] = opened[q]
  BY DEF Alone
<1>3. ASSUME NEW o \in Obj, Reaches(q, o) PROVE file_lock'[o] = file_lock[o] /\ (Placed(o) => Placed(o)')
  BY <1>3 DEF Respects, Placed
<1>4. my[q].of \in Obj \cup {NULL} /\ \A fd \in FD : fileTable[q][fd] \in Obj \cup {NULL}
  BY <1>1, SMT DEF Types, MyType
<1>5. pc[q] \in Busy => my[q].of \in Obj /\ Reaches(q, my[q].of)
  BY <1>1, <1>4 DEF Proper, Reaches
<1>6. Proper(q)'
  <2>1. my'[q].of # NULL <=> pc'[q] \in Busy
    BY <1>1, <1>2 DEF Proper
  <2>2. pc'[q] = "open_fill" => my'[q].of \in Slot \ Std /\ file_lock'[my'[q].of] = NULL
    BY <1>1, <1>2, <1>3, <1>5 DEF Proper, Busy
  <2>3. pc'[q] \in Busy \ {"open_fill"} => Placed(my[q].of)'
    BY <1>1, <1>2, <1>3, <1>5 DEF Proper
  <2>4. pc'[q] = "open_fd" => vn'[my'[q].of] = my'[q].v
    BY <1>1, <1>2, ZenonT(60) DEF Proper, Respects
  <2>5. pc'[q] = "dup2_write" => fileTable'[q][my'[q].fd] \in used' /\ fileTable'[q][my'[q].old] # NULL
    BY <1>1, <1>2 DEF Proper
  <2>6. pc'[q] \in Forking => pc'[my'[q].child] = "born"
    BY <1>2
  <2> QED
    BY <1>1, <1>2, <2>1, <2>2, <2>3, <2>4, <2>5, <2>6 DEF Proper, Forking
<1>7. Table(q)'
  <2> SUFFICES ASSUME NEW fd \in FD, fileTable[q][fd] # NULL
               PROVE  Placed(fileTable[q][fd])' /\ vn'[fileTable[q][fd]] \in {NULL, opened[q][fd]}
    BY <1>2 DEF Table
  <2>1. fileTable[q][fd] \in Obj /\ Reaches(q, fileTable[q][fd])
    BY <1>4 DEF Reaches
  <2>2. Placed(fileTable[q][fd])'
    BY <1>1, <1>2, <1>3, <2>1 DEF Table
  <2> QED
    BY <1>1, <2>1, <2>2 DEF Table, Respects
<1> QED
  BY <1>6, <1>7

\* The openfiles that others are making stay theirs.
LEMMA ApartKept ==
    ASSUME FtInv, NEW p \in Proc, Alone(p), Types',
           \A o \in Obj : Reaches(p, o)' => Reaches(p, o) \/ Fresh(o),
           pc'[p] = "open_fd" =>
              \A q \in Proc : /\ \A fd \in FD : fileTable'[q][fd] # my'[p].of
                              /\ q # p => my'[q].of # my'[p].of,
           pc'[p] = "dup2_write" =>
              \A q \in Proc :
                 /\ \A fd \in FD : fileTable'[q][fd] = fileTable'[p][my'[p].fd] => q = p /\ fd = my'[p].fd
                 /\ my'[q].of # fileTable'[p][my'[p].fd],
           pc'[p] \in Forking => pc[p] \in Forking /\ my'[p].child = my[p].child
    PROVE  Apart'
<1>1. Types /\ Apart /\ \A q \in Proc : Proper(q)
  BY DEF FtInv
<1>2. ASSUME NEW r \in Proc, NEW q \in Proc, pc'[r] = "open_fd"
      PROVE  (\A fd \in FD : fileTable'[q][fd] # my'[r].of) /\ (q # r => my'[q].of # my'[r].of)
  <2>1. CASE r = p
    BY <1>2, <2>1
  <2>2. CASE r # p
    <3>1. pc[r] = "open_fd" /\ my'[r] = my[r]
      BY <1>2, <2>2 DEF Alone
    <3>2. my[r].of \in Slot /\ Placed(my[r].of)
      BY <1>1, <3>1 DEF Proper, Busy
    <3>3. ~Fresh(my[r].of) /\ my[r].of \in Obj
      BY <1>1, <3>2, Names DEF Fresh, Placed, Types
    <3>4. (\A fd \in FD : fileTable[q][fd] # my[r].of) /\ (q # r => my[q].of # my[r].of)
      BY <1>1, <3>1 DEF Apart
    <3>5. CASE q = p
      <4>1. ~Reaches(p, my[r].of)
        BY <2>2, <3>4, <3>5 DEF Reaches
      <4>2. ~Reaches(p, my[r].of)'
        BY <3>1, <3>3, <4>1
      <4> QED
        BY <3>1, <3>5, <4>2 DEF Reaches
    <3>6. CASE q # p
      BY <3>1, <3>4, <3>6 DEF Alone
    <3> QED
      BY <3>5, <3>6
  <2> QED
    BY <2>1, <2>2
<1>3. ASSUME NEW r \in Proc, NEW q \in Proc, pc'[r] = "dup2_write"
      PROVE  /\ \A fd \in FD : fileTable'[q][fd] = fileTable'[r][my'[r].fd] => q = r /\ fd = my'[r].fd
             /\ my'[q].of # fileTable'[r][my'[r].fd]
  <2>1. CASE r = p
    BY <1>3, <2>1
  <2>2. CASE r # p
    <3> DEFINE h == fileTable[r][my[r].fd]
    <3>1. pc[r] = "dup2_write" /\ my'[r] = my[r] /\ fileTable'[r] = fileTable[r]
      BY <1>3, <2>2 DEF Alone
    <3>2. h \in used
      BY <1>1, <3>1 DEF Proper
    <3>3. ~Fresh(h) /\ h \in Obj
      BY <1>1, <3>2, Names DEF Fresh, Types
    <3>4. /\ \A fd \in FD : fileTable[q][fd] = h => q = r /\ fd = my[r].fd
          /\ my[q].of # h
      BY <1>1, <3>1 DEF Apart
    <3> HIDE DEF h
    <3>5. CASE q = p
      <4>1. ~Reaches(p, h)
        BY <2>2, <3>4, <3>5 DEF Reaches
      <4>2. ~Reaches(p, h)'
        <5>1. h' = h
          BY <3>1 DEF h
        <5> QED
          BY <3>3, <4>1, <5>1
      <4>3. my'[q].of # h /\ \A fd \in FD : fileTable'[q][fd] # h
        <5>1. h' = h
          BY <3>1 DEF h
        <5> QED
          BY <3>5, <4>2, <5>1 DEF Reaches
      <4> QED
        BY <3>1, <4>3 DEF h
    <3>6. CASE q # p
      <4>1. my'[q] = my[q] /\ fileTable'[q] = fileTable[q]
        BY <3>6 DEF Alone
      <4>2. fileTable'[r][my'[r].fd] = h /\ my'[r].fd = my[r].fd
        BY <3>1 DEF h
      <4> QED
        BY <3>4, <4>1, <4>2
    <3> QED
      BY <3>5, <3>6
  <2> QED
    BY <2>1, <2>2
<1>4. ASSUME NEW r \in Proc, NEW q \in Proc, {pc'[r], pc'[q]} \subseteq Forking, my'[r].child = my'[q].child
      PROVE  r = q
  <2>1. ASSUME NEW s \in {r, q} PROVE pc[s] \in Forking /\ my'[s].child = my[s].child
    <3>1. s \in Proc /\ pc'[s] \in Forking
      BY <1>4, <2>1
    <3>2. CASE s # p
      <4>1. pc'[s] = pc[s] /\ my'[s] = my[s]
        BY <3>1, <3>2 DEF Alone
      <4> QED
        BY <3>1, <4>1
    <3> QED
      BY <3>1, <3>2
  <2>2. {pc[r], pc[q]} \subseteq {"fork_read", "fork_inc"} /\ my[r].child = my[q].child
    BY <1>4, <2>1 DEF Forking
  <2> QED
    BY <1>1, <2>2 DEF Apart
<1> QED
  BY <1>2, <1>3, <1>4 DEF Apart, Forking

\* The same for the locks: who has one is in a transfer, a seek or a close.
LEMMA LocksKept ==
    ASSUME FtInv, NEW p \in Proc, Alone(p), Respects(p), Types',
           \A l \in Lock : owner'[l] = p => pc'[p] \in Holding /\ file_lock'[my'[p].of] = l
    PROVE  LocksGivenBack'
<1> SUFFICES ASSUME NEW l \in Lock, owner'[l] \in Proc
             PROVE  pc'[owner'[l]] \in Holding /\ file_lock'[my'[owner'[l]].of] = l
  BY DEF LocksGivenBack, Holding
<1>1. CASE owner'[l] = p
  BY <1>1
<1>2. CASE owner'[l] # p
  <2>0. PICK q \in Proc : q = owner'[l]
    OBVIOUS
  <2>1. owner[l] = q /\ pc'[q] = pc[q] /\ my'[q] = my[q]
    BY <1>2, <2>0 DEF Respects, Alone
  <2>2. pc[q] \in Holding /\ file_lock[my[q].of] = l
    BY <2>1 DEF FtInv, LocksGivenBack, Holding
  <2>3. my[q].of \in Obj /\ Reaches(q, my[q].of)
    BY <2>2, Names DEF FtInv, Types, MyType, Proper, Busy, Reaches
  <2> QED
    BY <1>2, <2>0, <2>1, <2>2, <2>3 DEF Respects
<1> QED
  BY <1>1, <1>2

\* The same for the offset of a transfer that is under way.
LEMMA TransfersKept ==
    ASSUME FtInv, NEW p \in Proc, Alone(p), Respects(p), Types',
           pc'[p] = "xfer_io" => offset'[my'[p].of] = my'[p].n
    PROVE  TransfersSerialized'
<1> SUFFICES ASSUME NEW q \in Proc, q # p, pc'[q] = "xfer_io", Holds(q, my[q].of)'
             PROVE  offset'[my'[q].of] = my'[q].n
  BY DEF TransfersSerialized
<1>1. pc[q] = "xfer_io" /\ my'[q] = my[q]
  BY DEF Alone
<1>2. my[q].of \in Obj /\ Reaches(q, my[q].of)
  BY <1>1, Names DEF FtInv, Types, MyType, Proper, Busy, Holding, Reaches
<1>3. file_lock'[my[q].of] = file_lock[my[q].of]
  BY <1>2 DEF Respects
<1>4. PICK l \in Lock : l = file_lock[my[q].of] /\ owner'[l] = q
  BY <1>1, <1>3 DEF Holds, Dangling
<1>5. owner[l] = q
  BY <1>4 DEF Respects
<1>6. Holds(q, my[q].of)
  BY <1>4, <1>5, Names DEF Holds, Dangling
<1>7. offset[my[q].of] = my[q].n
  BY <1>1, <1>6 DEF FtInv, TransfersSerialized
<1> QED
  BY <1>1, <1>6, <1>7 DEF Respects

\* A step of process p keeps the invariant, if p ends where it may be and leaves
\* alone what is not its own.
LEMMA Acts ==
    ASSUME FtInv, NEW p \in Proc, Alone(p), Respects(p), Types', used \subseteq used', pc[p] # "born",
           Proper(p)', Table(p)',
           \A o \in Obj : Reaches(p, o)' => Reaches(p, o) \/ Fresh(o),
           pc'[p] = "open_fd" =>
              \A q \in Proc : /\ \A fd \in FD : fileTable'[q][fd] # my'[p].of
                              /\ q # p => my'[q].of # my'[p].of,
           pc'[p] = "dup2_write" =>
              \A q \in Proc :
                 /\ \A fd \in FD : fileTable'[q][fd] = fileTable'[p][my'[p].fd] => q = p /\ fd = my'[p].fd
                 /\ my'[q].of # fileTable'[p][my'[p].fd],
           pc'[p] \in Forking => pc[p] \in Forking /\ my'[p].child = my[p].child,
           Started' \/ Booting', Unused',
           \A l \in Lock : owner'[l] = p => pc'[p] \in Holding /\ file_lock'[my'[p].of] = l,
           pc'[p] = "xfer_io" => offset'[my'[p].of] = my'[p].n
    PROVE  FtInv'
<1>1. ASSUME NEW q \in Proc PROVE Proper(q)' /\ Table(q)'
  <2>1. CASE q = p
    BY <2>1
  <2>2. CASE q # p
    <3>1. pc[q] \in Forking => pc'[my[q].child] = "born"
      <4>1. pc[q] \in Forking => pc[my[q].child] = "born" /\ my[q].child \in Proc
        BY DEF FtInv, Proper, Types, MyType, Forking
      <4> QED
        BY <4>1 DEF Alone
    <3> QED
      BY <2>2, <3>1, Bystander
  <2> QED
    BY <2>1, <2>2
<1>2. Apart'
  BY ApartKept
<1>3. LocksGivenBack' /\ TransfersSerialized'
  BY LocksKept, TransfersKept
<1> QED
  BY <1>1, <1>2, <1>3 DEF FtInv

-----------------------------------------------------------------------------
(* Steps that change neither tables nor vnodes *)

\* Once a program runs, the first process has started.
LEMMA Running ==
    ASSUME FtInv, NEW p \in Proc, pc[p] \notin {"start", "dead", "gone"}
    PROVE  Started /\ ((\A i \in Std : vn'[i] = vn[i]) => Started')
BY DEF FtInv, Booting, Started

\* Process p goes on at label "to".
Moves(p, to) ==
    /\ pc' \in [Proc -> Labels] /\ pc'[p] = to
    /\ DOMAIN my' = Proc /\ MyType(my'[p])
    /\ \A q \in Proc \ {p} : pc'[q] = pc[q] /\ my'[q] = my[q]

\* A step that takes a process to a position with new locals.
LEMMA Going ==
    ASSUME FtInv, NEW p \in Proc, NEW to \in Labels, NEW m, MyType(m),
           pc' = [pc EXCEPT ![p] = to], my' = [my EXCEPT ![p] = m]
    PROVE  Moves(p, to) /\ my'[p] = m
BY SMT DEF FtInv, Types, Moves

\* A return to user mode.
LEMMA Returning ==
    ASSUME FtInv, NEW p \in Proc, NEW from, Return(p, from)
    PROVE  pc[p] = from /\ Moves(p, "user") /\ my'[p] = Blank /\ my'[p].of = NULL
<1>1. "user" \in Labels
  BY DEF Labels
<1> QED
  BY <1>1, Going, BlankType DEF Return, Goto

\* What p does concerns a file lock, or the offset under it, at most.
LEMMA Local ==
    ASSUME FtInv, NEW p \in Proc, NEW to \in Labels, Moves(p, to), pc[p] # "born",
           UNCHANGED <<fileTable, vn, file_lock, used, opened>>,
           owner' \in [Lock -> Proc \cup {NULL, Freed}], DOMAIN offset' = Obj,
           \A q \in Proc \ {p}, l \in Lock : owner'[l] = q => owner[l] = q,
           \A q \in Proc \ {p} : pc[q] = "xfer_io" /\ Holds(q, my[q].of)
                                 => offset'[my[q].of] = offset[my[q].of],
           \A l \in Lock : owner'[l] = p => to \in Holding /\ file_lock[my'[p].of] = l,
           Started' \/ Booting',
           to \notin {"open_fd", "dup2_write", "fork_read"},
           to = "fork_inc" => pc[p] = "fork_read" /\ my'[p].child = my[p].child,
           to = "start" => my'[p].fd \in Std,
           to \in {"open_find", "open_fill"} => p \in Openers,
           to = "open_fill" => my'[p].of \in Slot \ Std /\ file_lock[my'[p].of] = NULL,
           to \in Busy <=> my'[p].of # NULL,
           to \in Busy \ {"open_fill"} =>
              \/ pc[p] \in Busy \ {"open_fill"} /\ my'[p].of = my[p].of
              \/ \E fd \in FD : my'[p].of = fileTable[p][fd],
           to = "xfer_io" => offset'[my'[p].of] = my'[p].n
    PROVE  FtInv'
<1>0. Types /\ Proper(p) /\ Table(p)
  BY DEF FtInv
<1>1. Types'
  BY <1>0, SMT DEF Types, Moves
<1>2. Alone(p)
  BY DEF Alone, Moves
<1>3. Respects(p)
  BY DEF Respects
<1>4. to \in Busy \ {"open_fill"} => Placed(my'[p].of)
  <2>1. ASSUME NEW fd \in FD, my'[p].of = fileTable[p][fd], to \in Busy PROVE Placed(my'[p].of)
    BY <1>0, <2>1 DEF Table
  <2> QED
    BY <1>0, <2>1 DEF Proper
<1>5. \A o : Placed(o)' <=> Placed(o)
  BY DEF Placed
<1>6. to = "fork_inc" => pc'[my'[p].child] = "born"
  BY <1>0, <1>2, ZenonT(60) DEF Proper, Types, MyType, Alone
<1>7. Proper(p)'
  <2>1. pc'[p] = to
    BY DEF Moves
  <2> QED
    BY <1>4, <1>5, <1>6, <2>1 DEF Proper
<1>8. Table(p)'
  BY <1>0, <1>5 DEF Table
<1>9. ASSUME NEW o \in Obj, Reaches(p, o)' PROVE Reaches(p, o) \/ Fresh(o)
  <2>1. CASE my'[p].of = o
    <3>1. to \in Busy
      BY <2>1, Names
    <3> QED
      BY <2>1, <3>1 DEF Reaches, Fresh
  <2> QED
    BY <1>9, <2>1 DEF Reaches
<1>10. Unused'
  BY DEF FtInv, Unused
<1>11. ASSUME NEW l \in Lock, owner'[l] = p PROVE pc'[p] \in Holding /\ file_lock'[my'[p].of] = l
  BY <1>11 DEF Moves
<1>12. pc'[p] = to
  BY DEF Moves
<1>13. pc'[p] \in Forking => pc[p] \in Forking /\ my'[p].child = my[p].child
  BY <1>12 DEF Forking
<1>14. pc'[p] = "xfer_io" => offset'[my'[p].of] = my'[p].n
  BY <1>12
<1>15. pc'[p] # "open_fd" /\ pc'[p] # "dup2_write"
  BY <1>12
<1> QED
  BY <1>1, <1>2, <1>3, <1>7, <1>8, <1>9, <1>10, <1>11, <1>13, <1>14, <1>15, Acts

\* A step that changes no table, openfile or lock.
LEMMA Quiet ==
    ASSUME FtInv, NEW p \in Proc, NEW to \in Labels, Moves(p, to), pc[p] # "born",
           UNCHANGED <<fileTable, vn, offset, file_lock, used, owner, opened>>,
           Started' \/ Booting',
           to \notin {"open_fd", "dup2_write", "fork_read"},
           to = "fork_inc" => pc[p] = "fork_read" /\ my'[p].child = my[p].child,
           to = "start" => my'[p].fd \in Std,
           to \in {"open_find", "open_fill"} => p \in Openers,
           to = "open_fill" => my'[p].of \in Slot \ Std /\ file_lock[my'[p].of] = NULL,
           to \in Busy <=> my'[p].of # NULL,
           to \in Busy \ {"open_fill"} =>
              \/ pc[p] \in Busy \ {"open_fill"} /\ my'[p].of = my[p].of
              \/ \E fd \in FD : my'[p].of = fileTable[p][fd],
           pc[p] \in Holding => to \in Holding /\ my'[p].of = my[p].of,
           to = "xfer_io" => offset[my'[p].of] = my'[p].n
    PROVE  FtInv'
<1>1. owner' \in [Lock -> Proc \cup {NULL, Freed}] /\ DOMAIN offset' = Obj
  BY DEF FtInv, Types
<1>2. ASSUME NEW l \in Lock, owner'[l] = p PROVE to \in Holding /\ file_lock[my'[p].of] = l
  <2>1. pc[p] \in Holding /\ file_lock[my[p].of] = l
    BY <1>2 DEF FtInv, LocksGivenBack, Holding
  <2> QED
    BY <2>1
<1> QED
  BY <1>1, <1>2, Local, ZenonT(60)

\* Labels outside of the operations on an openfile, and within.
Idle == {"user", "start", "open_find", "exit", "dead", "gone", "dup2_read", "fork_inc"}

\* How the sets of positions relate.
LEMMA LabelSets ==
    /\ Idle \subseteq Labels /\ Busy \subseteq Labels
    /\ Idle \cap Busy = {} /\ Idle \cap Holding = {} /\ Holding \subseteq Busy
BY DEF Idle, Labels, Busy, Holding

\* A quiet step to a position at which the process has no openfile at hand.
LEMMA QuietIdle ==
    ASSUME FtInv, NEW p \in Proc, NEW to \in Idle, Moves(p, to), my'[p].of = NULL,
           pc[p] # "born", pc[p] \notin Holding,
           UNCHANGED <<fileTable, vn, offset, file_lock, used, owner, opened>>,
           Started' \/ Booting',
           to = "fork_inc" => pc[p] = "fork_read" /\ my'[p].child = my[p].child,
           to = "start" => my'[p].fd \in Std,
           to = "open_find" => p \in Openers
    PROVE  FtInv'
<1>1. to \in Labels /\ to \notin Busy /\ to \notin Holding
  BY LabelSets
<1>2. to \notin {"open_fd", "dup2_write", "fork_read", "open_fill", "xfer_io"}
  BY DEF Idle
<1> QED
  BY <1>1, <1>2, Quiet

\* The quiet steps of execv, open, exit, fork and dup2.
LEMMA QuietSteps ==
    ASSUME FtInv, NEW p \in Proc,
           \/ sys_execv(p) \/ sys_open(p) \/ OpenNoFd(p) \/ sys__exit(p) \/ ExitDone(p)
           \/ ForkRead(p) \/ sys_dup2(p) \/ Dup2NoMemory(p)
    PROVE  FtInv'
<1>0. Types /\ MyType(my[p]) /\ Proper(p)
  BY DEF FtInv, Types
<1>1. pc[p] \in {"user", "exit", "open_fd", "fork_read", "dup2_read"}
  BY DEF sys_execv, sys_open, OpenNoFd, sys__exit, ExitDone, ForkRead, sys_dup2, Dup2NoMemory, Return, Goto
<1>2. UNCHANGED <<fileTable, vn, offset, file_lock, used, owner, opened>>
  BY DEF sys_execv, sys_open, OpenNoFd, sys__exit, ExitDone, ForkRead, sys_dup2, Dup2NoMemory, fields
<1>3. Started'
  BY <1>1, <1>2, Running
<1>4. pc[p] \notin Holding /\ pc[p] # "born"
  BY <1>1 DEF Holding
<1>5. pc[p] # "open_fd" => my[p].of = NULL
  BY <1>0, <1>1 DEF Proper, Busy, Holding
<1>6. ASSUME NEW to \in Idle, Moves(p, to), my'[p].of = NULL,
             to = "fork_inc" => pc[p] = "fork_read" /\ my'[p].child = my[p].child,
             to = "start" => my'[p].fd \in Std,
             to = "open_find" => p \in Openers
      PROVE  FtInv'
  BY <1>2, <1>3, <1>4, <1>6, QuietIdle
<1>7. CASE sys_execv(p)
  <2> DEFINE m == [my[p] EXCEPT !.fd = 0]
  <2>1. MyType(m) /\ m.fd = 0 /\ m.of = my[p].of
    BY <1>0, Names, BlankType, SMT DEF MyType
  <2>2. pc[p] = "user" /\ pc' = [pc EXCEPT ![p] = "start"] /\ my' = [my EXCEPT ![p] = m]
    BY <1>7 DEF sys_execv, Goto
  <2> HIDE DEF m
  <2>3. "start" \in Idle /\ "start" \in Labels
    BY DEF Idle, Labels
  <2>4. Moves(p, "start") /\ my'[p] = m
    BY <2>1, <2>2, <2>3, Going
  <2> QED
    BY <1>5, <1>6, <2>1, <2>2, <2>3, <2>4, Names
<1>8. CASE sys_open(p)
  <2>0. PICK f \in File : my' = [my EXCEPT ![p].v = f]
    BY <1>8 DEF sys_open
  <2> DEFINE m == [my[p] EXCEPT !.v = f]
  <2>1. MyType(m) /\ m.of = my[p].of
    BY <1>0, Names, BlankType, SMT DEF MyType
  <2>2. pc[p] = "user" /\ pc' = [pc EXCEPT ![p] = "open_find"] /\ my' = [my EXCEPT ![p] = m] /\ p \in Openers
    BY <1>8, <2>0 DEF sys_open, Goto
  <2> HIDE DEF m
  <2>3. "open_find" \in Idle /\ "open_find" \in Labels
    BY DEF Idle, Labels
  <2>4. Moves(p, "open_find") /\ my'[p] = m
    BY <2>1, <2>2, <2>3, Going
  <2> QED
    BY <1>5, <1>6, <2>1, <2>2, <2>3, <2>4
<1>9. CASE OpenNoFd(p) \/ Dup2NoMemory(p)
  <2>1. Moves(p, "user") /\ my'[p].of = NULL
    BY <1>9, Returning DEF OpenNoFd, Dup2NoMemory
  <2>2. "user" \in Idle
    BY DEF Idle
  <2> QED
    BY <1>6, <2>1, <2>2
<1>10. ASSUME NEW to \in {"exit", "dead"}, pc' = [pc EXCEPT ![p] = to], my' = my, pc[p] # "open_fd"
       PROVE  FtInv'
  <2>1. to \in Idle /\ to \in Labels
    BY DEF Idle, Labels
  <2>3. Moves(p, to) /\ my'[p] = my[p]
    BY <1>0, <1>10, <2>1, SMT DEF Types, Moves
  <2> QED
    BY <1>5, <1>6, <1>10, <2>1, <2>3
<1>11. CASE sys__exit(p) \/ ExitDone(p)
  BY <1>10, <1>11 DEF sys__exit, ExitDone, Goto
<1>12. CASE ForkRead(p)
  <2> DEFINE m == [my[p] EXCEPT !.n = ref_count[fileTable[p][my[p].fd]]]
  <2>1. MyType(m) /\ m.of = my[p].of /\ m.child = my[p].child
    BY <1>0, Names, BlankType, SMT DEF MyType
  <2>2. pc[p] = "fork_read" /\ pc' = [pc EXCEPT ![p] = "fork_inc"] /\ my' = [my EXCEPT ![p] = m]
    BY <1>12 DEF ForkRead, Goto
  <2> HIDE DEF m
  <2>3. "fork_inc" \in Idle /\ "fork_inc" \in Labels
    BY DEF Idle, Labels
  <2>4. Moves(p, "fork_inc") /\ my'[p] = m
    BY <2>1, <2>2, <2>3, Going
  <2> QED
    BY <1>5, <1>6, <2>1, <2>2, <2>3, <2>4
<1>13. CASE sys_dup2(p)
  <2>0. PICK old \in FD, new \in FD : my' = [my EXCEPT ![p].old = old, ![p].fd = new]
    BY <1>13 DEF sys_dup2
  <2> DEFINE m == [my[p] EXCEPT !.old = old, !.fd = new]
  <2>1. MyType(m) /\ m.of = my[p].of
    BY <1>0, Names, BlankType, SMT DEF MyType
  <2>2. DOMAIN my' = Proc /\ my'[p] = m /\ \A q \in Proc \ {p} : my'[q] = my[q]
    BY <1>0, <2>0 DEF Types
  <2>3. pc[p] = "user" /\ pc' = [pc EXCEPT ![p] = "dup2_read"]
    BY <1>13 DEF sys_dup2
  <2> HIDE DEF m
  <2>4. "dup2_read" \in Idle /\ "dup2_read" \in Labels
    BY DEF Idle, Labels
  <2>5. Moves(p, "dup2_read") /\ my'[p] = m
    BY <1>0, <2>1, <2>2, <2>3, <2>4, SMT DEF Moves, Types
  <2> QED
    BY <1>5, <1>6, <2>1, <2>3, <2>4, <2>5
<1> QED
  BY <1>7, <1>8, <1>9, <1>11, <1>12, <1>13

\* open finds a slot; read, write and lseek take an openfile from the table, and
\* go on with it.
LEMMA QuietBusy ==
    ASSUME FtInv, NEW p \in Proc,
           \/ OpenFind(p) \/ Transfer(p) \/ sys_lseek(p) \/ XferStart(p) \/ CloseShared(p)
    PROVE  FtInv'
<1>0. Types /\ MyType(my[p]) /\ Proper(p)
  BY DEF FtInv, Types
<1>1. pc[p] \in {"user", "open_find", "xfer_start", "close_test"}
  BY DEF OpenFind, Transfer, sys_lseek, XferStart, CloseShared, Begin, Goto
<1>2. UNCHANGED <<fileTable, vn, offset, file_lock, used, owner, opened>>
  BY DEF OpenFind, Transfer, sys_lseek, XferStart, CloseShared, Begin, fields
<1>3. Started /\ Started' /\ pc[p] # "born"
  BY <1>1, <1>2, Running
<1>4. CASE OpenFind(p)
  <2> DEFINE o == Min(FreeSlots)
             m == [my[p] EXCEPT !.of = o]
  <2>1. o \in FreeSlots
    BY <1>4, Least, Names DEF OpenFind, FreeSlots
  <2>2. pc[p] = "open_find" /\ pc' = [pc EXCEPT ![p] = "open_fill"] /\ my' = [my EXCEPT ![p] = m]
    BY <1>4 DEF OpenFind, Goto
  <2> HIDE DEF o
  <2>3. o \in Slot /\ vn[o] = NULL /\ file_lock[o] = NULL
    BY <2>1 DEF FreeSlots
  <2>4. o \notin Std /\ o # NULL /\ o \in Obj
    BY <1>3, <2>3, Names DEF Started
  <2>5. MyType(m) /\ m.of = o
    BY <1>0, <2>4, BlankType, SMT DEF MyType
  <2> HIDE DEF m
  <2>6. "open_fill" \in Busy /\ "open_fill" \in Labels /\ pc[p] \notin Holding
    BY <2>2 DEF Busy, Labels, Holding
  <2>7. Moves(p, "open_fill") /\ my'[p] = m
    BY <2>2, <2>5, <2>6, Going
  <2>8. p \in Openers
    BY <1>0, <2>2 DEF Proper
  <2> QED
    BY <1>2, <1>3, <2>3, <2>4, <2>5, <2>6, <2>7, <2>8, Quiet
<1>5. CASE Transfer(p) \/ sys_lseek(p)
  <2>0. PICK fd \in FD, to \in {"xfer_lock", "seek_lock"} : Begin(p, fd, to)
    BY <1>5 DEF Transfer, sys_lseek
  <2> DEFINE m == [my[p] EXCEPT !.of = fileTable[p][fd]]
  <2>1. fileTable[p][fd] \in Obj /\ fileTable[p][fd] # NULL
    BY <1>0, <2>0, SMT DEF Types, Begin
  <2>2. MyType(m) /\ m.of = fileTable[p][fd]
    BY <1>0, <2>1, BlankType, SMT DEF MyType
  <2>3. pc[p] = "user" /\ pc' = [pc EXCEPT ![p] = to] /\ my' = [my EXCEPT ![p] = m]
    BY <2>0 DEF Begin, Goto
  <2> HIDE DEF m
  <2>4. to \in Busy /\ to \in Labels /\ pc[p] \notin Holding
    BY <2>3 DEF Busy, Labels, Holding
  <2>5. Moves(p, to) /\ my'[p] = m
    BY <2>2, <2>3, <2>4, Going
  <2>6. my'[p].of # NULL /\ my'[p].of = fileTable[p][fd]
    BY <2>1, <2>2, <2>5
  <2>7. to \notin {"open_fd", "dup2_write", "fork_read", "fork_inc", "start", "open_find", "open_fill", "xfer_io"}
    OBVIOUS
  <2> QED
    BY <1>2, <1>3, <2>4, <2>5, <2>6, <2>7, Quiet
<1>6. ASSUME NEW n, NEW to \in {"xfer_io", "close_dec"}, pc[p] \in Holding, pc' = [pc EXCEPT ![p] = to],
             my' = [my EXCEPT ![p].n = n], to = "xfer_io" => n = offset[my[p].of]
      PROVE  FtInv'
  <2> DEFINE m == [my[p] EXCEPT !.n = n]
  <2>1. MyType(m) /\ m.of = my[p].of /\ m.n = n
    BY <1>0, Names, BlankType, SMT DEF MyType
  <2>2. my' = [my EXCEPT ![p] = m]
    BY <1>6
  <2> HIDE DEF m
  <2>3. to \in Busy /\ to \in Holding /\ to \in Labels /\ pc[p] \in Busy \ {"open_fill"}
    BY <1>6 DEF Busy, Labels, Holding
  <2>4. Moves(p, to) /\ my'[p] = m
    BY <1>6, <2>1, <2>2, <2>3, Going
  <2>5. my'[p].of = my[p].of /\ my'[p].of # NULL /\ (to = "xfer_io" => offset[my'[p].of] = my'[p].n)
    BY <1>0, <1>6, <2>1, <2>3, <2>4 DEF Proper
  <2>6. to \notin {"open_fd", "dup2_write", "fork_read", "fork_inc", "start", "open_find", "open_fill"}
    OBVIOUS
  <2> QED
    BY <1>2, <1>3, <2>3, <2>4, <2>5, <2>6, Quiet
<1>7. CASE XferStart(p)
  <2>1. pc[p] = "xfer_start" /\ pc' = [pc EXCEPT ![p] = "xfer_io"] /\ my' = [my EXCEPT ![p].n = offset[my[p].of]]
    BY <1>7 DEF XferStart, Goto
  <2>2. "xfer_start" \in Holding
    BY DEF Holding
  <2> QED
    BY <1>6, <2>1, <2>2
<1>8. CASE CloseShared(p)
  <2>1. pc[p] = "close_test" /\ pc' = [pc EXCEPT ![p] = "close_dec"] /\ my' = [my EXCEPT ![p].n = ref_count[my[p].of]]
    BY <1>8 DEF CloseShared, Goto
  <2>2. "close_test" \in Holding
    BY DEF Holding
  <2> QED
    BY <1>6, <2>1, <2>2
<1> QED
  BY <1>4, <1>5, <1>7, <1>8

-----------------------------------------------------------------------------
(* Steps with a file lock *)

\* lock_acquire in close, in read and write, and in lseek.
LEMMA Acquires ==
    ASSUME FtInv, NEW p \in Proc, CloseLock(p) \/ XferLock(p) \/ SeekLock(p)
    PROVE  FtInv'
<1> DEFINE o == my[p].of
<1>0. Types /\ Proper(p) /\ MyType(my[p])
  BY DEF FtInv, Types
<1>1. PICK from \in {"close_lock", "xfer_lock", "seek_lock"}, to \in {"close_test", "xfer_start", "seek_set"} :
         pc[p] = from /\ pc' = [pc EXCEPT ![p] = to]
  BY DEF CloseLock, XferLock, SeekLock, Goto
<1>2. lock_acquire(p, o) /\ UNCHANGED <<my, fileTable, vn, offset, file_lock, used, opened>>
  BY DEF CloseLock, XferLock, SeekLock, fields
<1>3. from \in Busy \ {"open_fill"} /\ from \notin Holding
  BY DEF Busy, Holding
<1>4. to \in Busy /\ to \in Holding /\ to \in Labels
  BY DEF Busy, Holding, Labels
<1>5. Moves(p, to) /\ my'[p].of = o
  BY <1>0, <1>1, <1>2, <1>4, SMT DEF Moves, Types
<1>6. file_lock[o] \in Lock
  BY <1>2 DEF lock_acquire, Dangling
<1>7. /\ owner' \in [Lock -> Proc \cup {NULL, Freed}]
      /\ owner'[file_lock[o]] = p /\ \A l \in Lock : l # file_lock[o] => owner'[l] = owner[l]
  BY <1>0, <1>2, <1>6, SMT DEF lock_acquire, Types
<1>8. \A q \in Proc \ {p}, l \in Lock : owner'[l] = q => owner[l] = q
  BY <1>7
<1>9. ASSUME NEW l \in Lock, owner'[l] = p PROVE to \in Holding /\ file_lock[my'[p].of] = l
  <2>1. owner[l] # p
    BY <1>1, <1>3 DEF FtInv, LocksGivenBack, Holding
  <2> QED
    BY <1>4, <1>5, <1>7, <1>9, <2>1
<1>10. Started' /\ pc[p] # "born"
  BY <1>1, <1>2, Running
<1>11. to \notin {"open_fd", "dup2_write", "fork_read", "fork_inc", "start", "open_find", "open_fill", "xfer_io"}
  OBVIOUS
<1>12. pc[p] \in Busy \ {"open_fill"} /\ my'[p].of = my[p].of /\ my'[p].of # NULL
  BY <1>0, <1>1, <1>3, <1>5 DEF Proper
<1>13. DOMAIN offset' = Obj
  BY <1>0, <1>2 DEF Types
<1>14. to \notin {"open_fd", "dup2_write", "fork_read"}
  BY <1>11
<1> QED
  BY <1>2, <1>4, <1>5, <1>7, <1>8, <1>9, <1>10, <1>11, <1>12, <1>13, <1>14, Local, ZenonT(60)

\* sys_close goes back to where it was called from.
LEMMA ClosesBack ==
    ASSUME FtInv, NEW p \in Proc, NEW from, CloseReturn(p, from)
    PROVE  /\ pc[p] = from /\ my'[p].of = NULL
           /\ \E to \in {"user", "exit", "dup2_read"} : Moves(p, to)
<1> DEFINE m == [Blank EXCEPT !.old = my[p].old, !.fd = my[p].fd]
           to == my[p].to
<1>1. MyType(my[p])
  BY DEF FtInv, Types
<1>2. MyType(m) /\ m.of = NULL
  BY <1>1, BlankType, SMT DEF MyType
<1>3. to \in {"user", "exit", "dup2_read"}
  BY <1>1 DEF MyType
<1>4. pc[p] = from /\ pc' = [pc EXCEPT ![p] = to] /\ my' = [my EXCEPT ![p] = m]
  BY DEF CloseReturn, Goto
<1> HIDE DEF m, to
<1>5. to \in Labels
  BY <1>3 DEF Labels
<1>6. Moves(p, to) /\ my'[p] = m
  BY <1>2, <1>4, <1>5, Going
<1> QED
  BY <1>2, <1>3, <1>4, <1>6

\* Whoever holds a lock may move the offset, and releases the lock.
LEMMA Releases ==
    ASSUME FtInv, NEW p \in Proc,
           CloseLast(p) \/ CloseDec(p) \/ XferRefused(p) \/ XferEnd(p) \/ SeekSet(p)
    PROVE  FtInv'
<1> DEFINE o == my[p].of
<1>0. Types /\ Proper(p) /\ MyType(my[p])
  BY DEF FtInv, Types
<1>1. pc[p] \in Holding
  BY ClosesBack, Returning DEF CloseLast, CloseDec, XferRefused, XferEnd, SeekSet, Goto, Holding
<1>2. /\ Holds(p, o) /\ lock_release(p, o)
      /\ UNCHANGED <<fileTable, vn, file_lock, used, opened>>
      /\ offset' = offset \/ \E z : offset' = [offset EXCEPT ![o] = z]
  BY DEF CloseLast, CloseDec, XferRefused, XferEnd, SeekSet, fields
<1>3. file_lock[o] \in Lock /\ owner[file_lock[o]] = p
  BY <1>2 DEF Holds, Dangling
<1>4. /\ owner' \in [Lock -> Proc \cup {NULL, Freed}]
      /\ owner'[file_lock[o]] = NULL /\ \A l \in Lock : l # file_lock[o] => owner'[l] = owner[l]
  BY <1>0, <1>2, <1>3, SMT DEF lock_release, Types
<1>5. \A q \in Proc \ {p}, l \in Lock : owner'[l] = q => owner[l] = q
  BY <1>4, Names
<1>6. ASSUME NEW l \in Lock PROVE owner'[l] # p
  <2>1. CASE owner[l] = p
    BY <1>4, <2>1, Names DEF FtInv, LocksGivenBack
  <2>2. CASE owner[l] # p
    BY <1>4, <2>2, Names
  <2> QED
    BY <2>1, <2>2
<1>7. DOMAIN offset' = Obj
  BY <1>0, <1>2, SMT DEF Types
<1>8. ASSUME NEW q \in Proc \ {p}, pc[q] = "xfer_io", Holds(q, my[q].of)
      PROVE  offset'[my[q].of] = offset[my[q].of]
  <2>1. my[q].of # o
    BY <1>3, <1>8 DEF Holds
  <2>2. my[q].of \in Obj
    BY <1>8, Names DEF FtInv, Types, MyType, Proper, Busy, Holding
  <2> QED
    BY <1>0, <1>2, <2>1, <2>2 DEF Types
<1>9. Started' /\ pc[p] # "born"
  BY <1>1, <1>2, Running DEF Holding
<1>10. o # NULL /\ pc[p] \in Busy \ {"open_fill"}
  BY <1>0, <1>1 DEF Proper, Busy, Holding
<1> HIDE DEF o
<1>11. CASE CloseLast(p)
  <2>1. "close_destroy" \in Busy /\ "close_destroy" \in Labels
    BY DEF Busy, Labels
  <2>2. Moves(p, "close_destroy") /\ my'[p].of = my[p].of
    BY <1>0, <1>11, <2>1, SMT DEF CloseLast, Goto, Moves, Types
  <2>3. my[p].of # NULL
    BY <1>10 DEF o
  <2> QED
    BY <1>2, <1>4, <1>5, <1>6, <1>7, <1>8, <1>9, <1>10, <2>1, <2>2, <2>3, Local
<1>12. CASE ~CloseLast(p)
  <2>1. PICK to \in {"user", "exit", "dup2_read"} : Moves(p, to)
    BY <1>12, ClosesBack, Returning DEF CloseDec, XferRefused, XferEnd, SeekSet
  <2>2. my'[p].of = NULL
    BY <1>12, ClosesBack, Returning DEF CloseDec, XferRefused, XferEnd, SeekSet
  <2>3. to \in Labels /\ to \notin Busy
    BY DEF Labels, Busy, Holding
  <2>4. to \notin {"open_fd", "dup2_write", "fork_read", "fork_inc", "start", "open_find", "open_fill", "xfer_io"}
    OBVIOUS
  <2> QED
    BY <1>2, <1>4, <1>5, <1>6, <1>7, <1>8, <1>9, <2>1, <2>2, <2>3, <2>4, Local
<1> QED
  BY <1>11, <1>12

\* The last close, or one that takes itself for the last, destroys the lock.
LEMMA Destroys ==
    ASSUME FtInv, NEW p \in Proc, CloseDestroy(p)
    PROVE  FtInv'
<1>0. Types /\ Proper(p)
  BY DEF FtInv
<1>1. pc[p] = "close_destroy" /\ my'[p].of = NULL
  BY ClosesBack DEF CloseDestroy
<1>2. PICK to \in {"user", "exit", "dup2_read"} : Moves(p, to)
  BY ClosesBack DEF CloseDestroy
<1>3. UNCHANGED <<fileTable, vn, offset, file_lock, used, opened>>
  BY DEF CloseDestroy, fields
<1>4. /\ owner' \in [Lock -> Proc \cup {NULL, Freed}]
      /\ \A l \in Lock : owner'[l] = Freed \/ owner'[l] = owner[l]
  <2>1. PICK x : owner' = [owner EXCEPT ![x] = Freed]
    BY DEF CloseDestroy
  <2>2. owner \in [Lock -> Proc \cup {NULL, Freed}]
    BY <1>0 DEF Types
  <2>3. \A l \in Lock : owner'[l] = Freed \/ owner'[l] = owner[l]
    BY <2>1, <2>2
  <2> QED
    BY <2>1, <2>2, <2>3
<1>5. \A q \in Proc, l \in Lock : owner'[l] = q => owner[l] = q
  BY <1>4, Names
<1>6. \A l \in Lock : owner[l] # p
  BY <1>1 DEF FtInv, LocksGivenBack
<1>7. Started' /\ pc[p] # "born"
  BY <1>1, <1>3, Running
<1>8. to \in Labels /\ to \notin Busy
  BY DEF Labels, Busy, Holding
<1>9. to \notin {"open_fd", "dup2_write", "fork_read", "fork_inc", "start", "open_find", "open_fill", "xfer_io"}
  OBVIOUS
<1>10. DOMAIN offset' = Obj
  BY <1>0, <1>3 DEF Types
<1> QED
  BY <1>1, <1>2, <1>3, <1>4, <1>5, <1>6, <1>7, <1>8, <1>9, <1>10, Local

-----------------------------------------------------------------------------
(* Steps of close and fork on the tables *)

\* sys_close, close_all_files and dup2 take the openfile out of the table.
LEMMA TakesOff ==
    ASSUME FtInv, NEW p \in Proc, NEW fd \in FD, pc[p] \in {"user", "exit"}, fileTable[p][fd] # NULL,
           fileTable' = [fileTable EXCEPT ![p][fd] = NULL], opened' = [opened EXCEPT ![p][fd] = NULL],
           Moves(p, "close_clear"), my'[p].of = fileTable[p][fd],
           UNCHANGED <<vn, offset, file_lock, used, owner>>
    PROVE  FtInv'
<1>0. Types /\ Proper(p) /\ Table(p)
  BY DEF FtInv
<1>1. /\ \A q \in Proc \ {p} : fileTable'[q] = fileTable[q] /\ opened'[q] = opened[q]
      /\ fileTable'[p][fd] = NULL
      /\ \A x \in FD \ {fd} : fileTable'[p][x] = fileTable[p][x] /\ opened'[p][x] = opened[p][x]
      /\ DOMAIN opened' = Proc /\ \A q \in Proc : DOMAIN opened'[q] = FD
  BY <1>0, SMT DEF Types
<1>2. fileTable' \in [Proc -> [FD -> Obj \cup {NULL}]]
  BY <1>0, SMT DEF Types
<1>3. Types'
  BY <1>0, <1>1, <1>2, SMT DEF Types, Moves
<1>4. Alone(p)
  BY <1>1 DEF Alone, Moves
<1>5. Respects(p)
  BY DEF Respects
<1>6. \A o : Placed(o)' <=> Placed(o)
  BY DEF Placed
<1>7. Placed(my'[p].of)
  BY <1>0 DEF Table
<1>8. pc'[p] = "close_clear" /\ "close_clear" \in Busy
  BY DEF Moves, Busy
<1>9. Proper(p)'
  BY <1>6, <1>7, <1>8 DEF Proper
<1>10. Table(p)'
  <2> SUFFICES ASSUME NEW x \in FD, fileTable'[p][x] # NULL
               PROVE  Placed(fileTable[p][x])' /\ vn'[fileTable'[p][x]] \in {NULL, opened'[p][x]}
    BY DEF Table
  <2>1. x # fd
    BY <1>1
  <2>2. fileTable'[p][x] = fileTable[p][x] /\ opened'[p][x] = opened[p][x]
    BY <1>1, <2>1
  <2> QED
    BY <1>0, <1>6, <2>2 DEF Table
<1>11. ASSUME NEW o \in Obj, Reaches(p, o)' PROVE Reaches(p, o)
  <2>1. ASSUME NEW x \in FD, fileTable'[p][x] = o PROVE Reaches(p, o)
    <3>0. o # NULL
      BY Names
    <3>1. x # fd
      BY <1>1, <2>1, <3>0
    <3> QED
      BY <1>1, <2>1, <3>1 DEF Reaches
  <2> QED
    BY <1>11, <2>1 DEF Reaches
<1>12. Unused' /\ Started' /\ pc[p] # "born"
  BY Running DEF FtInv, Unused
<1>13. \A l \in Lock : owner'[l] # p
  BY DEF FtInv, LocksGivenBack
<1> QED
  BY <1>3, <1>4, <1>5, <1>8, <1>9, <1>10, <1>11, <1>12, <1>13, Acts DEF Forking

\* A close, a close of all files at exit, and the close in dup2 clear a
\* descriptor.
LEMMA Closes ==
    ASSUME FtInv, NEW p \in Proc, sys_close(p) \/ close_all_files(p) \/ Dup2Close(p)
    PROVE  FtInv'
<1>0. Types /\ MyType(my[p])
  BY DEF FtInv, Types
<1>1. "close_clear" \in Labels
  BY DEF Labels
<1>2. ASSUME NEW fd \in FD, NEW to \in {"user", "exit"}, Close(p, fd, to), pc[p] \in {"user", "exit"}
      PROVE  FtInv'
  <2>1. fileTable[p][fd] \in Obj
    BY <1>0, <1>2, SMT DEF Types, Close
  <2> DEFINE m == [my[p] EXCEPT !.of = fileTable[p][fd], !.v = vn[fileTable[p][fd]], !.to = to]
  <2>2. MyType(m) /\ m.of = fileTable[p][fd]
    BY <1>0, <2>1, BlankType, SMT DEF MyType
  <2>3. DOMAIN my' = Proc /\ my'[p] = m /\ \A q \in Proc \ {p} : my'[q] = my[q]
    BY <1>0, <1>2 DEF Types, Close
  <2> HIDE DEF m
  <2>4. Moves(p, "close_clear") /\ my'[p].of = fileTable[p][fd]
    BY <1>0, <1>1, <1>2, <2>2, <2>3, SMT DEF Moves, Types, Close
  <2> QED
    BY <1>2, <2>4, TakesOff DEF Close, fields
<1>3. CASE sys_close(p)
  BY <1>2, <1>3 DEF sys_close
<1>4. CASE close_all_files(p)
  <2>1. Min(OpenFds(p)) \in FD
    BY <1>4, Least, Names DEF close_all_files, OpenFds
  <2> QED
    BY <1>2, <1>4, <2>1 DEF close_all_files
<1>5. CASE Dup2Close(p)
  <2>0. PICK old \in FD, new \in FD :
           /\ fileTable[p][new] # NULL
           /\ fileTable' = [fileTable EXCEPT ![p][new] = NULL]
           /\ opened' = [opened EXCEPT ![p][new] = NULL]
           /\ my' = [my EXCEPT ![p].old = old, ![p].fd = new, ![p].of = fileTable[p][new],
                               ![p].v = vn[fileTable[p][new]], ![p].to = "dup2_read"]
    BY <1>5 DEF Dup2Close
  <2>1. fileTable[p][new] \in Obj
    BY <1>0, <2>0, SMT DEF Types
  <2> DEFINE m == [my[p] EXCEPT !.old = old, !.fd = new, !.of = fileTable[p][new],
                                !.v = vn[fileTable[p][new]], !.to = "dup2_read"]
  <2>2. MyType(m) /\ m.of = fileTable[p][new]
    BY <1>0, <2>1, BlankType, SMT DEF MyType
  <2>3. DOMAIN my' = Proc /\ my'[p] = m /\ \A q \in Proc \ {p} : my'[q] = my[q]
    BY <1>0, <2>0 DEF Types
  <2> HIDE DEF m
  <2>4. pc[p] = "user" /\ pc' = [pc EXCEPT ![p] = "close_clear"]
    BY <1>5 DEF Dup2Close
  <2>5. Moves(p, "close_clear") /\ my'[p].of = fileTable[p][new]
    BY <1>0, <1>1, <2>2, <2>3, <2>4, SMT DEF Moves, Types
  <2>6. UNCHANGED <<vn, offset, file_lock, used, owner>>
    BY <1>5 DEF Dup2Close, fields
  <2> QED
    BY <2>0, <2>4, <2>5, <2>6, TakesOff
<1> QED
  BY <1>3, <1>4, <1>5

\* sys_close clears the vnode, for all who share the openfile.
LEMMA Clears ==
    ASSUME FtInv, NEW p \in Proc, CloseClear(p) \/ CloseFails(p)
    PROVE  FtInv'
<1> DEFINE o == my[p].of
<1>0. Types /\ Proper(p) /\ Table(p) /\ MyType(my[p])
  BY DEF FtInv, Types
<1>1. pc[p] = "close_clear" /\ vn' = [vn EXCEPT ![o] = NULL]
  BY DEF CloseClear, CloseFails, Goto
<1>2. UNCHANGED <<fileTable, offset, file_lock, used, owner, opened>>
  BY DEF CloseClear, CloseFails
<1>3. "close_clear" \in Busy \ {"open_fill"} /\ "close_lock" \in Busy \ {"open_fill"} /\ "user" \notin Busy
  BY DEF Busy, Holding
<1>4. o # NULL /\ Placed(o) /\ o \in Obj /\ Reaches(p, o)
  BY <1>0, <1>1, <1>3 DEF Proper, MyType, Reaches
<1>5. \/ Moves(p, "close_lock") /\ my'[p].of = o
      \/ Moves(p, "user") /\ my'[p].of = NULL
  <2>1. "user" \in Labels /\ "close_lock" \in Labels
    BY DEF Labels
  <2>2. CASE CloseClear(p)
    BY <1>0, <2>1, <2>2, SMT DEF CloseClear, Goto, Moves, Types
  <2>3. CASE CloseFails(p)
    BY <2>1, <2>3, BlankType, Going DEF CloseFails
  <2> QED
    BY <2>2, <2>3
<1>6. DOMAIN vn' = Obj /\ \A x \in Obj : x # o => vn'[x] = vn[x]
  BY <1>0, <1>1, SMT DEF Types
<1>7. \A x \in Obj : vn'[x] \in {NULL, vn[x]}
  BY <1>0, <1>1, <1>6 DEF Types
<1>8. \A x : Placed(x)' <=> Placed(x)
  BY <1>2 DEF Placed
<1>9. Types'
  BY <1>0, <1>2, <1>5, <1>6, SMT DEF Types, Moves
<1>10. Alone(p)
  BY <1>2, <1>5 DEF Alone, Moves
<1>11. Respects(p)
  <2>1. ASSUME NEW q \in Proc \ {p}, pc[q] = "open_fd" PROVE vn'[my[q].of] = vn[my[q].of]
    <3>1. o # my[q].of
      BY <2>1 DEF FtInv, Apart
    <3>2. my[q].of \in Obj
      BY <2>1, Names DEF FtInv, Proper, Obj
    <3> QED
      BY <1>6, <3>1, <3>2
  <2> QED
    BY <1>2, <1>7, <2>1 DEF Respects
<1>12. Proper(p)'
  <2>1. CASE Moves(p, "close_lock") /\ my'[p].of = o
    <3>1. pc'[p] = "close_lock"
      BY <2>1 DEF Moves
    <3> QED
      BY <1>3, <1>4, <1>8, <2>1, <3>1 DEF Proper
  <2>2. CASE Moves(p, "user") /\ my'[p].of = NULL
    <3>1. pc'[p] = "user"
      BY <2>2 DEF Moves
    <3> QED
      BY <1>3, <2>2, <3>1 DEF Proper
  <2> QED
    BY <1>5, <2>1, <2>2
<1>13. Table(p)'
  <2> SUFFICES ASSUME NEW x \in FD, fileTable[p][x] # NULL
               PROVE  Placed(fileTable[p][x])' /\ vn'[fileTable[p][x]] \in {NULL, opened[p][x]}
    BY <1>2 DEF Table
  <2>1. fileTable[p][x] \in Obj
    BY <1>0, SMT DEF Types
  <2> QED
    BY <1>0, <1>2, <1>7, <1>8, <2>1 DEF Table
<1>14. \A x \in Obj : Reaches(p, x)' => Reaches(p, x)
  BY <1>2, <1>5, Names DEF Reaches
<1>15. Started' /\ Unused' /\ pc[p] # "born"
  <2>1. o \notin Std
    BY <1>4, Reached
  <2>2. Started'
    BY <1>1, <1>6, <2>1, Running, Names DEF Started
  <2>3. Unused'
    BY <1>2, <1>7, Names DEF FtInv, Unused
  <2> QED
    BY <1>1, <2>2, <2>3
<1>16. \A l \in Lock : owner'[l] # p
  BY <1>1, <1>2 DEF FtInv, LocksGivenBack
<1>17. pc'[p] \in {"close_lock", "user"}
  BY <1>5 DEF Moves
<1>18. pc'[p] \notin Forking /\ pc'[p] \notin {"open_fd", "dup2_write", "xfer_io"} /\ used \subseteq used'
  BY <1>2, <1>17 DEF Forking
<1> QED
  BY <1>9, <1>10, <1>11, <1>12, <1>13, <1>14, <1>15, <1>16, <1>18, Acts

\* fork: the child gets the parent's table in one step, and is let go at the end.
LEMMA ForkMoves ==
    ASSUME FtInv, NEW p \in Proc, NEW c \in Proc, pc[p] \in {"user", "fork_inc"},
           pc[c] \in {"dead", "born"}, pc[c] = "born" => pc[p] = "fork_inc" /\ my[p].child = c,
           UNCHANGED <<vn, offset, file_lock, used, owner>>,
           fileTable' \in [Proc -> [FD -> Obj \cup {NULL}]],
           DOMAIN opened' = Proc, \A q \in Proc : DOMAIN opened'[q] = FD,
           \A q \in Proc \ {c} : fileTable'[q] = fileTable[q] /\ opened'[q] = opened[q],
           \/ fileTable'[c] = fileTable[p] /\ opened'[c] = opened[p]
           \/ fileTable'[c] = fileTable[c] /\ opened'[c] = opened[c],
           DOMAIN my' = Proc, MyType(my'[p]), my'[p].of = NULL, \A q \in Proc \ {p} : my'[q] = my[q],
           pc' \in [Proc -> Labels], \A q \in Proc \ {p, c} : pc'[q] = pc[q],
           \/ pc'[p] = "user" /\ pc'[c] = "user"
           \/ pc'[p] = "fork_read" /\ pc'[c] = "born" /\ my'[p].child = c
    PROVE  FtInv'
<1>0. Types /\ Apart /\ \A q \in Proc : Proper(q) /\ Table(q)
  BY DEF FtInv
<1>1. {pc[p], pc[c], pc'[p], pc'[c]} \cap (Busy \cup {"start", "open_find", "dup2_write"}) = {} /\ p # c
  BY DEF Busy, Holding
<1>2. Types'
  <2>1. \A q \in Proc : MyType(my'[q])
    BY <1>0 DEF Types
  <2> QED
    BY <1>0, <2>1, SMT DEF Types
<1>3. \A o : Placed(o)' <=> Placed(o)
  BY DEF Placed
<1>4. ASSUME NEW q \in Proc PROVE Proper(q)'
  <2>1. CASE q = p
    BY <1>1, <2>1 DEF Proper, Busy
  <2>2. CASE q = c
    <3>1. my'[c] = my[c] /\ my[c].of = NULL
      BY <1>0, <1>1 DEF Proper
    <3> QED
      BY <1>1, <2>2, <3>1 DEF Proper, Busy
  <2>3. CASE q \notin {p, c}
    <3>1. pc'[q] = pc[q] /\ my'[q] = my[q] /\ fileTable'[q] = fileTable[q] /\ Proper(q)
      BY <1>0, <2>3
    <3>2. pc[q] \in {"fork_read", "fork_inc"} => pc'[my[q].child] = "born"
      <4> SUFFICES ASSUME pc[q] \in {"fork_read", "fork_inc"} PROVE pc'[my[q].child] = "born"
        OBVIOUS
      <4>1. my[q].child \in Proc /\ pc[my[q].child] = "born"
        BY <1>0, <3>1 DEF Types, MyType, Proper
      <4>2. my[q].child # p
        BY <4>1
      <4>3. my[q].child # c
        <5> SUFFICES ASSUME my[q].child = c PROVE FALSE
          OBVIOUS
        <5>1. {pc[p], pc[q]} \subseteq {"fork_read", "fork_inc"} /\ my[p].child = my[q].child
          BY <4>1
        <5>2. p = q
          BY <1>0, <5>1 DEF Apart
        <5> QED
          BY <2>3, <5>2
      <4> QED
        BY <4>1, <4>2, <4>3
    <3> QED
      BY <1>3, <3>1, <3>2 DEF Proper
  <2> QED
    BY <2>1, <2>2, <2>3
<1>5. ASSUME NEW q \in Proc
      PROVE  \E r \in Proc : fileTable'[q] = fileTable[r] /\ opened'[q] = opened[r] /\ (r = q \/ r = p)
  BY <1>5
<1>6. ASSUME NEW q \in Proc PROVE Table(q)'
  <2>1. PICK r \in Proc : fileTable'[q] = fileTable[r] /\ opened'[q] = opened[r]
    BY <1>5
  <2>2. ASSUME NEW fd \in FD, fileTable'[q][fd] # NULL
        PROVE  Placed(fileTable[q][fd])' /\ vn'[fileTable'[q][fd]] \in {NULL, opened'[q][fd]}
    <3>1. Placed(fileTable[r][fd]) /\ vn[fileTable[r][fd]] \in {NULL, opened[r][fd]}
      BY <1>0, <2>1, <2>2 DEF Table
    <3>2. Placed(fileTable[q][fd])'
      BY <2>1, <3>1 DEF Placed
    <3> QED
      BY <2>1, <3>1, <3>2
  <2> QED
    BY <2>2 DEF Table
<1>7. Apart'
  <2>1. ASSUME NEW r \in Proc, NEW q \in Proc, pc'[r] = "open_fd"
        PROVE  (\A fd \in FD : fileTable'[q][fd] # my'[r].of) /\ (q # r => my'[q].of # my'[r].of)
    <3>1. r \notin {p, c} /\ pc[r] = "open_fd" /\ my'[r] = my[r]
      BY <1>1, <2>1 DEF Busy
    <3>2. PICK s \in Proc : fileTable'[q] = fileTable[s]
      BY <1>5
    <3>3. my'[q].of = my[q].of \/ my'[q].of = NULL
      OBVIOUS
    <3>4. my[r].of # NULL
      BY <1>0, <3>1 DEF Proper, Busy
    <3>5. (\A fd \in FD : fileTable[s][fd] # my[r].of) /\ (q # r => my[q].of # my[r].of)
      BY <1>0, <3>1, ZenonT(60) DEF Apart
    <3> QED
      BY <3>1, <3>2, <3>3, <3>4, <3>5
  <2>2. ASSUME NEW r \in Proc, NEW q \in Proc, pc'[r] = "dup2_write"
        PROVE  /\ \A fd \in FD : fileTable'[q][fd] = fileTable'[r][my'[r].fd] => q = r /\ fd = my'[r].fd
               /\ my'[q].of # fileTable'[r][my'[r].fd]
    <3>1. r \notin {p, c} /\ pc[r] = "dup2_write" /\ my'[r] = my[r] /\ fileTable'[r] = fileTable[r]
      BY <1>1, <2>2
    <3>2. PICK s \in Proc : fileTable'[q] = fileTable[s] /\ (s = q \/ s = p)
      BY <1>5
    <3>3. my'[q].of = my[q].of \/ my'[q].of = NULL
      OBVIOUS
    <3>4. fileTable[r][my[r].fd] # NULL
      BY <1>0, <3>1, Names DEF Proper, Types, Obj
    <3>5. /\ \A fd \in FD : fileTable[s][fd] = fileTable[r][my[r].fd] => s = r /\ fd = my[r].fd
          /\ my[q].of # fileTable[r][my[r].fd]
      BY <1>0, <3>1, ZenonT(60) DEF Apart
    <3> QED
      BY <3>1, <3>2, <3>3, <3>4, <3>5
  <2>3. ASSUME NEW r \in Proc, NEW q \in Proc, {pc'[r], pc'[q]} \subseteq Forking, my'[r].child = my'[q].child
        PROVE  r = q
    <3>1. \A s \in {r, q} : s # c
      BY <2>3 DEF Forking
    <3>2. ASSUME NEW s \in {r, q}, s # p PROVE pc[s] \in Forking /\ my[s].child # c
      <4>1. pc[s] \in Forking
        BY <2>3, <3>1, <3>2
      <4>2. CASE pc[c] = "born"
        <5>1. {pc[p], pc[s]} \subseteq {"fork_read", "fork_inc"} /\ my[p].child = c
          BY <4>1, <4>2 DEF Forking
        <5>2. s \in Proc
          OBVIOUS
        <5>3. my[p].child = my[s].child => p = s
          BY <1>0, <5>1, <5>2 DEF Apart
        <5> QED
          BY <3>2, <4>1, <5>1, <5>3
      <4>3. CASE pc[c] = "dead"
        BY <1>0, <4>1, <4>3, ZenonT(60) DEF Proper, Forking
      <4> QED
        BY <4>1, <4>2, <4>3
    <3>3. CASE p \in {r, q}
      <4>1. my'[p].child = c
        BY <2>3, <3>3 DEF Forking
      <4>2. \A s \in {r, q} : s # p => my'[s].child # c
        BY <3>2
      <4>3. ASSUME NEW s \in {r, q}, my'[s].child = c PROVE s = p
        BY <4>2, <4>3
      <4>4. my'[r].child = c /\ my'[q].child = c
        BY <2>3, <3>3, <4>1
      <4> QED
        BY <4>3, <4>4
    <3>4. CASE p \notin {r, q}
      <4>1. {pc[r], pc[q]} \subseteq {"fork_read", "fork_inc"} /\ my[r].child = my[q].child
        BY <2>3, <3>2, <3>4 DEF Forking
      <4> QED
        BY <1>0, <4>1 DEF Apart
    <3> QED
      BY <3>3, <3>4
  <2> QED
    BY <2>1, <2>2, <2>3, ZenonT(60) DEF Apart, Forking
<1>8. Started' /\ Unused'
  BY Running DEF FtInv, Unused
<1>9. LocksGivenBack'
  <2> SUFFICES ASSUME NEW l \in Lock, owner[l] \in Proc
               PROVE  pc'[owner[l]] \in Holding /\ file_lock'[my'[owner[l]].of] = l
    BY DEF LocksGivenBack, Holding
  <2>1. pc[owner[l]] \in Holding /\ file_lock[my[owner[l]].of] = l
    BY DEF FtInv, LocksGivenBack, Holding
  <2>2. owner[l] \notin {p, c}
    BY <1>1, <2>1 DEF Busy
  <2> QED
    BY <2>1, <2>2
<1>10. TransfersSerialized'
  <2> SUFFICES ASSUME NEW q \in Proc, pc'[q] = "xfer_io", Holds(q, my[q].of)'
               PROVE  offset'[my'[q].of] = my'[q].n
    BY DEF TransfersSerialized
  <2>1. q \notin {p, c} /\ pc[q] = "xfer_io" /\ my'[q] = my[q]
    BY <1>1 DEF Busy, Holding
  <2>2. Holds(q, my[q].of)
    BY <2>1 DEF Holds, Dangling
  <2> QED
    BY <2>1, <2>2 DEF FtInv, TransfersSerialized
<1> QED
  BY <1>2, <1>4, <1>6, <1>7, <1>8, <1>9, <1>10 DEF FtInv

\* fork copies descriptors to a child that is not running yet.
LEMMA Forks ==
    ASSUME FtInv, NEW p \in Proc, sys_fork(p) \/ ForkInc(p)
    PROVE  FtInv'
<1>0. Types /\ MyType(my[p]) /\ Proper(p)
  BY DEF FtInv, Types
<1>1. ASSUME NEW c \in Proc, c # p, NEW rest, rest \subseteq FD, ForkGoOn(p, c, rest)
      PROVE  /\ DOMAIN my' = Proc /\ MyType(my'[p]) /\ my'[p].of = NULL
             /\ \A q \in Proc \ {p} : my'[q] = my[q]
             /\ pc' \in [Proc -> Labels] /\ \A q \in Proc \ {p, c} : pc'[q] = pc[q]
             /\ \/ pc'[p] = "user" /\ pc'[c] = "user"
                \/ pc'[p] = "fork_read" /\ pc'[c] = "born" /\ my'[p].child = c
  <2>1. {"user", "fork_read", "born"} \subseteq Labels
    BY DEF Labels
  <2>2. CASE rest = {}
    <3>1. pc' = [pc EXCEPT ![p] = "user", ![c] = "user"] /\ my' = [my EXCEPT ![p] = Blank]
      BY <1>1, <2>2 DEF ForkGoOn
    <3>2. DOMAIN my' = Proc /\ my'[p] = Blank /\ \A q \in Proc \ {p} : my'[q] = my[q]
      BY <1>0, <3>1 DEF Types
    <3>3. /\ pc' \in [Proc -> Labels] /\ \A q \in Proc \ {p, c} : pc'[q] = pc[q]
          /\ pc'[p] = "user" /\ pc'[c] = "user"
      BY <1>0, <2>1, <3>1, SMT DEF Types
    <3> QED
      BY <3>2, <3>3, BlankType
  <2>3. CASE rest # {}
    <3> DEFINE m == [Blank EXCEPT !.child = c, !.fd = Min(rest)]
    <3>1. pc' = [pc EXCEPT ![p] = "fork_read", ![c] = "born"] /\ my' = [my EXCEPT ![p] = m]
      BY <1>1, <2>3 DEF ForkGoOn
    <3>2. Min(rest) \in FD
      BY <1>1, <2>3, Least, Names
    <3>3. MyType(m) /\ m.of = NULL /\ m.child = c
      BY <3>2, BlankType, SMT DEF MyType
    <3> HIDE DEF m
    <3>4. DOMAIN my' = Proc /\ my'[p] = m /\ \A q \in Proc \ {p} : my'[q] = my[q]
      BY <1>0, <3>1 DEF Types
    <3>5. /\ pc' \in [Proc -> Labels] /\ \A q \in Proc \ {p, c} : pc'[q] = pc[q]
          /\ pc'[p] = "fork_read" /\ pc'[c] = "born"
      BY <1>0, <1>1, <2>1, <3>1, SMT DEF Types
    <3> QED
      BY <3>3, <3>4, <3>5
  <2> QED
    BY <2>2, <2>3
<1>2. CASE sys_fork(p)
  <2>1. PICK c \in Proc : /\ pc[c] = "dead"
                          /\ fileTable' = [fileTable EXCEPT ![c] = fileTable[p]]
                          /\ opened' = [opened EXCEPT ![c] = opened[p]]
                          /\ ForkGoOn(p, c, OpenFds(p))
    BY <1>2 DEF sys_fork
  <2>2. pc[p] = "user" /\ UNCHANGED <<vn, offset, file_lock, used, owner>>
    BY <1>2 DEF sys_fork, fields
  <2>3. fileTable' \in [Proc -> [FD -> Obj \cup {NULL}]]
    BY <1>0, <2>1, SMT DEF Types
  <2>4. /\ DOMAIN opened' = Proc /\ \A q \in Proc : DOMAIN opened'[q] = FD
        /\ \A q \in Proc \ {c} : fileTable'[q] = fileTable[q] /\ opened'[q] = opened[q]
        /\ fileTable'[c] = fileTable[p] /\ opened'[c] = opened[p]
    BY <1>0, <2>1 DEF Types
  <2>5. OpenFds(p) \subseteq FD /\ c # p
    BY <2>1, <2>2 DEF OpenFds
  <2>6. /\ DOMAIN my' = Proc /\ MyType(my'[p]) /\ my'[p].of = NULL
        /\ \A q \in Proc \ {p} : my'[q] = my[q]
        /\ pc' \in [Proc -> Labels] /\ \A q \in Proc \ {p, c} : pc'[q] = pc[q]
        /\ \/ pc'[p] = "user" /\ pc'[c] = "user"
           \/ pc'[p] = "fork_read" /\ pc'[c] = "born" /\ my'[p].child = c
    BY <1>1, <2>1, <2>5
  <2> QED
    BY <2>1, <2>2, <2>3, <2>4, <2>5, <2>6, ForkMoves
<1>3. CASE ForkInc(p)
  <2> DEFINE c == my[p].child
             rest == {fd \in OpenFds(p) : fd > my[p].fd}
  <2>1. pc[p] = "fork_inc" /\ ForkGoOn(p, c, rest)
    BY <1>3 DEF ForkInc
  <2>2. UNCHANGED <<vn, offset, file_lock, used, owner, fileTable, opened>>
    BY <1>3 DEF ForkInc
  <2>3. c \in Proc /\ pc[c] = "born" /\ rest \subseteq FD /\ c # p
    BY <1>0, <2>1 DEF MyType, Proper, OpenFds
  <2>4. /\ fileTable' \in [Proc -> [FD -> Obj \cup {NULL}]]
        /\ DOMAIN opened' = Proc /\ \A q \in Proc : DOMAIN opened'[q] = FD
        /\ \A q \in Proc : fileTable'[q] = fileTable[q] /\ opened'[q] = opened[q]
    BY <1>0, <2>2 DEF Types
  <2>5. my[p].child = c
    OBVIOUS
  <2> HIDE DEF c, rest
  <2>6. /\ DOMAIN my' = Proc /\ MyType(my'[p]) /\ my'[p].of = NULL
        /\ \A q \in Proc \ {p} : my'[q] = my[q]
        /\ pc' \in [Proc -> Labels] /\ \A q \in Proc \ {p, c} : pc'[q] = pc[q]
        /\ \/ pc'[p] = "user" /\ pc'[c] = "user"
           \/ pc'[p] = "fork_read" /\ pc'[c] = "born" /\ my'[p].child = c
    BY <1>1, <2>1, <2>3
  <2> QED
    BY <2>1, <2>2, <2>3, <2>4, <2>5, <2>6, ForkMoves
<1> QED
  BY <1>2, <1>3

-----------------------------------------------------------------------------
(* The standard streams *)

\* The entries that proc_start_filetable fills are the console's.
LEMMA Starts ==
    ASSUME FtInv, NEW p \in Proc, pc[p] = "start", NEW objs, my[p].fd \in objs, NEW l, Stream(objs, l)
    PROVE  \/ Started'
           \/ Booting /\ p = First /\ \A x \in Std : x <= my[p].fd => vn'[x] = Con
<1>0. Std \subseteq Obj /\ my[p].fd \in Std
  BY Names DEF FtInv, Proper
<1>1. \A x \in Std : vn'[x] = IF x \in objs THEN Con ELSE vn[x]
  BY <1>0 DEF Stream
<1>2. CASE Started
  BY <1>1, <1>2 DEF Started
<1>3. CASE Booting
  <2>1. p = First /\ \A x \in Std : x < my[p].fd => vn[x] = Con
    BY <1>3 DEF Booting
  <2>2. ASSUME NEW x \in Std, x <= my[p].fd PROVE vn'[x] = Con
    <3>1. x = my[p].fd \/ x < my[p].fd
      BY <1>0, <2>2, SizesAssumption, SMT DEF Std
    <3> QED
      BY <1>1, <2>1, <3>1
  <2> QED
    BY <1>3, <2>1, <2>2
<1> QED
  BY <1>2, <1>3 DEF FtInv

\* proc_start_filetable writes the entry of the system table and, if there is
\* one, the new block; the descriptor then points to that.
LEMMA Streams ==
    ASSUME FtInv, NEW p \in Proc, pc[p] = "start",
           NEW objs, my[p].fd \in objs, objs \subseteq {my[p].fd} \cup (Heap \ used),
           NEW l \in NewLocks, Stream(objs, l), used' = used \cup (objs \ {my[p].fd}),
           NEW e \in (objs \ {my[p].fd}) \cup {NULL}, fileTable' = [fileTable EXCEPT ![p][my[p].fd] = e],
           NEW z, opened' = [opened EXCEPT ![p][my[p].fd] = z], e # NULL => z = Con,
           NEW to \in {"start", "user", "exit", "gone"}, Moves(p, to), my'[p].of = NULL,
           to = "start" => my'[p].fd \in Std, Started' \/ Booting'
    PROVE  FtInv'
<1>0. Types /\ Proper(p) /\ Table(p)
  BY DEF FtInv
<1>i. PICK i \in Std : i = my[p].fd
  BY <1>0 DEF Proper
<1>1. i \in FD /\ i \in Obj /\ i \notin Heap /\ e \in Obj \cup {NULL} /\ objs \subseteq Obj
  BY <1>i, Names
<1>2. /\ \A q \in Proc \ {p} : fileTable'[q] = fileTable[q] /\ opened'[q] = opened[q]
      /\ fileTable'[p][i] = e /\ opened'[p][i] = z
      /\ \A x \in FD \ {i} : fileTable'[p][x] = fileTable[p][x] /\ opened'[p][x] = opened[p][x]
      /\ DOMAIN opened' = Proc /\ \A q \in Proc : DOMAIN opened'[q] = FD
  BY <1>0, <1>i, <1>1, SMT DEF Types
<1>3. fileTable' \in [Proc -> [FD -> Obj \cup {NULL}]]
  BY <1>0, <1>i, <1>1, SMT DEF Types
<1>4. l \in Lock \cup {NULL}
  BY DEF NewLocks
<1>5. /\ DOMAIN vn' = Obj /\ DOMAIN offset' = Obj /\ file_lock' \in [Obj -> Lock \cup {NULL}]
      /\ owner' \in [Lock -> Proc \cup {NULL, Freed}]
  BY <1>0, <1>4, SMT DEF Stream, Types
<1>6. ASSUME NEW o \in Obj, o \notin objs
      PROVE  vn'[o] = vn[o] /\ offset'[o] = offset[o] /\ file_lock'[o] = file_lock[o]
  BY <1>6 DEF Stream
<1>7. \A x \in Lock : owner'[x] \in {NULL, owner[x]}
  BY DEF Stream
<1>8. used' \subseteq Heap
  BY <1>0 DEF Types
<1>9. Types'
  BY <1>0, <1>2, <1>3, <1>5, <1>8, SMT DEF Types, Moves
<1>10. Alone(p)
  BY <1>2 DEF Alone, Moves
<1>11. ASSUME NEW q \in Proc, NEW o \in Obj, Reaches(q, o)
       PROVE  vn'[o] = vn[o] /\ offset'[o] = offset[o] /\ file_lock'[o] = file_lock[o]
  <2>1. o \notin Std /\ o \notin Heap \ used
    BY <1>11, Reached
  <2>2. o \notin objs
    BY <1>i, <2>1
  <2> QED
    BY <1>6, <2>2
<1>12. Respects(p)
  <2>1. ASSUME NEW q \in Proc, pc[q] \in {"open_fd", "xfer_io"}
        PROVE  vn'[my[q].of] = vn[my[q].of] /\ offset'[my[q].of] = offset[my[q].of]
    <3>1. my[q].of \in Obj /\ Reaches(q, my[q].of)
      BY <2>1, Names, ZenonT(60) DEF FtInv, Types, MyType, Proper, Busy, Holding, Reaches
    <3> QED
      BY <1>11, <3>1
  <2>2. \A q \in Proc, x \in Lock : owner'[x] = q => owner[x] = q
    BY <1>7, Names
  <2> QED
    BY <1>11, <2>1, <2>2 DEF Respects
<1>13. pc'[p] = to /\ pc'[p] \notin Busy
  BY DEF Moves, Busy, Holding
<1>14. Proper(p)'
  BY <1>13 DEF Proper
<1>15. Table(p)'
  <2> SUFFICES ASSUME NEW x \in FD, fileTable'[p][x] # NULL
               PROVE  Placed(fileTable[p][x])' /\ vn'[fileTable'[p][x]] \in {NULL, opened'[p][x]}
    BY DEF Table
  <2>1. CASE x = i
    <3>1. fileTable'[p][x] = e /\ opened'[p][x] = Con /\ e \in objs \ {my[p].fd}
      BY <1>2, <2>1
    <3>2. vn'[e] = Con
      BY <1>1, <3>1 DEF Stream
    <3>3. fileTable'[p][x] \in used'
      BY <3>1, SMT
    <3> QED
      BY <3>1, <3>2, <3>3 DEF Placed
  <2>2. CASE x # i
    <3>1. fileTable'[p][x] = fileTable[p][x] /\ opened'[p][x] = opened[p][x]
      BY <1>2, <2>2
    <3>2. fileTable[p][x] \in Obj /\ Reaches(p, fileTable[p][x])
      BY <1>0, <3>1, SMT DEF Types, Reaches
    <3>3. Placed(fileTable[p][x]) /\ vn[fileTable[p][x]] \in {NULL, opened[p][x]}
      BY <1>0, <3>1 DEF Table
    <3>4. vn'[fileTable[p][x]] = vn[fileTable[p][x]] /\ file_lock'[fileTable[p][x]] = file_lock[fileTable[p][x]]
      BY <1>11, <3>2
    <3>5. \/ fileTable'[p][x] \in used'
          \/ fileTable'[p][x] \in Slot \ Std /\ file_lock'[fileTable'[p][x]] # NULL
      BY <3>1, <3>3, <3>4, SMT DEF Placed
    <3> QED
      BY <3>1, <3>3, <3>4, <3>5 DEF Placed
  <2> QED
    BY <2>1, <2>2
<1>16. ASSUME NEW o \in Obj, Reaches(p, o)' PROVE Reaches(p, o) \/ Fresh(o)
  <2>1. o # NULL
    BY Names
  <2>2. PICK x \in FD : fileTable'[p][x] = o
    BY <1>16, <2>1 DEF Reaches
  <2>3. CASE x = i
    <3>0. o = e /\ e \in objs /\ e # my[p].fd
      BY <1>2, <2>1, <2>2, <2>3
    <3>1. o \in Heap \ used
      BY <3>0
    <3> QED
      BY <3>1 DEF Fresh
  <2>4. CASE x # i
    BY <1>2, <2>2, <2>4 DEF Reaches
  <2> QED
    BY <2>3, <2>4
<1>17. Unused'
  <2> SUFFICES ASSUME NEW h \in Heap, h \notin used' PROVE vn'[h] = NULL
    BY DEF Unused
  <2>1. h \notin objs /\ h \in Obj /\ h \notin used
    BY <1>i, <1>1, Names
  <2> QED
    BY <1>6, <2>1 DEF FtInv, Unused
<1>18. \A x \in Lock : owner'[x] # p
  <2>1. \A x \in Lock : owner[x] # p
    BY DEF FtInv, LocksGivenBack
  <2> QED
    BY <1>7, <2>1, Names
<1>19. pc'[p] \notin Forking /\ pc'[p] \notin {"open_fd", "dup2_write", "xfer_io"} /\ used \subseteq used'
  BY <1>13 DEF Forking
<1> QED
  BY <1>9, <1>10, <1>12, <1>14, <1>15, <1>16, <1>17, <1>18, <1>19, Acts

\* proc_start_filetable: a stream, or a vnode or block that cannot be had.
LEMMA Starting ==
    ASSUME FtInv, NEW p \in Proc, StartStream(p) \/ StartNoVnode(p) \/ StartNoBlock(p)
    PROVE  FtInv'
<1>0. Types /\ MyType(my[p]) /\ Proper(p)
  BY DEF FtInv, Types
<1>1. pc[p] = "start"
  BY DEF StartStream, StartNoVnode, StartNoBlock, StartFailed, Goto
<1>2. my[p].fd \in Std /\ my[p].fd \notin Heap /\ my[p].of = NULL
  BY <1>0, <1>1, Names DEF Proper, Busy, Holding
<1>3. CASE StartNoVnode(p) \/ StartNoBlock(p)
  <2>0. StartFailed(p) /\ exec_lock' = exec_lock
    BY <1>3 DEF StartNoVnode, StartNoBlock
  <2>1. PICK to \in {"exit", "gone"} : pc' = [pc EXCEPT ![p] = to] /\ (exec_lock # p => to = "gone")
    BY <2>0 DEF StartFailed, Goto
  <2>2. to \in Idle /\ to \in Labels
    BY DEF Idle, Labels
  <2>3. Moves(p, to) /\ my'[p].of = NULL
    BY <2>0, <2>1, <2>2, Going, BlankType DEF StartFailed
  <2>5. Booting /\ p = First => Booting'
    BY <2>0, <2>1, <2>3 DEF Booting, Moves
  <2>6. CASE StartNoVnode(p)
    <3>1. UNCHANGED <<fileTable, vn, offset, file_lock, used, owner, opened>>
      BY <2>6 DEF StartNoVnode, fields
    <3>2. Started' \/ Booting'
      BY <1>1, <2>5, <3>1 DEF FtInv, Started, Booting
    <3>3. pc[p] \notin Holding /\ to \notin {"fork_inc", "start", "open_find"} /\ pc[p] # "born"
      BY <1>1 DEF Holding
    <3> QED
      BY <2>2, <2>3, <3>1, <3>2, <3>3, QuietIdle
  <2>7. CASE StartNoBlock(p)
    <3>1. PICK l \in NewLocks : Stream({my[p].fd}, l)
      BY <2>7 DEF StartNoBlock
    <3>2. /\ fileTable' = [fileTable EXCEPT ![p][my[p].fd] = NULL]
          /\ opened' = [opened EXCEPT ![p][my[p].fd] = NULL] /\ used' = used
      BY <2>7 DEF StartNoBlock
    <3>3. Started' \/ Booting'
      BY <1>1, <2>5, <3>1, Starts
    <3>4. used' = used \cup ({my[p].fd} \ {my[p].fd}) /\ NULL \in ({my[p].fd} \ {my[p].fd}) \cup {NULL}
      BY <3>2
    <3>5. my[p].fd \in {my[p].fd} /\ {my[p].fd} \subseteq {my[p].fd} \cup (Heap \ used)
      OBVIOUS
    <3>6. to \in {"start", "user", "exit", "gone"} /\ to # "start"
      OBVIOUS
    <3> QED
      BY <1>1, <2>3, <3>1, <3>2, <3>3, <3>4, <3>5, <3>6, Streams
  <2> QED
    BY <1>3, <2>6, <2>7
<1>4. CASE StartStream(p)
  <2> DEFINE i == my[p].fd
  <2>1. PICK h \in Heap \ used, l \in NewLocks :
           /\ Stream({i, h}, l) /\ used' = used \cup {h}
           /\ fileTable' = [fileTable EXCEPT ![p][i] = h]
           /\ opened' = [opened EXCEPT ![p][i] = Con]
    BY <1>4 DEF StartStream
  <2>2. h # i /\ h \in {i, h} /\ {i, h} \ {i} = {h} /\ i \in {i, h} /\ {i, h} \subseteq {i} \cup (Heap \ used)
    BY <1>2
  <2>3. \/ Started'
        \/ Booting /\ p = First /\ \A x \in Std : x <= i => vn'[x] = Con
    BY <1>1, <2>1, <2>2, Starts
  <2>4. CASE i + 1 \in Std
    <3> DEFINE m == [my[p] EXCEPT !.fd = i + 1]
    <3>1. MyType(m) /\ m.of = NULL /\ m.fd = i + 1
      BY <1>0, <1>2, <2>4, Names, BlankType, SMT DEF MyType
    <3>2. my' = [my EXCEPT ![p] = m] /\ pc' = pc /\ exec_lock' = exec_lock
      BY <1>4, <2>4 DEF StartStream
    <3> HIDE DEF m
    <3>3. Moves(p, "start") /\ my'[p] = m
      BY <1>0, <1>1, <3>1, <3>2, SMT DEF Moves, Types
    <3>4. ASSUME NEW x \in Std, x < i + 1 PROVE x <= i
      BY <1>2, <3>4, SizesAssumption, SMT DEF Std
    <3>5. Started' \/ Booting'
      BY <1>1, <2>3, <3>1, <3>2, <3>3, <3>4 DEF Booting
    <3> HIDE DEF i
    <3>6. my'[p].of = NULL /\ my'[p].fd \in Std
      BY <2>4, <3>1, <3>3
    <3> QED
      BY <1>1, <2>1, <2>2, <3>3, <3>5, <3>6, Streams DEF i
  <2>5. CASE i + 1 \notin Std
    <3>1. Moves(p, "user") /\ my'[p].of = NULL
      BY <1>4, <2>5, Returning DEF StartStream
    <3>2. \A x \in Std : x <= i
      BY <1>2, <2>5, SizesAssumption, SMT DEF Std
    <3>3. Started'
      BY <2>3, <3>2 DEF Started
    <3> QED
      BY <1>1, <2>1, <2>2, <3>1, <3>3, Streams
  <2> QED
    BY <2>4, <2>5
<1> QED
  BY <1>3, <1>4

-----------------------------------------------------------------------------
(* open and dup2 *)

\* The only process that calls open fills a slot that nobody points to.
LEMMA Fills ==
    ASSUME OneOpener, FtInv, NEW p \in Proc, pc[p] = "open_fill",
           NEW l \in Lock \cup {NULL}, Fill(my[p].of, my[p].v, l),
           UNCHANGED <<fileTable, used, opened>>,
           owner' \in [Lock -> Proc \cup {NULL, Freed}], \A x \in Lock : owner'[x] \in {NULL, owner[x]},
           \/ Moves(p, "open_fd") /\ my'[p] = my[p] /\ l # NULL
           \/ Moves(p, "user") /\ my'[p].of = NULL
    PROVE  FtInv'
<1>0. Types /\ Proper(p) /\ Table(p)
  BY DEF FtInv
<1>o. PICK o \in Slot \ Std : o = my[p].of
  BY <1>0 DEF Proper
<1>1. file_lock[o] = NULL /\ p \in Openers /\ o \in Obj /\ o \notin used /\ o \notin Heap /\ o # NULL
  BY <1>0, <1>o, Names DEF Proper, Types
<1>2. ~Placed(o)
  BY <1>1 DEF Placed
<1>3. ASSUME NEW q \in Proc, q # p PROVE ~Reaches(q, o)
  <2> SUFFICES ASSUME Reaches(q, o) PROVE FALSE
    OBVIOUS
  <2>1. pc[q] = "open_fill"
    BY <1>1, <1>2, Reached
  <2>2. q \in Openers
    BY <2>1 DEF FtInv, Proper
  <2> QED
    BY <1>1, <1>3, <2>2 DEF OneOpener
<1>4. \A q \in Proc, fd \in FD : fileTable[q][fd] # o
  BY <1>1, <1>2, ZenonT(60) DEF FtInv, Table
<1>5. /\ DOMAIN vn' = Obj /\ DOMAIN offset' = Obj /\ file_lock' \in [Obj -> Lock \cup {NULL}]
      /\ vn'[o] = my[p].v /\ file_lock'[o] = l
      /\ \A x \in Obj \ {o} : vn'[x] = vn[x] /\ offset'[x] = offset[x] /\ file_lock'[x] = file_lock[x]
  BY <1>0, <1>o, <1>1, SMT DEF Fill, Types
<1>6. Types'
  BY <1>0, <1>5, SMT DEF Types, Moves
<1>7. Alone(p)
  BY DEF Alone, Moves
<1>8. ASSUME NEW q \in Proc \ {p}, NEW x \in Obj, Reaches(q, x)
      PROVE  vn'[x] = vn[x] /\ offset'[x] = offset[x] /\ file_lock'[x] = file_lock[x]
  BY <1>3, <1>5, <1>8
<1>9. Respects(p)
  <2>1. ASSUME NEW q \in Proc \ {p}, pc[q] \in {"open_fd", "xfer_io"}
        PROVE  vn'[my[q].of] = vn[my[q].of] /\ offset'[my[q].of] = offset[my[q].of]
    <3>1. my[q].of \in Obj /\ Reaches(q, my[q].of)
      BY <2>1, Names DEF FtInv, Types, MyType, Proper, Busy, Holding, Reaches
    <3> QED
      BY <1>8, <3>1
  <2>2. \A q \in Proc, x \in Lock : owner'[x] = q => owner[x] = q
    BY Names
  <2> QED
    BY <1>8, <2>1, <2>2 DEF Respects
<1>10. pc'[p] \in {"open_fd", "user"} /\ (pc'[p] = "open_fd" => my'[p] = my[p] /\ l # NULL)
       /\ (pc'[p] = "user" => my'[p].of = NULL)
  BY DEF Moves
<1>11. Proper(p)'
  <2>1. CASE pc'[p] = "open_fd"
    <3>1. my'[p].of = o /\ "open_fd" \in Busy
      BY <1>o, <1>10, <2>1 DEF Busy
    <3>2. Placed(my[p].of)'
      BY <1>5, <1>10, <2>1, <3>1 DEF Placed
    <3> QED
      BY <1>1, <1>5, <1>10, <2>1, <3>1, <3>2 DEF Proper
  <2>2. CASE pc'[p] = "user"
    BY <1>10, <2>2 DEF Proper, Busy, Holding
  <2> QED
    BY <1>10, <2>1, <2>2
<1>12. Table(p)'
  <2> SUFFICES ASSUME NEW x \in FD, fileTable[p][x] # NULL
               PROVE  Placed(fileTable[p][x])' /\ vn'[fileTable[p][x]] \in {NULL, opened[p][x]}
    BY DEF Table
  <2>1. fileTable[p][x] \in Obj \ {o}
    BY <1>0, <1>4, SMT DEF Types
  <2>2. Placed(fileTable[p][x]) /\ vn[fileTable[p][x]] \in {NULL, opened[p][x]}
    BY <1>0 DEF Table
  <2>3. Placed(fileTable[p][x])'
    BY <1>5, <2>1, <2>2 DEF Placed
  <2> QED
    BY <1>5, <2>1, <2>2, <2>3
<1>13. ASSUME NEW x \in Obj, Reaches(p, x)' PROVE Reaches(p, x)
  <2>1. x # NULL
    BY Names
  <2> QED
    BY <1>10, <1>13, <2>1 DEF Reaches
<1>14. pc'[p] = "open_fd" =>
          \A q \in Proc : /\ \A fd \in FD : fileTable'[q][fd] # my'[p].of
                          /\ q # p => my'[q].of # my'[p].of
  <2>1. \A q \in Proc : q # p => my'[q].of # o
    BY <1>3, <1>7 DEF Reaches, Alone
  <2> QED
    BY <1>o, <1>4, <1>10, <2>1
<1>15. Started' /\ Unused'
  <2>1. Started'
    BY <1>5, Running, Names DEF Started
  <2>2. Unused'
    BY <1>1, <1>5, Names DEF FtInv, Unused
  <2> QED
    BY <2>1, <2>2
<1>16. \A x \in Lock : owner'[x] # p
  <2>1. \A x \in Lock : owner[x] # p
    BY DEF FtInv, LocksGivenBack
  <2> QED
    BY <2>1, Names
<1>17. pc'[p] \notin Forking /\ pc'[p] \notin {"dup2_write", "xfer_io"} /\ used \subseteq used' /\ pc[p] # "born"
  BY <1>10 DEF Forking
<1> QED
  BY <1>6, <1>7, <1>9, <1>11, <1>12, <1>13, <1>14, <1>15, <1>16, <1>17, Acts

\* open fills the entry it found free, also when lock_create fails; nobody else
\* is opening.
LEMMA Opens ==
    ASSUME OneOpener, FtInv, NEW p \in Proc, OpenFill(p) \/ OpenNoLock(p)
    PROVE  FtInv'
<1>0. Types
  BY DEF FtInv
<1>1. CASE OpenFill(p)
  <2>1. PICK l \in Lock : Fill(my[p].of, my[p].v, l) /\ owner' = [owner EXCEPT ![l] = NULL]
    BY <1>1 DEF OpenFill
  <2>2. pc[p] = "open_fill" /\ UNCHANGED <<fileTable, used, opened>>
    BY <1>1 DEF OpenFill, Goto
  <2>3. owner' \in [Lock -> Proc \cup {NULL, Freed}] /\ \A x \in Lock : owner'[x] \in {NULL, owner[x]}
    BY <1>0, <2>1, SMT DEF Types
  <2>4. "open_fd" \in Labels
    BY DEF Labels
  <2>5. Moves(p, "open_fd") /\ my'[p] = my[p]
    BY <1>0, <1>1, <2>4, SMT DEF OpenFill, Goto, Moves, Types
  <2>6. l # NULL /\ l \in Lock \cup {NULL}
    BY Names
  <2> QED
    BY <2>1, <2>2, <2>3, <2>5, <2>6, Fills
<1>2. CASE OpenNoLock(p)
  <2>1. pc[p] = "open_fill" /\ Moves(p, "user") /\ my'[p].of = NULL
    BY <1>2, Returning DEF OpenNoLock
  <2>2. Fill(my[p].of, my[p].v, NULL) /\ UNCHANGED <<fileTable, used, opened, owner>>
    BY <1>2 DEF OpenNoLock
  <2>3. owner' \in [Lock -> Proc \cup {NULL, Freed}] /\ \A x \in Lock : owner'[x] \in {NULL, owner[x]}
    BY <1>0, <2>2 DEF Types
  <2>4. NULL \in Lock \cup {NULL}
    OBVIOUS
  <2> QED
    BY <2>1, <2>2, <2>3, <2>4, Fills
<1> QED
  BY <1>1, <1>2

\* Process p puts an openfile into its table that nobody else reaches: the one
\* that open has filled, or a new block.
LEMMA Installs ==
    ASSUME FtInv, NEW p \in Proc, pc[p] \in {"open_fd", "dup2_read"}, NEW fd \in FD, NEW o \in Obj,
           \A q \in Proc \ {p} : ~Reaches(q, o), Fresh(o) \/ my[p].of = o,
           fileTable' = [fileTable EXCEPT ![p][fd] = o],
           DOMAIN opened' = Proc, \A q \in Proc : DOMAIN opened'[q] = FD,
           \A q \in Proc \ {p} : opened'[q] = opened[q],
           \A x \in FD \ {fd} : opened'[p][x] = opened[p][x], vn[o] \in {NULL, opened'[p][fd]},
           UNCHANGED <<vn, file_lock, owner>>, used \subseteq used', used' \subseteq Heap, Placed(o)',
           DOMAIN offset' = Obj, \A x \in Obj \ {o} : offset'[x] = offset[x],
           NEW to \in {"user", "dup2_write"}, Moves(p, to), my'[p].of = NULL,
           to = "dup2_write" => /\ o \in Heap \ used /\ o \in used' /\ my'[p].fd = fd
                                /\ fileTable[p][my'[p].old] # NULL
    PROVE  FtInv'
<1>0. Types /\ Proper(p) /\ Table(p)
  BY DEF FtInv
<1>1. /\ \A q \in Proc \ {p} : fileTable'[q] = fileTable[q]
      /\ fileTable'[p][fd] = o /\ \A x \in FD \ {fd} : fileTable'[p][x] = fileTable[p][x]
      /\ fileTable' \in [Proc -> [FD -> Obj \cup {NULL}]]
  BY <1>0, SMTT(30) DEF Types
<1>2. Types'
  BY <1>0, <1>1, SMT DEF Types, Moves
<1>3. Alone(p)
  BY <1>1 DEF Alone, Moves
<1>4. o # NULL
  BY Names
<1>5. Respects(p)
  <2>1. ASSUME NEW q \in Proc \ {p}, pc[q] = "xfer_io" PROVE offset'[my[q].of] = offset[my[q].of]
    <3>0. Proper(q) /\ MyType(my[q]) /\ pc[q] \in Busy
      BY <2>1 DEF FtInv, Types, Busy, Holding
    <3>1. my[q].of \in Obj /\ Reaches(q, my[q].of)
      BY <3>0 DEF MyType, Proper, Reaches
    <3>2. my[q].of # o
      BY <3>1
    <3> QED
      BY <3>1, <3>2
  <2> QED
    BY <2>1 DEF Respects
<1>6. pc'[p] = to /\ pc'[p] \notin Busy
  BY DEF Moves, Busy, Holding
<1>7. to = "dup2_write" => fileTable'[p][my'[p].fd] = o /\ my'[p].old \in FD /\ fileTable'[p][my'[p].old] # NULL
  <2>1. my'[p].old \in FD
    BY DEF Moves, MyType
  <2> QED
    BY <1>1, <1>4, <2>1
<1>8. Proper(p)'
  BY <1>6, <1>7 DEF Proper
<1>9. ASSUME NEW x, Placed(x) PROVE x \in used' \/ (x \in Slot \ Std /\ file_lock'[x] # NULL)
  BY <1>9 DEF Placed
<1>10. Table(p)'
  <2> SUFFICES ASSUME NEW x \in FD, fileTable'[p][x] # NULL
               PROVE  Placed(fileTable[p][x])' /\ vn'[fileTable'[p][x]] \in {NULL, opened'[p][x]}
    BY DEF Table
  <2>1. CASE x = fd
    <3>1. fileTable'[p][x] = o
      BY <1>1, <2>1
    <3> QED
      BY <2>1, <3>1 DEF Placed
  <2>2. CASE x # fd
    <3>1. fileTable'[p][x] = fileTable[p][x] /\ opened'[p][x] = opened[p][x]
      BY <1>1, <2>2
    <3>2. Placed(fileTable[p][x]) /\ vn[fileTable[p][x]] \in {NULL, opened[p][x]}
      BY <1>0, <3>1 DEF Table
    <3>3. \/ fileTable[p][x] \in used'
          \/ fileTable[p][x] \in Slot \ Std /\ file_lock'[fileTable[p][x]] # NULL
      BY <1>9, <3>2
    <3> QED
      BY <3>1, <3>2, <3>3 DEF Placed
  <2> QED
    BY <2>1, <2>2
<1>11. ASSUME NEW x \in Obj, Reaches(p, x)' PROVE Reaches(p, x) \/ Fresh(x)
  <2>1. x # NULL
    BY Names
  <2>2. PICK y \in FD : fileTable'[p][y] = x
    BY <1>11, <2>1 DEF Reaches
  <2>3. CASE y = fd
    BY <1>1, <2>2, <2>3 DEF Reaches
  <2>4. CASE y # fd
    BY <1>1, <2>2, <2>4 DEF Reaches
  <2> QED
    BY <2>3, <2>4
<1>12. ASSUME pc'[p] = "dup2_write", NEW q \in Proc
       PROVE  /\ \A x \in FD : fileTable'[q][x] = fileTable'[p][my'[p].fd] => q = p /\ x = my'[p].fd
              /\ my'[q].of # fileTable'[p][my'[p].fd]
  <2>1. o \in Heap \ used /\ fileTable'[p][my'[p].fd] = o /\ my'[p].fd = fd
    BY <1>6, <1>7, <1>12
  <2>2. ~Reaches(p, o) /\ \A r \in Proc \ {p} : ~Reaches(r, o)
    BY <2>1, Reached
  <2>3. CASE q = p
    <3>1. \A x \in FD : x # fd => fileTable'[p][x] # o
      BY <1>1, <2>2 DEF Reaches
    <3>2. my'[p].of # o
      BY <1>4
    <3> QED
      BY <2>1, <2>3, <3>1, <3>2
  <2>4. CASE q # p
    <3>0. my'[q] = my[q] /\ fileTable'[q] = fileTable[q] /\ ~Reaches(q, o)
      BY <1>3, <2>2, <2>4 DEF Alone
    <3>1. my'[q].of # o /\ \A x \in FD : fileTable'[q][x] # o
      BY <3>0 DEF Reaches
    <3> QED
      BY <2>1, <3>1
  <2> QED
    BY <2>3, <2>4
<1>13. Started' /\ Unused'
  BY Running DEF FtInv, Unused
<1>14. \A x \in Lock : owner'[x] # p
  BY DEF FtInv, LocksGivenBack
<1>15. pc'[p] \notin Forking /\ pc'[p] \notin {"open_fd", "xfer_io"} /\ pc[p] # "born"
  BY <1>6 DEF Forking
<1> QED
  BY <1>2, <1>3, <1>5, <1>8, <1>10, <1>11, <1>12, <1>13, <1>14, <1>15, Acts

\* open puts the entry in the descriptor table.
LEMMA OpenInstalls ==
    ASSUME FtInv, NEW p \in Proc, OpenFd(p)
    PROVE  FtInv'
<1> DEFINE fd == Min(FreeFds(p))
           o == my[p].of
<1>0. Types /\ Proper(p)
  BY DEF FtInv
<1>1. pc[p] = "open_fd" /\ Moves(p, "user") /\ my'[p].of = NULL
  BY Returning DEF OpenFd
<1>2. fd \in FD
  BY Least, Names DEF OpenFd, FreeFds
<1>3. /\ fileTable' = [fileTable EXCEPT ![p][fd] = o]
      /\ opened' = [opened EXCEPT ![p][fd] = my[p].v]
      /\ offset' = offset \/ offset' = [offset EXCEPT ![o] = MaxOffset]
      /\ UNCHANGED <<vn, file_lock, used, owner>>
  BY DEF OpenFd
<1> HIDE DEF fd
<1>4. o \in Slot /\ Placed(o) /\ vn[o] = my[p].v /\ o \in Obj
  BY <1>0, <1>1, Names DEF Proper, Busy
<1>5. \A q \in Proc \ {p} : ~Reaches(q, o)
  BY <1>1 DEF FtInv, Apart, Reaches
<1>6. /\ DOMAIN opened' = Proc /\ \A q \in Proc : DOMAIN opened'[q] = FD
      /\ \A q \in Proc \ {p} : opened'[q] = opened[q]
      /\ \A x \in FD \ {fd} : opened'[p][x] = opened[p][x]
      /\ opened'[p][fd] = my[p].v
  BY <1>0, <1>2, <1>3, SMT DEF Types
<1>7. DOMAIN offset' = Obj /\ \A x \in Obj \ {o} : offset'[x] = offset[x]
  BY <1>0, <1>3 DEF Types
<1>8. PICK ob \in Obj : ob = o
  BY <1>4
<1>9. Placed(ob)'
  BY <1>3, <1>4, <1>8 DEF Placed
<1>10. used \subseteq used' /\ used' \subseteq Heap
  BY <1>0, <1>3 DEF Types
<1>11. "user" \in {"user", "dup2_write"} /\ "user" # "dup2_write"
  OBVIOUS
<1> QED
  BY <1>1, <1>2, <1>3, <1>4, <1>5, <1>6, <1>7, <1>8, <1>9, <1>10, <1>11, Installs

\* dup2 puts its block in the descriptor table.
LEMMA DupInstalls ==
    ASSUME FtInv, NEW p \in Proc, Dup2Read(p)
    PROVE  FtInv'
<1>0. Types /\ Proper(p) /\ MyType(my[p])
  BY DEF FtInv, Types
<1>1. PICK h \in Heap \ used : used' = used \cup {h} /\ fileTable' = [fileTable EXCEPT ![p][my[p].fd] = h]
  BY DEF Dup2Read
<1> DEFINE m == [my[p] EXCEPT !.n = ref_count[fileTable[p][my[p].old]]]
<1>2. MyType(m) /\ m.of = my[p].of /\ m.fd = my[p].fd /\ m.old = my[p].old
  BY <1>0, BlankType, SMT DEF MyType
<1>3. /\ pc[p] = "dup2_read" /\ pc' = [pc EXCEPT ![p] = "dup2_write"] /\ my' = [my EXCEPT ![p] = m]
      /\ fileTable[p][my[p].old] # NULL /\ UNCHANGED <<vn, offset, file_lock, owner, opened>>
  BY DEF Dup2Read, Goto, fields
<1> HIDE DEF m
<1>4. "dup2_write" \in Labels
  BY DEF Labels
<1>5. Moves(p, "dup2_write") /\ my'[p] = m
  BY <1>2, <1>3, <1>4, Going
<1>6. my'[p].of = NULL /\ my'[p].fd = my[p].fd /\ my'[p].old = my[p].old
  BY <1>0, <1>2, <1>3, <1>5 DEF Proper, Busy, Holding
<1>7. h \in Obj /\ vn[h] = NULL /\ Fresh(h)
  BY Names DEF FtInv, Unused, Fresh
<1>8. \A q \in Proc \ {p} : ~Reaches(q, h)
  BY <1>7, Reached
<1>9. used \subseteq used' /\ used' \subseteq Heap /\ h \in used'
  BY <1>0, <1>1 DEF Types
<1>10. Placed(h)'
  BY <1>9 DEF Placed
<1>11. /\ DOMAIN opened' = Proc /\ \A q \in Proc : opened'[q] = opened[q] /\ DOMAIN opened'[q] = FD
       /\ DOMAIN offset' = Obj
  BY <1>0, <1>3 DEF Types
<1>12. my[p].fd \in FD
  BY <1>0 DEF MyType
<1> QED
  BY <1>1, <1>3, <1>5, <1>6, <1>7, <1>8, <1>9, <1>10, <1>11, <1>12, Installs

\* dup2 copies the openfile into the new block, which nobody else reaches.
LEMMA Copies ==
    ASSUME FtInv, NEW p \in Proc, Dup2Write(p)
    PROVE  FtInv'
<1>0. Types /\ Proper(p) /\ Table(p) /\ MyType(my[p])
  BY DEF FtInv, Types
<1>1. pc[p] = "dup2_write" /\ Moves(p, "user") /\ my'[p].of = NULL
  BY Returning DEF Dup2Write
<1>2. PICK fd \in FD, old \in FD : fd = my[p].fd /\ old = my[p].old
  BY <1>0 DEF MyType
<1>3. PICK h \in used : h = fileTable[p][fd]
  BY <1>0, <1>1, <1>2 DEF Proper
<1>4. PICK o \in Obj : o = fileTable[p][old]
  <2>1. fileTable[p][old] \in Obj \cup {NULL}
    BY <1>0, SMT DEF Types
  <2> QED
    BY <1>0, <1>1, <1>2, <2>1 DEF Proper
<1>5. /\ vn' = [vn EXCEPT ![h] = vn[o]] /\ offset' = [offset EXCEPT ![h] = 0]
      /\ file_lock' = [file_lock EXCEPT ![h] = file_lock[o]]
      /\ opened' = [opened EXCEPT ![p][fd] = opened[p][old]]
      /\ UNCHANGED <<fileTable, used, owner>>
  BY <1>2, <1>3, <1>4 DEF Dup2Write
<1>6. h \in Heap /\ h \in Obj /\ h \notin Slot /\ h # NULL /\ o # NULL
  BY <1>0, Names DEF Types
<1>7. /\ DOMAIN vn' = Obj /\ DOMAIN offset' = Obj /\ file_lock' \in [Obj -> Lock \cup {NULL}]
      /\ vn'[h] = vn[o]
      /\ \A x \in Obj \ {h} : vn'[x] = vn[x] /\ offset'[x] = offset[x] /\ file_lock'[x] = file_lock[x]
  BY <1>0, <1>5, <1>6, SMT DEF Types
<1>8. /\ DOMAIN opened' = Proc /\ \A q \in Proc : DOMAIN opened'[q] = FD
      /\ \A q \in Proc \ {p} : opened'[q] = opened[q]
      /\ \A x \in FD \ {fd} : opened'[p][x] = opened[p][x]
      /\ opened'[p][fd] = opened[p][old]
  BY <1>0, <1>5, SMT DEF Types
<1>9. Types'
  BY <1>0, <1>1, <1>5, <1>7, <1>8, SMT DEF Types, Moves
<1>10. Alone(p)
  BY <1>1, <1>5, <1>8 DEF Alone, Moves
<1>11. /\ \A q \in Proc, x \in FD : fileTable[q][x] = h => q = p /\ x = fd
       /\ \A q \in Proc : my[q].of # h
  BY <1>1, <1>2, <1>3 DEF FtInv, Apart
<1>12. ASSUME NEW q \in Proc \ {p}, NEW x \in Obj, Reaches(q, x)
       PROVE  vn'[x] = vn[x] /\ offset'[x] = offset[x] /\ file_lock'[x] = file_lock[x]
  <2>1. x # h
    BY <1>11, <1>12 DEF Reaches
  <2> QED
    BY <1>7, <2>1
<1>13. Respects(p)
  <2>1. ASSUME NEW q \in Proc \ {p}, pc[q] \in {"open_fd", "xfer_io"}
        PROVE  vn'[my[q].of] = vn[my[q].of] /\ offset'[my[q].of] = offset[my[q].of]
    <3>0. Proper(q) /\ MyType(my[q]) /\ pc[q] \in Busy
      BY <2>1 DEF FtInv, Types, Busy, Holding
    <3>1. my[q].of \in Obj /\ Reaches(q, my[q].of)
      BY <3>0 DEF MyType, Proper, Reaches
    <3> QED
      BY <1>12, <3>1
  <2> QED
    BY <1>5, <1>12, <2>1 DEF Respects
<1>14. pc'[p] = "user" /\ "user" \notin Busy
  BY <1>1 DEF Moves, Busy, Holding
<1>15. Proper(p)'
  BY <1>1, <1>14 DEF Proper
<1>16. Table(p)'
  <2> SUFFICES ASSUME NEW x \in FD, fileTable[p][x] # NULL
               PROVE  Placed(fileTable[p][x])' /\ vn'[fileTable[p][x]] \in {NULL, opened'[p][x]}
    BY <1>5 DEF Table
  <2>1. CASE x = fd
    <3>1. vn[o] \in {NULL, opened[p][old]}
      BY <1>0, <1>4, <1>6 DEF Table
    <3>2. fileTable[p][x] = h /\ opened'[p][x] = opened[p][old]
      BY <1>3, <1>8, <2>1
    <3>3. fileTable'[p][x] \in used'
      BY <1>5, <3>2
    <3> QED
      BY <1>7, <3>1, <3>2, <3>3 DEF Placed
  <2>2. CASE x # fd
    <3>1. fileTable[p][x] \in Obj \ {h}
      BY <1>0, <1>11, <2>2, SMT DEF Types
    <3>2. Placed(fileTable[p][x]) /\ vn[fileTable[p][x]] \in {NULL, opened[p][x]}
      BY <1>0 DEF Table
    <3>3. Placed(fileTable[p][x])'
      BY <1>5, <1>7, <3>1, <3>2 DEF Placed
    <3> QED
      BY <1>7, <1>8, <2>2, <3>1, <3>2, <3>3
  <2> QED
    BY <2>1, <2>2
<1>17. ASSUME NEW x \in Obj, Reaches(p, x)' PROVE Reaches(p, x)
  <2>1. x # NULL
    BY Names
  <2> QED
    BY <1>1, <1>5, <1>17, <2>1 DEF Reaches
<1>18. Started' /\ Unused'
  <2>1. Std \subseteq Obj \ {h}
    BY <1>6, Names
  <2>2. Started'
    BY <1>1, <1>7, <2>1, Running
  <2>3. \A x \in Heap \ used : x \in Obj \ {h}
    BY Names
  <2>4. Unused'
    BY <1>5, <1>7, <2>3 DEF FtInv, Unused
  <2> QED
    BY <2>2, <2>4
<1>19. \A x \in Lock : owner'[x] # p
  BY <1>1, <1>5 DEF FtInv, LocksGivenBack
<1>20. /\ pc'[p] \notin Forking /\ pc'[p] \notin {"open_fd", "dup2_write", "xfer_io"}
       /\ used \subseteq used' /\ pc[p] # "born"
  BY <1>1, <1>5, <1>14 DEF Forking
<1> QED
  BY <1>9, <1>10, <1>13, <1>15, <1>16, <1>17, <1>18, <1>19, <1>20, Acts

-----------------------------------------------------------------------------
(* The theorems *)

\* A step that stops the kernel, or none, changes nothing the invariant is about.
LEMMA Stops ==
    ASSUME FtInv, UNCHANGED <<fileTable, fields, used, owner, pc, my, opened, exec_lock>>
    PROVE  FtInv'
<1>1. Types' /\ Unused'
  BY DEF FtInv, Types, Unused, fields
<1>2. \A p \in Proc : Proper(p)' /\ Table(p)'
  BY DEF FtInv, Proper, Table, Placed, fields
<1>3. Apart'
  BY SMT DEF FtInv, Apart
<1>4. Started' \/ Booting'
  BY DEF FtInv, Started, Booting, fields
<1>5. LocksGivenBack' /\ TransfersSerialized'
  BY DEF FtInv, LocksGivenBack, TransfersSerialized, Holds, Dangling, fields
<1> QED
  BY <1>1, <1>2, <1>3, <1>4, <1>5 DEF FtInv

\* The invariant holds at the start.
LEMMA FtInit ==
    ASSUME Init
    PROVE  FtInv
<1>1. Types
  <2>1. {"start", "dead"} \subseteq Labels
    BY DEF Labels
  <2>2. \A p \in Proc : MyType(my[p])
    BY BlankType DEF Init
  <2> QED
    BY <2>1, <2>2, SMT DEF Init, Types
<1>2. \A p \in Proc : my[p] = Blank /\ pc[p] \in {"start", "dead"} /\ \A fd \in FD : fileTable[p][fd] = NULL
  BY DEF Init
<1>3. \A p \in Proc : Proper(p) /\ Table(p)
  <2>1. Blank.fd \in Std /\ Blank.of = NULL
    BY BlankType, Names DEF Blank
  <2>2. {"start", "dead"} \cap Busy = {}
    BY DEF Busy, Holding
  <2> QED
    BY <1>2, <2>1, <2>2 DEF Proper, Table
<1>4. Apart
  BY <1>2 DEF Apart
<1>5. Booting
  <2>1. exec_lock # First
    BY NamesAssumption DEF Init
  <2>2. pc[First] = "start" /\ my[First].fd = 0
    BY NamesAssumption DEF Init, Blank
  <2>3. \A i \in Std : ~(i < 0)
    BY SizesAssumption, SMT DEF Std
  <2> QED
    BY <2>1, <2>2, <2>3 DEF Init, Booting
<1>6. Unused
  BY Names DEF Init, Unused
<1>7. LocksGivenBack /\ TransfersSerialized
  BY <1>2, Names DEF Init, LocksGivenBack, TransfersSerialized
<1> QED
  BY <1>1, <1>3, <1>4, <1>5, <1>6, <1>7 DEF FtInv

\* With one opener, every step keeps the invariant.
LEMMA FtNext ==
    ASSUME OneOpener, FtInv, [Next]_vars
    PROVE  FtInv'
<1>1. CASE UNCHANGED vars
  BY <1>1, Stops DEF vars
<1>2. ASSUME NEW p \in Proc, Call(p) PROVE FtInv'
  <2>1. CASE sys_execv(p) \/ sys_open(p) \/ sys__exit(p) \/ sys_dup2(p)
    BY <2>1, QuietSteps
  <2>2. CASE Transfer(p) \/ sys_lseek(p)
    BY <2>2, QuietBusy
  <2>3. CASE sys_close(p) \/ Dup2Close(p)
    BY <2>3, Closes
  <2>4. CASE sys_fork(p)
    BY <2>4, Forks
  <2> QED
    BY <1>2, <2>1, <2>2, <2>3, <2>4 DEF Call
<1>3. ASSUME NEW p \in Proc, KernelStep(p) PROVE FtInv'
  <2>1. CASE StartStream(p) \/ StartNoVnode(p) \/ StartNoBlock(p)
    BY <2>1, Starting
  <2>2. CASE OpenNoFd(p) \/ ExitDone(p) \/ ForkRead(p) \/ Dup2NoMemory(p)
    BY <2>2, QuietSteps
  <2>3. CASE OpenFind(p) \/ XferStart(p) \/ CloseShared(p)
    BY <2>3, QuietBusy
  <2>4. CASE OpenFill(p) \/ OpenNoLock(p)
    BY <2>4, Opens
  <2>5. CASE OpenFd(p)
    BY <2>5, OpenInstalls
  <2>6. CASE CloseClear(p) \/ CloseFails(p)
    BY <2>6, Clears
  <2>7. CASE CloseLock(p) \/ XferLock(p) \/ SeekLock(p)
    BY <2>7, Acquires
  <2>8. CASE CloseLast(p) \/ CloseDec(p) \/ XferRefused(p) \/ XferEnd(p) \/ SeekSet(p)
    BY <2>8, Releases
  <2>9. CASE CloseDestroy(p)
    BY <2>9, Destroys
  <2>10. CASE close_all_files(p)
    BY <2>10, Closes
  <2>11. CASE ForkInc(p)
    BY <2>11, Forks
  <2>12. CASE Dup2Read(p)
    BY <2>12, DupInstalls
  <2>13. CASE Dup2Write(p)
    BY <2>13, Copies
  <2>14. CASE OpenFull(p) \/ Dup2Null(p) \/ StatNull(p) \/ LockFault(p)
    BY <2>14, Stops DEF OpenFull, Dup2Null, StatNull, LockFault, Fail
  <2> QED
    BY <1>3, <2>1, <2>2, <2>3, <2>4, <2>5, <2>6, <2>7, <2>8, <2>9, <2>10, <2>11, <2>12, <2>13, <2>14
       DEF KernelStep
<1> QED
  BY <1>1, <1>2, <1>3 DEF Next

\* The invariant FtInv holds in every behaviour, if one process calls open.
THEOREM Invariance ==
    ASSUME OneOpener
    PROVE  Spec => []FtInv
<1>1. Init => FtInv
  BY FtInit
<1>2. FtInv /\ [Next]_vars => FtInv'
  BY FtNext
<1> QED
  BY <1>1, <1>2, PTL DEF Spec

\* Every path through close, read, write and lseek, error paths included, gives the
\* file lock back: whoever owns one is in the middle of such a call, on the
\* openfile whose lock it is.
THEOREM LocksAreGivenBack ==
    ASSUME OneOpener
    PROVE  Spec => []LocksGivenBack
<1>1. FtInv => LocksGivenBack
  BY DEF FtInv
<1> QED
  BY <1>1, Invariance, PTL

\* While file_read or file_write holds the file lock, between reading the offset
\* and writing it back, no other process moves it.
THEOREM TransfersAreSerialized ==
    ASSUME OneOpener
    PROVE  Spec => []TransfersSerialized
<1>1. FtInv => TransfersSerialized
  BY DEF FtInv
<1> QED
  BY <1>1, Invariance, PTL

\* Through open, dup2, fork and execv, a descriptor names the file it was opened
\* for, as long as nobody has closed that file.
THEOREM DescriptorsAreFaithful ==
    ASSUME OneOpener
    PROVE  Spec => []DescriptorFaithful
<1>1. FtInv => DescriptorFaithful
  BY DEF FtInv, Table, DescriptorFaithful
<1> QED
  BY <1>1, Invariance, PTL

-----------------------------------------------------------------------------
(***************************************************************************)
(* The reference counts, for any number of processes that call open.  The  *)
(* increments of fork and dup2 are not atomic and may be lost; but no step *)
(* takes a count that was positive back to zero.                           *)
(***************************************************************************)
Counted(o) == ref_count[o] \in Nat /\ ref_count[o] > 0

\* What a process points to is counted, except for the block that dup2 is making,
\* and so is what it has read of a count.
Fine(p) ==
    /\ \A fd \in FD : fileTable[p][fd] # NULL => \/ Counted(fileTable[p][fd])
                                                 \/ pc[p] = "dup2_write" /\ fd = my[p].fd
    /\ pc[p] \in Busy => my[p].of \in Obj /\ (pc[p] = "open_fill" \/ Counted(my[p].of))
    /\ pc[p] = "close_dec" => my[p].n \in Nat /\ my[p].n > 1
    /\ pc[p] \in {"fork_inc", "dup2_write"} => my[p].n \in Nat /\ my[p].n > 0
    /\ pc[p] \in Forking => fileTable[p][my[p].fd] # NULL /\ pc[my[p].child] = "born"
    /\ pc[p] = "dup2_write" => fileTable[p][my[p].old] # NULL /\ fileTable[p][my[p].fd] # NULL

CountTypes ==
    /\ fileTable \in [Proc -> [FD -> Obj \cup {NULL}]]
    /\ DOMAIN ref_count = Obj
    /\ pc \in [Proc -> Labels]
    /\ DOMAIN my = Proc /\ \A p \in Proc : MyType(my[p])

OneParent == \A p, q \in Proc : {pc[p], pc[q]} \subseteq Forking /\ my[p].child = my[q].child => p = q

CountInv ==
    /\ CountTypes
    /\ \A p \in Proc : Fine(p)
    /\ OneParent

\* A step that takes no count that is positive to zero.
LEMMA CountStep ==
    ASSUME CountInv, NEW p \in Proc, NEW to \in Labels, Moves(p, to), pc[p] # "born",
           fileTable' \in [Proc -> [FD -> Obj \cup {NULL}]], DOMAIN ref_count' = Obj,
           \A q \in Proc \ {p} : fileTable'[q] = fileTable[q],
           \A o \in Obj : Counted(o) => Counted(o)',
           to \in Forking => pc[p] \in Forking /\ my'[p].child = my[p].child,
           Fine(p)'
    PROVE  CountInv'
<1>0. CountTypes /\ OneParent /\ \A q \in Proc : Fine(q)
  BY DEF CountInv
<1>1. CountTypes'
  BY <1>0, SMT DEF CountTypes, Moves
<1>2. ASSUME NEW q \in Proc, q # p PROVE Fine(q)'
  <2>1. pc'[q] = pc[q] /\ my'[q] = my[q] /\ fileTable'[q] = fileTable[q] /\ Fine(q)
    BY <1>0, <1>2 DEF Moves
  <2>2. ASSUME NEW fd \in FD, fileTable'[q][fd] # NULL
        PROVE  Counted(fileTable[q][fd])' \/ (pc'[q] = "dup2_write" /\ fd = my'[q].fd)
    <3>1. fileTable[q][fd] \in Obj
      BY <1>0, <2>1, <2>2, SMT DEF CountTypes
    <3>2. CASE Counted(fileTable[q][fd])
      BY <2>1, <3>1, <3>2 DEF Counted
    <3>3. CASE pc[q] = "dup2_write" /\ fd = my[q].fd
      BY <2>1, <3>3
    <3> QED
      BY <2>1, <2>2, <3>2, <3>3 DEF Fine
  <2>3. pc'[q] \in Busy => my'[q].of \in Obj /\ (pc'[q] = "open_fill" \/ Counted(my[q].of)')
    BY <2>1 DEF Fine, Counted
  <2>4. pc'[q] \in Forking => pc'[my'[q].child] = "born"
    <3>1. my[q].child \in Proc
      BY <1>0 DEF CountTypes, MyType
    <3> QED
      BY <2>1, <3>1, ZenonT(60) DEF Fine, Moves
  <2> QED
    BY <2>1, <2>2, <2>3, <2>4 DEF Fine
<1>3. OneParent'
  <2> SUFFICES ASSUME NEW r \in Proc, NEW q \in Proc, pc'[r] \in Forking, pc'[q] \in Forking,
                      my'[r].child = my'[q].child
               PROVE  r = q
    BY DEF OneParent
  <2>1. \A s \in {r, q} : pc[s] \in Forking /\ my'[s].child = my[s].child
    BY DEF Moves
  <2> QED
    BY <1>0, <2>1 DEF OneParent
<1> QED
  BY <1>0, <1>1, <1>2, <1>3 DEF CountInv

\* Process p goes on, and has not touched its table or a count.
LEMMA CountQuiet ==
    ASSUME CountInv, NEW p \in Proc, NEW to \in Labels, Moves(p, to), pc[p] \notin {"born", "dup2_write"},
           UNCHANGED <<fileTable, ref_count>>,
           to \in Forking => /\ pc[p] \in Forking /\ my'[p].child = my[p].child /\ my'[p].fd = my[p].fd,
           to \in Busy => my'[p].of \in Obj /\ (to = "open_fill" \/ Counted(my'[p].of)),
           to = "close_dec" => my'[p].n \in Nat /\ my'[p].n > 1,
           to = "fork_inc" => my'[p].n \in Nat /\ my'[p].n > 0,
           to # "dup2_write"
    PROVE  CountInv'
<1>0. CountTypes /\ Fine(p)
  BY DEF CountInv
<1>1. \A o : Counted(o)' <=> Counted(o)
  BY DEF Counted
<1>2. pc'[p] = to
  BY DEF Moves
<1>3. to \in Forking => pc'[my'[p].child] = "born"
  <2>1. my[p].child \in Proc
    BY <1>0 DEF CountTypes, MyType
  <2> QED
    BY <1>0, <2>1 DEF Fine, Moves
<1>4. \A fd \in FD : fileTable'[p][fd] # NULL => Counted(fileTable[p][fd])'
  BY <1>0, <1>1 DEF Fine, Counted
<1>5. to \in Busy => my'[p].of \in Obj /\ (to = "open_fill" \/ Counted(my[p].of)')
  BY DEF Counted
<1>6. to \in Forking => fileTable'[p][my'[p].fd] # NULL
  BY <1>0 DEF Fine
<1>7. Fine(p)'
  BY <1>2, <1>3, <1>4, <1>5, <1>6 DEF Fine
<1>8. fileTable' \in [Proc -> [FD -> Obj \cup {NULL}]] /\ DOMAIN ref_count' = Obj
  BY <1>0 DEF CountTypes
<1> QED
  BY <1>1, <1>7, <1>8, CountStep

\* A step that takes a process to a position with new locals.
LEMMA CountGoing ==
    ASSUME CountInv, NEW p \in Proc, NEW to \in Labels, NEW m, MyType(m),
           pc' = [pc EXCEPT ![p] = to], my' = [my EXCEPT ![p] = m]
    PROVE  Moves(p, to) /\ my'[p] = m
BY SMT DEF CountInv, CountTypes, Moves

\* A return, or the end of a close, to whoever called it.
LEMMA CountReturning ==
    ASSUME CountInv, NEW p \in Proc, NEW from, Return(p, from) \/ CloseReturn(p, from)
    PROVE  pc[p] = from /\ \E to \in {"user", "exit", "dup2_read"} : Moves(p, to)
<1>0. MyType(my[p])
  BY DEF CountInv, CountTypes
<1>1. CASE Return(p, from)
  <2>1. "user" \in Labels
    BY DEF Labels
  <2> QED
    BY <1>1, <2>1, CountGoing, BlankType DEF Return, Goto
<1>2. CASE CloseReturn(p, from)
  <2> DEFINE m == [Blank EXCEPT !.old = my[p].old, !.fd = my[p].fd]
             to == my[p].to
  <2>1. MyType(m)
    BY <1>0, BlankType, SMT DEF MyType
  <2>2. to \in {"user", "exit", "dup2_read"}
    BY <1>0 DEF MyType
  <2>3. pc[p] = from /\ pc' = [pc EXCEPT ![p] = to] /\ my' = [my EXCEPT ![p] = m]
    BY <1>2 DEF CloseReturn, Goto
  <2> HIDE DEF m, to
  <2>4. to \in Labels
    BY <2>2 DEF Labels
  <2> QED
    BY <2>1, <2>2, <2>3, <2>4, CountGoing
<1> QED
  BY <1>1, <1>2

\* The steps that leave the kernel or fail with the counts as they are.
LEMMA CountReturns ==
    ASSUME CountInv, NEW p \in Proc,
           \/ OpenNoFd(p) \/ CloseFails(p) \/ CloseDestroy(p) \/ Dup2NoMemory(p) \/ XferRefused(p)
           \/ XferEnd(p) \/ SeekSet(p) \/ StartNoVnode(p)
    PROVE  CountInv'
<1>1. UNCHANGED <<fileTable, ref_count>>
  BY DEF OpenNoFd, CloseFails, CloseDestroy, Dup2NoMemory, XferRefused, XferEnd, SeekSet, StartNoVnode, fields
<1>2. pc[p] \in {"open_fd", "close_clear", "close_destroy", "dup2_read", "xfer_start", "xfer_io",
                  "seek_set", "start"}
  BY DEF OpenNoFd, CloseFails, CloseDestroy, Dup2NoMemory, XferRefused, XferEnd, SeekSet,
         StartNoVnode, StartFailed, Return, CloseReturn, Goto
<1>3. PICK to \in {"user", "exit", "dup2_read", "gone"} : Moves(p, to)
  <2>1. CASE CloseFails(p) \/ StartNoVnode(p)
    <3>1. PICK to \in {"user", "exit", "gone"} : pc' = [pc EXCEPT ![p] = to] /\ my' = [my EXCEPT ![p] = Blank]
      BY <2>1 DEF CloseFails, StartNoVnode, StartFailed, Goto
    <3>2. to \in Labels
      BY DEF Labels
    <3> QED
      BY <3>1, <3>2, CountGoing, BlankType
  <2>2. CASE ~(CloseFails(p) \/ StartNoVnode(p))
    <3>1. \E to \in {"user", "exit", "dup2_read"} : Moves(p, to)
      BY <2>2, CountReturning DEF OpenNoFd, CloseDestroy, Dup2NoMemory, XferRefused, XferEnd, SeekSet
    <3> QED
      BY <3>1
  <2> QED
    BY <2>1, <2>2
<1>4. to \in Labels /\ to \notin Busy /\ to \notin Forking /\ to \notin {"close_dec", "fork_inc", "dup2_write"}
  BY DEF Labels, Busy, Holding, Forking
<1>5. pc[p] \notin {"born", "dup2_write"}
  BY <1>2
<1> QED
  BY <1>1, <1>3, <1>4, <1>5, CountQuiet

\* The steps that only move on.
LEMMA CountMoves ==
    ASSUME CountInv, NEW p \in Proc,
           \/ CloseClear(p) \/ CloseLock(p) \/ CloseLast(p) \/ sys__exit(p) \/ ExitDone(p)
           \/ XferLock(p) \/ SeekLock(p)
    PROVE  CountInv'
<1>0. CountTypes /\ Fine(p)
  BY DEF CountInv
<1>1. UNCHANGED <<fileTable, ref_count, my>>
  BY DEF CloseClear, CloseLock, CloseLast, sys__exit, ExitDone, XferLock, SeekLock, fields
<1>2. PICK to \in {"close_lock", "close_test", "close_destroy", "exit", "dead", "xfer_start", "seek_set"} :
         /\ pc' = [pc EXCEPT ![p] = to]
         /\ \/ to \in {"exit", "dead"} /\ pc[p] \in {"user", "exit"}
            \/ pc[p] \in {"close_clear", "close_lock", "close_test", "xfer_lock", "seek_lock"}
  BY DEF CloseClear, CloseLock, CloseLast, sys__exit, ExitDone, XferLock, SeekLock, Goto
<1>3. to \in Labels /\ to \notin Forking /\ to \notin {"close_dec", "fork_inc", "dup2_write", "open_fill"}
  BY DEF Labels, Forking
<1>4. pc[p] \notin {"born", "dup2_write"} /\ (to \in Busy => pc[p] \in Busy \ {"open_fill"})
  BY <1>2 DEF Busy, Holding
<1>5. Moves(p, to) /\ my'[p] = my[p]
  BY <1>0, <1>1, <1>2, <1>3, SMT DEF Moves, CountTypes
<1>6. to \in Busy => my'[p].of \in Obj /\ Counted(my'[p].of)
  BY <1>0, <1>4, <1>5 DEF Fine
<1> QED
  BY <1>1, <1>3, <1>4, <1>5, <1>6, CountQuiet

\* The steps that set local variables: open, dup2, fork and close read what they
\* go on with.
LEMMA CountSets ==
    ASSUME CountInv, NEW p \in Proc,
           \/ sys_execv(p) \/ sys_open(p) \/ sys_dup2(p) \/ OpenFind(p) \/ Transfer(p) \/ sys_lseek(p)
           \/ XferStart(p) \/ ForkRead(p) \/ CloseShared(p)
    PROVE  CountInv'
<1>0. CountTypes /\ Fine(p) /\ MyType(my[p])
  BY DEF CountInv, CountTypes
<1>1. UNCHANGED <<fileTable, ref_count>>
  BY DEF sys_execv, sys_open, sys_dup2, OpenFind, Transfer, sys_lseek, XferStart, ForkRead, CloseShared,
         Begin, fields
<1>2. CASE sys_execv(p) \/ sys_open(p) \/ sys_dup2(p)
  <2>1. PICK to \in {"start", "open_find", "dup2_read"} : pc[p] = "user" /\ pc' = [pc EXCEPT ![p] = to]
    BY <1>2 DEF sys_execv, sys_open, sys_dup2, Goto
  <2>2. PICK m : MyType(m) /\ DOMAIN my' = Proc /\ my'[p] = m /\ \A q \in Proc \ {p} : my'[q] = my[q]
    <3>1. CASE sys_execv(p)
      <4>1. my' = [my EXCEPT ![p] = [my[p] EXCEPT !.fd = 0]]
        BY <3>1 DEF sys_execv
      <4>2. MyType([my[p] EXCEPT !.fd = 0])
        BY <1>0, Names, BlankType, SMT DEF MyType
      <4> QED
        BY <1>0, <4>1, <4>2 DEF CountTypes
    <3>2. CASE sys_open(p)
      <4>1. PICK f \in File : my' = [my EXCEPT ![p].v = f]
        BY <3>2 DEF sys_open
      <4>2. MyType([my[p] EXCEPT !.v = f])
        BY <1>0, BlankType, SMT DEF MyType
      <4> QED
        BY <1>0, <4>1, <4>2 DEF CountTypes
    <3>3. CASE sys_dup2(p)
      <4>1. PICK old \in FD, new \in FD : my' = [my EXCEPT ![p].old = old, ![p].fd = new]
        BY <3>3 DEF sys_dup2
      <4>2. MyType([my[p] EXCEPT !.old = old, !.fd = new])
        BY <1>0, BlankType, SMT DEF MyType
      <4> QED
        BY <1>0, <4>1, <4>2 DEF CountTypes
    <3> QED
      BY <1>2, <3>1, <3>2, <3>3
  <2>3. to \in Labels /\ to \notin Busy /\ to \notin Forking /\ to \notin {"close_dec", "fork_inc", "dup2_write"}
    BY DEF Labels, Busy, Holding, Forking
  <2>4. Moves(p, to)
    BY <1>0, <2>1, <2>2, <2>3, SMT DEF Moves, CountTypes
  <2>5. pc[p] \notin {"born", "dup2_write"}
    BY <2>1
  <2> QED
    BY <1>1, <2>3, <2>4, <2>5, CountQuiet
<1>3. ASSUME NEW o \in Obj, NEW to \in {"open_fill", "xfer_lock", "seek_lock"},
             pc[p] \in {"user", "open_find"}, pc' = [pc EXCEPT ![p] = to], my' = [my EXCEPT ![p].of = o],
             to = "open_fill" \/ Counted(o)
      PROVE  CountInv'
  <2> DEFINE m == [my[p] EXCEPT !.of = o]
  <2>1. MyType(m) /\ m.of = o
    BY <1>0, BlankType, SMT DEF MyType
  <2>2. my' = [my EXCEPT ![p] = m]
    BY <1>3
  <2> HIDE DEF m
  <2>3. to \in Labels /\ to \notin Forking /\ to \notin {"close_dec", "fork_inc", "dup2_write"}
    BY DEF Labels, Forking
  <2>4. Moves(p, to) /\ my'[p] = m
    BY <1>3, <2>1, <2>2, <2>3, CountGoing
  <2>5. pc[p] \notin {"born", "dup2_write"} /\ my'[p].of = o
    BY <1>3, <2>1, <2>4
  <2> QED
    BY <1>1, <1>3, <2>3, <2>4, <2>5, CountQuiet
<1>4. CASE OpenFind(p)
  <2>1. Min(FreeSlots) \in Obj
    BY <1>4, Least, Names DEF OpenFind, FreeSlots
  <2>2. pc[p] = "open_find" /\ pc' = [pc EXCEPT ![p] = "open_fill"] /\ my' = [my EXCEPT ![p].of = Min(FreeSlots)]
    BY <1>4 DEF OpenFind, Goto
  <2> QED
    BY <1>3, <2>1, <2>2
<1>5. CASE Transfer(p) \/ sys_lseek(p)
  <2>1. PICK fd \in FD, to \in {"xfer_lock", "seek_lock"} : Begin(p, fd, to)
    BY <1>5 DEF Transfer, sys_lseek
  <2>2. /\ pc[p] = "user" /\ pc' = [pc EXCEPT ![p] = to] /\ my' = [my EXCEPT ![p].of = fileTable[p][fd]]
        /\ fileTable[p][fd] # NULL
    BY <2>1 DEF Begin, Goto
  <2>3. fileTable[p][fd] \in Obj
    BY <1>0, <2>2, SMT DEF CountTypes
  <2>4. Counted(fileTable[p][fd])
    BY <1>0, <2>2 DEF Fine
  <2> QED
    BY <1>3, <2>2, <2>3, <2>4
<1>6. ASSUME NEW n, NEW to \in {"xfer_io", "close_dec", "fork_inc"}, pc' = [pc EXCEPT ![p] = to],
             my' = [my EXCEPT ![p].n = n], pc[p] \notin {"born", "dup2_write", "open_fill"},
             to # "fork_inc" => pc[p] \in Busy,
             to = "fork_inc" => pc[p] \in Forking /\ n \in Nat /\ n > 0,
             to = "close_dec" => n \in Nat /\ n > 1
      PROVE  CountInv'
  <2> DEFINE m == [my[p] EXCEPT !.n = n]
  <2>1. MyType(m) /\ m.of = my[p].of /\ m.n = n /\ m.child = my[p].child /\ m.fd = my[p].fd
    BY <1>0, BlankType, SMT DEF MyType
  <2>2. my' = [my EXCEPT ![p] = m]
    BY <1>6
  <2> HIDE DEF m
  <2>3. to \in Labels /\ (to = "fork_inc" => to \notin Busy) /\ (to \in Forking => to = "fork_inc") /\ to # "dup2_write"
    BY DEF Labels, Forking, Busy, Holding
  <2>4. Moves(p, to) /\ my'[p] = m
    BY <1>6, <2>1, <2>2, <2>3, CountGoing
  <2>5. to \in Busy => my'[p].of \in Obj /\ Counted(my'[p].of)
    BY <1>0, <1>6, <2>1, <2>3, <2>4 DEF Fine
  <2>6. pc[p] \notin {"born", "dup2_write"}
    BY <1>6
  <2> QED
    BY <1>1, <1>6, <2>1, <2>3, <2>4, <2>5, <2>6, CountQuiet
<1>7. CASE XferStart(p)
  <2>1. pc[p] = "xfer_start" /\ pc' = [pc EXCEPT ![p] = "xfer_io"] /\ my' = [my EXCEPT ![p].n = offset[my[p].of]]
    BY <1>7 DEF XferStart, Goto
  <2>2. "xfer_start" \in Busy
    BY DEF Busy, Holding
  <2> QED
    BY <1>6, <2>1, <2>2
<1>8. CASE ForkRead(p)
  <2> DEFINE n == ref_count[fileTable[p][my[p].fd]]
  <2>1. pc[p] = "fork_read" /\ pc' = [pc EXCEPT ![p] = "fork_inc"] /\ my' = [my EXCEPT ![p].n = n]
    BY <1>8 DEF ForkRead, Goto
  <2>2. pc[p] \in Forking /\ my[p].fd \in FD
    BY <1>0, <2>1 DEF Forking, MyType
  <2>3. n \in Nat /\ n > 0
    BY <1>0, <2>1, <2>2 DEF Fine, Counted
  <2> HIDE DEF n
  <2> QED
    BY <1>6, <2>1, <2>2, <2>3
<1>9. CASE CloseShared(p)
  <2> DEFINE n == ref_count[my[p].of]
  <2>1. /\ pc[p] = "close_test" /\ pc' = [pc EXCEPT ![p] = "close_dec"] /\ my' = [my EXCEPT ![p].n = n]
        /\ n # 1
    BY <1>9 DEF CloseShared, LastReference, Goto
  <2>2. "close_test" \in Busy
    BY DEF Busy, Holding
  <2>3. n \in Nat /\ n > 0
    BY <1>0, <2>1, <2>2 DEF Fine, Counted
  <2> HIDE DEF n
  <2>4. n > 1
    BY <2>1, <2>3, SMT
  <2> QED
    BY <1>6, <2>1, <2>2, <2>3, <2>4
<1> QED
  BY <1>2, <1>4, <1>5, <1>7, <1>8, <1>9

\* Process p changes an entry of its table.
LEMMA CountTable ==
    ASSUME CountInv, NEW p \in Proc, pc[p] \notin {"born", "dup2_write"}, NEW fd \in FD, NEW e \in Obj \cup {NULL},
           fileTable' = [fileTable EXCEPT ![p][fd] = e],
           DOMAIN ref_count' = Obj, \A o \in Obj : Counted(o) => Counted(o)',
           NEW to \in Labels, Moves(p, to), to \notin Forking, to \notin {"open_fill", "close_dec"},
           e # NULL => Counted(e)' \/ (to = "dup2_write" /\ fd = my'[p].fd),
           to \in Busy => my'[p].of \in Obj /\ Counted(my'[p].of),
           to = "dup2_write" => /\ my'[p].n \in Nat /\ my'[p].n > 0 /\ fileTable[p][my'[p].old] # NULL
                                /\ e # NULL /\ fd = my'[p].fd
    PROVE  CountInv'
<1>0. CountTypes /\ Fine(p)
  BY DEF CountInv
<1>1. /\ \A q \in Proc \ {p} : fileTable'[q] = fileTable[q]
      /\ fileTable'[p][fd] = e /\ \A x \in FD \ {fd} : fileTable'[p][x] = fileTable[p][x]
      /\ fileTable' \in [Proc -> [FD -> Obj \cup {NULL}]]
  BY <1>0, SMT DEF CountTypes
<1>2. pc'[p] = to
  BY DEF Moves
<1>3. ASSUME NEW x \in FD, fileTable'[p][x] # NULL
      PROVE  Counted(fileTable[p][x])' \/ (pc'[p] = "dup2_write" /\ x = my'[p].fd)
  <2>1. CASE x = fd
    BY <1>1, <1>2, <1>3, <2>1 DEF Counted
  <2>2. CASE x # fd
    <3>1. fileTable'[p][x] = fileTable[p][x]
      BY <1>1, <2>2
    <3>2. fileTable[p][x] \in Obj
      BY <1>0, <1>3, <3>1, SMT DEF CountTypes
    <3>3. Counted(fileTable[p][x])
      BY <1>0, <1>3, <3>1 DEF Fine
    <3> QED
      BY <3>1, <3>2, <3>3 DEF Counted
  <2> QED
    BY <2>1, <2>2
<1>4. to \in Busy => my'[p].of \in Obj /\ Counted(my[p].of)'
  BY DEF Counted
<1>5. to = "dup2_write" => fileTable'[p][my'[p].old] # NULL /\ fileTable'[p][my'[p].fd] # NULL
  <2>1. my'[p].old \in FD
    BY DEF Moves, MyType
  <2> QED
    BY <1>1, <2>1
<1>6. Fine(p)'
  BY <1>2, <1>3, <1>4, <1>5 DEF Fine, Forking
<1> QED
  BY <1>1, <1>6, CountStep

\* A close takes out of the table an openfile that was counted there.
LEMMA CountCloses ==
    ASSUME CountInv, NEW p \in Proc, sys_close(p) \/ close_all_files(p) \/ Dup2Close(p)
    PROVE  CountInv'
<1>0. CountTypes /\ MyType(my[p]) /\ Fine(p)
  BY DEF CountInv, CountTypes
<1>1. /\ "close_clear" \in Labels /\ "close_clear" \notin Forking
      /\ "close_clear" \notin {"open_fill", "close_dec", "dup2_write"}
  BY DEF Labels, Forking
<1>2. ASSUME NEW fd \in FD, pc[p] \in {"user", "exit"}, fileTable[p][fd] # NULL, ref_count' = ref_count,
             fileTable' = [fileTable EXCEPT ![p][fd] = NULL], pc' = [pc EXCEPT ![p] = "close_clear"],
             NEW m, MyType(m), m.of = fileTable[p][fd],
             DOMAIN my' = Proc, my'[p] = m, \A q \in Proc \ {p} : my'[q] = my[q]
      PROVE  CountInv'
  <2>1. Moves(p, "close_clear")
    BY <1>0, <1>1, <1>2, SMT DEF Moves, CountTypes
  <2>2. my'[p].of \in Obj
    BY <1>0, <1>2, SMT DEF CountTypes
  <2>3. Counted(my'[p].of)
    BY <1>0, <1>2 DEF Fine
  <2>4. DOMAIN ref_count' = Obj /\ \A o \in Obj : Counted(o) => Counted(o)'
    BY <1>0, <1>2 DEF CountTypes, Counted
  <2>5. pc[p] \notin {"born", "dup2_write"} /\ NULL \in Obj \cup {NULL}
    BY <1>2
  <2> QED
    BY <1>1, <1>2, <2>1, <2>2, <2>3, <2>4, <2>5, CountTable
<1>3. ASSUME NEW fd \in FD, NEW to \in {"user", "exit"}, Close(p, fd, to), pc[p] \in {"user", "exit"}
      PROVE  CountInv'
  <2>1. fileTable[p][fd] \in Obj
    BY <1>0, <1>3, SMT DEF CountTypes, Close
  <2> DEFINE m == [my[p] EXCEPT !.of = fileTable[p][fd], !.v = vn[fileTable[p][fd]], !.to = to]
  <2>2. MyType(m) /\ m.of = fileTable[p][fd]
    BY <1>0, <2>1, BlankType, SMT DEF MyType
  <2>3. DOMAIN my' = Proc /\ my'[p] = m /\ \A q \in Proc \ {p} : my'[q] = my[q]
    BY <1>0, <1>3 DEF CountTypes, Close
  <2> HIDE DEF m
  <2> QED
    BY <1>2, <1>3, <2>2, <2>3 DEF Close, fields
<1>4. CASE sys_close(p)
  BY <1>3, <1>4 DEF sys_close
<1>5. CASE close_all_files(p)
  <2>1. Min(OpenFds(p)) \in FD
    BY <1>5, Least, Names DEF close_all_files, OpenFds
  <2> QED
    BY <1>3, <1>5, <2>1 DEF close_all_files
<1>6. CASE Dup2Close(p)
  <2>0. PICK old \in FD, new \in FD :
           /\ fileTable[p][new] # NULL
           /\ fileTable' = [fileTable EXCEPT ![p][new] = NULL]
           /\ my' = [my EXCEPT ![p].old = old, ![p].fd = new, ![p].of = fileTable[p][new],
                               ![p].v = vn[fileTable[p][new]], ![p].to = "dup2_read"]
    BY <1>6 DEF Dup2Close
  <2>1. fileTable[p][new] \in Obj
    BY <1>0, <2>0, SMT DEF CountTypes
  <2> DEFINE m == [my[p] EXCEPT !.old = old, !.fd = new, !.of = fileTable[p][new],
                                !.v = vn[fileTable[p][new]], !.to = "dup2_read"]
  <2>2. MyType(m) /\ m.of = fileTable[p][new]
    BY <1>0, <2>1, BlankType, SMT DEF MyType
  <2>3. DOMAIN my' = Proc /\ my'[p] = m /\ \A q \in Proc \ {p} : my'[q] = my[q]
    BY <1>0, <2>0 DEF CountTypes
  <2> HIDE DEF m
  <2>4. pc[p] = "user" /\ pc' = [pc EXCEPT ![p] = "close_clear"] /\ ref_count' = ref_count
    BY <1>6 DEF Dup2Close, fields
  <2> QED
    BY <1>2, <2>0, <2>2, <2>3, <2>4
<1> QED
  BY <1>4, <1>5, <1>6

\* open puts a counted openfile in the table, and dup2 a block whose count it is
\* about to write.
LEMMA CountInstalls ==
    ASSUME CountInv, NEW p \in Proc, OpenFd(p) \/ Dup2Read(p)
    PROVE  CountInv'
<1>0. CountTypes /\ MyType(my[p]) /\ Fine(p)
  BY DEF CountInv, CountTypes
<1>1. ref_count' = ref_count
  BY DEF OpenFd, Dup2Read, fields
<1>2. DOMAIN ref_count' = Obj /\ \A o \in Obj : Counted(o) => Counted(o)'
  BY <1>0, <1>1 DEF CountTypes, Counted
<1>3. CASE OpenFd(p)
  <2>1. pc[p] = "open_fd" /\ \E to \in {"user", "exit", "dup2_read"} : Moves(p, to)
    BY <1>3, CountReturning DEF OpenFd
  <2>2. PICK to \in {"user", "exit", "dup2_read"} : Moves(p, to)
    BY <2>1
  <2>3. /\ to \in Labels /\ to \notin Forking /\ to \notin Busy
        /\ to \notin {"open_fill", "close_dec", "dup2_write"}
    BY DEF Labels, Forking, Busy, Holding
  <2>4. PICK fd \in FD : fileTable' = [fileTable EXCEPT ![p][fd] = my[p].of]
    <3>1. Min(FreeFds(p)) \in FD
      BY <1>3, Least, Names DEF OpenFd, FreeFds
    <3> QED
      BY <1>3, <3>1 DEF OpenFd
  <2>5. PICK o \in Obj : o = my[p].of /\ Counted(o)
    BY <1>0, <2>1 DEF Fine, Busy
  <2>6. Counted(o)' /\ pc[p] \notin {"born", "dup2_write"} /\ fileTable' = [fileTable EXCEPT ![p][fd] = o]
    BY <1>2, <2>1, <2>4, <2>5
  <2> QED
    BY <1>2, <2>2, <2>3, <2>6, CountTable
<1>4. CASE Dup2Read(p)
  <2>1. PICK h \in Heap : fileTable' = [fileTable EXCEPT ![p][my[p].fd] = h]
    BY <1>4 DEF Dup2Read
  <2> DEFINE n == ref_count[fileTable[p][my[p].old]]
             m == [my[p] EXCEPT !.n = n]
  <2>2. MyType(m) /\ m.fd = my[p].fd /\ m.old = my[p].old /\ m.n = n
    BY <1>0, BlankType, SMT DEF MyType
  <2>3. /\ pc[p] = "dup2_read" /\ pc' = [pc EXCEPT ![p] = "dup2_write"] /\ my' = [my EXCEPT ![p] = m]
        /\ fileTable[p][my[p].old] # NULL
    BY <1>4 DEF Dup2Read, Goto
  <2>4. my[p].fd \in FD /\ my[p].old \in FD
    BY <1>0 DEF MyType
  <2>5. n \in Nat /\ n > 0
    BY <1>0, <2>3, <2>4 DEF Fine, Counted
  <2> HIDE DEF n, m
  <2>6. /\ "dup2_write" \in Labels /\ "dup2_write" \notin Forking /\ "dup2_write" \notin Busy
        /\ "dup2_write" \notin {"open_fill", "close_dec"}
    BY DEF Labels, Forking, Busy, Holding
  <2>7. Moves(p, "dup2_write") /\ my'[p] = m
    BY <2>2, <2>3, <2>6, CountGoing
  <2>8. h \in Obj \cup {NULL} /\ h # NULL /\ pc[p] \notin {"born", "dup2_write"}
    BY <2>3, Names
  <2>9. my'[p].n = n /\ my'[p].fd = my[p].fd /\ my'[p].old = my[p].old
    BY <2>2, <2>7
  <2> QED
    BY <1>2, <2>1, <2>3, <2>4, <2>5, <2>6, <2>7, <2>8, <2>9, CountTable
<1> QED
  BY <1>3, <1>4

\* Process p has set counts, and is done with the openfile, or goes on with the slot
\* it has filled.
LEMMA CountSettles ==
    ASSUME CountInv, NEW p \in Proc, pc[p] # "born", fileTable' = fileTable,
           DOMAIN ref_count' = Obj, \A o \in Obj : Counted(o) => Counted(o)',
           NEW to \in {"user", "exit", "dup2_read", "open_fd"}, Moves(p, to),
           pc[p] = "dup2_write" => \A o \in Obj : o = fileTable[p][my[p].fd] => Counted(o)',
           to = "open_fd" => my'[p].of \in Obj /\ Counted(my[p].of)'
    PROVE  CountInv'
<1>0. CountTypes /\ Fine(p)
  BY DEF CountInv
<1>1. to \in Labels /\ to \notin Forking /\ (to \in Busy => to = "open_fd") /\ to \notin {"close_dec", "dup2_write"}
  BY DEF Labels, Forking, Busy, Holding
<1>2. ASSUME NEW fd \in FD, fileTable'[p][fd] # NULL PROVE Counted(fileTable[p][fd])'
  <2>1. PICK o \in Obj : o = fileTable[p][fd]
    BY <1>0, <1>2, SMT DEF CountTypes
  <2>2. Counted(o)'
    BY <1>0, <1>2, <2>1 DEF Fine
  <2> QED
    BY <2>1, <2>2 DEF Counted
<1>3. Fine(p)'
  <2>1. pc'[p] = to
    BY DEF Moves
  <2> QED
    BY <1>1, <1>2, <2>1 DEF Fine, Forking
<1>4. fileTable' \in [Proc -> [FD -> Obj \cup {NULL}]]
  BY <1>0 DEF CountTypes
<1> QED
  BY <1>1, <1>3, <1>4, CountStep

\* open sets the count of the entry it fills.
LEMMA CountFills ==
    ASSUME CountInv, NEW p \in Proc, OpenFill(p) \/ OpenNoLock(p)
    PROVE  CountInv'
<1>0. CountTypes /\ Fine(p)
  BY DEF CountInv
<1>1. /\ ref_count' = [ref_count EXCEPT ![my[p].of] = 1] /\ pc[p] = "open_fill" /\ fileTable' = fileTable
  BY DEF OpenFill, OpenNoLock, Fill, Return, Goto
<1>2. PICK o \in Obj : o = my[p].of
  BY <1>0, <1>1 DEF Fine, Busy
<1>3. DOMAIN ref_count' = Obj /\ ref_count'[o] = 1 /\ \A x \in Obj : ref_count'[x] \in {1, ref_count[x]}
  BY <1>0, <1>1, <1>2, SMT DEF CountTypes
<1>4. 1 \in Nat /\ 1 > 0
  BY SMT
<1>5. Counted(o)' /\ \A x \in Obj : Counted(x) => Counted(x)'
  BY <1>3, <1>4 DEF Counted
<1>6. PICK to \in {"user", "exit", "dup2_read", "open_fd"} :
         Moves(p, to) /\ (to = "open_fd" => my'[p].of = o)
  <2>1. CASE OpenFill(p)
    <3>1. "open_fd" \in Labels
      BY DEF Labels
    <3>2. Moves(p, "open_fd") /\ my'[p].of = o
      BY <1>0, <1>2, <2>1, <3>1, SMT DEF OpenFill, Goto, Moves, CountTypes
    <3> QED
      BY <3>2
  <2>2. CASE OpenNoLock(p)
    <3>1. \E to \in {"user", "exit", "dup2_read"} : Moves(p, to)
      BY <2>2, CountReturning DEF OpenNoLock
    <3> QED
      BY <3>1
  <2> QED
    BY <2>1, <2>2
<1>7. to = "open_fd" => my'[p].of \in Obj /\ Counted(my[p].of)'
  BY <1>5, <1>6 DEF Counted
<1>8. pc[p] # "born" /\ pc[p] # "dup2_write"
  BY <1>1
<1> QED
  BY <1>1, <1>3, <1>5, <1>6, <1>7, <1>8, CountSettles

\* sys_close: the count it has read was above one.
LEMMA CountDecrements ==
    ASSUME CountInv, NEW p \in Proc, CloseDec(p)
    PROVE  CountInv'
<1>0. CountTypes /\ Fine(p)
  BY DEF CountInv
<1>1. /\ ref_count' = [ref_count EXCEPT ![my[p].of] = my[p].n - 1] /\ pc[p] = "close_dec" /\ fileTable' = fileTable
  BY DEF CloseDec, CloseReturn, Goto
<1>2. PICK n : n = my[p].n - 1
  OBVIOUS
<1>3. n \in Nat /\ n > 0
  BY <1>0, <1>1, <1>2, SMT DEF Fine
<1>4. DOMAIN ref_count' = Obj /\ \A x \in Obj : ref_count'[x] \in {n, ref_count[x]}
  BY <1>0, <1>1, <1>2 DEF CountTypes
<1>5. \A x \in Obj : Counted(x) => Counted(x)'
  BY <1>3, <1>4 DEF Counted
<1>6. PICK to \in {"user", "exit", "dup2_read"} : Moves(p, to)
  BY CountReturning DEF CloseDec
<1>7. pc[p] # "born" /\ pc[p] # "dup2_write" /\ to # "open_fd"
  BY <1>1
<1> QED
  BY <1>1, <1>4, <1>5, <1>6, <1>7, CountSettles

\* dup2: the block gets the incremented count of the openfile it is a copy of.
LEMMA CountCopies ==
    ASSUME CountInv, NEW p \in Proc, Dup2Write(p)
    PROVE  CountInv'
<1>0. CountTypes /\ Fine(p) /\ MyType(my[p])
  BY DEF CountInv, CountTypes
<1>1. pc[p] = "dup2_write" /\ fileTable' = fileTable
  BY DEF Dup2Write, Return, Goto
<1>2. PICK o \in Obj, h \in Obj : o = fileTable[p][my[p].old] /\ h = fileTable[p][my[p].fd]
  <2>1. fileTable[p][my[p].old] # NULL /\ fileTable[p][my[p].fd] # NULL /\ my[p].fd \in FD /\ my[p].old \in FD
    BY <1>0, <1>1 DEF Fine, MyType
  <2> QED
    BY <1>0, <2>1, SMT DEF CountTypes
<1>3. PICK n : n = my[p].n + 1
  OBVIOUS
<1>4. ref_count' = [ref_count EXCEPT ![o] = n, ![h] = n]
  BY <1>2, <1>3 DEF Dup2Write
<1>5. n \in Nat /\ n > 0
  BY <1>0, <1>1, <1>3, SMT DEF Fine
<1>6. DOMAIN ref_count' = Obj /\ ref_count'[h] = n /\ \A x \in Obj : ref_count'[x] \in {n, ref_count[x]}
  BY <1>0, <1>4, SMT DEF CountTypes
<1>7. Counted(h)' /\ \A x \in Obj : Counted(x) => Counted(x)'
  BY <1>5, <1>6 DEF Counted
<1>8. PICK to \in {"user", "exit", "dup2_read"} : Moves(p, to)
  BY CountReturning DEF Dup2Write
<1>9. pc[p] # "born" /\ to # "open_fd" /\ \A x \in Obj : x = fileTable[p][my[p].fd] => Counted(x)'
  BY <1>1, <1>2, <1>7
<1> QED
  BY <1>1, <1>6, <1>7, <1>8, <1>9, CountSettles

\* proc_start_filetable gives its openfiles the count one.
LEMMA CountStreams ==
    ASSUME CountInv, NEW p \in Proc, StartStream(p) \/ StartNoBlock(p)
    PROVE  CountInv'
<1>0. CountTypes /\ Fine(p) /\ MyType(my[p])
  BY DEF CountInv, CountTypes
<1>entry. PICK e \in Heap \cup {NULL} : \E objs, l :
         /\ Stream(objs, l) /\ (e # NULL => e \in objs)
         /\ fileTable' = [fileTable EXCEPT ![p][my[p].fd] = e]
  <2>1. CASE StartStream(p)
    BY <2>1 DEF StartStream
  <2>2. CASE StartNoBlock(p)
    BY <2>2 DEF StartNoBlock
  <2> QED
    BY <2>1, <2>2
<1>1. PICK objs, l : /\ Stream(objs, l) /\ (e # NULL => e \in objs)
                     /\ fileTable' = [fileTable EXCEPT ![p][my[p].fd] = e]
  BY <1>entry
<1>2. ref_count' = [o \in Obj |-> IF o \in objs THEN 1 ELSE ref_count[o]] /\ e \in Obj \cup {NULL}
  BY <1>1, Names DEF Stream
<1>3. DOMAIN ref_count' = Obj /\ \A o \in Obj : ref_count'[o] = IF o \in objs THEN 1 ELSE ref_count[o]
  BY <1>2
<1>4. 1 \in Nat /\ 1 > 0
  BY SMT
<1>5. (\A o \in Obj : Counted(o) => Counted(o)') /\ (e # NULL => Counted(e)')
  BY <1>1, <1>2, <1>3, <1>4 DEF Counted
<1>6. PICK to \in {"start", "user", "exit", "gone"} : Moves(p, to)
  <2>1. {"start", "user", "exit", "gone"} \subseteq Labels
    BY DEF Labels
  <2>2. CASE StartNoBlock(p)
    <3>1. PICK to \in {"exit", "gone"} : pc' = [pc EXCEPT ![p] = to] /\ my' = [my EXCEPT ![p] = Blank]
      BY <2>2 DEF StartNoBlock, StartFailed, Goto
    <3> QED
      BY <2>1, <3>1, CountGoing, BlankType
  <2>3. CASE StartStream(p) /\ my[p].fd + 1 \in Std
    <3> DEFINE m == [my[p] EXCEPT !.fd = my[p].fd + 1]
    <3>1. MyType(m)
      BY <1>0, <2>3, Names, BlankType, SMT DEF MyType
    <3>2. my' = [my EXCEPT ![p] = m] /\ pc' = pc /\ pc[p] = "start"
      BY <2>3 DEF StartStream
    <3> HIDE DEF m
    <3>3. Moves(p, "start")
      BY <1>0, <3>1, <3>2, SMT DEF Moves, CountTypes
    <3> QED
      BY <3>3
  <2>4. CASE StartStream(p) /\ my[p].fd + 1 \notin Std
    <3>1. Return(p, "start")
      BY <2>4 DEF StartStream
    <3>2. Moves(p, "user")
      BY <2>1, <3>1, CountGoing, BlankType DEF Return, Goto
    <3> QED
      BY <3>2
  <2> QED
    BY <2>2, <2>3, <2>4
<1>7. /\ to \in Labels /\ to \notin Forking /\ to \notin Busy
      /\ to \notin {"open_fill", "close_dec", "dup2_write"}
  BY DEF Labels, Forking, Busy, Holding
<1>8. pc[p] \notin {"born", "dup2_write"} /\ my[p].fd \in FD
  BY <1>0 DEF StartStream, StartNoBlock, StartFailed, Goto, MyType
<1> QED
  BY <1>1, <1>2, <1>3, <1>5, <1>6, <1>7, <1>8, CountTable

\* fork: the child's descriptors are the parent's, which are counted, even if the
\* increments are lost.
LEMMA CountForkMoves ==
    ASSUME CountInv, NEW p \in Proc, NEW c \in Proc, pc[p] \in {"user", "fork_inc"},
           pc[c] \in {"dead", "born"}, pc[c] = "born" => pc[p] = "fork_inc" /\ my[p].child = c,
           fileTable' \in [Proc -> [FD -> Obj \cup {NULL}]], DOMAIN ref_count' = Obj,
           \A o \in Obj : Counted(o) => Counted(o)',
           \A q \in Proc \ {c} : fileTable'[q] = fileTable[q],
           fileTable'[c] = fileTable[p] \/ fileTable'[c] = fileTable[c],
           DOMAIN my' = Proc, MyType(my'[p]), \A q \in Proc \ {p} : my'[q] = my[q],
           pc' \in [Proc -> Labels], \A q \in Proc \ {p, c} : pc'[q] = pc[q],
           \/ pc'[p] = "user" /\ pc'[c] = "user"
           \/ /\ pc'[p] = "fork_read" /\ pc'[c] = "born" /\ my'[p].child = c
              /\ fileTable[p][my'[p].fd] # NULL
    PROVE  CountInv'
<1>0. CountTypes /\ OneParent /\ \A q \in Proc : Fine(q)
  BY DEF CountInv
<1>1. {pc[p], pc[c], pc'[p], pc'[c]} \cap (Busy \cup {"dup2_write"}) = {} /\ p # c
  BY DEF Busy, Holding
<1>2. CountTypes'
  <2>1. \A q \in Proc : MyType(my'[q])
    BY <1>0 DEF CountTypes
  <2> QED
    BY <1>0, <2>1, SMT DEF CountTypes
<1>3. ASSUME NEW q \in Proc, NEW fd \in FD, fileTable'[q][fd] # NULL
      PROVE  Counted(fileTable[q][fd])' \/ (pc'[q] = "dup2_write" /\ fd = my'[q].fd)
  <2>1. PICK r \in Proc : fileTable'[q] = fileTable[r] /\ (r = q \/ (r = p /\ q = c))
    OBVIOUS
  <2>2. PICK o \in Obj : o = fileTable[r][fd]
    BY <1>0, <1>3, <2>1, SMT DEF CountTypes
  <2>3. CASE Counted(o)
    BY <2>1, <2>2, <2>3 DEF Counted
  <2>4. CASE ~Counted(o)
    <3>1. pc[r] = "dup2_write" /\ fd = my[r].fd
      <4>1. fileTable[r][fd] # NULL /\ ~Counted(fileTable[r][fd]) /\ Fine(r)
        BY <1>0, <1>3, <2>1, <2>2, <2>4
      <4> QED
        BY <4>1 DEF Fine
    <3>2. r \notin {p, c}
      BY <1>1, <3>1
    <3> QED
      BY <2>1, <3>1, <3>2
  <2> QED
    BY <2>3, <2>4
<1>4. ASSUME NEW q \in Proc, q \notin {p, c}, pc[q] \in Forking PROVE my[q].child \notin {p, c}
  <2>1. my[q].child \in Proc /\ pc[my[q].child] = "born"
    BY <1>0, <1>4 DEF CountTypes, MyType, Fine
  <2>2. my[q].child # p
    BY <2>1
  <2>3. ASSUME my[q].child = c PROVE FALSE
    <3>1. pc[p] \in Forking /\ my[p].child = my[q].child
      BY <2>1, <2>3 DEF Forking
    <3>2. p = q
      BY <1>0, <1>4, <3>1, ZenonT(60) DEF OneParent
    <3> QED
      BY <1>4, <3>2
  <2> QED
    BY <2>2, <2>3
<1>5. ASSUME NEW q \in Proc PROVE Fine(q)'
  <2>1. CASE q \in {p, c}
    <3>1. pc'[q] \notin Busy /\ pc'[q] \notin {"close_dec", "fork_inc", "dup2_write"}
      BY <1>1, <2>1 DEF Busy, Holding
    <3>2. pc'[q] \in Forking => fileTable'[q][my'[q].fd] # NULL /\ pc'[my'[q].child] = "born"
      BY <1>1, <2>1, ZenonT(60) DEF Forking
    <3> QED
      BY <1>3, <3>1, <3>2 DEF Fine
  <2>2. CASE q \notin {p, c}
    <3>1. pc'[q] = pc[q] /\ my'[q] = my[q] /\ fileTable'[q] = fileTable[q] /\ Fine(q)
      BY <1>0, <2>2
    <3>2. pc'[q] \in Busy => my'[q].of \in Obj /\ (pc'[q] = "open_fill" \/ Counted(my[q].of)')
      BY <3>1 DEF Fine, Counted
    <3>3. pc'[q] \in Forking => pc'[my'[q].child] = "born"
      <4>1. my[q].child \in Proc
        BY <1>0 DEF CountTypes, MyType
      <4> QED
        BY <1>4, <2>2, <3>1, <4>1 DEF Fine
    <3> QED
      BY <1>3, <3>1, <3>2, <3>3 DEF Fine
  <2> QED
    BY <2>1, <2>2
<1>6. OneParent'
  <2> SUFFICES ASSUME NEW r \in Proc, NEW q \in Proc, pc'[r] \in Forking, pc'[q] \in Forking,
                      my'[r].child = my'[q].child
               PROVE  r = q
    BY DEF OneParent
  <2>1. r # c /\ q # c
    BY DEF Forking
  <2>2. ASSUME NEW s \in {r, q}, s # p PROVE pc[s] \in Forking /\ my'[s].child = my[s].child /\ my[s].child # c
    <3>1. s \in Proc /\ s \notin {p, c}
      BY <2>1, <2>2
    <3>2. pc[s] \in Forking /\ my'[s].child = my[s].child
      BY <3>1
    <3> QED
      BY <1>4, <3>1, <3>2
  <2>3. CASE p \in {r, q}
    <3>1. my'[p].child = c
      BY <2>3 DEF Forking
    <3>2. my'[r].child = c /\ my'[q].child = c
      BY <2>3, <3>1
    <3>3. r = p /\ q = p
      BY <2>2, <3>2
    <3> QED
      BY <3>3
  <2>4. CASE p \notin {r, q}
    <3>1. pc[r] \in Forking /\ pc[q] \in Forking /\ my[r].child = my[q].child
      <4>1. r # p /\ q # p
        BY <2>4
      <4>2. pc[r] \in Forking /\ my'[r].child = my[r].child
        BY <2>2, <4>1
      <4>3. pc[q] \in Forking /\ my'[q].child = my[q].child
        BY <2>2, <4>1
      <4> QED
        BY <4>2, <4>3
    <3>2. {pc[r], pc[q]} \subseteq Forking
      BY <3>1
    <3> QED
      BY <1>0, <3>1, <3>2 DEF OneParent
  <2> QED
    BY <2>3, <2>4
<1> QED
  BY <1>2, <1>5, <1>6 DEF CountInv

\* fork counts up what it copies.
LEMMA CountForks ==
    ASSUME CountInv, NEW p \in Proc, sys_fork(p) \/ ForkInc(p)
    PROVE  CountInv'
<1>0. CountTypes /\ MyType(my[p]) /\ Fine(p)
  BY DEF CountInv, CountTypes
<1>1. ASSUME NEW c \in Proc, c # p, NEW rest, rest \subseteq OpenFds(p), ForkGoOn(p, c, rest)
      PROVE  /\ DOMAIN my' = Proc /\ MyType(my'[p])
             /\ \A q \in Proc \ {p} : my'[q] = my[q]
             /\ pc' \in [Proc -> Labels] /\ \A q \in Proc \ {p, c} : pc'[q] = pc[q]
             /\ \/ pc'[p] = "user" /\ pc'[c] = "user"
                \/ /\ pc'[p] = "fork_read" /\ pc'[c] = "born" /\ my'[p].child = c
                   /\ fileTable[p][my'[p].fd] # NULL
  <2>1. {"user", "fork_read", "born"} \subseteq Labels
    BY DEF Labels
  <2>2. CASE rest = {}
    <3>1. pc' = [pc EXCEPT ![p] = "user", ![c] = "user"] /\ my' = [my EXCEPT ![p] = Blank]
      BY <1>1, <2>2 DEF ForkGoOn
    <3>2. DOMAIN my' = Proc /\ my'[p] = Blank /\ \A q \in Proc \ {p} : my'[q] = my[q]
      BY <1>0, <3>1 DEF CountTypes
    <3>3. /\ pc' \in [Proc -> Labels] /\ \A q \in Proc \ {p, c} : pc'[q] = pc[q]
          /\ pc'[p] = "user" /\ pc'[c] = "user"
      BY <1>0, <2>1, <3>1, SMT DEF CountTypes
    <3> QED
      BY <3>2, <3>3, BlankType
  <2>3. CASE rest # {}
    <3> DEFINE m == [Blank EXCEPT !.child = c, !.fd = Min(rest)]
    <3>1. pc' = [pc EXCEPT ![p] = "fork_read", ![c] = "born"] /\ my' = [my EXCEPT ![p] = m]
      BY <1>1, <2>3 DEF ForkGoOn
    <3>2. rest \subseteq FD
      BY <1>1 DEF OpenFds
    <3>3. Min(rest) \in FD /\ Min(rest) \in OpenFds(p)
      BY <1>1, <2>3, <3>2, Least, Names
    <3>4. MyType(m) /\ m.child = c /\ m.fd = Min(rest)
      BY <3>3, BlankType, SMT DEF MyType
    <3> HIDE DEF m
    <3>5. DOMAIN my' = Proc /\ my'[p] = m /\ \A q \in Proc \ {p} : my'[q] = my[q]
      BY <1>0, <3>1 DEF CountTypes
    <3>6. /\ pc' \in [Proc -> Labels] /\ \A q \in Proc \ {p, c} : pc'[q] = pc[q]
          /\ pc'[p] = "fork_read" /\ pc'[c] = "born"
      BY <1>0, <1>1, <2>1, <3>1, SMT DEF CountTypes
    <3>7. fileTable[p][my'[p].fd] # NULL
      BY <3>3, <3>4, <3>5 DEF OpenFds
    <3> QED
      BY <3>4, <3>5, <3>6, <3>7
  <2> QED
    BY <2>2, <2>3
<1>2. CASE sys_fork(p)
  <2>1. PICK c \in Proc : /\ pc[c] = "dead"
                          /\ fileTable' = [fileTable EXCEPT ![c] = fileTable[p]]
                          /\ ForkGoOn(p, c, OpenFds(p))
    BY <1>2 DEF sys_fork
  <2>2. pc[p] = "user" /\ ref_count' = ref_count /\ c # p
    BY <1>2, <2>1 DEF sys_fork, fields
  <2>3. /\ fileTable' \in [Proc -> [FD -> Obj \cup {NULL}]]
        /\ \A q \in Proc \ {c} : fileTable'[q] = fileTable[q] /\ fileTable'[c] = fileTable[p]
    BY <1>0, <2>1, SMT DEF CountTypes
  <2>4. fileTable'[c] = fileTable[p]
    BY <1>0, <2>1 DEF CountTypes
  <2>5. DOMAIN ref_count' = Obj /\ \A o \in Obj : Counted(o) => Counted(o)'
    BY <1>0, <2>2 DEF CountTypes, Counted
  <2>6. OpenFds(p) \subseteq OpenFds(p)
    OBVIOUS
  <2>7. /\ DOMAIN my' = Proc /\ MyType(my'[p])
        /\ \A q \in Proc \ {p} : my'[q] = my[q]
        /\ pc' \in [Proc -> Labels] /\ \A q \in Proc \ {p, c} : pc'[q] = pc[q]
        /\ \/ pc'[p] = "user" /\ pc'[c] = "user"
           \/ /\ pc'[p] = "fork_read" /\ pc'[c] = "born" /\ my'[p].child = c
              /\ fileTable[p][my'[p].fd] # NULL
    BY <1>1, <2>1, <2>2, <2>6
  <2> QED
    BY <2>1, <2>2, <2>3, <2>4, <2>5, <2>7, CountForkMoves
<1>3. CASE ForkInc(p)
  <2> DEFINE c == my[p].child
             rest == {fd \in OpenFds(p) : fd > my[p].fd}
             o == fileTable[p][my[p].fd]
             n == my[p].n + 1
  <2>1. pc[p] = "fork_inc" /\ ForkGoOn(p, c, rest) /\ ref_count' = [ref_count EXCEPT ![o] = n] /\ fileTable' = fileTable
    BY <1>3 DEF ForkInc
  <2>2. c \in Proc /\ pc[c] = "born" /\ rest \subseteq OpenFds(p) /\ c # p
    BY <1>0, <2>1 DEF MyType, Fine, Forking
  <2>3. n \in Nat /\ n > 0
    BY <1>0, <2>1, SMT DEF Fine
  <2>4. my[p].child = c
    OBVIOUS
  <2> HIDE DEF c, rest, o, n
  <2>5. DOMAIN ref_count' = Obj /\ \A x \in Obj : ref_count'[x] \in {n, ref_count[x]}
    BY <1>0, <2>1 DEF CountTypes
  <2>6. \A x \in Obj : Counted(x) => Counted(x)'
    BY <2>3, <2>5 DEF Counted
  <2>7. /\ DOMAIN my' = Proc /\ MyType(my'[p])
        /\ \A q \in Proc \ {p} : my'[q] = my[q]
        /\ pc' \in [Proc -> Labels] /\ \A q \in Proc \ {p, c} : pc'[q] = pc[q]
        /\ \/ pc'[p] = "user" /\ pc'[c] = "user"
           \/ /\ pc'[p] = "fork_read" /\ pc'[c] = "born" /\ my'[p].child = c
              /\ fileTable[p][my'[p].fd] # NULL
    BY <1>1, <2>1, <2>2
  <2>8. /\ fileTable' \in [Proc -> [FD -> Obj \cup {NULL}]]
        /\ \A q \in Proc : fileTable'[q] = fileTable[q]
    BY <1>0, <2>1 DEF CountTypes
  <2> QED
    BY <2>1, <2>2, <2>4, <2>5, <2>6, <2>7, <2>8, CountForkMoves, ZenonT(60)
<1> QED
  BY <1>2, <1>3

\* Every step keeps the counts positive.
LEMMA CountNext ==
    ASSUME CountInv, [Next]_vars
    PROVE  CountInv'
<1>1. ASSUME UNCHANGED <<fileTable, ref_count, pc, my>> PROVE CountInv'
  <2>1. CountTypes' /\ OneParent'
    BY <1>1 DEF CountInv, CountTypes, OneParent
  <2>2. ASSUME NEW p \in Proc PROVE Fine(p)'
    <3>1. Fine(p)
      BY DEF CountInv
    <3> QED
      BY <1>1, <3>1 DEF Fine, Counted
  <2> QED
    BY <2>1, <2>2 DEF CountInv
<1>2. CASE UNCHANGED vars
  BY <1>1, <1>2 DEF vars, fields
<1>3. ASSUME NEW p \in Proc, Call(p) PROVE CountInv'
  <2>1. CASE sys_execv(p) \/ sys_open(p) \/ sys_dup2(p) \/ Transfer(p) \/ sys_lseek(p)
    BY <2>1, CountSets
  <2>2. CASE sys__exit(p)
    BY <2>2, CountMoves
  <2>3. CASE sys_close(p) \/ Dup2Close(p)
    BY <2>3, CountCloses
  <2>4. CASE sys_fork(p)
    BY <2>4, CountForks
  <2> QED
    BY <1>3, <2>1, <2>2, <2>3, <2>4 DEF Call
<1>4. ASSUME NEW p \in Proc, KernelStep(p) PROVE CountInv'
  <2>1. CASE StartStream(p) \/ StartNoBlock(p)
    BY <2>1, CountStreams
  <2>2. CASE OpenFind(p) \/ XferStart(p) \/ ForkRead(p) \/ CloseShared(p)
    BY <2>2, CountSets
  <2>3. CASE OpenFill(p) \/ OpenNoLock(p)
    BY <2>3, CountFills
  <2>4. CASE OpenFd(p) \/ Dup2Read(p)
    BY <2>4, CountInstalls
  <2>5. CASE \/ OpenNoFd(p) \/ CloseFails(p) \/ CloseDestroy(p) \/ Dup2NoMemory(p) \/ XferRefused(p)
             \/ XferEnd(p) \/ SeekSet(p) \/ StartNoVnode(p)
    BY <2>5, CountReturns
  <2>6. CASE CloseClear(p) \/ CloseLock(p) \/ CloseLast(p) \/ ExitDone(p) \/ XferLock(p) \/ SeekLock(p)
    BY <2>6, CountMoves
  <2>7. CASE CloseDec(p)
    BY <2>7, CountDecrements
  <2>8. CASE close_all_files(p)
    BY <2>8, CountCloses
  <2>9. CASE ForkInc(p)
    BY <2>9, CountForks
  <2>10. CASE Dup2Write(p)
    BY <2>10, CountCopies
  <2>11. CASE OpenFull(p) \/ Dup2Null(p) \/ StatNull(p) \/ LockFault(p)
    BY <1>1, <2>11 DEF OpenFull, Dup2Null, StatNull, LockFault, Fail, fields
  <2> QED
    BY <1>4, <2>1, <2>2, <2>3, <2>4, <2>5, <2>6, <2>7, <2>8, <2>9, <2>10, <2>11 DEF KernelStep
<1> QED
  BY <1>2, <1>3, <1>4 DEF Next

\* sys_close: KASSERT(of->ref_count > 1) holds for the count that is decremented,
\* and no count of an openfile in use reaches zero, however many processes open,
\* duplicate, inherit and close files, and whichever increments are lost.
THEOREM CountsArePositive == Spec => []CountsPositive
<1>1. Init => CountInv
  <2> SUFFICES ASSUME Init PROVE CountInv
    OBVIOUS
  <2>1. \A p \in Proc : my[p] = Blank /\ pc[p] \in {"start", "dead"} /\ \A fd \in FD : fileTable[p][fd] = NULL
    BY DEF Init
  <2>2. {"start", "dead"} \subseteq Labels /\ {"start", "dead"} \cap (Busy \cup Forking) = {}
    BY DEF Labels, Busy, Holding, Forking
  <2>3. CountTypes
    BY <2>1, <2>2, BlankType, SMT DEF Init, CountTypes
  <2>4. \A p \in Proc : Fine(p)
    BY <2>1, <2>2 DEF Fine
  <2>5. OneParent
    BY <2>1, <2>2 DEF OneParent
  <2> QED
    BY <2>3, <2>4, <2>5 DEF CountInv
<1>2. CountInv /\ [Next]_vars => CountInv'
  BY CountNext
<1>3. CountInv => CountsPositive
  BY DEF CountInv, Fine, Counted, CountsPositive
<1> QED
  BY <1>1, <1>2, <1>3, PTL DEF Spec
=============================================================================
