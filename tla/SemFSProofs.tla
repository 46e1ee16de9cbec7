---------------------------- MODULE SemFSProofs ----------------------------
(***************************************************************************)
(* Proofs about SemFS, for any finite number of threads and semaphores and *)
(* any names.                                                              *)
(*                                                                         *)
(* The properties of SemFS are not inductive: they speak of the states in  *)
(* which nobody is half way through an operation, or of what the threads   *)
(* that have a file open rely on.  SemFSInv adds what every thread knows   *)
(* at each point of each operation, and for every semaphore of the table   *)
(* who will destroy it.                                                    *)
(***************************************************************************)
EXTENDS SemFS, FiniteSetTheorems, WellFoundedInduction, TLAPS

\* Zenon proves the leaves that need no arithmetic; the others name their prover.
USE ZenonT(30)

\* The positions of a thread: in a creation that has its semaphore, in a removal
\* that has unlinked it, with semfs_dirlock, in a call on the directory, in a
\* call on an open semaphore.
Vnode == {SEMFS_ROOTDIR} \cup Semnum
Creating == {"dent", "getvnode_new", "uninsert"}
Removing == {"hasvnode", "remove", "unlock"}
InDir == {"insert", "getvnode", "getsembynum", "unlink"} \cup Creating \cup Removing
InCall == {"dir", "dropdir"} \cup InDir
Using == {"read", "write", "truncate", "stat", "asleep"}
PC == {"out", "stopped", "reclaim", "reclaim_check"} \cup InCall \cup Using

\* The records of the threads and of the semaphores, and the tables.
ThType(r) ==
    /\ DOMAIN r = {"pc", "op", "name", "dir", "num", "sem", "resid", "vn", "fd"}
    /\ r.pc \in PC /\ r.name \in Name \cup {NULL} /\ r.dir \in BOOLEAN /\ r.num \in Vnode
    /\ r.sem \in Sem \cup {NULL} /\ r.resid \in 0 .. UINT_MAX /\ r.vn \subseteq Vnode
    /\ r.fd = {} \/ \E n \in Vnode : r.fd = {n}
SemType(r) ==
    /\ DOMAIN r = {"state", "lock", "count", "hasvnode", "linked"}
    /\ r.state \in {"fresh", "live", "destroyed"} /\ r.lock \in Thread \cup {NULL}
    /\ r.count \in 0 .. UINT_MAX /\ r.hasvnode \in BOOLEAN /\ r.linked \in BOOLEAN
TableTypes ==
    /\ sems \in Seq(Sem \cup {NULL}) /\ Len(sems) <= Cardinality(Sem)
    /\ dents \in Seq((Name \X Semnum) \cup {NoDent})
    /\ vnodes \in [Vnode -> Nat]
    /\ DOMAIN sem = Sem /\ \A s \in Sem : SemType(sem[s])
Types ==
    /\ TableTypes
    /\ DOMAIN th = Thread /\ \A t \in Thread : ThType(th[t])
    /\ {dirlock, tablelock} \subseteq Thread \cup {NULL}

\* semfs_dirlock is with the thread that is between its acquisition and its
\* release; semfs_tablelock is kept from one step to the next only by
\* semfs_reclaim.
Locks ==
    \A t \in Thread : /\ th[t].pc \in InDir => dirlock = t
                      /\ th[t].pc = "reclaim_check" <=> tablelock = t

\* The semaphore of number n, and whether it counts as linked.
SemAt(n) == IF n \in DOMAIN sems THEN sems[n] ELSE NULL
Linked(n) == SemAt(n) # NULL /\ sem[SemAt(n)].linked

\* Someone is about to look whether n is linked (semfs_reclaim), is creating or
\* removing n, or has a name in the directory whose semaphore is not linked.
Reclaimed(n) == \E v \in Thread : th[v].pc = "reclaim_check" /\ th[v].num = n
Busy(n) == \E v \in Thread : th[v].pc \in Creating \cup Removing /\ th[v].num = n
Unfinished(n) == \E v \in Thread : /\ dirlock = v /\ th[v].num = n
                                   /\ th[v].pc \in {"getvnode_new", "stopped"} \cup Removing

\* A slot holds a semaphore that is allocated, no two the same one, and every
\* allocated semaphore is in a slot.
Table ==
    /\ \A n \in Semnum : SemAt(n) # NULL => sem[SemAt(n)].state = "live"
    /\ \A m, n \in Semnum : SemAt(n) # NULL /\ SemAt(m) = SemAt(n) => m = n
    /\ \A s \in Sem : sem[s].state = "live" => \E n \in Semnum : SemAt(n) = s
    /\ \A s \in Sem : sem[s].state = "fresh" => ~sem[s].linked /\ ~sem[s].hasvnode

\* sems_hasvnode tells whether the semaphore's vnode is there.
HasVnodes ==
    \A n \in Semnum : /\ SemAt(n) = NULL => vnodes[n] = 0
                      /\ SemAt(n) # NULL => (sem[SemAt(n)].hasvnode <=> vnodes[n] # 0)

\* A name's semaphore is linked, but for the name the holder of semfs_dirlock is
\* dealing with; no two names are equal or mean the same semaphore.
Dents ==
    /\ \A i \in DOMAIN dents : dents[i] # NoDent => Linked(dents[i][2]) \/ Unfinished(dents[i][2])
    /\ \A i, j \in DOMAIN dents : dents[i] # NoDent /\ i # j => dents[i][1] # dents[j][1] /\ dents[i][2] # dents[j][2]

\* No semaphore leaks: each is named, open, or someone is about to decide.
Reachable ==
    \A n \in Semnum : SemAt(n) # NULL => Linked(n) \/ vnodes[n] # 0 \/ Busy(n) \/ Reclaimed(n)

\* The directory has an entry of that name and number.
HasDent(name, n) == \E i \in DOMAIN dents : dents[i] = <<name, n>>

\* What a thread holds at each position: the directory during a call on it, a
\* vnode's last reference on the way to semfs_reclaim, no file while it opens one.
Position(r) ==
    /\ r.pc \in InCall => r.dir /\ r.name \in Name
    /\ r.pc \notin InCall \cup {"stopped"} => ~r.dir
    /\ r.pc = "reclaim" => r.vn = {r.num}
    /\ r.pc \notin {"reclaim", "stopped"} => r.vn = {}
    /\ r.pc \in {"insert", "getvnode"} \cup Creating => r.fd = {}
    /\ r.pc = "dir" /\ r.op # "remove" => r.fd = {}

\* Between the two halves of semfs_reclaim the semaphore is there and its vnode
\* is not.
Checking(r) ==
    r.pc = "reclaim_check" => r.num \in Semnum /\ SemAt(r.num) # NULL /\ vnodes[r.num] = 0

\* A call on an open semaphore has that semaphore's pointer.
Uses(r) ==
    r.pc \in Using => \E m \in Semnum : r.fd = {m} /\ r.sem = SemAt(m) /\ SemAt(m) # NULL

\* With semfs_dirlock: what the scan found is still so, a creation's semaphore
\* is its own, and a removal's is unlinked and in the table unless semfs_reclaim
\* has destroyed it; one that was seen to have no vnode has none, and one that
\* was seen to have one is left to whoever closes it.
Directory(r) ==
    /\ r.pc \in {"insert", "dent"} => \A i \in DOMAIN dents : dents[i][1] # r.name
    /\ r.pc \in {"getsembynum", "unlink", "getvnode_new"} \cup Removing => HasDent(r.name, r.num)
    /\ r.pc \in InDir \ {"insert"} => r.num \in Semnum
    /\ r.pc \in {"getvnode", "getsembynum", "unlink"} => Linked(r.num)
    /\ r.pc = "unlink" => r.sem = SemAt(r.num)
    /\ r.pc \in Creating => /\ r.sem \in Sem /\ SemAt(r.num) = r.sem
                            /\ ~sem[r.sem].hasvnode /\ ~sem[r.sem].linked /\ ~Reclaimed(r.num)
    /\ r.pc \in Removing => /\ r.sem \in Sem
                            /\ \/ SemAt(r.num) = r.sem /\ sem[r.sem].state = "live" /\ ~sem[r.sem].linked
                               \/ SemAt(r.num) = NULL /\ sem[r.sem].state = "destroyed"
    /\ r.pc = "remove" /\ SemAt(r.num) = r.sem => ~sem[r.sem].hasvnode
    /\ r.pc = "unlock" /\ SemAt(r.num) = r.sem => sem[r.sem].hasvnode \/ Reclaimed(r.num)

\* The inductive invariant.
SemFSInv ==
    /\ Types /\ Locks /\ Table /\ HasVnodes /\ Dents /\ Reachable /\ VnodeRefs
    /\ \A t \in Thread : Position(th[t]) /\ Checking(th[t]) /\ Uses(th[t]) /\ Directory(th[t])

-----------------------------------------------------------------------------
(* Tables: Found, FreeSlot and Set *)

\* A set of numbers that is not empty has a least one.
LEMMA LeastNat ==
    ASSUME NEW S, S \subseteq Nat, S # {}
    PROVE  \E n \in S : \A m \in S : n <= m
<1>1. PICK x \in S : \A y \in S : ~(<<y, x>> \in OpToRel(<, Nat))
  BY NatLessThanWellFounded, WFMin
<1>2. \A y \in S : ~(y < x)
  BY <1>1 DEF OpToRel
<1> QED
  BY <1>2, SMTT(30)

\* The scan of semfs_dents: Found is 0 when no entry has the name, and else an
\* entry that has it.
LEMMA FoundIt ==
    ASSUME NEW name, dents \in Seq((Name \X Semnum) \cup {NoDent})
    PROVE  \/ Found(name) = 0 /\ \A i \in DOMAIN dents : dents[i][1] # name
           \/ Found(name) \in DOMAIN dents /\ dents[Found(name)][1] = name
<1> DEFINE I == {i \in DOMAIN dents : dents[i][1] = name}
<1>0. DOMAIN dents \subseteq Nat
  BY SMTT(30)
<1>1. Found(name) = IF I = {} THEN 0 ELSE Min(I)
  BY DEF Found
<1>2. CASE I # {}
  <2>1. I \subseteq Nat
    BY <1>0
  <2>2. \E n \in I : \A m \in I : n <= m
    BY <1>2, <2>1, LeastNat
  <2>3. Min(I) \in I
    BY <2>2 DEF Min
  <2> QED
    BY <1>1, <1>2, <2>3
<1>3. CASE I = {}
  BY <1>1, <1>3
<1> QED
  BY <1>2, <1>3

\* The search for a free slot finds one, or the slot after the last when all
\* are taken.
LEMMA FreeSlotIt ==
    ASSUME NEW S, NEW seq \in Seq(S), NEW null
    PROVE  \/ FreeSlot(seq, null) \in DOMAIN seq /\ seq[FreeSlot(seq, null)] = null
           \/ FreeSlot(seq, null) = Len(seq) + 1 /\ \A i \in DOMAIN seq : seq[i] # null
<1> DEFINE I == {i \in DOMAIN seq : seq[i] = null}
<1>0. DOMAIN seq \subseteq Nat
  BY SMTT(30)
<1>1. FreeSlot(seq, null) = IF I = {} THEN Len(seq) + 1 ELSE Min(I)
  BY DEF FreeSlot
<1>2. CASE I # {}
  <2>1. I \subseteq Nat
    BY <1>0
  <2>2. \E n \in I : \A m \in I : n <= m
    BY <1>2, <2>1, LeastNat
  <2>3. Min(I) \in I
    BY <2>2 DEF Min
  <2> QED
    BY <1>1, <1>2, <2>3
<1>3. CASE I = {}
  BY <1>1, <1>3
<1> QED
  BY <1>2, <1>3

\* Storing at a free slot: the sequence keeps the other elements.
MaySet(S, seq, i, x) == seq \in Seq(S) /\ x \in S /\ (i \in DOMAIN seq \/ i = Len(seq) + 1)
IsSet(S, seq, i, x, new) ==
    /\ new \in Seq(S) /\ DOMAIN new = DOMAIN seq \cup {i} /\ new[i] = x
    /\ \A j \in DOMAIN seq : j # i => new[j] = seq[j]

\* Set at such a slot stores the element there and nothing else.
LEMMA SetSlot ==
    ASSUME NEW S, NEW seq, NEW i, NEW x, MaySet(S, seq, i, x)
    PROVE  IsSet(S, seq, i, x, Set(seq, i, x))
<1>0. seq \in Seq(S) /\ x \in S /\ (i \in DOMAIN seq \/ i = Len(seq) + 1)
  BY DEF MaySet
<1>1. CASE i = Len(seq) + 1
  <2>1. Set(seq, i, x) = Append(seq, x)
    BY <1>0, <1>1, SMTT(30) DEF Set
  <2>2. Append(seq, x) \in Seq(S) /\ Len(Append(seq, x)) = Len(seq) + 1
    BY <1>0, SMTT(30)
  <2>3. DOMAIN Append(seq, x) = 1 .. Len(seq) + 1 /\ DOMAIN seq = 1 .. Len(seq) /\ Len(seq) \in Nat
    BY <1>0, <2>2, SMTT(30)
  <2>4. 1 .. Len(seq) + 1 = 1 .. Len(seq) \cup {i} /\ i \in 1 .. Len(seq) + 1
    BY <1>1, <2>3, SMTT(30)
  <2>5. Append(seq, x)[i] = x
    BY <1>0, <1>1, SMTT(30)
  <2>6. \A j \in 1 .. Len(seq) : Append(seq, x)[j] = seq[j]
    BY <1>0, SMTT(30)
  <2> QED
    BY <2>1, <2>2, <2>3, <2>4, <2>5, <2>6 DEF IsSet
<1>2. CASE i \in DOMAIN seq
  <2>1. Set(seq, i, x) = [seq EXCEPT ![i] = x]
    BY <1>0, <1>2, SMTT(30) DEF Set
  <2>2. [seq EXCEPT ![i] = x] \in Seq(S)
    BY <1>0, <1>2, SMTT(30)
  <2> QED
    <3>1. DOMAIN seq = DOMAIN seq \cup {i}
      BY <1>2
    <3> QED
      BY <1>2, <2>1, <2>2, <3>1 DEF IsSet
<1> QED
  BY <1>0, <1>1, <1>2

\* A number that is in use is the number of a slot of the table.
LEMMA SlotFacts ==
    ASSUME Types
    PROVE  /\ DOMAIN sems = 1 .. Len(sems) /\ DOMAIN sems \subseteq Semnum
           /\ Len(sems) \in Nat /\ Cardinality(Sem) \in Nat
           /\ \A n : SemAt(n) \in Sem \cup {NULL}
           /\ \A n : SemAt(n) # NULL => n \in DOMAIN sems /\ sems[n] = SemAt(n) /\ n \in Semnum
           /\ \A n \in DOMAIN sems : SemAt(n) = sems[n]
           /\ NULL \notin Sem /\ NULL \notin Thread /\ NULL \notin Name
<1>1. Cardinality(Sem) \in Nat
  BY FS_CardinalityType, SemFSAssumption
<1>2. sems \in Seq(Sem \cup {NULL}) /\ Len(sems) <= Cardinality(Sem)
  BY DEF Types, TableTypes
<1>3. DOMAIN sems = 1 .. Len(sems) /\ Len(sems) \in Nat /\ \A n \in DOMAIN sems : sems[n] \in Sem \cup {NULL}
  BY <1>2, SMTT(30)
<1>4. DOMAIN sems \subseteq Semnum
  BY <1>1, <1>2, <1>3, SMTT(30) DEF Semnum
<1> QED
  BY <1>1, <1>3, <1>4, SemFSAssumption DEF SemAt

\* The table has room for a semaphore that is not in it.
LEMMA RoomForIt ==
    ASSUME Types, Table, NEW s \in Sem, sem[s].state = "fresh"
    PROVE  FreeSlot(sems, NULL) \in Semnum
<1> DEFINE k == FreeSlot(sems, NULL)
<1>0. /\ DOMAIN sems = 1 .. Len(sems) /\ DOMAIN sems \subseteq Semnum
      /\ Len(sems) \in Nat /\ Cardinality(Sem) \in Nat
  BY SlotFacts
<1>1. sems \in Seq(Sem \cup {NULL})
  BY DEF Types, TableTypes
<1>2. \/ k \in DOMAIN sems
      \/ k = Len(sems) + 1 /\ \A i \in DOMAIN sems : sems[i] # NULL
  BY <1>1, FreeSlotIt
<1>3. CASE k = Len(sems) + 1 /\ \A i \in DOMAIN sems : sems[i] # NULL
  <2>1. \A i \in DOMAIN sems : sems[i] \in Sem \ {s}
    <3> SUFFICES ASSUME NEW i \in DOMAIN sems PROVE sems[i] \in Sem \ {s}
      OBVIOUS
    <3>1. SemAt(i) = sems[i] /\ SemAt(i) \in Sem \cup {NULL} /\ i \in Semnum /\ SemAt(i) # NULL
      BY <1>0, <1>3, SlotFacts
    <3>2. sem[SemAt(i)].state = "live"
      BY <3>1 DEF Table
    <3> QED
      BY <3>1, <3>2
  <2>2. \A i, j \in DOMAIN sems : sems[i] = sems[j] => i = j
    <3> SUFFICES ASSUME NEW i \in DOMAIN sems, NEW j \in DOMAIN sems, sems[i] = sems[j] PROVE i = j
      OBVIOUS
    <3>1. SemAt(i) = sems[i] /\ SemAt(j) = sems[j] /\ i \in Semnum /\ j \in Semnum /\ sems[i] # NULL
      BY <1>0, <1>3, SlotFacts
    <3> QED
      BY <3>1 DEF Table
  <2>3. sems \in [1 .. Len(sems) -> Sem \ {s}]
    BY <1>0, <1>1, <2>1, SMTT(30)
  <2>4. sems \in Injection(1 .. Len(sems), Sem \ {s})
    BY <1>0, <2>2, <2>3 DEF Injection, IsInjective
  <2>5. IsFiniteSet(Sem \ {s}) /\ Cardinality(Sem \ {s}) = Cardinality(Sem) - 1
    BY FS_RemoveElement, SemFSAssumption
  <2>6. Cardinality(1 .. Len(sems)) <= Cardinality(Sem \ {s})
    BY <2>4, <2>5, FS_Injection
  <2>7. Cardinality(1 .. Len(sems)) = IF 1 > Len(sems) THEN 0 ELSE Len(sems) - 1 + 1
    <3>1. 1 \in Int /\ Len(sems) \in Int
      BY <1>0, SMTT(30)
    <3> QED
      BY <3>1, FS_Interval
  <2> QED
    <3>1. k = Len(sems) + 1
      BY <1>3
    <3> HIDE DEF k
    <3>2. k \in Semnum
      BY <1>0, <2>5, <2>6, <2>7, <3>1, SMTT(30) DEF Semnum
    <3> QED
      BY <3>2 DEF k
<1> QED
  BY <1>0, <1>2, <1>3

-----------------------------------------------------------------------------
(* References *)

\* The ways in which a thread holds a reference to vnode n.
Holds(r, n) == {k \in 1 .. 3 : \/ k = 1 /\ n \in r.fd
                               \/ k = 2 /\ n = SEMFS_ROOTDIR /\ r.dir
                               \/ k = 3 /\ n \in r.vn}

\* Two sets of references with the same members are equal.
Pairs(A) == A \subseteq Thread \X (1 .. 3)
SameMembers(A, B) == \A u \in Thread, k \in 1 .. 3 : <<u, k>> \in A <=> <<u, k>> \in B

\* Two sets of such pairs with the same members are equal.
LEMMA PairsEqual ==
    ASSUME NEW A, NEW B, Pairs(A), Pairs(B), SameMembers(A, B)
    PROVE  A = B
<1> DEFINE T == 1 .. 3
<1>1. A \subseteq Thread \X T /\ B \subseteq Thread \X T /\ \A u \in Thread, k \in T : <<u, k>> \in A <=> <<u, k>> \in B
  BY DEF Pairs, SameMembers
<1> HIDE DEF T
<1> QED
  BY <1>1, SMTT(30)

\* The references to n, thread by thread; there are finitely many.
LEMMA RefsOf ==
    ASSUME NEW n
    PROVE  /\ \A u \in Thread, k \in 1 .. 3 : <<u, k>> \in Refs(n) <=> k \in Holds(th[u], n)
           /\ Pairs(Refs(n))
           /\ IsFiniteSet(Refs(n)) /\ Cardinality(Refs(n)) \in Nat
<1>1. \A u \in Thread, k \in 1 .. 3 : <<u, k>> \in Refs(n) <=> k \in Holds(th[u], n)
  BY SMTT(30) DEF Refs, Holds
<1>2. IsFiniteSet(1 .. 3)
  <2>1. 1 \in Int /\ 3 \in Int
    BY SMTT(30)
  <2> QED
    BY <2>1, FS_Interval
<1>3. IsFiniteSet(Thread \X (1 .. 3))
  BY <1>2, FS_Product, SemFSAssumption
<1>4. Refs(n) \in SUBSET (Thread \X (1 .. 3))
  BY DEF Refs
<1>5. IsFiniteSet(Refs(n))
  BY <1>3, <1>4, FS_Subset
<1> QED
  BY <1>1, <1>4, <1>5, FS_CardinalityType DEF Pairs

\* A vnode that a thread holds a reference to is counted.
LEMMA HeldIsCounted ==
    ASSUME Types, VnodeRefs, NEW t \in Thread, NEW n \in Vnode, Holds(th[t], n) # {}
    PROVE  vnodes[n] # 0
<1>1. PICK k \in 1 .. 3 : k \in Holds(th[t], n)
  BY DEF Holds
<1>2. <<t, k>> \in Refs(n)
  BY <1>1, RefsOf
<1>3. Cardinality(Refs(n)) # 0
  BY <1>2, RefsOf, FS_EmptySet
<1>4. vnodes[n] = Cardinality(Refs(n))
  BY DEF VnodeRefs, Types, TableTypes
<1> QED
  BY <1>3, <1>4

\* What the set of references becomes when one thread's record changes.
LEMMA RefsMove ==
    ASSUME Types, NEW t \in Thread, NEW r, th' = [th EXCEPT ![t] = r], NEW n
    PROVE  /\ \A k \in 1 .. 3 : <<t, k>> \in Refs(n)' <=> k \in Holds(r, n)
           /\ \A u \in Thread, k \in 1 .. 3 : u # t => (<<u, k>> \in Refs(n)' <=> <<u, k>> \in Refs(n))
           /\ Pairs(Refs(n)')
<1>1. DOMAIN th = Thread
  BY DEF Types, TableTypes
<1>2. \A u \in Thread, k \in 1 .. 3 : <<u, k>> \in Refs(n)' <=> k \in Holds(th'[u], n)
  BY SMTT(30) DEF Refs, Holds
<1>3. \A u \in Thread, k \in 1 .. 3 : <<u, k>> \in Refs(n) <=> k \in Holds(th[u], n)
  BY RefsOf
<1>4. th'[t] = r /\ \A u \in Thread : u # t => th'[u] = th[u]
  BY <1>1
<1>5. Pairs(Refs(n)')
  BY DEF Refs, Pairs
<1> QED
  BY <1>2, <1>3, <1>4, <1>5

\* A step that leaves the references of every thread alone.
LEMMA RefsKept ==
    ASSUME Types, VnodeRefs, vnodes' = vnodes, DOMAIN th' = Thread,
           \A u \in Thread : th'[u].fd = th[u].fd /\ th'[u].dir = th[u].dir /\ th'[u].vn = th[u].vn
    PROVE  VnodeRefs'
<1>1. \A n : Refs(n)' = Refs(n)
  BY DEF Refs
<1> QED
  BY <1>1 DEF VnodeRefs

\* One thread moves and keeps what it holds.
LEMMA RefsKeptOne ==
    ASSUME Types, VnodeRefs, vnodes' = vnodes, NEW t \in Thread, NEW r, th' = [th EXCEPT ![t] = r],
           r.fd = th[t].fd, r.dir = th[t].dir, r.vn = th[t].vn
    PROVE  VnodeRefs'
<1>1. DOMAIN th = Thread
  BY DEF Types
<1>2. DOMAIN th' = Thread /\ th'[t] = r /\ \A u \in Thread : u # t => th'[u] = th[u]
  BY <1>1
<1> QED
  BY <1>2, RefsKept

\* One thread gains one reference, to vnode n.
Gains(r, s, n, k) ==
    /\ k \in 1 .. 3 /\ k \notin Holds(r, n) /\ Holds(s, n) = Holds(r, n) \cup {k}
    /\ \A m \in Vnode : m # n => Holds(s, m) = Holds(r, m)

\* A thread that moves without gaining or losing n leaves the references to
\* n.
LEMMA RefsSame ==
    ASSUME Types, NEW t \in Thread, NEW r, th' = [th EXCEPT ![t] = r], NEW n, Holds(r, n) = Holds(th[t], n)
    PROVE  Refs(n)' = Refs(n)
<1>1. \A k \in 1 .. 3 : <<t, k>> \in Refs(n) <=> k \in Holds(th[t], n)
  BY RefsOf
<1>2. SameMembers(Refs(n)', Refs(n))
  BY <1>1, RefsMove DEF SameMembers
<1>3. Pairs(Refs(n)) /\ Pairs(Refs(n)')
  BY RefsOf, RefsMove
<1> QED
  BY <1>2, <1>3, PairsEqual

\* One way more, in which a thread holds a reference to n.
LEMMA RefsMore ==
    ASSUME Types, NEW t \in Thread, NEW r, th' = [th EXCEPT ![t] = r], NEW n, NEW k \in 1 .. 3,
           k \notin Holds(th[t], n), Holds(r, n) = Holds(th[t], n) \cup {k}
    PROVE  Refs(n)' = Refs(n) \cup {<<t, k>>} /\ <<t, k>> \notin Refs(n)
<1>1. \A l \in 1 .. 3 : <<t, l>> \in Refs(n) <=> l \in Holds(th[t], n)
  BY RefsOf
<1>2. /\ \A l \in 1 .. 3 : <<t, l>> \in Refs(n)' <=> l \in Holds(r, n)
      /\ \A u \in Thread, l \in 1 .. 3 : u # t => (<<u, l>> \in Refs(n)' <=> <<u, l>> \in Refs(n))
  BY RefsMove
<1> DEFINE R == Refs(n) \cup {<<t, k>>}
<1>3. SameMembers(Refs(n)', R)
  <2> SUFFICES ASSUME NEW u \in Thread, NEW l \in 1 .. 3
               PROVE  <<u, l>> \in Refs(n)' <=> <<u, l>> \in R
    BY DEF SameMembers
  <2>1. (<<u, l>> = <<t, k>> <=> u = t /\ l = k)
    OBVIOUS
  <2>2. CASE u = t
    BY <1>1, <1>2, <2>1, <2>2
  <2>3. CASE u # t
    BY <1>2, <2>1, <2>3
  <2> QED
    BY <2>2, <2>3
<1>4. Pairs(R) /\ Pairs(Refs(n)')
  BY RefsOf, RefsMove DEF Pairs
<1> QED
  BY <1>1, <1>3, <1>4, PairsEqual

\* One way fewer.
LEMMA RefsFewer ==
    ASSUME Types, NEW t \in Thread, NEW r, th' = [th EXCEPT ![t] = r], NEW n, NEW k \in 1 .. 3,
           k \notin Holds(r, n), Holds(th[t], n) = Holds(r, n) \cup {k}
    PROVE  Refs(n)' = Refs(n) \ {<<t, k>>} /\ <<t, k>> \in Refs(n)
<1>1. \A l \in 1 .. 3 : <<t, l>> \in Refs(n) <=> l \in Holds(th[t], n)
  BY RefsOf
<1>2. /\ \A l \in 1 .. 3 : <<t, l>> \in Refs(n)' <=> l \in Holds(r, n)
      /\ \A u \in Thread, l \in 1 .. 3 : u # t => (<<u, l>> \in Refs(n)' <=> <<u, l>> \in Refs(n))
  BY RefsMove
<1> DEFINE R == Refs(n) \ {<<t, k>>}
<1>3. SameMembers(Refs(n)', R)
  <2> SUFFICES ASSUME NEW u \in Thread, NEW l \in 1 .. 3
               PROVE  <<u, l>> \in Refs(n)' <=> <<u, l>> \in R
    BY DEF SameMembers
  <2>1. (<<u, l>> = <<t, k>> <=> u = t /\ l = k)
    OBVIOUS
  <2>2. CASE u = t
    BY <1>1, <1>2, <2>1, <2>2
  <2>3. CASE u # t
    BY <1>2, <2>1, <2>3
  <2> QED
    BY <2>2, <2>3
<1>4. Pairs(R) /\ Pairs(Refs(n)')
  BY RefsOf, RefsMove DEF Pairs
<1> QED
  BY <1>1, <1>3, <1>4, PairsEqual

\* One way for another.
LEMMA RefsSwap ==
    ASSUME Types, NEW t \in Thread, NEW r, th' = [th EXCEPT ![t] = r], NEW n, NEW k, NEW l, NEW s,
           Gains(s, th[t], n, k), Gains(s, r, n, l)
    PROVE  /\ Refs(n)' = (Refs(n) \ {<<t, k>>}) \cup {<<t, l>>}
           /\ <<t, k>> \in Refs(n) /\ <<t, l>> \notin Refs(n) \ {<<t, k>>}
<1>0. /\ k \in 1 .. 3 /\ k \notin Holds(s, n) /\ Holds(th[t], n) = Holds(s, n) \cup {k}
      /\ l \in 1 .. 3 /\ l \notin Holds(s, n) /\ Holds(r, n) = Holds(s, n) \cup {l}
  BY DEF Gains
<1>1. \A i \in 1 .. 3 : <<t, i>> \in Refs(n) <=> i \in Holds(th[t], n)
  BY RefsOf
<1>2. /\ \A i \in 1 .. 3 : <<t, i>> \in Refs(n)' <=> i \in Holds(r, n)
      /\ \A u \in Thread, i \in 1 .. 3 : u # t => (<<u, i>> \in Refs(n)' <=> <<u, i>> \in Refs(n))
  BY RefsMove
<1> DEFINE R == (Refs(n) \ {<<t, k>>}) \cup {<<t, l>>}
<1>3. SameMembers(Refs(n)', R)
  <2> SUFFICES ASSUME NEW u \in Thread, NEW i \in 1 .. 3
               PROVE  <<u, i>> \in Refs(n)' <=> <<u, i>> \in R
    BY DEF SameMembers
  <2>1. (<<u, i>> = <<t, k>> <=> u = t /\ i = k) /\ (<<u, i>> = <<t, l>> <=> u = t /\ i = l)
    OBVIOUS
  <2>2. CASE u = t
    BY <1>0, <1>1, <1>2, <2>1, <2>2
  <2>3. CASE u # t
    BY <1>2, <2>1, <2>3
  <2> QED
    BY <2>2, <2>3
<1>4. Pairs(R) /\ Pairs(Refs(n)')
  BY <1>0, RefsOf, RefsMove DEF Pairs
<1>5. Refs(n)' = R
  BY <1>3, <1>4, PairsEqual
<1>6. k # l => <<t, l>> \notin Refs(n)
  BY <1>0, <1>1
<1> QED
  BY <1>0, <1>1, <1>5, <1>6

\* A reference taken and the count raised by one keep them equal.
LEMMA RefGained ==
    ASSUME Types, VnodeRefs, NEW t \in Thread, NEW r, th' = [th EXCEPT ![t] = r],
           NEW n \in Vnode, NEW k, Gains(th[t], r, n, k), vnodes' = [vnodes EXCEPT ![n] = @ + 1]
    PROVE  VnodeRefs'
<1> SUFFICES ASSUME NEW m \in Vnode PROVE vnodes'[m] = Cardinality(Refs(m)')
  BY DEF VnodeRefs, Types, TableTypes
<1>1. vnodes[m] = Cardinality(Refs(m)) /\ DOMAIN vnodes = Vnode
  BY DEF VnodeRefs, Types, TableTypes
<1>2. CASE m = n
  <2>1. Refs(n)' = Refs(n) \cup {<<t, k>>} /\ <<t, k>> \notin Refs(n)
    BY RefsMore DEF Gains
  <2>2. Cardinality(Refs(n)') = Cardinality(Refs(n)) + 1
    BY <2>1, RefsOf, FS_AddElement
  <2> QED
    BY <1>1, <1>2, <2>2
<1>3. CASE m # n
  BY <1>1, <1>3, RefsSame DEF Gains
<1> QED
  BY <1>2, <1>3

\* A reference dropped and the count lowered by one keep them equal.
LEMMA RefLost ==
    ASSUME Types, VnodeRefs, NEW t \in Thread, NEW r, th' = [th EXCEPT ![t] = r],
           NEW n \in Vnode, NEW k, Gains(r, th[t], n, k), vnodes' = [vnodes EXCEPT ![n] = @ - 1]
    PROVE  VnodeRefs'
<1> SUFFICES ASSUME NEW m \in Vnode PROVE vnodes'[m] = Cardinality(Refs(m)')
  BY DEF VnodeRefs, Types, TableTypes
<1>1. vnodes[m] = Cardinality(Refs(m)) /\ DOMAIN vnodes = Vnode
  BY DEF VnodeRefs, Types, TableTypes
<1>2. CASE m = n
  <2>1. Refs(n)' = Refs(n) \ {<<t, k>>} /\ <<t, k>> \in Refs(n)
    BY RefsFewer DEF Gains
  <2>2. Cardinality(Refs(n)') = Cardinality(Refs(n)) - 1
    BY <2>1, RefsOf, FS_RemoveElement
  <2> QED
    BY <1>1, <1>2, <2>2
<1>3. CASE m # n
  BY <1>1, <1>3, RefsSame DEF Gains
<1> QED
  BY <1>2, <1>3

\* vnode_decref of the last reference: the thread keeps it in another way.
LEMMA RefMoved ==
    ASSUME Types, VnodeRefs, NEW t \in Thread, NEW r, th' = [th EXCEPT ![t] = r], vnodes' = vnodes,
           NEW n \in Vnode, NEW k, NEW l, NEW s, Gains(s, th[t], n, k), Gains(s, r, n, l)
    PROVE  VnodeRefs'
<1> SUFFICES ASSUME NEW m \in Vnode PROVE vnodes'[m] = Cardinality(Refs(m)')
  BY DEF VnodeRefs, Types, TableTypes
<1>1. vnodes[m] = Cardinality(Refs(m)) /\ DOMAIN vnodes = Vnode
  BY DEF VnodeRefs, Types, TableTypes
<1>2. CASE m = n
  <2>4. /\ Refs(n)' = (Refs(n) \ {<<t, k>>}) \cup {<<t, l>>}
        /\ <<t, k>> \in Refs(n) /\ <<t, l>> \notin Refs(n) \ {<<t, k>>}
    BY RefsSwap
  <2>5. IsFiniteSet(Refs(n) \ {<<t, k>>}) /\ Cardinality(Refs(n) \ {<<t, k>>}) = Cardinality(Refs(n)) - 1
    BY <2>4, RefsOf, FS_RemoveElement
  <2>7. Cardinality(Refs(n)') = Cardinality(Refs(n) \ {<<t, k>>}) + 1
    BY <2>4, <2>5, FS_AddElement
  <2>8. Cardinality(Refs(n)) \in Nat
    BY RefsOf
  <2>9. Cardinality(Refs(n)') = Cardinality(Refs(n))
    BY <2>5, <2>7, <2>8, SMTT(30)
  <2> QED
    BY <1>1, <1>2, <2>9
<1>3. CASE m # n
  BY <1>1, <1>3, RefsSame DEF Gains
<1> QED
  BY <1>2, <1>3

-----------------------------------------------------------------------------
(* Steps that change no slot of the table *)

Quiet ==
    /\ sems' = sems
    /\ \A s \in Sem : /\ sem'[s].state = sem[s].state /\ sem'[s].linked = sem[s].linked
                      /\ sem'[s].hasvnode = sem[s].hasvnode
    /\ \A n \in Semnum : vnodes'[n] = 0 <=> vnodes[n] = 0

\* A quiet step keeps the slots, what is linked and who has a vnode.
LEMMA QuietTable ==
    ASSUME Types, Table, HasVnodes, Quiet
    PROVE  /\ Table' /\ HasVnodes'
           /\ \A n : SemAt(n)' = SemAt(n) /\ (Linked(n)' <=> Linked(n))
<1>1. \A n : SemAt(n)' = SemAt(n)
  BY DEF Quiet, SemAt
<1>2. \A n : SemAt(n) \in Sem \cup {NULL}
  BY SlotFacts
<1>3. \A n : Linked(n)' <=> Linked(n)
  <2> SUFFICES ASSUME NEW n PROVE Linked(n)' <=> Linked(n)
    OBVIOUS
  <2>1. SemAt(n)' = SemAt(n) /\ (SemAt(n) # NULL => SemAt(n) \in Sem)
    BY <1>1, <1>2
  <2> QED
    BY <2>1 DEF Quiet, Linked
<1>4. Table'
  BY <1>1, <1>2 DEF Quiet, Table
<1>5. HasVnodes'
  BY <1>1, <1>2 DEF Quiet, HasVnodes
<1> QED
  BY <1>1, <1>3, <1>4, <1>5

\* What a thread in the directory knows stays true.
LEMMA DirectoryKept ==
    ASSUME NEW r, Directory(r), Quiet, dents' = dents,
           \A n : SemAt(n)' = SemAt(n) /\ (Linked(n)' <=> Linked(n)),
           \A n : Reclaimed(n)' <=> Reclaimed(n)
    PROVE  Directory(r)'
<1>1. r.sem \in Sem => /\ sem'[r.sem].state = sem[r.sem].state /\ sem'[r.sem].linked = sem[r.sem].linked
                       /\ sem'[r.sem].hasvnode = sem[r.sem].hasvnode
  BY DEF Quiet
<1>2. HasDent(r.name, r.num)' <=> HasDent(r.name, r.num)
  BY DEF HasDent
<1>3. SemAt(r.num)' = SemAt(r.num) /\ (Linked(r.num)' <=> Linked(r.num)) /\ (Reclaimed(r.num)' <=> Reclaimed(r.num))
  OBVIOUS
<1>4. r.pc \in {"remove", "unlock"} => r.pc \in Removing
  BY DEF Removing
<1> QED
  BY <1>1, <1>2, <1>3, <1>4 DEF Directory

\* A step outside semfs_dirlock: the threads that move were, and are, neither
\* in the directory nor at the second half of semfs_reclaim.
MovesOutside(u) ==
    /\ th[u].pc \notin InDir \cup {"reclaim_check", "stopped"} /\ th'[u].pc \notin InDir \cup {"reclaim_check"}
    /\ ThType(th'[u]) /\ Position(th'[u]) /\ Uses(th[u])'

\* Threads that neither have semfs_dirlock nor reclaim keep the invariant.
LEMMA OutsideStep ==
    ASSUME SemFSInv, Quiet, dents' = dents, dirlock' = dirlock, tablelock' = tablelock,
           VnodeRefs', TableTypes', DOMAIN th' = Thread,
           \A u \in Thread : th'[u] = th[u] \/ MovesOutside(u)
    PROVE  SemFSInv'
<1>0. Types /\ Locks /\ Table /\ HasVnodes /\ Dents /\ Reachable
  BY DEF SemFSInv
<1>a. /\ Table' /\ HasVnodes'
      /\ \A n : SemAt(n)' = SemAt(n) /\ (Linked(n)' <=> Linked(n))
  BY <1>0, QuietTable
<1>b. \A n : SemAt(n) \in Sem \cup {NULL}
  BY <1>0, SlotFacts
<1>1. Types'
  BY <1>0 DEF Types, MovesOutside
<1>2. Locks'
  <2> SUFFICES ASSUME NEW u \in Thread
               PROVE (th'[u].pc \in InDir => dirlock' = u) /\ (th'[u].pc = "reclaim_check" <=> tablelock' = u)
    BY DEF Locks
  <2>1. CASE th'[u] = th[u]
    BY <1>0, <2>1 DEF Locks
  <2>2. CASE MovesOutside(u)
    BY <1>0, <2>2 DEF Locks, MovesOutside
  <2> QED
    BY <2>1, <2>2
<1>3. \A n : Reclaimed(n)' <=> Reclaimed(n)
  BY DEF Reclaimed, MovesOutside
<1>4. \A n : Busy(n) => Busy(n)'
  BY DEF Busy, MovesOutside, InDir
<1>5. \A n : Unfinished(n) => Unfinished(n)'
  BY DEF Unfinished, MovesOutside, InDir, Creating
<1>6. Dents'
  BY <1>0, <1>a, <1>5 DEF Dents
<1>7. Reachable'
  BY <1>0, <1>a, <1>3, <1>4 DEF Reachable, Quiet
<1>8. ASSUME NEW u \in Thread
      PROVE  Position(th'[u]) /\ Checking(th[u])' /\ Uses(th[u])' /\ Directory(th[u])'
  <2>0. Position(th[u]) /\ Checking(th[u]) /\ Uses(th[u]) /\ Directory(th[u])
    BY DEF SemFSInv
  <2>1. CASE th'[u] = th[u]
    <3>1. Checking(th[u])'
      BY <1>a, <2>0, <2>1 DEF Checking, Quiet
    <3>2. Uses(th[u])'
      BY <1>a, <2>0, <2>1 DEF Uses
    <3>3. PICK r : r = th[u]
      OBVIOUS
    <3>4. Directory(r)'
      BY <1>a, <1>3, <2>0, <3>3, DirectoryKept
    <3>5. Directory(th[u])'
      BY <2>1, <3>3, <3>4
    <3> QED
      BY <2>0, <2>1, <3>1, <3>2, <3>5
  <2>2. CASE MovesOutside(u)
    <3>1. Directory(th[u])'
      BY <2>2 DEF MovesOutside, Directory, InDir, Creating, Removing
    <3> QED
      BY <2>2, <3>1 DEF MovesOutside, Checking
  <2> QED
    BY <2>1, <2>2
<1> QED
  BY <1>a, <1>1, <1>2, <1>6, <1>7, <1>8 DEF SemFSInv

\* The same, when one thread moves.
LEMMA OutsideOne ==
    ASSUME SemFSInv, Quiet, dents' = dents, dirlock' = dirlock, tablelock' = tablelock,
           VnodeRefs', TableTypes', NEW t \in Thread, NEW r, th' = [th EXCEPT ![t] = r],
           th[t].pc \notin InDir \cup {"reclaim_check", "stopped"}, r.pc \notin InDir \cup {"reclaim_check"},
           ThType(r), Position(r), Uses(r)
    PROVE  SemFSInv'
<1>1. DOMAIN th = Thread /\ Types /\ Table /\ HasVnodes
  BY DEF SemFSInv, Types
<1>2. DOMAIN th' = Thread /\ th'[t] = r /\ \A u \in Thread : u # t => th'[u] = th[u]
  BY <1>1
<1>3. \A n : SemAt(n)' = SemAt(n)
  BY <1>1, QuietTable
<1>4. Uses(r)'
  BY <1>3 DEF Uses
<1>5. MovesOutside(t)
  BY <1>2, <1>4 DEF MovesOutside
<1> QED
  BY <1>2, <1>5, OutsideStep

-----------------------------------------------------------------------------
(* Records *)

\* The record of a thread that is not in the module.
LEMMA OutRecord ==
    ASSUME NEW fd, fd = {} \/ \E n \in Vnode : fd = {n}
    PROVE  /\ ThType(Out(fd)) /\ Position(Out(fd)) /\ Uses(Out(fd))
           /\ Out(fd).pc = "out" /\ Out(fd).fd = fd /\ ~Out(fd).dir /\ Out(fd).vn = {}
<1> DEFINE r == Out(fd)
<1>1. /\ DOMAIN r = {"pc", "op", "name", "dir", "num", "sem", "resid", "vn", "fd"}
      /\ r.pc = "out" /\ r.name = NULL /\ r.dir = FALSE /\ r.num = 0 /\ r.sem = NULL /\ r.resid = 0
      /\ r.vn = {} /\ r.fd = fd
  BY DEF Out
<1>2. 0 \in Vnode /\ 0 \in 0 .. UINT_MAX
  BY SemFSAssumption, SMTT(30) DEF Vnode, SEMFS_ROOTDIR
<1> HIDE DEF r
<1>3. ThType(r)
  BY <1>1, <1>2 DEF ThType, PC
<1>4. Position(r) /\ Uses(r)
  BY <1>1 DEF Position, Uses, InCall, InDir, Creating, Removing, Using
<1> QED
  BY <1>1, <1>3, <1>4 DEF r

\* The record of a thread that returns to user level.
LEMMA ReturnRecord ==
    ASSUME NEW q, ThType(q), NEW r, r = Out(q.fd)
    PROVE  /\ ThType(r) /\ Position(r) /\ Uses(r)
           /\ r.pc = "out" /\ ~r.dir /\ r.vn = {} /\ r.fd = q.fd /\ r.dir \in BOOLEAN
<1>1. q.fd = {} \/ \E m \in Vnode : q.fd = {m}
  BY DEF ThType
<1>2. /\ ThType(r) /\ Position(r) /\ Uses(r)
      /\ r.pc = "out" /\ ~r.dir /\ r.vn = {} /\ r.fd = q.fd
  BY <1>1, OutRecord
<1> QED
  BY <1>2 DEF ThType

\* A record in which only the position changes.
LEMMA PcRecord ==
    ASSUME NEW r, ThType(r), NEW pc \in PC
    PROVE  LET s == [r EXCEPT !.pc = pc]
           IN  /\ ThType(s) /\ s.pc = pc /\ s.op = r.op /\ s.name = r.name /\ s.dir = r.dir /\ s.num = r.num
               /\ s.sem = r.sem /\ s.vn = r.vn /\ s.fd = r.fd
<1> DEFINE s == [r EXCEPT !.pc = pc]
<1>1. DOMAIN r = {"pc", "op", "name", "dir", "num", "sem", "resid", "vn", "fd"}
  BY DEF ThType
<1>2. /\ DOMAIN s = DOMAIN r /\ s.pc = pc /\ s.op = r.op /\ s.name = r.name /\ s.dir = r.dir /\ s.num = r.num
      /\ s.sem = r.sem /\ s.resid = r.resid /\ s.vn = r.vn /\ s.fd = r.fd
  BY <1>1, SMTT(30)
<1> HIDE DEF s
<1>3. ThType(s)
  BY <1>2 DEF ThType
<1> QED
  BY <1>2, <1>3 DEF s

\* One thread leaves for good.
LEMMA StopRecord ==
    ASSUME NEW r, ThType(r)
    PROVE  LET s == [r EXCEPT !.pc = "stopped"]
           IN  /\ ThType(s) /\ Position(s) /\ Uses(s)
               /\ s.pc = "stopped" /\ s.num = r.num /\ s.dir = r.dir /\ s.vn = r.vn /\ s.fd = r.fd
<1> DEFINE s == [r EXCEPT !.pc = "stopped"]
<1>1. ThType(s) /\ s.pc = "stopped" /\ s.num = r.num /\ s.dir = r.dir /\ s.vn = r.vn /\ s.fd = r.fd
  <2>1. "stopped" \in PC
    BY DEF PC
  <2> QED
    BY <2>1, PcRecord
<1> HIDE DEF s
<1>2. Position(s) /\ Uses(s)
  BY <1>1 DEF Position, Uses, InCall, InDir, Creating, Removing, Using
<1> QED
  BY <1>1, <1>2 DEF s

\* The tables are as they were.
LEMMA SameTables ==
    ASSUME Types, sems' = sems, dents' = dents, vnodes' = vnodes, sem' = sem
    PROVE  TableTypes' /\ Quiet
BY DEF Types, TableTypes, Quiet

-----------------------------------------------------------------------------
(* The actions outside semfs_dirlock *)

\* A panic, or what follows the use of freed memory.
LEMMA StopStep ==
    ASSUME SemFSInv, NEW t \in Thread, th[t].pc \in {"out", "dropdir"}, th' = [th EXCEPT ![t].pc = "stopped"],
           sems' = sems, dents' = dents, vnodes' = vnodes, sem' = sem, dirlock' = dirlock, tablelock' = tablelock
    PROVE  SemFSInv'
<1>1. Types /\ VnodeRefs /\ ThType(th[t]) /\ DOMAIN th = Thread
  BY DEF SemFSInv, Types
<1> DEFINE r == [th[t] EXCEPT !.pc = "stopped"]
<1>2. th' = [th EXCEPT ![t] = r]
  OBVIOUS
<1>3. /\ ThType(r) /\ Position(r) /\ Uses(r)
      /\ r.pc = "stopped" /\ r.dir = th[t].dir /\ r.vn = th[t].vn /\ r.fd = th[t].fd
  BY <1>1, StopRecord
<1> HIDE DEF r
<1>4. TableTypes' /\ Quiet
  BY <1>1, SameTables
<1>5. VnodeRefs'
  BY <1>1, <1>2, <1>3, RefsKeptOne
<1>6. th[t].pc \notin InDir \cup {"reclaim_check", "stopped"} /\ r.pc \notin InDir \cup {"reclaim_check"}
  BY <1>3 DEF InDir, Creating, Removing
<1> QED
  BY <1>2, <1>3, <1>4, <1>5, <1>6, OutsideOne

\* semfs_getdirentry at a NULL entry: the panic changes nothing else.
LEMMA GetdirentryStep ==
    ASSUME SemFSInv, NEW t \in Thread, semfs_getdirentry(t)
    PROVE  SemFSInv'
BY StopStep DEF semfs_getdirentry

\* A thread returns from what it does with its open file.
LEMMA ReturnStep ==
    ASSUME SemFSInv, Quiet, TableTypes', dents' = dents, dirlock' = dirlock, tablelock' = tablelock,
           vnodes' = vnodes, NEW t \in Thread, th[t].pc \in Using, th' = [th EXCEPT ![t] = Out(th[t].fd)]
    PROVE  SemFSInv'
<1>1. Types /\ VnodeRefs /\ ThType(th[t]) /\ Position(th[t])
  BY DEF SemFSInv, Types
<1>2. PICK r : r = Out(th[t].fd)
  OBVIOUS
<1>3. /\ ThType(r) /\ Position(r) /\ Uses(r)
      /\ r.pc = "out" /\ ~r.dir /\ r.vn = {} /\ r.fd = th[t].fd /\ r.dir \in BOOLEAN
  BY <1>1, <1>2, ReturnRecord
<1>4. ~th[t].dir /\ th[t].vn = {} /\ th[t].dir \in BOOLEAN
  BY <1>1 DEF Position, ThType, Using, InCall, InDir, Creating, Removing
<1>5. VnodeRefs'
  BY <1>1, <1>2, <1>3, <1>4, RefsKeptOne
<1>6. th[t].pc \notin InDir \cup {"reclaim_check", "stopped"} /\ r.pc \notin InDir \cup {"reclaim_check"}
  BY <1>3 DEF InDir, Creating, Removing, Using
<1> QED
  BY <1>2, <1>3, <1>5, <1>6, OutsideOne

\* semfs_semstat only reads.
LEMMA SemstatStep ==
    ASSUME SemFSInv, NEW t \in Thread, semfs_semstat(t)
    PROVE  SemFSInv'
<1>0. /\ th[t].pc = "stat" /\ th' = [th EXCEPT ![t] = Out(th[t].fd)]
      /\ sems' = sems /\ dents' = dents /\ vnodes' = vnodes /\ sem' = sem
      /\ dirlock' = dirlock /\ tablelock' = tablelock
  BY DEF semfs_semstat
<1>4. TableTypes' /\ Quiet
  BY <1>0, SameTables DEF SemFSInv
<1> QED
  BY <1>0, <1>4, ReturnStep DEF Using

\* A thread that uses its open semaphore has a pointer to a live one.
LEMMA UsesLive ==
    ASSUME SemFSInv, NEW t \in Thread, th[t].pc \in Using
    PROVE  th[t].sem \in Sem /\ th[t].resid \in 0 .. UINT_MAX /\ SemType(sem[th[t].sem])
<1>1. Types /\ Uses(th[t]) /\ ThType(th[t])
  BY DEF SemFSInv, Types
<1>2. th[t].sem # NULL /\ th[t].sem \in Sem \cup {NULL} /\ th[t].resid \in 0 .. UINT_MAX
  BY <1>1 DEF Uses, ThType
<1> QED
  BY <1>1, <1>2 DEF Types, TableTypes

\* A new count for a semaphore.
LEMMA CountOnly ==
    ASSUME Types, NEW s \in Sem, NEW c \in 0 .. UINT_MAX, sem' = [sem EXCEPT ![s].count = c],
           sems' = sems, dents' = dents, vnodes' = vnodes
    PROVE  TableTypes' /\ Quiet
<1>1. DOMAIN sem = Sem /\ \A q \in Sem : SemType(sem[q])
  BY DEF Types, TableTypes
<1> DEFINE r == [sem[s] EXCEPT !.count = c]
<1>2. DOMAIN sem' = Sem /\ sem'[s] = r /\ \A q \in Sem : q # s => sem'[q] = sem[q]
  BY <1>1
<1>3. /\ DOMAIN r = DOMAIN sem[s] /\ r.count = c /\ r.state = sem[s].state /\ r.lock = sem[s].lock
      /\ r.hasvnode = sem[s].hasvnode /\ r.linked = sem[s].linked
  <2>1. DOMAIN sem[s] = {"state", "lock", "count", "hasvnode", "linked"}
    BY <1>1 DEF SemType
  <2> QED
    BY <2>1, SMTT(30)
<1> HIDE DEF r
<1>4. SemType(r)
  BY <1>1, <1>3 DEF SemType
<1>5. \A q \in Sem : /\ SemType(sem'[q])
                     /\ sem'[q].state = sem[q].state /\ sem'[q].linked = sem[q].linked
                     /\ sem'[q].hasvnode = sem[q].hasvnode
  BY <1>1, <1>2, <1>3, <1>4
<1> QED
  BY <1>2, <1>5 DEF Types, TableTypes, Quiet

\* semfs_getsem: the pointer taken is that of the open semaphore.
LEMMA GetsemStep ==
    ASSUME SemFSInv, NEW t \in Thread, semfs_getsem(t)
    PROVE  SemFSInv'
<1>0. /\ th[t].pc = "out"
      /\ sems' = sems /\ dents' = dents /\ vnodes' = vnodes /\ sem' = sem
      /\ dirlock' = dirlock /\ tablelock' = tablelock
  BY DEF semfs_getsem
<1>a. PICK n \in th[t].fd \ {SEMFS_ROOTDIR}, op \in {"read", "write", "truncate", "stat"}, k \in Amount :
        th' = [th EXCEPT ![t] = [th[t] EXCEPT !.pc = op, !.sem = sems[n], !.resid = k]]
  BY DEF semfs_getsem
<1>1. Types /\ VnodeRefs /\ HasVnodes /\ ThType(th[t]) /\ Position(th[t])
  BY DEF SemFSInv, Types
<1>2. th[t].fd = {n} /\ n \in Vnode /\ n \in Semnum
  BY <1>1, <1>a DEF ThType, Vnode
<1>3. SemAt(n) # NULL /\ sems[n] = SemAt(n) /\ SemAt(n) \in Sem \cup {NULL}
  <2>1. 1 \in Holds(th[t], n)
    BY <1>2, SMTT(30) DEF Holds
  <2>2. vnodes[n] # 0
    BY <1>1, <1>2, <2>1, HeldIsCounted
  <2> QED
    BY <1>1, <1>2, <2>2, SlotFacts DEF HasVnodes
<1> DEFINE r == [th[t] EXCEPT !.pc = op, !.sem = sems[n], !.resid = k]
<1>4. /\ DOMAIN r = DOMAIN th[t] /\ r.pc = op /\ r.sem = sems[n] /\ r.resid = k /\ r.name = th[t].name
      /\ r.dir = th[t].dir /\ r.num = th[t].num /\ r.vn = th[t].vn /\ r.fd = th[t].fd
  <2>1. DOMAIN th[t] = {"pc", "op", "name", "dir", "num", "sem", "resid", "vn", "fd"}
    BY <1>1 DEF ThType
  <2> QED
    BY <2>1, SMTT(30)
<1>5. th' = [th EXCEPT ![t] = r]
  BY <1>a
<1> HIDE DEF r
<1>6. ThType(r)
  <2>1. k \in 0 .. UINT_MAX /\ op \in PC /\ sems[n] \in Sem \cup {NULL}
    BY <1>3, SemFSAssumption DEF PC, Using
  <2> QED
    BY <1>1, <1>4, <2>1 DEF ThType
<1>7. Position(r) /\ op \in Using
  BY <1>0, <1>1, <1>4 DEF Position, Using, InCall, InDir, Creating, Removing
<1>8. Uses(r)
  BY <1>2, <1>3, <1>4 DEF Uses
<1>9. TableTypes' /\ Quiet
  BY <1>0, <1>1, SameTables
<1>10. VnodeRefs'
  BY <1>0, <1>1, <1>4, <1>5, RefsKeptOne
<1>11. th[t].pc \notin InDir \cup {"reclaim_check", "stopped"} /\ r.pc \notin InDir \cup {"reclaim_check"}
  BY <1>0, <1>4, <1>7 DEF InDir, Creating, Removing, Using
<1> QED
  BY <1>0, <1>5, <1>6, <1>7, <1>8, <1>9, <1>10, <1>11, OutsideOne

\* semfs_read takes from the count, and returns or goes to sleep.
LEMMA ReadStep ==
    ASSUME SemFSInv, NEW t \in Thread, semfs_read(t)
    PROVE  SemFSInv'
<1> DEFINE s == th[t].sem
           consume == IF th[t].resid > sem[s].count THEN sem[s].count ELSE th[t].resid
<1>0. /\ th[t].pc = "read" /\ th[t].pc \in Using
      /\ sem' = [sem EXCEPT ![s].count = @ - consume]
      /\ th' = [th EXCEPT ![t] = IF th[t].resid = consume THEN Out(th[t].fd)
                                 ELSE [th[t] EXCEPT !.pc = "asleep", !.resid = th[t].resid - consume]]
      /\ sems' = sems /\ dents' = dents /\ vnodes' = vnodes /\ dirlock' = dirlock /\ tablelock' = tablelock
  <2>1. "read" \in Using
    BY DEF Using
  <2>2. sem' = [sem EXCEPT ![s].count = @ - consume]
    BY DEF semfs_read
  <2>3. th' = [th EXCEPT ![t] = IF th[t].resid = consume THEN Out(th[t].fd)
                                 ELSE [th[t] EXCEPT !.pc = "asleep", !.resid = th[t].resid - consume]]
    BY DEF semfs_read
  <2>4. /\ th[t].pc = "read"
        /\ sems' = sems /\ dents' = dents /\ vnodes' = vnodes /\ dirlock' = dirlock /\ tablelock' = tablelock
    BY DEF semfs_read
  <2> QED
    BY <2>1, <2>2, <2>3, <2>4
<1>1. Types /\ VnodeRefs /\ ThType(th[t]) /\ Position(th[t]) /\ Uses(th[t])
  BY DEF SemFSInv, Types
<1>2. s \in Sem /\ th[t].resid \in 0 .. UINT_MAX /\ sem[s].count \in 0 .. UINT_MAX
  BY <1>0, UsesLive DEF SemType
<1>3. UINT_MAX \in Nat
  BY SemFSAssumption
<1>4. PICK c : c = consume
  OBVIOUS
<1>5. /\ c \in 0 .. UINT_MAX /\ sem[s].count - c \in 0 .. UINT_MAX /\ th[t].resid - c \in 0 .. UINT_MAX
  BY <1>2, <1>3, <1>4, SMTT(30)
<1>6. TableTypes' /\ Quiet
  <2>1. sem' = [sem EXCEPT ![s].count = sem[s].count - c]
    BY <1>0, <1>2, <1>4
  <2>2. PICK d \in 0 .. UINT_MAX : d = sem[s].count - c
    BY <1>5
  <2>3. PICK q \in Sem : q = s
    BY <1>2
  <2> HIDE DEF s
  <2>4. sem' = [sem EXCEPT ![q].count = d]
    BY <2>1, <2>2, <2>3
  <2> QED
    BY <1>0, <1>1, <2>4, CountOnly
<1>7. CASE th[t].resid = c
  <2>1. th' = [th EXCEPT ![t] = Out(th[t].fd)]
    BY <1>0, <1>4, <1>7
  <2> QED
    BY <1>0, <1>6, <2>1, ReturnStep
<1>8. CASE th[t].resid # c
  <2> DEFINE r == [th[t] EXCEPT !.pc = "asleep", !.resid = th[t].resid - c]
  <2>1. th' = [th EXCEPT ![t] = r]
    BY <1>0, <1>4, <1>8
  <2>2. /\ DOMAIN r = DOMAIN th[t] /\ r.pc = "asleep" /\ r.sem = th[t].sem /\ r.resid = th[t].resid - c
        /\ r.name = th[t].name
        /\ r.dir = th[t].dir /\ r.num = th[t].num /\ r.vn = th[t].vn /\ r.fd = th[t].fd
    <3>1. DOMAIN th[t] = {"pc", "op", "name", "dir", "num", "sem", "resid", "vn", "fd"}
      BY <1>1 DEF ThType
    <3> QED
      BY <3>1, SMTT(30)
  <2> HIDE DEF r, s, consume
  <2>3. ThType(r)
    BY <1>1, <1>5, <2>2 DEF ThType, PC, Using
  <2>4. Position(r) /\ Uses(r)
    BY <1>0, <1>1, <2>2 DEF Position, Uses, Using, InCall, InDir, Creating, Removing
  <2>5. VnodeRefs'
    BY <1>0, <1>1, <2>1, <2>2, RefsKeptOne
  <2>6. th[t].pc \notin InDir \cup {"reclaim_check", "stopped"} /\ r.pc \notin InDir \cup {"reclaim_check"}
    BY <1>0, <2>2 DEF InDir, Creating, Removing
  <2> QED
    BY <1>0, <1>6, <2>1, <2>3, <2>4, <2>5, <2>6, OutsideOne
<1> QED
  BY <1>7, <1>8

\* Whoever semfs_wakeup wakes was asleep.
LEMMA WokenSleep ==
    ASSUME NEW s, NEW c, NEW W \in Woken(s, c), NEW u \in W
    PROVE  u \in Thread /\ th[u].pc = "asleep"
<1>1. W \subseteq Sleeper(s)
  BY DEF Woken
<1> QED
  BY <1>1 DEF Sleeper

\* semfs_wakeup, and the return to the caller.
LEMMA WakeupStep ==
    ASSUME SemFSInv, NEW t \in Thread, th[t].pc \in Using, NEW s \in Sem, NEW c \in 0 .. UINT_MAX,
           semfs_wakeup(t, s, c),
           sems' = sems, dents' = dents, vnodes' = vnodes, dirlock' = dirlock, tablelock' = tablelock
    PROVE  SemFSInv'
<1>0. PICK W \in Woken(s, c) :
        /\ sem' = [sem EXCEPT ![s].count = c]
        /\ th' = [u \in Thread |-> IF u = t THEN Out(th[t].fd)
                                   ELSE IF u \in W THEN [th[u] EXCEPT !.pc = "read"] ELSE th[u]]
  BY DEF semfs_wakeup
<1>1. Types /\ Table /\ HasVnodes /\ VnodeRefs /\ \A u \in Thread : ThType(th[u]) /\ Position(th[u]) /\ Uses(th[u])
  BY DEF SemFSInv, Types
<1>2. TableTypes' /\ Quiet
  BY <1>0, <1>1, CountOnly
<1>3. \A n : SemAt(n)' = SemAt(n)
  BY <1>1, <1>2, QuietTable
<1>4. ASSUME NEW u \in Thread
      PROVE  /\ th'[u] = th[u] \/ MovesOutside(u)
             /\ th'[u].fd = th[u].fd /\ th'[u].dir = th[u].dir /\ th'[u].vn = th[u].vn
  <2>0. ThType(th[u]) /\ Position(th[u]) /\ Uses(th[u])
    BY <1>1
  <2>1. CASE u = t
    <3>1. th'[u] = Out(th[u].fd)
      BY <1>0, <2>1
    <3>2. PICK r : r = Out(th[u].fd)
      OBVIOUS
    <3>3. /\ ThType(r) /\ Position(r) /\ r.dir \in BOOLEAN
          /\ r.pc = "out" /\ ~r.dir /\ r.vn = {} /\ r.fd = th[u].fd
      BY <2>0, <3>2, ReturnRecord
    <3>4. ~th[u].dir /\ th[u].vn = {} /\ th[u].dir \in BOOLEAN
      BY <2>0, <2>1 DEF Position, ThType, Using, InCall, InDir, Creating, Removing
    <3>5. th[u].pc \notin InDir \cup {"reclaim_check", "stopped"} /\ r.pc \notin InDir \cup {"reclaim_check"}
      BY <2>1, <3>3 DEF InDir, Creating, Removing, Using
    <3>6. Uses(th[u])'
      BY <3>1, <3>2, <3>3 DEF Uses, Using
    <3> QED
      BY <3>1, <3>2, <3>3, <3>4, <3>5, <3>6 DEF MovesOutside
  <2>2. CASE u # t /\ u \in W
    <3>1. th'[u] = [th[u] EXCEPT !.pc = "read"] /\ th[u].pc = "asleep"
      BY <1>0, <2>2, WokenSleep
    <3>2. PICK r : r = [th[u] EXCEPT !.pc = "read"]
      OBVIOUS
    <3>3. "read" \in PC /\ "read" \in Using /\ "asleep" \in Using
      BY DEF PC, Using
    <3>4. /\ ThType(r) /\ r.pc = "read" /\ r.op = th[u].op /\ r.name = th[u].name /\ r.dir = th[u].dir
          /\ r.num = th[u].num /\ r.sem = th[u].sem /\ r.vn = th[u].vn /\ r.fd = th[u].fd
      BY <2>0, <3>2, <3>3, PcRecord
    <3>5. Position(r)
      BY <2>0, <3>1, <3>4 DEF Position, InCall, InDir, Creating, Removing
    <3>6. Uses(th[u])'
      BY <1>3, <2>0, <3>1, <3>2, <3>3, <3>4 DEF Uses
    <3>7. th[u].pc \notin InDir \cup {"reclaim_check", "stopped"} /\ r.pc \notin InDir \cup {"reclaim_check"}
      BY <3>1, <3>4 DEF InDir, Creating, Removing
    <3> QED
      BY <3>1, <3>2, <3>4, <3>5, <3>6, <3>7 DEF MovesOutside
  <2>3. CASE u # t /\ u \notin W
    BY <1>0, <2>3
  <2> QED
    BY <2>1, <2>2, <2>3
<1>5. DOMAIN th' = Thread
  BY <1>0
<1>6. VnodeRefs'
  BY <1>1, <1>4, <1>5, RefsKept
<1> QED
  BY <1>2, <1>4, <1>5, <1>6, OutsideStep

\* semfs_truncate sets the count and wakes.
LEMMA TruncateStep ==
    ASSUME SemFSInv, NEW t \in Thread, semfs_truncate(t)
    PROVE  SemFSInv'
<1>0. /\ th[t].pc = "truncate" /\ semfs_wakeup(t, th[t].sem, th[t].resid)
      /\ sems' = sems /\ dents' = dents /\ vnodes' = vnodes /\ dirlock' = dirlock /\ tablelock' = tablelock
  BY DEF semfs_truncate
<1>1. th[t].pc \in Using
  BY <1>0 DEF Using
<1>2. th[t].sem \in Sem /\ th[t].resid \in 0 .. UINT_MAX
  BY <1>1, UsesLive
<1> QED
  BY <1>0, <1>1, <1>2, WakeupStep

\* semfs_write adds to the count and wakes, or fails.
LEMMA WriteStep ==
    ASSUME SemFSInv, NEW t \in Thread, semfs_write(t)
    PROVE  SemFSInv'
<1> DEFINE s == th[t].sem
           newcount == (sem[s].count + th[t].resid) % (UINT_MAX + 1)
<1>0. /\ th[t].pc = "write"
      /\ \/ th' = [th EXCEPT ![t] = Out(th[t].fd)] /\ sem' = sem
         \/ semfs_wakeup(t, s, newcount)
      /\ sems' = sems /\ dents' = dents /\ vnodes' = vnodes /\ dirlock' = dirlock /\ tablelock' = tablelock
  BY DEF semfs_write
<1>1. th[t].pc \in Using
  BY <1>0 DEF Using
<1>2. s \in Sem /\ th[t].resid \in 0 .. UINT_MAX /\ sem[s].count \in 0 .. UINT_MAX
  BY <1>1, UsesLive DEF SemType
<1>3. newcount \in 0 .. UINT_MAX
  BY <1>2, SemFSAssumption, SMTT(30)
<1>4. Types
  BY DEF SemFSInv
<1> HIDE DEF s, newcount
<1>5. CASE th' = [th EXCEPT ![t] = Out(th[t].fd)] /\ sem' = sem
  <2>1. TableTypes' /\ Quiet
    BY <1>0, <1>4, <1>5, SameTables
  <2> QED
    BY <1>0, <1>1, <1>5, <2>1, ReturnStep
<1>6. CASE semfs_wakeup(t, s, newcount)
  BY <1>0, <1>1, <1>2, <1>3, <1>6, WakeupStep
<1> QED
  BY <1>0, <1>5, <1>6

\* The ways to hold a reference, from the fields of a record.
LEMMA HoldsFields ==
    ASSUME NEW r, NEW n
    PROVE  /\ Holds(r, n) \subseteq {1, 2, 3}
           /\ 1 \in Holds(r, n) <=> n \in r.fd
           /\ 2 \in Holds(r, n) <=> n = SEMFS_ROOTDIR /\ r.dir
           /\ 3 \in Holds(r, n) <=> n \in r.vn
BY SMTT(30) DEF Holds

\* Two subsets of {1, 2, 3} with the same members are equal.
LEMMA ThreeEqual ==
    ASSUME NEW A, NEW B, A \subseteq {1, 2, 3}, B \subseteq {1, 2, 3},
           1 \in A <=> 1 \in B, 2 \in A <=> 2 \in B, 3 \in A <=> 3 \in B
    PROVE  A = B
<1>1. \A x \in A : x \in B
  OBVIOUS
<1>2. \A x \in B : x \in A
  OBVIOUS
<1> QED
  BY <1>1, <1>2

\* One field more.
LEMMA GainsFields ==
    ASSUME NEW r, NEW s, NEW n, NEW k \in {1, 2, 3},
           k = 1 => r.fd = {} /\ s.fd = {n}, k # 1 => s.fd = r.fd,
           k = 2 => n = SEMFS_ROOTDIR /\ ~r.dir /\ s.dir, k # 2 => s.dir = r.dir,
           k = 3 => r.vn = {} /\ s.vn = {n}, k # 3 => s.vn = r.vn
    PROVE  Gains(r, s, n, k)
<1>1. k \in 1 .. 3
  BY SMTT(30)
<1>2. \A m : /\ Holds(r, m) \subseteq {1, 2, 3}
             /\ 1 \in Holds(r, m) <=> m \in r.fd
             /\ 2 \in Holds(r, m) <=> m = SEMFS_ROOTDIR /\ r.dir
             /\ 3 \in Holds(r, m) <=> m \in r.vn
  BY HoldsFields
<1>3. \A m : /\ Holds(s, m) \subseteq {1, 2, 3}
             /\ 1 \in Holds(s, m) <=> m \in s.fd
             /\ 2 \in Holds(s, m) <=> m = SEMFS_ROOTDIR /\ s.dir
             /\ 3 \in Holds(s, m) <=> m \in s.vn
  BY HoldsFields
<1>4. 1 # 2 /\ 1 # 3 /\ 2 # 3
  BY SMTT(30)
<1>5. k \notin Holds(r, n)
  BY <1>2
<1>6. Holds(s, n) = Holds(r, n) \cup {k}
  <2>1. 1 \in Holds(s, n) <=> 1 \in Holds(r, n) \cup {k}
    <3>1. k = 1 \/ k # 1
      OBVIOUS
    <3> QED
      BY <1>2, <1>3, <3>1
  <2>2. 2 \in Holds(s, n) <=> 2 \in Holds(r, n) \cup {k}
    <3>1. k = 2 \/ k # 2
      OBVIOUS
    <3> QED
      BY <1>2, <1>3, <3>1
  <2>3. 3 \in Holds(s, n) <=> 3 \in Holds(r, n) \cup {k}
    <3>1. k = 3 \/ k # 3
      OBVIOUS
    <3> QED
      BY <1>2, <1>3, <3>1
  <2>4. Holds(s, n) \subseteq {1, 2, 3} /\ Holds(r, n) \cup {k} \subseteq {1, 2, 3}
    BY <1>2, <1>3
  <2> QED
    BY <2>1, <2>2, <2>3, <2>4, ThreeEqual
<1>7. ASSUME NEW m \in Vnode, m # n PROVE Holds(s, m) = Holds(r, m)
  <2>0. m \notin {n}
    BY <1>7
  <2>1. 1 \in Holds(s, m) <=> 1 \in Holds(r, m)
    <3>1. m \in s.fd <=> m \in r.fd
      BY <2>0
    <3> QED
      BY <1>2, <1>3, <3>1
  <2>2. 2 \in Holds(s, m) <=> 2 \in Holds(r, m)
    <3>1. m = SEMFS_ROOTDIR /\ s.dir <=> m = SEMFS_ROOTDIR /\ r.dir
      BY <2>0
    <3> QED
      BY <1>2, <1>3, <3>1
  <2>3. 3 \in Holds(s, m) <=> 3 \in Holds(r, m)
    <3>1. m \in s.vn <=> m \in r.vn
      BY <2>0
    <3> QED
      BY <1>2, <1>3, <3>1
  <2>4. Holds(s, m) \subseteq {1, 2, 3} /\ Holds(r, m) \subseteq {1, 2, 3}
    BY <1>2, <1>3
  <2> QED
    BY <2>1, <2>2, <2>3, <2>4, ThreeEqual
<1> QED
  BY <1>1, <1>5, <1>6, <1>7 DEF Gains

\* A count that goes from more than one to one less, or the directory's.
MayDrop(n) == vnodes[n] > 1 \/ (n = SEMFS_ROOTDIR /\ vnodes[n] = 1)

\* A count lowered by one that does not become zero is a quiet change.
LEMMA CountDown ==
    ASSUME Types, NEW n \in Vnode, vnodes' = [vnodes EXCEPT ![n] = @ - 1],
           MayDrop(n),
           sems' = sems, dents' = dents, sem' = sem
    PROVE  TableTypes' /\ Quiet
<1>1. vnodes \in [Vnode -> Nat] /\ Semnum \subseteq Vnode /\ SEMFS_ROOTDIR \notin Semnum
  <2>1. SEMFS_ROOTDIR \notin Semnum
    BY SMTT(30) DEF SEMFS_ROOTDIR, Semnum
  <2> QED
    BY <2>1 DEF Types, TableTypes, Vnode
<1>2. vnodes[n] \in Nat
  BY <1>1
<1>3. vnodes[n] - 1 \in Nat /\ vnodes[n] # 0 /\ (vnodes[n] > 1 => vnodes[n] - 1 # 0)
  BY <1>2, SMTT(30) DEF MayDrop
<1>4. vnodes' \in [Vnode -> Nat]
  BY <1>1, <1>3
<1>5. \A m \in Semnum : vnodes'[m] = 0 <=> vnodes[m] = 0
  BY <1>1, <1>3 DEF MayDrop
<1> QED
  BY <1>4, <1>5 DEF Types, TableTypes, Quiet

\* The record of a thread that takes a last reference to semfs_reclaim.
LEMMA ReclaimRecord ==
    ASSUME NEW fd, fd = {} \/ \E m \in Vnode : fd = {m}, NEW n \in Vnode
    PROVE  LET r == [Out(fd) EXCEPT !.pc = "reclaim", !.num = n, !.vn = {n}]
           IN  /\ ThType(r) /\ Position(r) /\ Uses(r)
               /\ r.pc = "reclaim" /\ r.dir = Out(fd).dir /\ r.vn = {n} /\ r.fd = Out(fd).fd
<1> DEFINE r == [Out(fd) EXCEPT !.pc = "reclaim", !.num = n, !.vn = {n}]
<1>1. /\ DOMAIN r = {"pc", "op", "name", "dir", "num", "sem", "resid", "vn", "fd"}
      /\ r.pc = "reclaim" /\ r.name = NULL /\ r.dir = FALSE /\ r.num = n /\ r.sem = NULL /\ r.resid = 0
      /\ r.vn = {n} /\ r.fd = fd /\ r.dir = Out(fd).dir /\ r.fd = Out(fd).fd
  BY SMTT(30) DEF Out
<1>2. 0 \in 0 .. UINT_MAX
  BY SemFSAssumption, SMTT(30)
<1> HIDE DEF r
<1>3. ThType(r)
  BY <1>1, <1>2 DEF ThType, PC
<1>4. Position(r) /\ Uses(r)
  BY <1>1 DEF Position, Uses, InCall, InDir, Creating, Removing, Using
<1> QED
  BY <1>1, <1>3, <1>4 DEF r

\* vnode_decref: the reference goes, or is on its way to VOP_RECLAIM.
LEMMA DecrefStep ==
    ASSUME SemFSInv, NEW t \in Thread, th[t].pc \in {"out", "dropdir"}, NEW n \in Vnode,
           NEW fd, fd = {} \/ \E m \in Vnode : fd = {m},
           NEW k, Gains(Out(fd), th[t], n, k), vnode_decref(t, n, Out(fd)),
           sems' = sems, dents' = dents, sem' = sem, dirlock' = dirlock, tablelock' = tablelock
    PROVE  SemFSInv'
<1>1. Types /\ VnodeRefs /\ ThType(th[t]) /\ DOMAIN th = Thread
  BY DEF SemFSInv, Types
<1>2. th[t].pc \notin InDir \cup {"reclaim_check", "stopped"}
  BY DEF InDir, Creating, Removing
<1>3. PICK q : q = Out(fd)
  OBVIOUS
<1>4. ThType(q) /\ Position(q) /\ Uses(q) /\ q.pc = "out" /\ q.fd = fd /\ ~q.dir /\ q.vn = {}
  BY <1>3, OutRecord
<1>5. CASE vnodes[n] > 1
  <2>1. vnodes' = [vnodes EXCEPT ![n] = @ - 1] /\ th' = [th EXCEPT ![t] = q]
    BY <1>3, <1>5 DEF vnode_decref
  <2>2. VnodeRefs'
    BY <1>1, <1>3, <2>1, RefLost
  <2>3. TableTypes' /\ Quiet
    <3>1. MayDrop(n)
      BY <1>5 DEF MayDrop
    <3> QED
      BY <1>1, <2>1, <3>1, CountDown
  <2>4. q.pc \notin InDir \cup {"reclaim_check"}
    BY <1>4 DEF InDir, Creating, Removing
  <2> QED
    BY <1>2, <1>4, <2>1, <2>2, <2>3, <2>4, OutsideOne
<1>6. CASE ~(vnodes[n] > 1)
  <2>1. PICK r : r = [Out(fd) EXCEPT !.pc = "reclaim", !.num = n, !.vn = {n}]
    OBVIOUS
  <2>2. vnodes' = vnodes /\ th' = [th EXCEPT ![t] = r]
    BY <1>6, <2>1 DEF vnode_decref
  <2>3. /\ ThType(r) /\ Position(r) /\ Uses(r)
        /\ r.pc = "reclaim" /\ r.dir = q.dir /\ r.vn = {n} /\ r.fd = q.fd
    BY <1>3, <2>1, ReclaimRecord
  <2>4. Gains(q, r, n, 3)
    <3>1. 1 # 3 /\ 2 # 3
      BY SMTT(30)
    <3> QED
      BY <1>4, <2>3, <3>1, GainsFields
  <2>5. VnodeRefs'
    BY <1>1, <1>3, <2>2, <2>4, RefMoved
  <2>6. TableTypes' /\ Quiet
    BY <1>1, <2>2, SameTables
  <2>7. r.pc \notin InDir \cup {"reclaim_check"}
    BY <2>3 DEF InDir, Creating, Removing
  <2> QED
    BY <1>2, <2>2, <2>3, <2>5, <2>6, <2>7, OutsideOne
<1> QED
  BY <1>5, <1>6

\* The directory reference of the call is dropped, or vfs_open panics.
LEMMA DropDirStep ==
    ASSUME SemFSInv, NEW t \in Thread, drop_dir(t)
    PROVE  SemFSInv'
<1>0. /\ th[t].pc = "dropdir"
      /\ sems' = sems /\ dents' = dents /\ sem' = sem /\ dirlock' = dirlock /\ tablelock' = tablelock
      /\ \/ th' = [th EXCEPT ![t].pc = "stopped"] /\ vnodes' = vnodes
         \/ vnode_decref(t, SEMFS_ROOTDIR, Out(th[t].fd))
  BY DEF drop_dir
<1>1. ThType(th[t]) /\ Position(th[t])
  BY DEF SemFSInv, Types
<1>2. CASE th' = [th EXCEPT ![t].pc = "stopped"] /\ vnodes' = vnodes
  BY <1>0, <1>2, StopStep
<1>3. CASE vnode_decref(t, SEMFS_ROOTDIR, Out(th[t].fd))
  <2>1. PICK fd : fd = th[t].fd
    OBVIOUS
  <2>2. fd = {} \/ \E m \in Vnode : fd = {m}
    BY <1>1, <2>1 DEF ThType
  <2>3. Out(fd).fd = fd /\ ~Out(fd).dir /\ Out(fd).vn = {}
    BY <2>2, OutRecord
  <2>4. th[t].dir /\ th[t].vn = {}
    BY <1>0, <1>1 DEF Position, InCall
  <2>5. Gains(Out(fd), th[t], SEMFS_ROOTDIR, 2)
    <3>1. 1 # 2 /\ 2 # 3
      BY SMTT(30)
    <3> QED
      BY <2>1, <2>3, <2>4, <3>1, GainsFields
  <2>6. SEMFS_ROOTDIR \in Vnode
    BY DEF Vnode
  <2> QED
    BY <1>0, <1>3, <2>1, <2>2, <2>5, <2>6, DecrefStep
<1> QED
  BY <1>0, <1>2, <1>3

\* vfs_close drops the reference of the open file.
LEMMA CloseStep ==
    ASSUME SemFSInv, NEW t \in Thread, vfs_close(t)
    PROVE  SemFSInv'
<1>0. /\ th[t].pc = "out"
      /\ sems' = sems /\ dents' = dents /\ sem' = sem /\ dirlock' = dirlock /\ tablelock' = tablelock
  BY DEF vfs_close
<1>1. PICK n \in th[t].fd : vnode_decref(t, n, Out({}))
  BY DEF vfs_close
<1>2. ThType(th[t]) /\ Position(th[t])
  BY DEF SemFSInv, Types
<1>3. th[t].fd = {n} /\ n \in Vnode
  BY <1>1, <1>2 DEF ThType
<1>4. ~th[t].dir /\ th[t].vn = {} /\ th[t].dir \in BOOLEAN
  BY <1>0, <1>2 DEF Position, InCall, InDir, Creating, Removing, ThType
<1>5. Out({}).fd = {} /\ ~Out({}).dir /\ Out({}).vn = {} /\ Out({}).dir \in BOOLEAN
  BY OutRecord DEF ThType
<1>6. Gains(Out({}), th[t], n, 1)
  <2>1. 1 # 2 /\ 1 # 3
    BY SMTT(30)
  <2> QED
    BY <1>3, <1>4, <1>5, <2>1, GainsFields
<1> QED
  BY <1>0, <1>1, <1>3, <1>6, DecrefStep

\* A vnode that is in use gains a reference, or the directory's vnode does.
LEMMA CountUp ==
    ASSUME Types, NEW n \in Vnode, vnodes' = [vnodes EXCEPT ![n] = @ + 1],
           n = SEMFS_ROOTDIR \/ vnodes[n] # 0,
           sems' = sems, dents' = dents, sem' = sem
    PROVE  TableTypes' /\ Quiet
<1>1. vnodes \in [Vnode -> Nat] /\ Semnum \subseteq Vnode /\ SEMFS_ROOTDIR \notin Semnum
  <2>1. SEMFS_ROOTDIR \notin Semnum
    BY SMTT(30) DEF SEMFS_ROOTDIR, Semnum
  <2> QED
    BY <2>1 DEF Types, TableTypes, Vnode
<1>2. vnodes[n] \in Nat
  BY <1>1
<1>3. vnodes[n] + 1 \in Nat /\ vnodes[n] + 1 # 0
  BY <1>2, SMTT(30)
<1>4. vnodes' \in [Vnode -> Nat]
  BY <1>1, <1>3
<1>5. \A m \in Semnum : vnodes'[m] = 0 <=> vnodes[m] = 0
  BY <1>1, <1>3
<1> QED
  BY <1>4, <1>5 DEF Types, TableTypes, Quiet

\* The root gains a reference, for the call or for the file.
LEMMA GetrootStep ==
    ASSUME SemFSInv, NEW t \in Thread, semfs_getroot(t)
    PROVE  SemFSInv'
<1>0. /\ th[t].pc = "out"
      /\ sems' = sems /\ dents' = dents /\ dirlock' = dirlock /\ tablelock' = tablelock
  BY DEF semfs_getroot
<1>1. PICK op \in {"lookup", "creat", "excl", "remove", "opendir"}, nm \in Name :
        /\ op # "remove" => th[t].fd = {}
        /\ semfs_getvnode(SEMFS_ROOTDIR)
        /\ th' = [th EXCEPT ![t] = IF op = "opendir" THEN Out({SEMFS_ROOTDIR})
                                   ELSE [th[t] EXCEPT !.pc = "dir", !.op = op, !.name = nm, !.dir = TRUE]]
  BY DEF semfs_getroot
<1>2. Types /\ VnodeRefs /\ ThType(th[t]) /\ Position(th[t])
  BY DEF SemFSInv, Types
<1>3. vnodes' = [vnodes EXCEPT ![SEMFS_ROOTDIR] = @ + 1] /\ sem' = sem /\ SEMFS_ROOTDIR \in Vnode
  BY <1>1 DEF semfs_getvnode, Vnode
<1>4. TableTypes' /\ Quiet
  BY <1>0, <1>2, <1>3, CountUp
<1>5. ~th[t].dir /\ th[t].vn = {} /\ th[t].dir \in BOOLEAN
  BY <1>0, <1>2 DEF Position, InCall, InDir, Creating, Removing, ThType
<1>6. th[t].pc \notin InDir \cup {"reclaim_check", "stopped"}
  BY <1>0 DEF InDir, Creating, Removing
<1>7. 1 # 2 /\ 1 # 3 /\ 2 # 3
  BY SMTT(30)
<1>8. CASE op = "opendir"
  <2>1. PICK r : r = Out({SEMFS_ROOTDIR})
    OBVIOUS
  <2>2. th' = [th EXCEPT ![t] = r] /\ th[t].fd = {}
    BY <1>1, <1>8, <2>1
  <2>3. /\ ThType(r) /\ Position(r) /\ Uses(r) /\ r.pc = "out" /\ r.fd = {SEMFS_ROOTDIR}
        /\ ~r.dir /\ r.vn = {}
    BY <1>3, <2>1, OutRecord
  <2>4. Gains(th[t], r, SEMFS_ROOTDIR, 1)
    <3>1. r.dir \in BOOLEAN
      BY <2>3 DEF ThType
    <3> QED
      BY <1>5, <1>7, <2>2, <2>3, <3>1, GainsFields
  <2>5. VnodeRefs'
    BY <1>2, <1>3, <2>2, <2>4, RefGained
  <2>6. r.pc \notin InDir \cup {"reclaim_check"}
    BY <2>3 DEF InDir, Creating, Removing
  <2> QED
    BY <1>0, <1>4, <1>6, <2>2, <2>3, <2>5, <2>6, OutsideOne
<1>9. CASE op # "opendir"
  <2> DEFINE r == [th[t] EXCEPT !.pc = "dir", !.op = op, !.name = nm, !.dir = TRUE]
  <2>1. th' = [th EXCEPT ![t] = r]
    BY <1>1, <1>9
  <2>2. /\ DOMAIN r = DOMAIN th[t] /\ r.pc = "dir" /\ r.op = op /\ r.name = nm /\ r.dir = TRUE
        /\ r.sem = th[t].sem /\ r.resid = th[t].resid /\ r.num = th[t].num /\ r.vn = th[t].vn /\ r.fd = th[t].fd
    <3>1. DOMAIN th[t] = {"pc", "op", "name", "dir", "num", "sem", "resid", "vn", "fd"}
      BY <1>2 DEF ThType
    <3> QED
      BY <3>1, SMTT(30)
  <2> HIDE DEF r
  <2>3. ThType(r)
    BY <1>2, <2>2 DEF ThType, PC, InCall
  <2>4. Position(r) /\ Uses(r)
    BY <1>1, <1>5, <2>2 DEF Position, Uses, InCall, InDir, Creating, Removing, Using
  <2>5. Gains(th[t], r, SEMFS_ROOTDIR, 2)
    BY <1>5, <1>7, <2>2, GainsFields
  <2>6. VnodeRefs'
    BY <1>2, <1>3, <2>1, <2>5, RefGained
  <2>7. r.pc \notin InDir \cup {"reclaim_check"}
    BY <2>2 DEF InDir, Creating, Removing
  <2> QED
    BY <1>0, <1>4, <1>6, <2>1, <2>3, <2>4, <2>6, <2>7, OutsideOne
<1> QED
  BY <1>8, <1>9

-----------------------------------------------------------------------------
(* semfs_reclaim *)

\* Whoever has a semaphore open keeps using it, when only slots without a
\* vnode change.
LEMMA UsesKept ==
    ASSUME SemFSInv, NEW u \in Thread, Uses(th[u]), th'[u] = th[u],
           \A n \in Semnum : SemAt(n)' = SemAt(n) \/ vnodes[n] = 0
    PROVE  Uses(th[u])'
<1> SUFFICES ASSUME th[u].pc \in Using PROVE Uses(th[u])'
  BY DEF Uses
<1>1. PICK m \in Semnum : th[u].fd = {m} /\ th[u].sem = SemAt(m) /\ SemAt(m) # NULL
  BY DEF Uses
<1>2. vnodes[m] # 0
  <2>1. m \in th[u].fd /\ m \in Vnode /\ Types /\ VnodeRefs
    BY <1>1 DEF Vnode, SemFSInv
  <2>2. Holds(th[u], m) # {}
    BY <2>1, HoldsFields
  <2> QED
    BY <2>1, <2>2, HeldIsCounted
<1>3. SemAt(m)' = SemAt(m)
  BY <1>2
<1> QED
  BY <1>1, <1>3 DEF Uses

\* A step of the thread that has semfs_tablelock, outside semfs_dirlock.
LEMMA TableStep ==
    ASSUME SemFSInv, NEW t \in Thread, NEW r, th' = [th EXCEPT ![t] = r],
           th[t].pc \notin InDir \cup {"stopped"}, r.pc \notin InDir \cup Using \cup {"stopped"},
           ThType(r), Position(r), Checking(r)',
           dirlock' = dirlock, dents' = dents, tablelock \in {t, NULL}, tablelock' \in {t, NULL},
           r.pc = "reclaim_check" <=> tablelock' = t,
           TableTypes', Table', HasVnodes', Reachable', VnodeRefs',
           \A n : Linked(n) => Linked(n)',
           \A n \in Semnum : SemAt(n)' = SemAt(n) \/ vnodes[n] = 0,
           \A u \in Thread : u # t => Directory(th[u])'
    PROVE  SemFSInv'
<1>0. Types /\ Locks /\ Dents /\ DOMAIN th = Thread /\ NULL \notin Thread
  BY SemFSAssumption DEF SemFSInv, Types
<1>a. DOMAIN th' = Thread /\ th'[t] = r /\ \A u \in Thread : u # t => th'[u] = th[u]
  BY <1>0
<1>1. Types'
  BY <1>0, <1>a DEF Types
<1>2. Locks'
  <2> SUFFICES ASSUME NEW u \in Thread
               PROVE (th'[u].pc \in InDir => dirlock' = u) /\ (th'[u].pc = "reclaim_check" <=> tablelock' = u)
    BY DEF Locks
  <2>1. CASE u = t
    BY <1>a, <2>1
  <2>2. CASE u # t
    BY <1>0, <1>a, <2>2 DEF Locks
  <2> QED
    BY <2>1, <2>2
<1>3. \A n : Unfinished(n) => Unfinished(n)'
  <2> SUFFICES ASSUME NEW n, Unfinished(n) PROVE Unfinished(n)'
    OBVIOUS
  <2>1. PICK v \in Thread : dirlock = v /\ th[v].num = n /\ th[v].pc \in {"getvnode_new", "stopped"} \cup Removing
    BY DEF Unfinished
  <2>2. v # t
    BY <2>1 DEF InDir, Creating
  <2> QED
    BY <1>a, <2>1, <2>2 DEF Unfinished
<1>4. Dents'
  BY <1>0, <1>3 DEF Dents
<1>5. ASSUME NEW u \in Thread
      PROVE  Position(th'[u]) /\ Checking(th[u])' /\ Uses(th[u])' /\ Directory(th[u])'
  <2>0. Position(th[u]) /\ Checking(th[u]) /\ Uses(th[u])
    BY DEF SemFSInv
  <2>1. CASE u = t
    <3>1. Uses(th[u])' /\ Directory(th[u])'
      BY <1>a, <2>1 DEF Uses, Directory, InDir, Creating, Removing
    <3>2. Checking(th[u])'
      BY <1>a, <2>1 DEF Checking
    <3> QED
      BY <1>a, <2>1, <3>1, <3>2
  <2>2. CASE u # t
    <3>1. th[u].pc # "reclaim_check"
      BY <1>0, <2>2 DEF Locks
    <3>2. Checking(th[u])'
      BY <1>a, <2>2, <3>1 DEF Checking
    <3>3. Uses(th[u])'
      BY <1>a, <2>0, <2>2, UsesKept
    <3> QED
      BY <1>a, <2>0, <2>2, <3>2, <3>3
  <2> QED
    BY <2>1, <2>2
<1> QED
  BY <1>1, <1>2, <1>4, <1>5 DEF SemFSInv

\* Someone has found the vnode meanwhile, or it is the directory's.
LEMMA ReclaimQuiet ==
    ASSUME SemFSInv, NEW t \in Thread, th[t].pc = "reclaim", NEW n \in Vnode, n = th[t].num, MayDrop(n),
           vnodes' = [vnodes EXCEPT ![n] = @ - 1], th' = [th EXCEPT ![t] = Out(th[t].fd)],
           sems' = sems, dents' = dents, sem' = sem, dirlock' = dirlock, tablelock' = tablelock
    PROVE  SemFSInv'
<1>1. Types /\ VnodeRefs /\ ThType(th[t]) /\ Position(th[t])
  BY DEF SemFSInv, Types
<1>2. PICK r : r = Out(th[t].fd)
  OBVIOUS
<1>3. /\ ThType(r) /\ Position(r) /\ Uses(r)
      /\ r.pc = "out" /\ ~r.dir /\ r.vn = {} /\ r.fd = th[t].fd /\ r.dir \in BOOLEAN
  BY <1>1, <1>2, ReturnRecord
<1>4. ~th[t].dir /\ th[t].vn = {n} /\ th[t].dir \in BOOLEAN
  BY <1>1 DEF Position, ThType, InCall, InDir, Creating, Removing
<1>5. Gains(r, th[t], n, 3)
  <2>1. 1 # 3 /\ 2 # 3
    BY SMTT(30)
  <2> QED
    BY <1>3, <1>4, <2>1, GainsFields
<1>6. VnodeRefs'
  BY <1>1, <1>2, <1>5, RefLost
<1>7. TableTypes' /\ Quiet
  BY <1>1, CountDown
<1>8. th[t].pc \notin InDir \cup {"reclaim_check", "stopped"} /\ r.pc \notin InDir \cup {"reclaim_check"}
  BY <1>3 DEF InDir, Creating, Removing
<1> QED
  BY <1>2, <1>3, <1>6, <1>7, <1>8, OutsideOne

\* The slot of a semaphore that has a vnode.
LEMMA SlotWithVnode ==
    ASSUME SemFSInv, NEW n \in Semnum, vnodes[n] # 0
    PROVE  SemAt(n) \in Sem /\ sems[n] = SemAt(n) /\ sem[SemAt(n)].state = "live" /\ sem[SemAt(n)].hasvnode
<1>1. Types /\ Table /\ HasVnodes
  BY DEF SemFSInv
<1>2. SemAt(n) # NULL
  BY <1>1 DEF HasVnodes
<1>3. SemAt(n) \in Sem /\ sems[n] = SemAt(n)
  BY <1>1, <1>2, SlotFacts
<1>4. SemType(sem[SemAt(n)])
  BY <1>1, <1>3 DEF Types, TableTypes
<1> QED
  BY <1>1, <1>2, <1>3 DEF Table, HasVnodes


\* What the directory knows, when the last reference to n goes.
LEMMA ReclaimLast ==
    ASSUME SemFSInv, NEW t \in Thread, th[t].pc = "reclaim", NEW n \in Semnum, n = th[t].num, vnodes[n] = 1,
           tablelock = NULL, tablelock' = t, vnodes' = [vnodes EXCEPT ![n] = 0],
           sem' = [sem EXCEPT ![sems[n]].hasvnode = FALSE],
           th' = [th EXCEPT ![t] = [th[t] EXCEPT !.pc = "reclaim_check", !.vn = {}]],
           sems' = sems, dents' = dents, dirlock' = dirlock
    PROVE  SemFSInv'
<1>0. /\ Types /\ Locks /\ Table /\ HasVnodes /\ Reachable /\ VnodeRefs /\ ThType(th[t]) /\ Position(th[t])
      /\ DOMAIN th = Thread /\ DOMAIN sem = Sem /\ vnodes \in [Vnode -> Nat] /\ n \in Vnode /\ NULL \notin Thread
  BY SemFSAssumption DEF SemFSInv, Types, TableTypes, Vnode
<1>a. 1 # 0 /\ 1 - 1 = 0 /\ 0 \in Nat
  BY SMTT(30)
<1>b. PICK s : s = sems[n]
  OBVIOUS
<1>c. s \in Sem /\ s = SemAt(n) /\ sem[s].state = "live" /\ sem[s].hasvnode /\ SemType(sem[s]) /\ s # NULL
  BY <1>0, <1>a, <1>b, SlotWithVnode, SemFSAssumption DEF Types, TableTypes
<1> DEFINE q == [sem[s] EXCEPT !.hasvnode = FALSE]
<1>r. PICK r : r = [th[t] EXCEPT !.pc = "reclaim_check", !.vn = {}]
  OBVIOUS
<1>d. /\ DOMAIN q = DOMAIN sem[s] /\ q.count = sem[s].count /\ q.state = sem[s].state /\ q.lock = sem[s].lock
      /\ q.hasvnode = FALSE /\ q.linked = sem[s].linked
  <2>1. DOMAIN sem[s] = {"state", "lock", "count", "hasvnode", "linked"}
    BY <1>c DEF SemType
  <2> QED
    BY <2>1, SMTT(30)
<1>e. /\ DOMAIN r = DOMAIN th[t] /\ r.pc = "reclaim_check" /\ r.name = th[t].name /\ r.dir = th[t].dir
      /\ r.sem = th[t].sem /\ r.resid = th[t].resid /\ r.num = n /\ r.vn = {} /\ r.fd = th[t].fd
  <2>1. DOMAIN th[t] = {"pc", "op", "name", "dir", "num", "sem", "resid", "vn", "fd"}
    BY <1>0 DEF ThType
  <2> QED
    BY <1>r, <2>1, SMTT(30)
<1>f. sem' = [sem EXCEPT ![s] = q] /\ th' = [th EXCEPT ![t] = r]
  BY <1>b, <1>r
<1> HIDE DEF q
<1>g. DOMAIN sem' = Sem /\ sem'[s] = q /\ \A x \in Sem : x # s => sem'[x] = sem[x]
  BY <1>0, <1>c, <1>f
<1>h. \A m : SemAt(m)' = SemAt(m) /\ SemAt(m) \in Sem \cup {NULL}
  BY <1>0, SlotFacts DEF SemAt
<1>i. /\ \A x \in Sem : sem'[x].state = sem[x].state /\ sem'[x].linked = sem[x].linked
      /\ \A x \in Sem : ~sem[x].hasvnode => ~sem'[x].hasvnode
  BY <1>d, <1>g
<1>j. vnodes'[n] = 0 /\ vnodes' \in [Vnode -> Nat] /\ \A m \in Semnum : m # n => vnodes'[m] = vnodes[m]
  BY <1>0, <1>a DEF Vnode
<1>k. \A m \in Semnum : SemAt(m) = s => m = n
  BY <1>0, <1>c DEF Table
<1>l. \A m : Linked(m)' <=> Linked(m)
  BY <1>h, <1>i DEF Linked
<1>1. ThType(r) /\ Position(r) /\ Checking(r)'
  <2>1. ThType(r)
    BY <1>0, <1>e DEF ThType, PC
  <2>2. Position(r)
    BY <1>0, <1>e DEF Position, InCall, InDir, Creating, Removing
  <2>3. Checking(r)'
    BY <1>c, <1>e, <1>h, <1>j DEF Checking
  <2> QED
    BY <2>1, <2>2, <2>3
<1>2. TableTypes'
  <2>1. SemType(q)
    BY <1>c, <1>d DEF SemType
  <2>2. \A x \in Sem : SemType(sem'[x])
    BY <1>0, <1>g, <2>1 DEF Types, TableTypes
  <2> QED
    BY <1>0, <1>g, <1>j, <2>2 DEF Types, TableTypes
<1>3. Table'
  BY <1>0, <1>h, <1>i DEF Table
<1>4. HasVnodes'
  <2> SUFFICES ASSUME NEW m \in Semnum
               PROVE  /\ SemAt(m) = NULL => vnodes'[m] = 0
                      /\ SemAt(m) # NULL => (sem'[SemAt(m)].hasvnode <=> vnodes'[m] # 0)
    BY <1>h DEF HasVnodes
  <2>1. CASE m = n
    BY <1>c, <1>d, <1>g, <1>j, <2>1
  <2>2. CASE m # n
    BY <1>0, <1>g, <1>h, <1>j, <1>k, <2>2 DEF HasVnodes
  <2> QED
    BY <2>1, <2>2
<1>m. \A u \in Thread : th'[u] = IF u = t THEN r ELSE th[u]
  BY <1>0, <1>f
<1>n. Reclaimed(n)' /\ \A m : m # n => ~Reclaimed(m)'
  BY <1>0, <1>e, <1>m DEF Reclaimed, Locks
<1>o. \A m : ~Reclaimed(m)
  BY <1>0 DEF Reclaimed, Locks
<1>p. \A m : Busy(m) => Busy(m)'
  BY <1>m DEF Busy, Creating, Removing
<1>5. Reachable'
  BY <1>0, <1>h, <1>j, <1>l, <1>n, <1>o, <1>p DEF Reachable
<1>6. VnodeRefs'
  <2>1. vnodes' = [vnodes EXCEPT ![n] = @ - 1]
    BY <1>0, <1>a
  <2>2. th[t].vn = {n}
    BY <1>0 DEF Position
  <2>3. Gains(r, th[t], n, 3)
    <3>1. 1 # 3 /\ 2 # 3
      BY SMTT(30)
    <3> QED
      BY <1>e, <2>2, <3>1, GainsFields
  <2> QED
    BY <1>0, <1>f, <2>1, <2>3, RefLost
<1>7. ASSUME NEW u \in Thread, u # t PROVE Directory(th[u])'
  <2>1. PICK w : w = th[u]
    OBVIOUS
  <2>2. Directory(w)
    BY <2>1 DEF SemFSInv
  <2>3. /\ w.sem \in Sem => /\ sem'[w.sem].state = sem[w.sem].state /\ sem'[w.sem].linked = sem[w.sem].linked
                            /\ ~sem[w.sem].hasvnode => ~sem'[w.sem].hasvnode
        /\ w.sem \in Sem /\ w.sem # s => sem'[w.sem].hasvnode = sem[w.sem].hasvnode
    BY <1>g, <1>i
  <2>4. HasDent(w.name, w.num)' <=> HasDent(w.name, w.num)
    BY DEF HasDent
  <2>5. SemAt(w.num)' = SemAt(w.num) /\ (Linked(w.num)' <=> Linked(w.num))
    BY <1>h, <1>l
  <2>6. w.pc \in {"remove", "unlock"} => w.pc \in Removing
    BY DEF Removing
  <2>7. w.pc \in Creating => ~Reclaimed(w.num)'
    <3> SUFFICES ASSUME w.pc \in Creating PROVE w.num # n
      BY <1>n
    <3> QED
      BY <1>c, <2>2 DEF Directory
  <2>8. w.pc = "unlock" /\ SemAt(w.num)' = w.sem => sem'[w.sem].hasvnode \/ Reclaimed(w.num)'
    <3> SUFFICES ASSUME w.pc = "unlock", SemAt(w.num) = w.sem PROVE sem'[w.sem].hasvnode \/ Reclaimed(w.num)'
      BY <2>5
    <3>1. w.num \in Semnum /\ w.sem \in Sem /\ sem[w.sem].hasvnode
      BY <1>o, <2>2, <2>6 DEF Directory, InDir
    <3>2. CASE w.sem = s
      BY <1>k, <1>n, <3>1, <3>2
    <3>3. CASE w.sem # s
      BY <2>3, <3>1, <3>3
    <3> QED
      BY <3>2, <3>3
  <2>9. Directory(w)'
    BY <2>2, <2>3, <2>4, <2>5, <2>6, <2>7, <2>8 DEF Directory
  <2> QED
    BY <1>7, <1>m, <2>1, <2>9
<1>8. th[t].pc \notin InDir \cup {"stopped"} /\ r.pc \notin InDir \cup Using \cup {"stopped"}
  BY <1>e DEF InDir, Creating, Removing, Using
<1> QED
  <2>1. /\ \A m : Linked(m) => Linked(m)'
        /\ \A m \in Semnum : SemAt(m)' = SemAt(m) \/ vnodes[m] = 0
        /\ r.pc = "reclaim_check" <=> tablelock' = t
    BY <1>e, <1>h, <1>l
  <2>2. th' = [th EXCEPT ![t] = r]
    BY <1>f
  <2> QED
    BY <1>1, <1>2, <1>3, <1>4, <1>5, <1>6, <1>7, <1>8, <2>1, <2>2, TableStep

\* semfs_reclaim up to the removal of the vnode from the table.
LEMMA ReclaimStep ==
    ASSUME SemFSInv, NEW t \in Thread, semfs_reclaim(t)
    PROVE  SemFSInv'
<1>1. PICK n : n = th[t].num
  OBVIOUS
<1>0. /\ th[t].pc = "reclaim" /\ tablelock = NULL
      /\ dirlock' = dirlock /\ sems' = sems /\ dents' = dents
      /\ \/ /\ Referenced(n)
            /\ vnodes' = [vnodes EXCEPT ![n] = @ - 1]
            /\ th' = [th EXCEPT ![t] = Out(th[t].fd)]
            /\ tablelock' = tablelock /\ sem' = sem
         \/ /\ ~Referenced(n)
            /\ vnodes' = [vnodes EXCEPT ![n] = 0]
            /\ IF n = SEMFS_ROOTDIR
               THEN th' = [th EXCEPT ![t] = Out(th[t].fd)] /\ tablelock' = tablelock /\ sem' = sem
               ELSE /\ tablelock' = t
                    /\ sem' = [sem EXCEPT ![sems[n]].hasvnode = FALSE]
                    /\ th' = [th EXCEPT ![t] = [th[t] EXCEPT !.pc = "reclaim_check", !.vn = {}]]
  BY <1>1 DEF semfs_reclaim
<1>2. Types /\ VnodeRefs /\ ThType(th[t]) /\ Position(th[t]) /\ vnodes \in [Vnode -> Nat]
  BY DEF SemFSInv, Types, TableTypes
<1>3. n \in Vnode /\ vnodes[n] \in Nat
  BY <1>1, <1>2 DEF ThType
<1>4. vnodes[n] # 0
  <2>1. n \in th[t].vn
    BY <1>0, <1>1, <1>2 DEF Position
  <2>2. Holds(th[t], n) # {}
    BY <2>1, HoldsFields
  <2> QED
    BY <1>2, <1>3, <2>2, HeldIsCounted
<1>5. CASE Referenced(n)
  <2>1. MayDrop(n)
    BY <1>5 DEF MayDrop, Referenced
  <2> QED
    BY <1>0, <1>1, <1>3, <1>5, <2>1, ReclaimQuiet
<1>6. CASE ~Referenced(n)
  <2>1. vnodes[n] = 1
    BY <1>3, <1>4, <1>6, SMTT(30) DEF Referenced
  <2>2. CASE n = SEMFS_ROOTDIR
    <3>1. MayDrop(n)
      BY <2>1, <2>2 DEF MayDrop
    <3>2. vnodes' = [vnodes EXCEPT ![n] = @ - 1]
      <4>1. 1 - 1 = 0
        BY SMTT(30)
      <4> QED
        BY <1>0, <1>6, <2>1, <4>1
    <3> QED
      BY <1>0, <1>1, <1>3, <1>6, <2>2, <3>1, <3>2, ReclaimQuiet
  <2>3. CASE n # SEMFS_ROOTDIR
    <3>1. n \in Semnum
      BY <1>3, <2>3 DEF Vnode
    <3> QED
      BY <1>0, <1>1, <1>6, <2>1, <2>3, <3>1, ReclaimLast
  <2> QED
    BY <2>2, <2>3
<1> QED
  BY <1>5, <1>6

\* The name is still there: the semaphore stays.
LEMMA CheckLinked ==
    ASSUME SemFSInv, NEW t \in Thread, th[t].pc = "reclaim_check", Linked(th[t].num),
           tablelock' = NULL, th' = [th EXCEPT ![t] = Out(th[t].fd)],
           sems' = sems, dents' = dents, sem' = sem, dirlock' = dirlock, vnodes' = vnodes
    PROVE  SemFSInv'
<1>0. /\ Types /\ Locks /\ Table /\ HasVnodes /\ Reachable /\ VnodeRefs /\ ThType(th[t]) /\ Position(th[t])
      /\ DOMAIN th = Thread /\ NULL \notin Thread
  BY SemFSAssumption DEF SemFSInv, Types
<1>1. PICK r : r = Out(th[t].fd)
  OBVIOUS
<1>2. PICK n : n = th[t].num
  OBVIOUS
<1>3. /\ ThType(r) /\ Position(r)
      /\ r.pc = "out" /\ ~r.dir /\ r.vn = {} /\ r.fd = th[t].fd /\ r.dir \in BOOLEAN
  BY <1>0, <1>1, ReturnRecord
<1>4. ~th[t].dir /\ th[t].vn = {} /\ th[t].dir \in BOOLEAN
  BY <1>0 DEF Position, ThType, InCall, InDir, Creating, Removing
<1>5. VnodeRefs'
  BY <1>0, <1>1, <1>3, <1>4, RefsKeptOne
<1>6. TableTypes' /\ Quiet
  BY <1>0, SameTables
<1>7. /\ Table' /\ HasVnodes'
      /\ \A m : SemAt(m)' = SemAt(m) /\ (Linked(m)' <=> Linked(m))
  BY <1>0, <1>6, QuietTable
<1>8. \A u \in Thread : th'[u] = IF u = t THEN r ELSE th[u]
  BY <1>0, <1>1
<1>9. \A m : Reclaimed(m) => m = n
  BY <1>0, <1>2 DEF Reclaimed, Locks
<1>10. \A m : Busy(m) => Busy(m)'
  BY <1>8 DEF Busy, Creating, Removing
<1>11. Reachable'
  BY <1>0, <1>2, <1>7, <1>9, <1>10 DEF Reachable
<1>a. \A m : ~Reclaimed(m)'
  BY <1>0, <1>3, <1>8 DEF Reclaimed, Locks
<1>12. ASSUME NEW u \in Thread, u # t PROVE Directory(th[u])'
  <2>1. PICK w : w = th[u]
    OBVIOUS
  <2>2. Directory(w)
    BY <2>1 DEF SemFSInv
  <2>3. HasDent(w.name, w.num)' <=> HasDent(w.name, w.num)
    BY DEF HasDent
  <2>4. SemAt(w.num)' = SemAt(w.num) /\ (Linked(w.num)' <=> Linked(w.num))
    BY <1>7
  <2>5. w.pc \in {"remove", "unlock"} => w.pc \in Removing
    BY DEF Removing
  <2>6. w.pc = "unlock" /\ SemAt(w.num)' = w.sem => sem'[w.sem].hasvnode
    <3> SUFFICES ASSUME w.pc = "unlock", SemAt(w.num) = w.sem PROVE sem[w.sem].hasvnode
      BY <2>4
    <3>1. w.sem \in Sem /\ (sem[w.sem].hasvnode \/ Reclaimed(w.num)) /\ (~sem[w.sem].linked \/ SemAt(w.num) = NULL)
      BY <2>2, <2>5 DEF Directory
    <3>2. w.num # n
      BY <1>2, <3>1 DEF Linked
    <3> QED
      BY <1>9, <3>1, <3>2
  <2>9. Directory(w)'
    BY <1>a, <2>2, <2>3, <2>4, <2>5, <2>6 DEF Directory
  <2> QED
    BY <1>8, <1>12, <2>1, <2>9
<1>13. th[t].pc \notin InDir \cup {"stopped"} /\ r.pc \notin InDir \cup Using \cup {"stopped"}
  BY <1>3 DEF InDir, Creating, Removing, Using
<1>14. /\ \A m : Linked(m) => Linked(m)'
       /\ \A m \in Semnum : SemAt(m)' = SemAt(m) \/ vnodes[m] = 0
       /\ r.pc = "reclaim_check" <=> tablelock' = t
       /\ Checking(r)' /\ tablelock = t /\ tablelock' \in {t, NULL}
  BY <1>0, <1>3, <1>7 DEF Checking, Locks
<1> QED
  BY <1>1, <1>3, <1>5, <1>6, <1>7, <1>11, <1>12, <1>13, <1>14, TableStep

\* semfs_sem_destroy, and the slot of the semaphore becomes NULL.
Cleared(n, s) ==
    /\ s \in Sem /\ SemAt(n) = s /\ SemAt(n)' = NULL
    /\ \A m : m # n => SemAt(m)' = SemAt(m) /\ SemAt(m) # s /\ (Linked(m)' <=> Linked(m))
    /\ sem[s].state = "live" /\ sem'[s].state = "destroyed" /\ \A x \in Sem : x # s => sem'[x] = sem[x]

\* Destroying a semaphore without a vnode and clearing its slot.
LEMMA ClearSlot ==
    ASSUME SemFSInv, NEW n \in Semnum, NEW s, s = SemAt(n), s # NULL, vnodes[n] = 0,
           sems' = [sems EXCEPT ![n] = NULL], semfs_sem_destroy(s), vnodes' = vnodes,
           dents' \in Seq((Name \X Semnum) \cup {NoDent})
    PROVE  Cleared(n, s) /\ TableTypes' /\ Table' /\ HasVnodes'
<1>0. /\ Types /\ Table /\ HasVnodes
      /\ sems \in Seq(Sem \cup {NULL}) /\ Len(sems) <= Cardinality(Sem) /\ DOMAIN sem = Sem
      /\ \A x \in Sem : SemType(sem[x])
  BY DEF SemFSInv, Types, TableTypes
<1>1. s \in Sem /\ n \in DOMAIN sems
  BY <1>0, SlotFacts
<1>2. sems' \in Seq(Sem \cup {NULL}) /\ Len(sems') = Len(sems)
  BY <1>0, <1>1, SMTT(30)
<1>3. SemAt(n)' = NULL /\ \A m : m # n => SemAt(m)' = SemAt(m)
  <2>1. sems'[n] = NULL /\ DOMAIN sems' = DOMAIN sems /\ \A m \in DOMAIN sems : m # n => sems'[m] = sems[m]
    BY <1>1
  <2> QED
    BY <2>1 DEF SemAt
<1> DEFINE q == [sem[s] EXCEPT !.state = "destroyed"]
<1>4. /\ DOMAIN q = DOMAIN sem[s] /\ q.count = sem[s].count /\ q.state = "destroyed" /\ q.lock = sem[s].lock
      /\ q.hasvnode = sem[s].hasvnode /\ q.linked = sem[s].linked
  <2>1. DOMAIN sem[s] = {"state", "lock", "count", "hasvnode", "linked"}
    BY <1>0, <1>1 DEF SemType
  <2> QED
    BY <2>1, SMTT(30)
<1>5. sem' = [sem EXCEPT ![s] = q]
  BY DEF semfs_sem_destroy
<1> HIDE DEF q
<1>6. DOMAIN sem' = Sem /\ sem'[s] = q /\ \A x \in Sem : x # s => sem'[x] = sem[x]
  BY <1>0, <1>1, <1>5
<1>7. SemType(q)
  BY <1>0, <1>1, <1>4 DEF SemType
<1>8. TableTypes'
  <2>1. \A x \in Sem : SemType(sem'[x])
    BY <1>0, <1>6, <1>7
  <2>2. vnodes' \in [Vnode -> Nat] /\ Len(sems') <= Cardinality(Sem)
    BY <1>0, <1>2 DEF Types, TableTypes
  <2> QED
    BY <1>2, <1>6, <2>1, <2>2 DEF TableTypes
<1>9. \A m : SemAt(m) \in Sem \cup {NULL} /\ (SemAt(m) # NULL => m \in Semnum)
  BY <1>0, SlotFacts
<1>10. \A m : m # n => SemAt(m) # s
  BY <1>0, <1>9 DEF Table
<1>11. \A m : m # n => (Linked(m)' <=> Linked(m))
  BY <1>3, <1>6, <1>9, <1>10 DEF Linked
<1>12. sem[s].state = "live"
  BY <1>0 DEF Table
<1>13. Cleared(n, s)
  BY <1>1, <1>3, <1>4, <1>6, <1>10, <1>11, <1>12 DEF Cleared
<1>14. Table'
  <2>1. ASSUME NEW m \in Semnum, SemAt(m)' # NULL PROVE sem'[SemAt(m)'].state = "live"
    <3>1. m # n /\ SemAt(m)' = SemAt(m) /\ SemAt(m) # s /\ SemAt(m) \in Sem
      BY <1>3, <1>9, <1>10, <2>1
    <3> QED
      BY <1>0, <1>6, <2>1, <3>1 DEF Table
  <2>2. ASSUME NEW k \in Semnum, NEW m \in Semnum, SemAt(m)' # NULL /\ SemAt(k)' = SemAt(m)' PROVE k = m
    <3>1. m # n /\ k # n /\ SemAt(m)' = SemAt(m) /\ SemAt(k)' = SemAt(k)
      BY <1>3, <2>2
    <3> QED
      BY <1>0, <2>2, <3>1 DEF Table
  <2>3. ASSUME NEW x \in Sem, sem'[x].state = "live" PROVE \E m \in Semnum : SemAt(m)' = x
    <3>1. x # s /\ sem[x].state = "live"
      BY <1>4, <1>6, <2>3
    <3>2. PICK m \in Semnum : SemAt(m) = x
      BY <1>0, <3>1 DEF Table
    <3> QED
      BY <1>3, <3>1, <3>2
  <2>4. ASSUME NEW x \in Sem, sem'[x].state = "fresh" PROVE ~sem'[x].linked /\ ~sem'[x].hasvnode
    <3>1. x # s
      BY <1>4, <1>6, <2>4
    <3> QED
      BY <1>0, <1>6, <2>4, <3>1 DEF Table
  <2> QED
    BY <2>1, <2>2, <2>3, <2>4 DEF Table
<1>15. HasVnodes'
  <2> SUFFICES ASSUME NEW m \in Semnum
               PROVE  /\ SemAt(m)' = NULL => vnodes[m] = 0
                      /\ SemAt(m)' # NULL => (sem'[SemAt(m)'].hasvnode <=> vnodes[m] # 0)
    BY DEF HasVnodes
  <2>1. CASE m = n
    BY <1>3, <2>1
  <2>2. CASE m # n
    <3>1. SemAt(m)' = SemAt(m) /\ (SemAt(m) # NULL => sem'[SemAt(m)] = sem[SemAt(m)])
      BY <1>3, <1>6, <1>9, <1>10, <2>2
    <3> QED
      BY <1>0, <3>1 DEF HasVnodes
  <2> QED
    BY <2>1, <2>2
<1> QED
  BY <1>8, <1>13, <1>14, <1>15

\* The name is gone: the semaphore is destroyed.
LEMMA CheckUnlinked ==
    ASSUME SemFSInv, NEW t \in Thread, th[t].pc = "reclaim_check", ~Linked(th[t].num),
           tablelock' = NULL, th' = [th EXCEPT ![t] = Out(th[t].fd)],
           sems' = [sems EXCEPT ![th[t].num] = NULL], semfs_sem_destroy(SemAt(th[t].num)),
           dents' = dents, dirlock' = dirlock, vnodes' = vnodes
    PROVE  SemFSInv'
<1>0. /\ Types /\ Locks /\ Table /\ HasVnodes /\ Reachable /\ VnodeRefs
      /\ ThType(th[t]) /\ Position(th[t]) /\ Checking(th[t])
      /\ DOMAIN th = Thread /\ NULL \notin Thread /\ NULL \notin Sem
      /\ dents \in Seq((Name \X Semnum) \cup {NoDent})
  BY SemFSAssumption DEF SemFSInv, Types, TableTypes
<1>1. PICK r : r = Out(th[t].fd)
  OBVIOUS
<1>2. PICK n : n = th[t].num
  OBVIOUS
<1>a. PICK s : s = SemAt(n)
  OBVIOUS
<1>3. /\ ThType(r) /\ Position(r)
      /\ r.pc = "out" /\ ~r.dir /\ r.vn = {} /\ r.fd = th[t].fd /\ r.dir \in BOOLEAN
  BY <1>0, <1>1, ReturnRecord
<1>4. ~th[t].dir /\ th[t].vn = {} /\ th[t].dir \in BOOLEAN
  BY <1>0 DEF Position, ThType, InCall, InDir, Creating, Removing
<1>5. VnodeRefs'
  BY <1>0, <1>1, <1>3, <1>4, RefsKeptOne
<1>6. n \in Semnum /\ s # NULL /\ vnodes[n] = 0
  BY <1>0, <1>2, <1>a DEF Checking
<1>7. Cleared(n, s) /\ TableTypes' /\ Table' /\ HasVnodes'
  BY <1>0, <1>2, <1>a, <1>6, ClearSlot
<1>8. \A u \in Thread : th'[u] = IF u = t THEN r ELSE th[u]
  BY <1>0, <1>1
<1>9. \A m : Reclaimed(m) <=> m = n
  BY <1>0, <1>2 DEF Reclaimed, Locks
<1>10. \A m : Busy(m) => Busy(m)'
  BY <1>8 DEF Busy, Creating, Removing
<1>b. \A m : ~Reclaimed(m)'
  BY <1>0, <1>3, <1>8 DEF Reclaimed, Locks
<1>11. Reachable'
  <2> SUFFICES ASSUME NEW m \in Semnum, SemAt(m)' # NULL
               PROVE  Linked(m)' \/ vnodes[m] # 0 \/ Busy(m)'
    BY DEF Reachable
  <2>1. m # n /\ SemAt(m) # NULL /\ (Linked(m)' <=> Linked(m))
    BY <1>7 DEF Cleared
  <2> QED
    BY <1>0, <1>9, <1>10, <2>1 DEF Reachable
<1>12. ASSUME NEW u \in Thread, u # t PROVE Directory(th[u])'
  <2>1. PICK w : w = th[u]
    OBVIOUS
  <2>2. Directory(w)
    BY <2>1 DEF SemFSInv
  <2>3. HasDent(w.name, w.num)' <=> HasDent(w.name, w.num)
    BY DEF HasDent
  <2>4. w.pc \in {"remove", "unlock"} => w.pc \in Removing
    BY DEF Removing
  <2>5. ASSUME w.num # n PROVE Directory(w)'
    <3>1. /\ SemAt(w.num)' = SemAt(w.num) /\ SemAt(w.num) # s /\ (Linked(w.num)' <=> Linked(w.num))
          /\ ~Reclaimed(w.num)
      BY <1>7, <1>9, <2>5 DEF Cleared
    <3>2. w.sem \in Sem /\ w.sem # s => sem'[w.sem] = sem[w.sem]
      BY <1>7 DEF Cleared
    <3>3. w.pc \in Creating \cup Removing => w.sem \in Sem /\ w.sem # s
      BY <1>7, <2>2, <3>1 DEF Directory, Cleared
    <3> QED
      BY <1>b, <2>2, <2>3, <2>4, <3>1, <3>2, <3>3 DEF Directory
  <2>6. ASSUME w.num = n PROVE Directory(w)'
    <3>1. SemAt(n)' = NULL /\ sem'[s].state = "destroyed" /\ SemAt(n) = s
      BY <1>7 DEF Cleared
    <3>2. w.pc \notin {"getvnode", "getsembynum", "unlink"} \cup Creating
      BY <1>2, <1>9, <2>2, <2>6 DEF Directory
    <3>3. w.pc \in Removing => w.sem \in Sem /\ w.sem = s
      BY <1>6, <2>2, <2>6, <3>1 DEF Directory
    <3> QED
      BY <1>0, <2>2, <2>3, <2>4, <2>6, <3>1, <3>2, <3>3 DEF Directory
  <2>9. Directory(w)'
    BY <2>5, <2>6
  <2> QED
    BY <1>8, <1>12, <2>1, <2>9
<1>13. th[t].pc \notin InDir \cup {"stopped"} /\ r.pc \notin InDir \cup Using \cup {"stopped"}
  BY <1>3 DEF InDir, Creating, Removing, Using
<1>14. /\ \A m : Linked(m) => Linked(m)'
       /\ \A m \in Semnum : SemAt(m)' = SemAt(m) \/ vnodes[m] = 0
       /\ r.pc = "reclaim_check" <=> tablelock' = t
       /\ Checking(r)' /\ tablelock = t /\ tablelock' \in {t, NULL}
  BY <1>0, <1>2, <1>3, <1>6, <1>7 DEF Checking, Locks, Cleared
<1> QED
  BY <1>1, <1>3, <1>5, <1>7, <1>11, <1>12, <1>13, <1>14, TableStep

\* The rest of semfs_reclaim: an unlinked semaphore goes away.
LEMMA ReclaimCheckStep ==
    ASSUME SemFSInv, NEW t \in Thread, semfs_reclaim_check(t)
    PROVE  SemFSInv'
<1>0. /\ th[t].pc = "reclaim_check" /\ tablelock' = NULL /\ th' = [th EXCEPT ![t] = Out(th[t].fd)]
      /\ IF sem[sems[th[t].num]].linked THEN sem' = sem /\ sems' = sems
         ELSE semfs_sem_destroy(sems[th[t].num]) /\ sems' = [sems EXCEPT ![th[t].num] = NULL]
      /\ dirlock' = dirlock /\ dents' = dents /\ vnodes' = vnodes
  BY DEF semfs_reclaim_check
<1>1. Types /\ Checking(th[t])
  BY DEF SemFSInv
<1>2. SemAt(th[t].num) # NULL
  BY <1>0, <1>1 DEF Checking
<1>3. sems[th[t].num] = SemAt(th[t].num)
  BY <1>1, <1>2, SlotFacts
<1>4. sem[sems[th[t].num]].linked <=> Linked(th[t].num)
  BY <1>2, <1>3 DEF Linked
<1>5. CASE Linked(th[t].num)
  BY <1>0, <1>4, <1>5, CheckLinked
<1>6. CASE ~Linked(th[t].num)
  BY <1>0, <1>3, <1>4, <1>6, CheckUnlinked
<1> QED
  BY <1>5, <1>6

-----------------------------------------------------------------------------
(* The actions under semfs_dirlock *)

\* A step of the thread that has semfs_dirlock, or takes it.
LEMMA DirectoryStep ==
    ASSUME SemFSInv, NEW t \in Thread, NEW r, th' = [th EXCEPT ![t] = r],
           th[t].pc \in InDir \cup {"dir"}, r.pc \in InDir \cup {"dropdir", "stopped"},
           ThType(r), Position(r), Directory(r)',
           dirlock \in {t, NULL}, dirlock' \in {t, NULL}, r.pc \in InDir => dirlock' = t, tablelock' = tablelock,
           TableTypes', Table', HasVnodes', Dents', Reachable', VnodeRefs',
           \A n \in Semnum : SemAt(n)' = SemAt(n) \/ vnodes[n] = 0,
           tablelock = NULL \/ \A n \in Semnum : SemAt(n)' = SemAt(n) /\ (vnodes[n] = 0 => vnodes'[n] = 0)
    PROVE  SemFSInv'
<1>0. Types /\ Locks /\ DOMAIN th = Thread /\ NULL \notin Thread
  BY SemFSAssumption DEF SemFSInv, Types
<1>a. DOMAIN th' = Thread /\ th'[t] = r /\ \A u \in Thread : u # t => th'[u] = th[u]
  BY <1>0
<1>b. \A u \in Thread : u # t => th[u].pc \notin InDir
  BY <1>0 DEF Locks
<1>c. th[t].pc # "reclaim_check" /\ r.pc # "reclaim_check" /\ r.pc \notin Using
  BY DEF InDir, Creating, Removing, Using
<1>1. Types'
  BY <1>0, <1>a DEF Types
<1>2. Locks'
  <2> SUFFICES ASSUME NEW u \in Thread
               PROVE (th'[u].pc \in InDir => dirlock' = u) /\ (th'[u].pc = "reclaim_check" <=> tablelock' = u)
    BY DEF Locks
  <2>1. CASE u = t
    BY <1>0, <1>a, <1>c, <2>1 DEF Locks
  <2>2. CASE u # t
    BY <1>0, <1>a, <1>b, <2>2 DEF Locks
  <2> QED
    BY <2>1, <2>2
<1>5. ASSUME NEW u \in Thread
      PROVE  Position(th'[u]) /\ Checking(th[u])' /\ Uses(th[u])' /\ Directory(th[u])'
  <2>0. Position(th[u]) /\ Checking(th[u]) /\ Uses(th[u])
    BY DEF SemFSInv
  <2>1. CASE u = t
    <3>1. Uses(th[u])' /\ Checking(th[u])'
      BY <1>a, <1>c, <2>1 DEF Uses, Checking
    <3>2. Directory(th[u])'
      BY <1>a, <2>1
    <3> QED
      BY <1>a, <2>1, <3>1, <3>2
  <2>2. CASE u # t
    <3>1. Directory(th[u])'
      BY <1>a, <1>b, <2>2 DEF Directory, InDir, Creating, Removing
    <3>2. Checking(th[u])'
      <4>1. CASE tablelock = NULL
        BY <1>0, <1>a, <2>2, <4>1 DEF Checking, Locks
      <4>2. CASE \A n \in Semnum : SemAt(n)' = SemAt(n) /\ (vnodes[n] = 0 => vnodes'[n] = 0)
        <5>1. PICK w : w = th[u]
          OBVIOUS
        <5>2. Checking(w)'
          BY <2>0, <4>2, <5>1 DEF Checking
        <5> QED
          BY <1>a, <2>2, <5>1, <5>2
      <4> QED
        BY <4>1, <4>2
    <3>3. Uses(th[u])'
      BY <1>a, <2>0, <2>2, UsesKept
    <3> QED
      BY <1>a, <2>0, <2>2, <3>1, <3>2, <3>3
  <2> QED
    BY <2>1, <2>2
<1> QED
  BY <1>1, <1>2, <1>5 DEF SemFSInv

\* A semaphore that t was busy with is still somebody's: t's, nobody's (it is
\* gone), its vnode's, or that of the thread in semfs_reclaim.
Handed(t, r) ==
    th[t].pc \in Creating \cup Removing =>
        \/ r.pc \in Creating \cup Removing /\ r.num = th[t].num
        \/ SemAt(th[t].num) = NULL
        \/ vnodes[th[t].num] # 0
        \/ Reclaimed(th[t].num)

\* A name whose semaphore is not linked is still the one t is dealing with.
Pending(t, r) ==
    th[t].pc \in {"getvnode_new"} \cup Removing =>
        r.pc \in {"getvnode_new", "stopped"} \cup Removing /\ r.num = th[t].num /\ dirlock' = t

\* The thread that has semfs_dirlock, or takes it, moves from its record to r.
InDirMove(t, r) ==
    /\ th' = [th EXCEPT ![t] = r] /\ th[t].pc \in InDir \cup {"dir"} /\ r.pc \in InDir \cup {"dropdir", "stopped"}
    /\ ThType(r) /\ Position(r)
    /\ dirlock \in {t, NULL} /\ dirlock' \in {t, NULL} /\ (r.pc \in InDir => dirlock' = t) /\ tablelock' = tablelock

\* Such a step that changes no slot.
LEMMA QuietDirectory ==
    ASSUME SemFSInv, NEW t \in Thread, NEW r, InDirMove(t, r), Directory(r)',
           TableTypes', Quiet, Dents', VnodeRefs', Handed(t, r)
    PROVE  SemFSInv'
<1>0. Types /\ Locks /\ Table /\ HasVnodes /\ Reachable /\ DOMAIN th = Thread
  BY DEF SemFSInv, Types
<1>1. /\ Table' /\ HasVnodes'
      /\ \A n : SemAt(n)' = SemAt(n) /\ (Linked(n)' <=> Linked(n))
  BY <1>0, QuietTable
<1>2. \A u \in Thread : th'[u] = IF u = t THEN r ELSE th[u]
  BY <1>0 DEF InDirMove
<1>3. \A n \in Semnum : vnodes'[n] = 0 <=> vnodes[n] = 0
  BY DEF Quiet
<1>4. \A n : Reclaimed(n) => Reclaimed(n)'
  <2>1. th[t].pc # "reclaim_check"
    BY DEF InDirMove, InDir, Creating, Removing
  <2> QED
    BY <1>2, <2>1 DEF Reclaimed
<1>5. Reachable'
  <2> SUFFICES ASSUME NEW n \in Semnum, SemAt(n) # NULL
               PROVE  Linked(n) \/ vnodes[n] # 0 \/ Busy(n)' \/ Reclaimed(n)'
    BY <1>1, <1>3 DEF Reachable
  <2>1. Linked(n) \/ vnodes[n] # 0 \/ Busy(n) \/ Reclaimed(n)
    BY <1>0 DEF Reachable
  <2>2. CASE Busy(n)
    <3>1. PICK v \in Thread : th[v].pc \in Creating \cup Removing /\ th[v].num = n
      BY <2>2 DEF Busy
    <3>2. CASE v = t
      BY <1>2, <1>4, <3>1, <3>2 DEF Handed, Busy
    <3>3. CASE v # t
      BY <1>2, <3>1, <3>3 DEF Busy
    <3> QED
      BY <3>2, <3>3
  <2> QED
    BY <1>4, <2>1, <2>2
<1>6. /\ \A n \in Semnum : SemAt(n)' = SemAt(n) \/ vnodes[n] = 0
      /\ tablelock = NULL \/ \A n \in Semnum : SemAt(n)' = SemAt(n) /\ (vnodes[n] = 0 => vnodes'[n] = 0)
  BY <1>1, <1>3
<1>7. /\ th' = [th EXCEPT ![t] = r] /\ th[t].pc \in InDir \cup {"dir"} /\ r.pc \in InDir \cup {"dropdir", "stopped"}
      /\ ThType(r) /\ Position(r)
      /\ dirlock \in {t, NULL} /\ dirlock' \in {t, NULL} /\ (r.pc \in InDir => dirlock' = t) /\ tablelock' = tablelock
  BY DEF InDirMove
<1> QED
  BY <1>1, <1>5, <1>6, <1>7, DirectoryStep

\* Such a step when nobody has semfs_tablelock, and the slots that change
\* have no vnode.
LEMMA SlotStep ==
    ASSUME SemFSInv, NEW t \in Thread, NEW r, InDirMove(t, r), Directory(r)', tablelock = NULL,
           TableTypes', Table', HasVnodes', Dents', Reachable', VnodeRefs',
           \A n \in Semnum : SemAt(n)' = SemAt(n) \/ vnodes[n] = 0
    PROVE  SemFSInv'
<1>1. /\ th' = [th EXCEPT ![t] = r] /\ th[t].pc \in InDir \cup {"dir"} /\ r.pc \in InDir \cup {"dropdir", "stopped"}
      /\ ThType(r) /\ Position(r)
      /\ dirlock \in {t, NULL} /\ dirlock' \in {t, NULL} /\ (r.pc \in InDir => dirlock' = t) /\ tablelock' = tablelock
  BY DEF InDirMove
<1>2. tablelock = NULL \/ \A n \in Semnum : SemAt(n)' = SemAt(n) /\ (vnodes[n] = 0 => vnodes'[n] = 0)
  OBVIOUS
<1> QED
  BY <1>1, <1>2, DirectoryStep

\* And no name either.
LEMMA SameDirectory ==
    ASSUME SemFSInv, NEW t \in Thread, NEW r, InDirMove(t, r), Directory(r), dents' = dents,
           TableTypes', Quiet, VnodeRefs', Handed(t, r), Pending(t, r)
    PROVE  SemFSInv'
<1>0. Types /\ Locks /\ Table /\ HasVnodes /\ Dents /\ DOMAIN th = Thread /\ NULL \notin Thread
  BY SemFSAssumption DEF SemFSInv, Types
<1>1. \A n : SemAt(n)' = SemAt(n) /\ (Linked(n)' <=> Linked(n))
  BY <1>0, QuietTable
<1>2. \A u \in Thread : th'[u] = IF u = t THEN r ELSE th[u]
  BY <1>0 DEF InDirMove
<1>3. \A n : Reclaimed(n)' <=> Reclaimed(n)
  <2>1. th[t].pc # "reclaim_check" /\ r.pc # "reclaim_check"
    BY DEF InDirMove, InDir, Creating, Removing
  <2> QED
    BY <1>2, <2>1 DEF Reclaimed
<1>4. Directory(r)'
  BY <1>1, <1>3, DirectoryKept
<1>5. \A n : Unfinished(n) => Unfinished(n)'
  <2> SUFFICES ASSUME NEW n, Unfinished(n) PROVE Unfinished(n)'
    OBVIOUS
  <2>1. PICK v \in Thread : dirlock = v /\ th[v].num = n /\ th[v].pc \in {"getvnode_new", "stopped"} \cup Removing
    BY DEF Unfinished
  <2>2. v = t
    BY <1>0, <2>1 DEF InDirMove
  <2>3. th[t].pc # "stopped"
    BY DEF InDirMove, InDir, Creating, Removing
  <2>4. r.pc \in {"getvnode_new", "stopped"} \cup Removing /\ r.num = n /\ dirlock' = t
    BY <2>1, <2>2, <2>3 DEF Pending
  <2> QED
    BY <1>2, <2>4 DEF Unfinished
<1>6. Dents'
  BY <1>0, <1>1, <1>5 DEF Dents
<1> QED
  BY <1>4, <1>6, QuietDirectory

\* A thread in the directory has semfs_dirlock.
LEMMA HasDirlock ==
    ASSUME SemFSInv, NEW t \in Thread, th[t].pc \in InDir
    PROVE  /\ dirlock = t /\ Types /\ Table /\ HasVnodes /\ Dents /\ VnodeRefs
           /\ ThType(th[t]) /\ Position(th[t]) /\ Directory(th[t])
           /\ th[t].dir /\ th[t].name \in Name /\ th[t].vn = {}
<1>1. dirlock = t /\ Types /\ Table /\ HasVnodes /\ Dents /\ VnodeRefs
  BY DEF SemFSInv, Locks
<1>2. ThType(th[t]) /\ Position(th[t]) /\ Directory(th[t])
  BY DEF SemFSInv, Types
<1>3. th[t].dir /\ th[t].name \in Name
  BY <1>2 DEF Position, InCall
<1>4. th[t].pc \notin {"reclaim", "stopped"}
  BY DEF InDir, Creating, Removing
<1> QED
  BY <1>1, <1>2, <1>3, <1>4 DEF Position

\* semfs_remove takes the pointer of the name it found.
LEMMA RemoveFindStep ==
    ASSUME SemFSInv, NEW t \in Thread, semfs_remove_find(t)
    PROVE  SemFSInv'
<1>0. /\ th[t].pc = "getsembynum" /\ th[t].pc \in InDir
      /\ dirlock' = dirlock /\ tablelock' = tablelock
      /\ sems' = sems /\ dents' = dents /\ vnodes' = vnodes /\ sem' = sem
  BY DEF semfs_remove_find, InDir
<1>1. /\ dirlock = t /\ Types /\ VnodeRefs /\ ThType(th[t]) /\ Position(th[t]) /\ Directory(th[t])
      /\ th[t].dir /\ th[t].name \in Name /\ th[t].vn = {}
  BY <1>0, HasDirlock
<1>2. PICK n : n = th[t].num
  OBVIOUS
<1>3. n \in Semnum /\ Linked(n) /\ HasDent(th[t].name, n)
  BY <1>0, <1>1, <1>2 DEF Directory, InDir
<1>4. SemAt(n) # NULL /\ sems[n] = SemAt(n) /\ SemAt(n) \in Sem \cup {NULL}
  BY <1>1, <1>3, SlotFacts DEF Linked
<1>5. PICK r : r = [th[t] EXCEPT !.pc = "unlink", !.sem = sems[th[t].num]]
  OBVIOUS
<1>6. th' = [th EXCEPT ![t] = r]
  BY <1>5 DEF semfs_remove_find
<1>7. /\ DOMAIN r = DOMAIN th[t] /\ r.pc = "unlink" /\ r.op = th[t].op /\ r.name = th[t].name /\ r.dir = th[t].dir
      /\ r.sem = sems[n] /\ r.resid = th[t].resid /\ r.num = n /\ r.vn = th[t].vn /\ r.fd = th[t].fd
  <2>1. DOMAIN th[t] = {"pc", "op", "name", "dir", "num", "sem", "resid", "vn", "fd"}
    BY <1>1 DEF ThType
  <2> QED
    BY <1>2, <1>5, <2>1, SMTT(30)
<1>8. ThType(r)
  BY <1>1, <1>2, <1>4, <1>7 DEF ThType, PC, InCall, InDir
<1>9. Position(r)
  BY <1>1, <1>7 DEF Position, InCall, InDir, Creating
<1>10. Directory(r)
  BY <1>3, <1>4, <1>7 DEF Directory, Creating, Removing
<1>11. InDirMove(t, r)
  BY <1>0, <1>1, <1>6, <1>7, <1>8, <1>9 DEF InDirMove, InDir
<1>12. VnodeRefs'
  BY <1>0, <1>1, <1>6, <1>7, RefsKeptOne
<1>13. TableTypes' /\ Quiet
  BY <1>0, <1>1, SameTables
<1>14. Handed(t, r) /\ Pending(t, r)
  BY <1>0 DEF Handed, Pending, Creating, Removing
<1> QED
  BY <1>0, <1>10, <1>11, <1>12, <1>13, <1>14, SameDirectory

\* A step that moves on, keeping semfs_dirlock and everything else.
LEMMA PcStep ==
    ASSUME SemFSInv, NEW t \in Thread, th[t].pc \in InDir, NEW p \in InDir \cup {"dropdir", "stopped"},
           NEW r, r = [th[t] EXCEPT !.pc = p],
           th' = [th EXCEPT ![t] = r], dirlock' \in {t, NULL}, p \in InDir => dirlock' = t,
           tablelock' = tablelock, sems' = sems, dents' = dents, vnodes' = vnodes, sem' = sem,
           Directory(r), Handed(t, r), Pending(t, r), p \in {"insert", "getvnode"} \cup Creating => th[t].fd = {}
    PROVE  SemFSInv'
<1>1. /\ dirlock = t /\ Types /\ VnodeRefs /\ ThType(th[t]) /\ Position(th[t])
      /\ th[t].dir /\ th[t].name \in Name /\ th[t].vn = {}
  BY HasDirlock
<1>2. p \in PC
  BY DEF PC, InCall
<1>3. /\ ThType(r) /\ r.pc = p /\ r.op = th[t].op /\ r.name = th[t].name /\ r.dir = th[t].dir /\ r.num = th[t].num
      /\ r.sem = th[t].sem /\ r.vn = th[t].vn /\ r.fd = th[t].fd
  BY <1>1, <1>2, PcRecord
<1>4. Position(r)
  <2>1. p \notin {"reclaim", "dir"} /\ (p \notin InCall => p = "stopped")
    BY DEF InCall, InDir, Creating, Removing
  <2> QED
    BY <1>1, <1>3, <2>1 DEF Position
<1>5. InDirMove(t, r)
  BY <1>1, <1>3, <1>4 DEF InDirMove
<1>6. VnodeRefs'
  BY <1>1, <1>3, RefsKeptOne
<1>7. TableTypes' /\ Quiet
  BY <1>1, SameTables
<1> QED
  BY <1>5, <1>6, <1>7, SameDirectory

\* semfs_remove chooses between destroying and unlocking.
LEMMA RemoveHasvnodeStep ==
    ASSUME SemFSInv, NEW t \in Thread, semfs_remove_hasvnode(t)
    PROVE  SemFSInv'
<1>1. PICK p : p = IF sem[th[t].sem].hasvnode THEN "unlock" ELSE "remove"
  OBVIOUS
<1>0. /\ th[t].pc = "hasvnode" /\ sem[th[t].sem].state = "live"
      /\ th' = [th EXCEPT ![t].pc = p]
      /\ dirlock' = dirlock /\ tablelock' = tablelock
      /\ sems' = sems /\ dents' = dents /\ vnodes' = vnodes /\ sem' = sem
  BY <1>1 DEF semfs_remove_hasvnode
<1>2. th[t].pc \in InDir /\ p \in InDir /\ p \in Removing /\ p \in {"unlock", "remove"} /\ th[t].pc \in Removing
  BY <1>0, <1>1 DEF InDir, Removing
<1>3. dirlock = t /\ ThType(th[t]) /\ Directory(th[t])
  BY <1>2, HasDirlock
<1>4. PICK r : r = [th[t] EXCEPT !.pc = p]
  OBVIOUS
<1>5. r.pc = p /\ r.name = th[t].name /\ r.num = th[t].num /\ r.sem = th[t].sem
  <2>1. p \in PC
    BY <1>2 DEF PC, InCall
  <2> QED
    BY <1>3, <1>4, <2>1, PcRecord
<1>6. /\ HasDent(r.name, r.num) /\ r.num \in Semnum /\ r.sem \in Sem
      /\ SemAt(r.num) = r.sem /\ sem[r.sem].state = "live" /\ ~sem[r.sem].linked
  BY <1>0, <1>2, <1>3, <1>5 DEF Directory
<1>7. Directory(r)
  <2>1. p \notin {"insert", "dent", "getvnode", "getsembynum", "unlink"} \cup Creating
    BY <1>2 DEF Creating
  <2> QED
    BY <1>1, <1>5, <1>6, <2>1 DEF Directory
<1>8. Handed(t, r) /\ Pending(t, r)
  BY <1>0, <1>2, <1>3, <1>5 DEF Handed, Pending
<1>9. th' = [th EXCEPT ![t] = r] /\ p \notin {"insert", "getvnode"} \cup Creating
  BY <1>0, <1>2, <1>4 DEF Creating
<1> QED
  BY <1>0, <1>2, <1>3, <1>4, <1>7, <1>8, <1>9, PcStep

\* The thread stops where it is, semfs_dirlock held.
LEMMA UseAfterFreeStep ==
    ASSUME SemFSInv, NEW t \in Thread, UseAfterFree(t)
    PROVE  SemFSInv'
<1>0. /\ th[t].pc \in Removing /\ sem[th[t].sem].state = "destroyed"
      /\ th' = [th EXCEPT ![t].pc = "stopped"]
      /\ dirlock' = dirlock /\ tablelock' = tablelock
      /\ sems' = sems /\ dents' = dents /\ vnodes' = vnodes /\ sem' = sem
  BY DEF UseAfterFree, Removing
<1>1. th[t].pc \in InDir
  BY <1>0 DEF InDir
<1>2. dirlock = t /\ ThType(th[t]) /\ Directory(th[t])
  BY <1>1, HasDirlock
<1>3. PICK r : r = [th[t] EXCEPT !.pc = "stopped"]
  OBVIOUS
<1>4. r.pc = "stopped" /\ r.num = th[t].num
  BY <1>2, <1>3, StopRecord
<1>5. Directory(r)
  BY <1>4 DEF Directory, InDir, Creating, Removing
<1>6. SemAt(th[t].num) = NULL
  BY <1>0, <1>2 DEF Directory
<1>7. Handed(t, r) /\ Pending(t, r)
  BY <1>0, <1>2, <1>4, <1>6 DEF Handed, Pending
<1>8. th' = [th EXCEPT ![t] = r] /\ "stopped" \notin InDir /\ "stopped" \notin {"insert", "getvnode"} \cup Creating
  BY <1>0, <1>3 DEF InDir, Creating, Removing
<1> QED
  BY <1>0, <1>1, <1>2, <1>3, <1>5, <1>7, <1>8, PcStep

\* A call that fails, or that found what it looks for, leaves the directory.
LEMMA LeaveStep ==
    ASSUME SemFSInv, NEW t \in Thread, th[t].pc \in {"insert", "getvnode"},
           th' = [th EXCEPT ![t].pc = "dropdir"], dirlock' = NULL,
           tablelock' = tablelock, sems' = sems, dents' = dents, vnodes' = vnodes, sem' = sem
    PROVE  SemFSInv'
<1>1. th[t].pc \in InDir /\ "dropdir" \notin InDir /\ "dropdir" \notin {"insert", "getvnode"} \cup Creating
  BY DEF InDir, Creating, Removing
<1>2. ThType(th[t])
  BY <1>1, HasDirlock
<1>3. PICK r : r = [th[t] EXCEPT !.pc = "dropdir"]
  OBVIOUS
<1>4. r.pc = "dropdir"
  <2>1. "dropdir" \in PC
    BY DEF PC, InCall
  <2> QED
    BY <1>2, <1>3, <2>1, PcRecord
<1>5. Directory(r)
  BY <1>4 DEF Directory, InDir, Creating, Removing
<1>6. Handed(t, r) /\ Pending(t, r)
  BY DEF Handed, Pending, Creating, Removing
<1> QED
  BY <1>1, <1>3, <1>5, <1>6, PcStep

\* A name found while nobody has semfs_dirlock means a linked semaphore.
LEMMA FoundLinked ==
    ASSUME SemFSInv, dirlock = NULL, NEW name \in Name, NEW i, i = Found(name), i # 0
    PROVE  /\ i \in DOMAIN dents /\ dents[i] = <<name, dents[i][2]>> /\ dents[i][2] \in Semnum
           /\ Linked(dents[i][2]) /\ HasDent(name, dents[i][2])
<1>1. Dents /\ dents \in Seq((Name \X Semnum) \cup {NoDent})
  BY DEF SemFSInv, Types, TableTypes
<1>2. i \in DOMAIN dents /\ dents[i][1] = name
  BY <1>1, FoundIt
<1>3. dents[i] \in (Name \X Semnum) \cup {NoDent}
  BY <1>1, <1>2, SMTT(30)
<1>4. dents[i] # NoDent
  <2>1. NoDent[1] = NULL
    BY SMTT(30) DEF NoDent
  <2> QED
    BY <1>2, <2>1, SemFSAssumption
<1>5. dents[i] = <<name, dents[i][2]>> /\ dents[i][2] \in Semnum
  <2>1. dents[i] \in Name \X Semnum
    BY <1>3, <1>4
  <2>2. \A x \in Name \X Semnum : x = <<x[1], x[2]>> /\ x[2] \in Semnum
    BY SMTT(30)
  <2> QED
    BY <1>2, <2>1, <2>2
<1>6. Linked(dents[i][2])
  BY <1>1, <1>2, <1>4, SemFSAssumption DEF Dents, Unfinished
<1> QED
  BY <1>2, <1>5, <1>6 DEF HasDent

\* semfs_dirlock is taken and the names are searched.
LEMMA ScanStep ==
    ASSUME SemFSInv, NEW t \in Thread, semfs_scan(t)
    PROVE  SemFSInv'
<1> DEFINE op == th[t].op
           name == th[t].name
<1>1. PICK i : i = Found(name)
  OBVIOUS
<1>2. PICK goto : goto = CASE i = 0 /\ op \in {"creat", "excl"} -> "insert"
                           [] i = 0 /\ op \notin {"creat", "excl"} -> "dropdir"
                           [] i # 0 /\ op = "excl" -> "dropdir"
                           [] i # 0 /\ op = "remove" -> "getsembynum"
                           [] i # 0 /\ op \notin {"excl", "remove"} -> "getvnode"
  OBVIOUS
<1>3. PICK m : m = IF i = 0 THEN 0 ELSE dents[i][2]
  OBVIOUS
<1>0. /\ th[t].pc = "dir" /\ dirlock = NULL
      /\ dirlock' = IF goto = "dropdir" THEN NULL ELSE t
      /\ th' = [th EXCEPT ![t].pc = goto, ![t].num = m]
      /\ tablelock' = tablelock /\ sems' = sems /\ dents' = dents /\ vnodes' = vnodes /\ sem' = sem
  BY <1>1, <1>2, <1>3 DEF semfs_scan
<1>4. /\ Types /\ VnodeRefs /\ ThType(th[t]) /\ Position(th[t]) /\ DOMAIN th = Thread
      /\ dents \in Seq((Name \X Semnum) \cup {NoDent})
  BY DEF SemFSInv, Types, TableTypes
<1>5. th[t].dir /\ name \in Name /\ (op # "remove" => th[t].fd = {}) /\ th[t].vn = {}
  BY <1>0, <1>4 DEF Position, InCall
<1>6. /\ i = 0 => m = 0 /\ \A j \in DOMAIN dents : dents[j][1] # name
      /\ i # 0 => m \in Semnum /\ Linked(m) /\ HasDent(name, m)
  <2>1. 0 \notin DOMAIN dents
    BY <1>4, SMTT(30)
  <2>2. i = 0 => m = 0 /\ \A j \in DOMAIN dents : dents[j][1] # name
    BY <1>1, <1>3, <1>4, <2>1, FoundIt
  <2>3. i # 0 => m \in Semnum /\ Linked(m) /\ HasDent(name, m)
    BY <1>0, <1>1, <1>3, <1>5, FoundLinked
  <2> QED
    BY <2>2, <2>3
<1>7. /\ goto \in {"insert", "dropdir", "getsembynum", "getvnode"}
      /\ goto = "insert" => i = 0 /\ op # "remove"
      /\ goto = "getsembynum" => i # 0
      /\ goto = "getvnode" => i # 0 /\ op # "remove"
  <2> HIDE DEF op, name
  <2>1. CASE i = 0 /\ op \in {"creat", "excl"}
    BY <1>2, <2>1
  <2>2. CASE i = 0 /\ op \notin {"creat", "excl"}
    BY <1>2, <2>2
  <2>3. CASE i # 0 /\ op = "excl"
    BY <1>2, <2>3
  <2>4. CASE i # 0 /\ op = "remove"
    BY <1>2, <2>4
  <2>5. CASE i # 0 /\ op \notin {"excl", "remove"}
    BY <1>2, <2>5
  <2> QED
    BY <2>1, <2>2, <2>3, <2>4, <2>5
<1>8. PICK r : r = [th[t] EXCEPT !.pc = goto, !.num = m]
  OBVIOUS
<1>9. th' = [th EXCEPT ![t] = r]
  BY <1>0, <1>4, <1>8
<1>10. /\ DOMAIN r = DOMAIN th[t] /\ r.pc = goto /\ r.op = th[t].op /\ r.name = th[t].name /\ r.dir = th[t].dir
       /\ r.sem = th[t].sem /\ r.resid = th[t].resid /\ r.num = m /\ r.vn = th[t].vn /\ r.fd = th[t].fd
  <2>1. DOMAIN th[t] = {"pc", "op", "name", "dir", "num", "sem", "resid", "vn", "fd"}
    BY <1>4 DEF ThType
  <2> QED
    BY <1>8, <2>1, SMTT(30)
<1>11. goto \in PC /\ goto \in InCall /\ m \in Vnode /\ goto \in InDir \cup {"dropdir"}
  BY <1>6, <1>7 DEF PC, InCall, InDir, Vnode, SEMFS_ROOTDIR
<1>12. ThType(r)
  BY <1>4, <1>10, <1>11 DEF ThType
<1>13. Position(r)
  <2>1. goto \notin Creating \cup {"reclaim", "dir"}
    BY <1>7 DEF Creating
  <2> QED
    BY <1>5, <1>7, <1>10, <1>11, <2>1 DEF Position
<1>14. Directory(r)
  <2>1. goto \notin Creating \cup Removing \cup {"dent", "unlink"}
    BY <1>7 DEF Creating, Removing
  <2>2. "dropdir" \notin InDir /\ "remove" \in Removing /\ "unlock" \in Removing /\ "getvnode_new" \in Creating
    BY DEF InDir, Creating, Removing
  <2> QED
    BY <1>6, <1>7, <1>10, <2>1, <2>2 DEF Directory
<1>15. InDirMove(t, r)
  BY <1>0, <1>9, <1>10, <1>11, <1>12, <1>13 DEF InDirMove, InDir, Creating, Removing
<1>16. VnodeRefs'
  BY <1>0, <1>4, <1>9, <1>10, RefsKeptOne
<1>17. TableTypes' /\ Quiet
  BY <1>0, <1>4, SameTables
<1>18. Handed(t, r) /\ Pending(t, r)
  BY <1>0 DEF Handed, Pending, Creating, Removing
<1> QED
  BY <1>0, <1>14, <1>15, <1>16, <1>17, <1>18, SameDirectory

\* The flags of one semaphore of the table, and the count of its vnode.
Flagged(n, s, q) ==
    /\ s = SemAt(n) /\ s # NULL /\ sem' = [sem EXCEPT ![s] = q] /\ SemType(q) /\ q.state = sem[s].state
    /\ sems' = sems /\ dents' = dents
    /\ vnodes' \in [Vnode -> Nat] /\ (\A m \in Semnum : m # n => vnodes'[m] = vnodes[m])
    /\ q.hasvnode <=> vnodes'[n] # 0

\* Such a change keeps the table, and what the others are linked to.
LEMMA FlagSlot ==
    ASSUME SemFSInv, NEW n \in Semnum, NEW s, NEW q, Flagged(n, s, q)
    PROVE  /\ TableTypes' /\ Table' /\ HasVnodes' /\ s \in Sem
           /\ sem'[s] = q /\ \A m : SemAt(m)' = SemAt(m) /\ (m # n => (Linked(m)' <=> Linked(m)))
           /\ Linked(n)' <=> q.linked
<1>0. /\ Types /\ Table /\ HasVnodes /\ TableTypes /\ DOMAIN sem = Sem /\ \A x \in Sem : SemType(sem[x])
  BY DEF SemFSInv, Types, TableTypes
<1>1. /\ s = SemAt(n) /\ s # NULL /\ sem' = [sem EXCEPT ![s] = q] /\ SemType(q) /\ q.state = sem[s].state
      /\ sems' = sems /\ dents' = dents
      /\ vnodes' \in [Vnode -> Nat] /\ (\A m \in Semnum : m # n => vnodes'[m] = vnodes[m])
      /\ q.hasvnode <=> vnodes'[n] # 0
  BY DEF Flagged
<1>2. s \in Sem /\ \A m : SemAt(m) \in Sem \cup {NULL} /\ (SemAt(m) # NULL => m \in Semnum)
  BY <1>0, <1>1, SlotFacts
<1>3. DOMAIN sem' = Sem /\ sem'[s] = q /\ \A x \in Sem : x # s => sem'[x] = sem[x]
  BY <1>0, <1>1, <1>2
<1>4. \A m : SemAt(m)' = SemAt(m)
  BY <1>1 DEF SemAt
<1>5. \A m : m # n => SemAt(m) # s
  BY <1>0, <1>1, <1>2 DEF Table
<1>6. TableTypes'
  <2>1. \A x \in Sem : SemType(sem'[x])
    BY <1>0, <1>1, <1>3
  <2> QED
    BY <1>0, <1>1, <1>3, <2>1 DEF TableTypes
<1>7. Table'
  <2>1. \A x \in Sem : sem'[x].state = sem[x].state
    BY <1>1, <1>3
  <2>2. sem[s].state = "live"
    BY <1>0, <1>1 DEF Table
  <2>3. \A x \in Sem : sem'[x].state = "fresh" => ~sem'[x].linked /\ ~sem'[x].hasvnode
    <3> SUFFICES ASSUME NEW x \in Sem, sem'[x].state = "fresh" PROVE ~sem'[x].linked /\ ~sem'[x].hasvnode
      OBVIOUS
    <3>1. x # s
      BY <2>1, <2>2
    <3> QED
      BY <1>0, <1>3, <3>1 DEF Table
  <2> QED
    BY <1>0, <1>2, <1>4, <2>1, <2>3 DEF Table
<1>8. HasVnodes'
  <2> SUFFICES ASSUME NEW m \in Semnum
               PROVE  /\ SemAt(m) = NULL => vnodes'[m] = 0
                      /\ SemAt(m) # NULL => (sem'[SemAt(m)].hasvnode <=> vnodes'[m] # 0)
    BY <1>4 DEF HasVnodes
  <2>1. CASE m = n
    BY <1>1, <1>3, <2>1
  <2>2. CASE m # n
    <3>1. vnodes'[m] = vnodes[m]
      BY <1>1, <2>2
    <3>2. SemAt(m) # NULL => sem'[SemAt(m)] = sem[SemAt(m)]
      BY <1>2, <1>3, <1>5, <2>2
    <3> QED
      BY <1>0, <3>1, <3>2 DEF HasVnodes
  <2> QED
    BY <2>1, <2>2
<1>9. \A m : m # n => (Linked(m)' <=> Linked(m))
  BY <1>2, <1>3, <1>4, <1>5 DEF Linked
<1>10. Linked(n)' <=> q.linked
  BY <1>1, <1>3, <1>4 DEF Linked
<1> QED
  BY <1>2, <1>3, <1>4, <1>6, <1>7, <1>8, <1>9, <1>10

\* The record of a thread that has opened vnode n.
LEMMA OpenRecord ==
    ASSUME NEW q, ThType(q), Position(q), q.dir, q.name \in Name, q.vn = {}, NEW n \in Vnode,
           NEW r, DOMAIN r = DOMAIN q, r.pc = "dropdir", r.name = q.name, r.dir = q.dir, r.num = q.num,
           r.sem \in Sem \cup {NULL}, r.resid = q.resid, r.vn = q.vn, r.fd = {n}
    PROVE  ThType(r) /\ Position(r)
<1>1. ThType(r)
  BY DEF ThType, PC, InCall
<1>2. "dropdir" \notin {"insert", "getvnode"} \cup Creating
  BY DEF Creating
<1> QED
  BY <1>1, <1>2 DEF Position, InCall

\* The vnode of a name that was found: another reference, or a new vnode.
LEMMA OpenedStep ==
    ASSUME SemFSInv, NEW t \in Thread, semfs_opened(t)
    PROVE  SemFSInv'
<1>1. PICK n : n = th[t].num
  OBVIOUS
<1>2. PICK r : r = [th[t] EXCEPT !.pc = "dropdir", !.fd = {n}]
  OBVIOUS
<1>0. /\ th[t].pc = "getvnode" /\ th[t].pc \in InDir /\ dirlock' = NULL
      /\ \/ semfs_getvnode(n) /\ th' = [th EXCEPT ![t] = r]
         \/ th' = [th EXCEPT ![t].pc = "dropdir"] /\ vnodes' = vnodes /\ sem' = sem
      /\ tablelock' = tablelock /\ sems' = sems /\ dents' = dents
  BY <1>1, <1>2 DEF semfs_opened, InDir
<1>3. /\ dirlock = t /\ Types /\ VnodeRefs /\ HasVnodes /\ Dents /\ ThType(th[t]) /\ Position(th[t]) /\ Directory(th[t])
      /\ th[t].dir /\ th[t].name \in Name /\ th[t].vn = {} /\ th[t].fd = {} /\ Reachable
      /\ vnodes \in [Vnode -> Nat] /\ DOMAIN th = Thread /\ NULL \notin Thread
  <2>1. th[t].fd = {}
    BY <1>0 DEF SemFSInv, Position
  <2> QED
    BY <1>0, <2>1, HasDirlock, SemFSAssumption DEF SemFSInv, Types, TableTypes
<1>4. CASE th' = [th EXCEPT ![t].pc = "dropdir"] /\ vnodes' = vnodes /\ sem' = sem
  BY <1>0, <1>4, LeaveStep
<1>5. CASE semfs_getvnode(n) /\ th' = [th EXCEPT ![t] = r]
  <2>1. n \in Semnum /\ Linked(n) /\ n \in Vnode /\ vnodes[n] \in Nat
    BY <1>0, <1>1, <1>3 DEF Directory, InDir, Vnode
  <2>2. /\ DOMAIN r = DOMAIN th[t] /\ r.pc = "dropdir" /\ r.name = th[t].name /\ r.dir = th[t].dir
        /\ r.sem = th[t].sem /\ r.resid = th[t].resid /\ r.num = th[t].num /\ r.vn = th[t].vn /\ r.fd = {n}
    <3>1. DOMAIN th[t] = {"pc", "op", "name", "dir", "num", "sem", "resid", "vn", "fd"}
      BY <1>3 DEF ThType
    <3> QED
      BY <1>2, <3>1, SMTT(30)
  <2>3. ThType(r) /\ Position(r)
    <3>1. th[t].sem \in Sem \cup {NULL}
      BY <1>3 DEF ThType
    <3> QED
      BY <1>3, <2>1, <2>2, <3>1, OpenRecord
  <2>4. Directory(r)
    BY <2>2 DEF Directory, InDir, Creating, Removing
  <2>5. InDirMove(t, r)
    BY <1>0, <1>3, <1>5, <2>2, <2>3 DEF InDirMove, InDir, Creating, Removing
  <2>6. tablelock = NULL /\ vnodes' = [vnodes EXCEPT ![n] = @ + 1]
    BY <1>5 DEF semfs_getvnode
  <2>7. VnodeRefs'
    <3>1. Gains(th[t], r, n, 1)
      <4>1. 1 # 2 /\ 1 # 3
        BY SMTT(30)
      <4> QED
        BY <1>3, <2>2, <4>1, GainsFields
    <3> QED
      BY <1>3, <1>5, <2>1, <2>6, <3>1, RefGained
  <2>8. Handed(t, r) /\ Pending(t, r)
    BY <1>0 DEF Handed, Pending, Creating, Removing
  <2>9. CASE vnodes[n] # 0
    <3>1. vnodes[n] > 0
      BY <2>1, <2>9, SMTT(30)
    <3>2. sem' = sem
      BY <1>5, <3>1 DEF semfs_getvnode
    <3>3. TableTypes' /\ Quiet
      BY <1>0, <1>3, <2>1, <2>6, <2>9, <3>2, CountUp
    <3> QED
      BY <1>0, <2>4, <2>5, <2>7, <2>8, <3>3, SameDirectory
  <2>10. CASE vnodes[n] = 0
    <3>1. PICK s : s = SemAt(n)
      OBVIOUS
    <3>2. s \in Sem /\ s # NULL /\ sems[n] = s /\ sem[s].linked /\ SemType(sem[s])
      BY <1>3, <2>1, <3>1, SlotFacts DEF Linked, Types, TableTypes
    <3>3. PICK q : q = [sem[s] EXCEPT !.hasvnode = TRUE]
      OBVIOUS
    <3>4. sem' = [sem EXCEPT ![s] = q]
      <4>1. n # SEMFS_ROOTDIR /\ ~(vnodes[n] > 0)
        BY <2>1, <2>10, SMTT(30) DEF Semnum, SEMFS_ROOTDIR
      <4> QED
        BY <1>5, <3>2, <3>3, <4>1 DEF semfs_getvnode
    <3>5. /\ DOMAIN q = DOMAIN sem[s] /\ q.count = sem[s].count /\ q.state = sem[s].state /\ q.lock = sem[s].lock
          /\ q.hasvnode = TRUE /\ q.linked = sem[s].linked
      <4>1. DOMAIN sem[s] = {"state", "lock", "count", "hasvnode", "linked"}
        BY <3>2 DEF SemType
      <4> QED
        BY <3>3, <4>1, SMTT(30)
    <3>6. SemType(q)
      BY <3>2, <3>5 DEF SemType
    <3>7. vnodes[n] + 1 \in Nat /\ vnodes[n] + 1 # 0
      BY <2>1, SMTT(30)
    <3>8. vnodes' \in [Vnode -> Nat] /\ vnodes'[n] # 0 /\ \A m \in Semnum : m # n => vnodes'[m] = vnodes[m]
      BY <1>3, <2>1, <2>6, <3>7 DEF Vnode
    <3>9. Flagged(n, s, q)
      BY <1>0, <3>1, <3>2, <3>4, <3>5, <3>6, <3>8 DEF Flagged
    <3>10. /\ TableTypes' /\ Table' /\ HasVnodes'
           /\ \A m : SemAt(m)' = SemAt(m) /\ (m # n => (Linked(m)' <=> Linked(m)))
           /\ Linked(n)'
      <4>1. q.linked
        BY <3>2, <3>5
      <4> QED
        BY <2>1, <3>9, <4>1, FlagSlot
    <3>11. \A u \in Thread : th'[u] = IF u = t THEN r ELSE th[u]
      BY <1>3, <1>5
    <3>12. Dents'
      <4>1. \A m : ~Unfinished(m)
        BY <1>0, <1>3 DEF Unfinished, Removing
      <4>2. \A m : Linked(m) => Linked(m)'
        BY <3>10
      <4> QED
        BY <1>0, <1>3, <4>1, <4>2 DEF Dents
    <3>13. Reachable'
      <4>1. \A m : Busy(m) => Busy(m)'
        BY <1>0, <3>11 DEF Busy, Creating, Removing
      <4>2. \A m : Reclaimed(m) => Reclaimed(m)'
        BY <1>0, <3>11 DEF Reclaimed
      <4>3. \A m : Linked(m) => Linked(m)'
        BY <3>10
      <4> QED
        BY <1>3, <3>8, <3>10, <4>1, <4>2, <4>3 DEF Reachable
    <3>14. Directory(r)'
      BY <2>2 DEF Directory, InDir, Creating, Removing
    <3> QED
      BY <2>5, <2>6, <2>7, <3>10, <3>12, <3>13, <3>14, SlotStep
  <2> QED
    BY <2>9, <2>10
<1> QED
  BY <1>0, <1>4, <1>5

\* The name is still in the directory, and t with semfs_dirlock is dealing
\* with it.
LEMMA UnlinkStep ==
    ASSUME SemFSInv, NEW t \in Thread, semfs_remove_unlink(t)
    PROVE  SemFSInv'
<1>1. PICK n, s : n = th[t].num /\ s = th[t].sem
  OBVIOUS
<1>2. PICK r, q : r = [th[t] EXCEPT !.pc = "hasvnode"] /\ q = [sem[s] EXCEPT !.lock = t, !.linked = FALSE]
  OBVIOUS
<1>0. /\ th[t].pc = "unlink" /\ th[t].pc \in InDir /\ th' = [th EXCEPT ![t] = r]
      /\ dirlock' = dirlock /\ tablelock' = tablelock /\ sems' = sems /\ dents' = dents /\ vnodes' = vnodes
  BY <1>2 DEF semfs_remove_unlink, InDir
<1>3. /\ dirlock = t /\ Types /\ VnodeRefs /\ Table /\ HasVnodes /\ Dents /\ Reachable
      /\ ThType(th[t]) /\ Position(th[t]) /\ Directory(th[t]) /\ TableTypes
      /\ th[t].dir /\ th[t].name \in Name /\ th[t].vn = {}
      /\ vnodes \in [Vnode -> Nat] /\ DOMAIN th = Thread /\ DOMAIN sem = Sem
  BY <1>0, HasDirlock DEF SemFSInv, Types, TableTypes
<1>4. n \in Semnum /\ Linked(n) /\ s = SemAt(n) /\ s # NULL /\ HasDent(th[t].name, n)
  BY <1>0, <1>1, <1>3 DEF Directory, InDir, Linked
<1>5. s \in Sem /\ SemType(sem[s]) /\ sem[s].state = "live"
  BY <1>3, <1>4, SlotFacts DEF TableTypes, Table
<1>6. "hasvnode" \in PC /\ "hasvnode" \in InCall /\ "hasvnode" \in InDir /\ "hasvnode" \in Removing
  BY DEF PC, InCall, InDir, Removing
<1>7. /\ ThType(r) /\ r.pc = "hasvnode" /\ r.name = th[t].name /\ r.dir = th[t].dir /\ r.num = n
      /\ r.sem = s /\ r.vn = th[t].vn /\ r.fd = th[t].fd
  BY <1>1, <1>2, <1>3, <1>6, PcRecord
<1>8. Position(r)
  BY <1>3, <1>6, <1>7 DEF Position, Creating
<1>9. InDirMove(t, r)
  BY <1>0, <1>3, <1>6, <1>7, <1>8 DEF InDirMove
<1>10. VnodeRefs'
  BY <1>0, <1>3, <1>7, RefsKeptOne
<1>11. sem' = [sem EXCEPT ![s] = q]
  BY <1>1, <1>2 DEF semfs_remove_unlink
<1>12. /\ DOMAIN q = DOMAIN sem[s] /\ q.count = sem[s].count /\ q.state = sem[s].state /\ q.lock = t
       /\ q.hasvnode = sem[s].hasvnode /\ q.linked = FALSE
  <2>1. DOMAIN sem[s] = {"state", "lock", "count", "hasvnode", "linked"}
    BY <1>5 DEF SemType
  <2> QED
    BY <1>2, <2>1, SMTT(30)
<1>13. SemType(q)
  BY <1>5, <1>12 DEF SemType
<1>14. q.hasvnode <=> vnodes[n] # 0
  BY <1>3, <1>4, <1>12 DEF HasVnodes
<1>15. Flagged(n, s, q)
  BY <1>0, <1>3, <1>4, <1>11, <1>12, <1>13, <1>14 DEF Flagged
<1>16. /\ TableTypes' /\ Table' /\ HasVnodes' /\ sem'[s] = q
       /\ \A m : SemAt(m)' = SemAt(m) /\ (m # n => (Linked(m)' <=> Linked(m)))
  BY <1>4, <1>15, FlagSlot
<1>17. \A u \in Thread : th'[u] = IF u = t THEN r ELSE th[u]
  BY <1>0, <1>3
<1>18. Busy(n)' /\ Unfinished(n)'
  BY <1>0, <1>3, <1>6, <1>7, <1>17 DEF Busy, Unfinished
<1>19. Dents'
  <2>1. \A m : ~Unfinished(m)
    BY <1>0, <1>3 DEF Unfinished, Removing
  <2>2. \A m : Linked(m) => Linked(m)' \/ Unfinished(m)'
    BY <1>16, <1>18
  <2> QED
    BY <1>0, <1>3, <2>1, <2>2 DEF Dents
<1>20. Reachable'
  <2>1. \A m : Busy(m) => Busy(m)'
    BY <1>0, <1>17 DEF Busy, Creating, Removing
  <2>2. \A m : Reclaimed(m) => Reclaimed(m)'
    BY <1>0, <1>17 DEF Reclaimed
  <2>3. \A m : Linked(m) => Linked(m)' \/ Busy(m)'
    BY <1>16, <1>18
  <2> QED
    BY <1>0, <1>3, <1>16, <2>1, <2>2, <2>3 DEF Reachable
<1>21. Directory(r)'
  <2>1. HasDent(r.name, r.num)'
    BY <1>0, <1>4, <1>7 DEF HasDent
  <2>2. SemAt(n)' = s /\ sem'[s].state = "live" /\ ~sem'[s].linked
    BY <1>4, <1>5, <1>12, <1>16
  <2>3. r.pc = "hasvnode" /\ "hasvnode" \notin {"insert", "dent", "unlink", "remove", "unlock"}
        /\ "hasvnode" \notin {"getvnode", "getsembynum", "unlink"} /\ "hasvnode" \notin Creating
    BY <1>7 DEF Creating
  <2> QED
    BY <1>4, <1>5, <1>7, <2>1, <2>2, <2>3 DEF Directory
<1>22. \A m \in Semnum : SemAt(m)' = SemAt(m) /\ (vnodes[m] = 0 => vnodes'[m] = 0)
  BY <1>0, <1>16
<1> QED
  BY <1>9, <1>10, <1>16, <1>19, <1>20, <1>21, <1>22, DirectoryStep DEF InDirMove

\* semfs_sem_insert: a new semaphore, in a slot that was free.
LEMMA InsertStep ==
    ASSUME SemFSInv, NEW t \in Thread, semfs_sem_insert(t)
    PROVE  SemFSInv'
<1>0. /\ th[t].pc = "insert" /\ th[t].pc \in InDir /\ tablelock = NULL
      /\ tablelock' = tablelock /\ dents' = dents /\ vnodes' = vnodes
  BY DEF semfs_sem_insert, InDir
<1>1. /\ dirlock = t /\ Types /\ VnodeRefs /\ Table /\ HasVnodes /\ Dents /\ Reachable /\ Locks
      /\ ThType(th[t]) /\ Position(th[t]) /\ Directory(th[t]) /\ TableTypes
      /\ th[t].dir /\ th[t].name \in Name /\ th[t].vn = {} /\ th[t].fd = {}
      /\ vnodes \in [Vnode -> Nat] /\ DOMAIN th = Thread /\ DOMAIN sem = Sem /\ NULL \notin Thread
  <2>1. th[t].fd = {}
    BY <1>0 DEF SemFSInv, Position
  <2> QED
    BY <1>0, <2>1, HasDirlock, SemFSAssumption DEF SemFSInv, Types, TableTypes
<1>2. CASE th' = [th EXCEPT ![t].pc = "dropdir"] /\ dirlock' = NULL /\ sem' = sem /\ sems' = sems
  BY <1>0, <1>2, LeaveStep
<1>3. ASSUME NEW s \in Sem, sem[s].state = "fresh", sem' = [sem EXCEPT ![s].state = "live"],
             sems' = Set(sems, FreeSlot(sems, NULL), s),
             th' = [th EXCEPT ![t] = [@ EXCEPT !.pc = "dent", !.sem = s, !.num = FreeSlot(sems, NULL)]],
             dirlock' = dirlock
      PROVE  SemFSInv'
  <2>1. PICK k, r, q : /\ k = FreeSlot(sems, NULL) /\ q = [sem[s] EXCEPT !.state = "live"]
                       /\ r = [th[t] EXCEPT !.pc = "dent", !.sem = s, !.num = k]
    OBVIOUS
  <2>2. th' = [th EXCEPT ![t] = r] /\ sem' = [sem EXCEPT ![s] = q] /\ sems' = Set(sems, k, s)
    BY <1>3, <2>1
  <2>3. k \in Semnum /\ k \in Vnode
    BY <1>1, <1>3, <2>1, RoomForIt DEF Vnode
  <2>4. /\ DOMAIN r = DOMAIN th[t] /\ r.pc = "dent" /\ r.name = th[t].name /\ r.dir = th[t].dir
        /\ r.sem = s /\ r.resid = th[t].resid /\ r.num = k /\ r.vn = th[t].vn /\ r.fd = th[t].fd
    <3>1. DOMAIN th[t] = {"pc", "op", "name", "dir", "num", "sem", "resid", "vn", "fd"}
      BY <1>1 DEF ThType
    <3> QED
      BY <2>1, <3>1, SMTT(30)
  <2>5. ThType(r)
    BY <1>1, <2>3, <2>4 DEF ThType, PC, InCall, InDir, Creating
  <2>6. Position(r)
    BY <1>1, <2>4 DEF Position, InCall, InDir, Creating
  <2>7. InDirMove(t, r)
    BY <1>0, <1>1, <1>3, <2>2, <2>4, <2>5, <2>6 DEF InDirMove, InDir, Creating
  <2>8. VnodeRefs'
    BY <1>0, <1>1, <2>2, <2>4, RefsKeptOne
  <2>9. /\ sems' \in Seq(Sem \cup {NULL}) /\ DOMAIN sems' = DOMAIN sems \cup {k} /\ sems'[k] = s
        /\ (\A j \in DOMAIN sems : j # k => sems'[j] = sems[j]) /\ (k \in DOMAIN sems => sems[k] = NULL)
    <3>1. sems \in Seq(Sem \cup {NULL}) /\ s \in Sem \cup {NULL}
      BY <1>1 DEF TableTypes
    <3>2. \/ k \in DOMAIN sems /\ sems[k] = NULL
          \/ k = Len(sems) + 1 /\ \A i \in DOMAIN sems : sems[i] # NULL
      BY <2>1, <3>1, FreeSlotIt
    <3>3. k = Len(sems) + 1 => k \notin DOMAIN sems
      BY <3>1, SMTT(30)
    <3>4. k \in DOMAIN sems \/ k = Len(sems) + 1
      BY <3>2
    <3>5. /\ Set(sems, k, s) \in Seq(Sem \cup {NULL}) /\ DOMAIN Set(sems, k, s) = DOMAIN sems \cup {k}
          /\ Set(sems, k, s)[k] = s /\ \A j \in DOMAIN sems : j # k => Set(sems, k, s)[j] = sems[j]
      <4>1. MaySet(Sem \cup {NULL}, sems, k, s)
        BY <3>1, <3>4 DEF MaySet
      <4>2. IsSet(Sem \cup {NULL}, sems, k, s, Set(sems, k, s))
        BY <4>1, SetSlot
      <4> QED
        BY <4>2 DEF IsSet
    <3> QED
      BY <2>2, <3>2, <3>3, <3>5
  <2>10. SemAt(k) = NULL /\ SemAt(k)' = s /\ \A m : m # k => SemAt(m)' = SemAt(m)
    BY <2>9 DEF SemAt
  <2>11. Len(sems') <= Cardinality(Sem)
    <3>1. DOMAIN sems = 1 .. Len(sems) /\ Len(sems) \in Nat /\ Cardinality(Sem) \in Nat
      BY <1>1, SlotFacts
    <3>2. Len(sems) <= Cardinality(Sem)
      BY <1>1 DEF TableTypes
    <3>3. DOMAIN sems' = 1 .. Len(sems') /\ Len(sems') \in Nat
      <4>1. sems' \in Seq(Sem \cup {NULL})
        BY <2>9
      <4> QED
        BY <4>1, SMTT(30)
    <3>4. DOMAIN sems' \subseteq 1 .. Cardinality(Sem)
      <4>1. DOMAIN sems \subseteq Semnum
        BY <1>1, SlotFacts
      <4> QED
        BY <2>3, <2>9, <4>1 DEF Semnum
    <3>5. PICK l, c : l = Len(sems') /\ c = Cardinality(Sem)
      OBVIOUS
    <3>6. l \in Nat /\ c \in Nat /\ 1 .. l \subseteq 1 .. c
      BY <3>1, <3>3, <3>4, <3>5
    <3>7. l <= c
      BY <3>6, SMTT(30)
    <3> QED
      BY <3>5, <3>7
  <2>12. /\ SemType(sem[s]) /\ ~sem[s].linked /\ ~sem[s].hasvnode /\ s # NULL
         /\ \A m : SemAt(m) \in Sem \cup {NULL} /\ (SemAt(m) # NULL => m \in Semnum)
    BY <1>1, <1>3, SlotFacts DEF TableTypes, Table
  <2>13. \A m : SemAt(m) # s
    BY <1>1, <1>3, <2>12 DEF Table
  <2>14. /\ DOMAIN q = DOMAIN sem[s] /\ q.count = sem[s].count /\ q.state = "live" /\ q.lock = sem[s].lock
         /\ q.hasvnode = sem[s].hasvnode /\ q.linked = sem[s].linked
    <3>1. DOMAIN sem[s] = {"state", "lock", "count", "hasvnode", "linked"}
      BY <2>12 DEF SemType
    <3> QED
      BY <2>1, <3>1, SMTT(30)
  <2>15. SemType(q)
    BY <2>12, <2>14 DEF SemType
  <2>16. DOMAIN sem' = Sem /\ sem'[s] = q /\ \A x \in Sem : x # s => sem'[x] = sem[x]
    BY <1>1, <2>2
  <2>17. TableTypes'
    <3>1. \A x \in Sem : SemType(sem'[x])
      BY <1>1, <2>15, <2>16 DEF TableTypes
    <3> QED
      BY <1>0, <1>1, <2>9, <2>11, <2>16, <3>1 DEF TableTypes
  <2>18. \A m : SemAt(m) # NULL => m # k /\ SemAt(m)' = SemAt(m) /\ sem'[SemAt(m)] = sem[SemAt(m)]
    BY <2>10, <2>12, <2>13, <2>16
  <2>19. \A m : SemAt(m)' # NULL => m = k \/ (m # k /\ SemAt(m) # NULL /\ SemAt(m)' = SemAt(m))
    BY <2>10
  <2>20. Table'
    <3>1. \A m \in Semnum : SemAt(m)' # NULL => sem'[SemAt(m)'].state = "live"
      <4> SUFFICES ASSUME NEW m \in Semnum, SemAt(m)' # NULL PROVE sem'[SemAt(m)'].state = "live"
        OBVIOUS
      <4>1. CASE m = k
        BY <2>10, <2>14, <2>16, <4>1
      <4>2. CASE m # k
        <5>1. SemAt(m) # NULL /\ SemAt(m)' = SemAt(m)
          BY <2>19, <4>2
        <5>2. sem'[SemAt(m)] = sem[SemAt(m)] /\ sem[SemAt(m)].state = "live"
          BY <1>1, <2>18, <5>1 DEF Table
        <5> QED
          BY <5>1, <5>2
      <4> QED
        BY <4>1, <4>2
    <3>2. \A m, n \in Semnum : SemAt(n)' # NULL /\ SemAt(m)' = SemAt(n)' => m = n
      <4> SUFFICES ASSUME NEW m \in Semnum, NEW n \in Semnum, SemAt(n)' # NULL, SemAt(m)' = SemAt(n)'
                   PROVE  m = n
        OBVIOUS
      <4>1. CASE n = k
        BY <2>10, <2>13, <4>1
      <4>2. CASE n # k
        <5>1. SemAt(n) # NULL /\ SemAt(n)' = SemAt(n) /\ SemAt(n) # s
          BY <2>10, <2>13, <4>2
        <5>2. m # k
          BY <2>10, <5>1
        <5>3. SemAt(m) = SemAt(n)
          BY <2>10, <5>1, <5>2
        <5> QED
          BY <1>1, <5>1, <5>3 DEF Table
      <4> QED
        BY <4>1, <4>2
    <3>3. \A x \in Sem : sem'[x].state = "live" => \E n \in Semnum : SemAt(n)' = x
      <4> SUFFICES ASSUME NEW x \in Sem, sem'[x].state = "live" PROVE \E n \in Semnum : SemAt(n)' = x
        OBVIOUS
      <4>1. CASE x = s
        BY <2>3, <2>10, <4>1
      <4>2. CASE x # s
        <5>1. PICK n \in Semnum : SemAt(n) = x
          BY <1>1, <2>16, <4>2 DEF Table
        <5>2. x # NULL
          BY SemFSAssumption
        <5> QED
          BY <2>18, <5>1, <5>2
      <4> QED
        BY <4>1, <4>2
    <3>4. \A x \in Sem : sem'[x].state = "fresh" => ~sem'[x].linked /\ ~sem'[x].hasvnode
      <4>1. sem'[s].state # "fresh"
        BY <2>14, <2>16
      <4> QED
        BY <1>1, <2>16, <4>1 DEF Table
    <3> QED
      BY <3>1, <3>2, <3>3, <3>4 DEF Table
  <2>21. HasVnodes'
    <3> SUFFICES ASSUME NEW m \in Semnum
                 PROVE  /\ SemAt(m)' = NULL => vnodes[m] = 0
                        /\ SemAt(m)' # NULL => (sem'[SemAt(m)'].hasvnode <=> vnodes[m] # 0)
      BY <1>0 DEF HasVnodes
    <3>1. CASE m = k
      BY <1>1, <2>10, <2>12, <2>14, <2>16, <3>1 DEF HasVnodes
    <3>2. CASE m # k
      <4>1. SemAt(m)' = SemAt(m) /\ (SemAt(m) # NULL => sem'[SemAt(m)] = sem[SemAt(m)])
        BY <2>10, <2>18, <3>2
      <4> QED
        BY <1>1, <4>1 DEF HasVnodes
    <3> QED
      BY <3>1, <3>2
  <2>22. \A m : Linked(m) => Linked(m)'
    BY <2>18 DEF Linked
  <2>23. \A u \in Thread : th'[u] = IF u = t THEN r ELSE th[u]
    BY <1>1, <2>2
  <2>24. Dents'
    <3>1. \A m : ~Unfinished(m)
      BY <1>0, <1>1 DEF Unfinished, Removing
    <3> QED
      BY <1>0, <1>1, <2>22, <3>1 DEF Dents
  <2>25. Reachable'
    <3>1. \A m : Busy(m) => Busy(m)'
      BY <1>0, <2>23 DEF Busy, Creating, Removing
    <3>2. \A m : Reclaimed(m) => Reclaimed(m)'
      BY <1>0, <2>23 DEF Reclaimed
    <3>3. Busy(k)'
      BY <2>4, <2>23 DEF Busy, Creating
    <3> QED
      BY <1>0, <1>1, <2>19, <2>22, <3>1, <3>2, <3>3 DEF Reachable
  <2>26. Directory(r)'
    <3>1. ~Reclaimed(k)'
      <4>1. \A v \in Thread : th[v].pc # "reclaim_check"
        BY <1>0, <1>1 DEF Locks
      <4> QED
        BY <2>4, <2>23, <4>1 DEF Reclaimed
    <3>2. \A i \in DOMAIN dents' : dents'[i][1] # r.name
      BY <1>0, <1>1, <2>4 DEF Directory
    <3>3. ~sem'[s].hasvnode /\ ~sem'[s].linked
      BY <2>12, <2>14, <2>16
    <3>4. r.pc = "dent" /\ "dent" \notin {"unlink", "remove", "unlock"} /\ "dent" \notin Removing
          /\ "dent" \notin {"getvnode", "getsembynum", "unlink"}
          /\ "dent" \notin {"getsembynum", "unlink", "getvnode_new"}
      BY <2>4 DEF Removing
    <3> QED
      BY <2>3, <2>4, <2>10, <3>1, <3>2, <3>3, <3>4 DEF Directory
  <2>27. \A m \in Semnum : SemAt(m)' = SemAt(m) \/ vnodes[m] = 0
    BY <1>1, <2>10 DEF HasVnodes
  <2> QED
    BY <1>0, <2>7, <2>8, <2>17, <2>20, <2>21, <2>24, <2>25, <2>26, <2>27, SlotStep
<1> QED
  BY <1>2, <1>3 DEF semfs_sem_insert

\* An entry that is not NULL is a name and the number of a semaphore.
LEMMA DentParts ==
    ASSUME dents \in Seq((Name \X Semnum) \cup {NoDent})
    PROVE  /\ \A i \in DOMAIN dents : dents[i] # NoDent => /\ dents[i][1] \in Name /\ dents[i][2] \in Semnum
                                                           /\ dents[i] = <<dents[i][1], dents[i][2]>>
           /\ NoDent[1] \notin Name /\ NoDent[2] \notin Semnum
<1>1. \A i \in DOMAIN dents : dents[i] \in (Name \X Semnum) \cup {NoDent}
  BY SMTT(30)
<1>2. \A d \in Name \X Semnum : d[1] \in Name /\ d[2] \in Semnum /\ d = <<d[1], d[2]>>
  BY SMTT(30)
<1>3. NoDent[1] = NULL /\ NoDent[2] = 0 /\ 0 \notin Semnum
  BY SMTT(30) DEF NoDent, Semnum
<1> QED
  BY <1>1, <1>2, <1>3, SemFSAssumption

\* No two entries have a name or a number in common.
Distinct(d) == \A i, j \in DOMAIN d : d[i] # NoDent /\ i # j => d[i][1] # d[j][1] /\ d[i][2] # d[j][2]

\* The new entry of semfs_creat, of a name and a number that no entry has.
Unused(name, n) == /\ \A i \in DOMAIN dents : dents[i][1] # name
                   /\ \A i \in DOMAIN dents : dents[i] # NoDent => dents[i][2] # n

\* Stored in a free slot the new entry leaves the others as they are.
LEMMA NewDent ==
    ASSUME dents \in Seq((Name \X Semnum) \cup {NoDent}), Distinct(dents),
           NEW name \in Name, NEW n \in Semnum, Unused(name, n),
           dents' = Set(dents, FreeSlot(dents, NoDent), <<name, n>>)
    PROVE  /\ dents' \in Seq((Name \X Semnum) \cup {NoDent}) /\ Distinct(dents') /\ HasDent(name, n)'
           /\ \A i \in DOMAIN dents' : dents'[i] # <<name, n>> => i \in DOMAIN dents /\ dents'[i] = dents[i]
<1>1. PICK S, k, d : S = (Name \X Semnum) \cup {NoDent} /\ k = FreeSlot(dents, NoDent) /\ d = <<name, n>>
  OBVIOUS
<1>2. d \in S /\ d[1] = name /\ d[2] = n /\ dents \in Seq(S)
  BY <1>1
<1>3. k \in DOMAIN dents \/ k = Len(dents) + 1
  BY <1>1, <1>2, FreeSlotIt
<1>4. IsSet(S, dents, k, d, dents')
  <2>1. MaySet(S, dents, k, d)
    BY <1>2, <1>3 DEF MaySet
  <2>2. IsSet(S, dents, k, d, Set(dents, k, d))
    BY <2>1, SetSlot
  <2> QED
    BY <1>1, <2>2
<1>5. /\ dents' \in Seq(S) /\ DOMAIN dents' = DOMAIN dents \cup {k} /\ dents'[k] = d
      /\ \A j \in DOMAIN dents : j # k => dents'[j] = dents[j]
  BY <1>4 DEF IsSet
<1>6. \A i \in DOMAIN dents : dents[i][1] # name /\ dents[i][2] # n
  BY DentParts DEF Unused
<1>7. \A i \in DOMAIN dents' : i # k => /\ i \in DOMAIN dents /\ dents'[i] = dents[i]
                                        /\ dents'[i][1] # name /\ dents'[i][2] # n
  BY <1>5, <1>6
<1>8. Distinct(dents')
  <2> SUFFICES ASSUME NEW i \in DOMAIN dents', NEW j \in DOMAIN dents', dents'[i] # NoDent, i # j
               PROVE  dents'[i][1] # dents'[j][1] /\ dents'[i][2] # dents'[j][2]
    BY DEF Distinct
  <2>1. CASE i = k
    BY <1>2, <1>5, <1>7, <2>1
  <2>2. CASE i # k
    <3>1. CASE j = k
      BY <1>2, <1>5, <1>7, <2>2, <3>1
    <3>2. CASE j # k
      <4>1. i \in DOMAIN dents /\ j \in DOMAIN dents /\ dents'[i] = dents[i] /\ dents'[j] = dents[j]
        BY <1>7, <2>2, <3>2
      <4>2. dents[i] # NoDent
        BY <4>1
      <4>3. dents[i][1] # dents[j][1] /\ dents[i][2] # dents[j][2]
        BY <4>1, <4>2 DEF Distinct
      <4> QED
        BY <4>1, <4>3
    <3> QED
      BY <3>1, <3>2
  <2> QED
    BY <2>1, <2>2
<1>9. HasDent(name, n)'
  BY <1>1, <1>5 DEF HasDent
<1> QED
  BY <1>1, <1>5, <1>7, <1>8, <1>9

\* An entry of semfs_dents that becomes NULL: the others are of other numbers.
Forgotten(n) ==
    /\ dents' \in Seq((Name \X Semnum) \cup {NoDent}) /\ Distinct(dents')
    /\ \A i \in DOMAIN dents' : dents'[i] # NoDent => i \in DOMAIN dents /\ dents'[i] = dents[i] /\ dents'[i][2] # n

\* The entry semfs_dents holds for the name is the one of number n.
LEMMA ForgetDent ==
    ASSUME dents \in Seq((Name \X Semnum) \cup {NoDent}), Distinct(dents),
           NEW name \in Name, NEW n \in Semnum, HasDent(name, n), dents' = [dents EXCEPT ![Found(name)] = NoDent]
    PROVE  Forgotten(n)
<1>1. PICK k : k = Found(name)
  OBVIOUS
<1>2. PICK i \in DOMAIN dents : dents[i] = <<name, n>>
  BY DEF HasDent
<1>3. dents[i][1] = name /\ dents[i][2] = n
  BY <1>2, SMTT(30)
<1>4. dents[i] # NoDent
  <2>1. NoDent[1] \notin Name
    BY DentParts
  <2> QED
    BY <1>3, <2>1
<1>5. k \in DOMAIN dents /\ dents[k][1] = name
  BY <1>1, <1>3, FoundIt
<1>6. k = i
  BY <1>3, <1>4, <1>5 DEF Distinct
<1>7. DOMAIN dents' = DOMAIN dents /\ dents'[k] = NoDent /\ \A j \in DOMAIN dents : j # k => dents'[j] = dents[j]
  BY <1>1, <1>5
<1>8. dents' \in Seq((Name \X Semnum) \cup {NoDent})
  <2>1. dents' = [dents EXCEPT ![k] = NoDent] /\ NoDent \in (Name \X Semnum) \cup {NoDent}
    BY <1>1
  <2>2. PICK S, d : S = (Name \X Semnum) \cup {NoDent} /\ d = NoDent
    OBVIOUS
  <2>3. d \in S /\ dents \in Seq(S) /\ dents' = [dents EXCEPT ![k] = d]
    BY <2>1, <2>2
  <2>4. dents' \in Seq(S)
    <3>1. MaySet(S, dents, k, d)
      BY <1>5, <2>3 DEF MaySet
    <3>2. IsSet(S, dents, k, d, Set(dents, k, d))
      BY <3>1, SetSlot
    <3>3. Set(dents, k, d) = [dents EXCEPT ![k] = d]
      BY <1>5, <2>3, SMTT(30) DEF Set
    <3> QED
      BY <2>3, <3>2, <3>3 DEF IsSet
  <2> QED
    BY <2>2, <2>4
<1>9. Distinct(dents')
  <2> SUFFICES ASSUME NEW h \in DOMAIN dents', NEW j \in DOMAIN dents', dents'[h] # NoDent, h # j
               PROVE  dents'[h][1] # dents'[j][1] /\ dents'[h][2] # dents'[j][2]
    BY DEF Distinct
  <2>1. h # k /\ h \in DOMAIN dents /\ dents'[h] = dents[h] /\ j \in DOMAIN dents
    BY <1>7
  <2>2. CASE j = k
    <3>1. dents[h][1] \in Name /\ dents[h][2] \in Semnum /\ NoDent[1] \notin Name /\ NoDent[2] \notin Semnum
      BY <2>1, DentParts
    <3> QED
      BY <1>7, <2>1, <2>2, <3>1
  <2>3. CASE j # k
    BY <1>7, <2>1, <2>3 DEF Distinct
  <2> QED
    BY <2>2, <2>3
<1>10. \A j \in DOMAIN dents' : dents'[j] # NoDent => j \in DOMAIN dents /\ dents'[j] = dents[j] /\ dents'[j][2] # n
  BY <1>3, <1>4, <1>6, <1>7 DEF Distinct
<1> QED
  BY <1>8, <1>9, <1>10 DEF Forgotten

\* With that entry the thread that has semfs_dirlock has dealt with its number.
LEMMA DentsForgotten ==
    ASSUME SemFSInv, NEW t \in Thread, dirlock = t, NEW n, n = th[t].num, Forgotten(n),
           \A m : m # n /\ Linked(m) => Linked(m)'
    PROVE  Dents'
<1>1. Dents
  BY DEF SemFSInv
<1>2. \A m : Unfinished(m) => m = n
  BY DEF Unfinished
<1>3. \A i \in DOMAIN dents' : \A m : dents'[i] # NoDent /\ m = dents'[i][2] => Linked(m)'
  <2> SUFFICES ASSUME NEW i \in DOMAIN dents', NEW m, dents'[i] # NoDent, m = dents'[i][2] PROVE Linked(m)'
    OBVIOUS
  <2>1. i \in DOMAIN dents /\ dents[i] # NoDent /\ m = dents[i][2] /\ m # n
    BY DEF Forgotten
  <2>2. Linked(m) \/ Unfinished(m)
    BY <1>1, <2>1 DEF Dents
  <2> QED
    BY <1>2, <2>1, <2>2
<1>4. (\A i \in DOMAIN dents : dents[i] # NoDent => Linked(dents[i][2]))'
  BY <1>3
<1>5. Distinct(dents)'
  BY DEF Forgotten
<1> QED
  BY <1>4, <1>5 DEF Dents, Distinct

\* What a thread in the middle of creating n, or of removing it, knows.
LEMMA Created ==
    ASSUME SemFSInv, NEW t \in Thread, th[t].pc \in Creating, NEW n, n = th[t].num, NEW s, s = th[t].sem
    PROVE  /\ n \in Semnum /\ n \in Vnode /\ s \in Sem /\ SemAt(n) = s /\ s # NULL /\ SemType(sem[s])
           /\ ~sem[s].hasvnode /\ ~sem[s].linked /\ ~Reclaimed(n) /\ vnodes[n] = 0 /\ ~Linked(n) /\ th[t].fd = {}
<1>1. /\ Types /\ HasVnodes /\ Directory(th[t]) /\ Position(th[t]) /\ \A x \in Sem : SemType(sem[x])
  BY DEF SemFSInv, Types, TableTypes
<1>2. th[t].pc \in InDir \ {"insert"}
  BY DEF InDir, Creating
<1>3. n \in Semnum /\ s \in Sem /\ SemAt(n) = s /\ ~sem[s].hasvnode /\ ~sem[s].linked /\ ~Reclaimed(n)
  BY <1>1, <1>2 DEF Directory
<1>4. s # NULL
  BY <1>3, SemFSAssumption
<1>5. vnodes[n] = 0
  BY <1>1, <1>3, <1>4 DEF HasVnodes
<1>6. th[t].fd = {}
  BY <1>1 DEF Position
<1> QED
  BY <1>1, <1>3, <1>4, <1>5, <1>6 DEF Linked, Vnode

\* The name is entered, or the creation is on its way back.
LEMMA CreatDentStep ==
    ASSUME SemFSInv, NEW t \in Thread, semfs_creat_dent(t)
    PROVE  SemFSInv'
<1>1. PICK n, s : n = th[t].num /\ s = th[t].sem
  OBVIOUS
<1>0. /\ th[t].pc = "dent" /\ th[t].pc \in InDir /\ th[t].pc \in Creating
      /\ dirlock' = dirlock /\ tablelock' = tablelock /\ sems' = sems /\ vnodes' = vnodes /\ sem' = sem
  BY DEF semfs_creat_dent, InDir, Creating
<1>2. /\ dirlock = t /\ Types /\ VnodeRefs /\ Dents /\ TableTypes /\ Reachable
      /\ ThType(th[t]) /\ Position(th[t]) /\ Directory(th[t])
      /\ th[t].dir /\ th[t].name \in Name /\ th[t].vn = {} /\ DOMAIN th = Thread
  BY <1>0, HasDirlock DEF SemFSInv, Types
<1>3. /\ n \in Semnum /\ s \in Sem /\ SemAt(n) = s /\ ~sem[s].hasvnode /\ ~sem[s].linked
      /\ ~Reclaimed(n) /\ ~Linked(n) /\ th[t].fd = {}
  BY <1>0, <1>1, Created
<1>4. ASSUME NEW r, th' = [th EXCEPT ![t] = r], r.pc \in {"getvnode_new", "uninsert"},
             DOMAIN r = DOMAIN th[t], r.name = th[t].name, r.dir = th[t].dir, r.num = n, r.sem = s,
             r.resid = th[t].resid, r.vn = th[t].vn, r.fd = th[t].fd
      PROVE  InDirMove(t, r) /\ VnodeRefs' /\ Handed(t, r) /\ ~Reclaimed(n)'
  <2>1. ThType(r)
    BY <1>2, <1>3, <1>4, <1>1 DEF ThType, PC, InCall, InDir, Creating
  <2>2. Position(r)
    BY <1>2, <1>3, <1>4 DEF Position, InCall, InDir, Creating
  <2>3. InDirMove(t, r)
    BY <1>0, <1>2, <1>4, <2>1, <2>2 DEF InDirMove, InDir, Creating
  <2>4. VnodeRefs'
    BY <1>0, <1>2, <1>4, RefsKeptOne
  <2>5. Handed(t, r)
    BY <1>1, <1>4 DEF Handed, Creating
  <2>6. ~Reclaimed(n)'
    <3>1. \A u \in Thread : th'[u] = IF u = t THEN r ELSE th[u]
      BY <1>2, <1>4
    <3> QED
      BY <1>3, <1>4, <3>1 DEF Reclaimed
  <2> QED
    BY <2>3, <2>4, <2>5, <2>6
<1>5. ASSUME NEW failed, th' = [th EXCEPT ![t] = [@ EXCEPT !.pc = "uninsert", !.op = failed]], dents' = dents
      PROVE  SemFSInv'
  <2>1. PICK r : r = [th[t] EXCEPT !.pc = "uninsert", !.op = failed]
    OBVIOUS
  <2>2. /\ DOMAIN r = DOMAIN th[t] /\ r.pc = "uninsert" /\ r.name = th[t].name /\ r.dir = th[t].dir
        /\ r.sem = s /\ r.resid = th[t].resid /\ r.num = n /\ r.vn = th[t].vn /\ r.fd = th[t].fd
    <3>1. DOMAIN th[t] = {"pc", "op", "name", "dir", "num", "sem", "resid", "vn", "fd"}
      BY <1>2 DEF ThType
    <3> QED
      BY <1>1, <2>1, <3>1, SMTT(30)
  <2>3. th' = [th EXCEPT ![t] = r]
    BY <1>5, <2>1
  <2>4. InDirMove(t, r) /\ VnodeRefs' /\ Handed(t, r)
    BY <1>4, <2>2, <2>3
  <2>5. Directory(r)
    BY <1>3, <2>2 DEF Directory, Removing
  <2>6. TableTypes' /\ Quiet
    BY <1>0, <1>2, <1>5, SameTables
  <2>7. Pending(t, r)
    BY <1>0 DEF Pending, Removing
  <2> QED
    BY <1>5, <2>4, <2>5, <2>6, <2>7, SameDirectory
<1>6. ASSUME th' = [th EXCEPT ![t].pc = "getvnode_new"],
             dents' = Set(dents, FreeSlot(dents, NoDent), <<th[t].name, th[t].num>>)
      PROVE  SemFSInv'
  <2>1. PICK r : r = [th[t] EXCEPT !.pc = "getvnode_new"]
    OBVIOUS
  <2>2. /\ DOMAIN r = DOMAIN th[t] /\ r.pc = "getvnode_new" /\ r.name = th[t].name /\ r.dir = th[t].dir
        /\ r.sem = s /\ r.resid = th[t].resid /\ r.num = n /\ r.vn = th[t].vn /\ r.fd = th[t].fd
    <3>1. DOMAIN th[t] = {"pc", "op", "name", "dir", "num", "sem", "resid", "vn", "fd"}
      BY <1>2 DEF ThType
    <3> QED
      BY <1>1, <2>1, <3>1, SMTT(30)
  <2>3. th' = [th EXCEPT ![t] = r]
    BY <1>6, <2>1
  <2>4. InDirMove(t, r) /\ VnodeRefs' /\ Handed(t, r) /\ ~Reclaimed(n)'
    BY <1>4, <2>2, <2>3
  <2>5. \A m : ~Unfinished(m)
    BY <1>0, <1>2 DEF Unfinished, Removing
  <2>6. \A i \in DOMAIN dents : dents[i] # NoDent => Linked(dents[i][2]) /\ dents[i][2] # n
    BY <1>2, <1>3, <2>5 DEF Dents
  <2>13. PICK name : name = th[t].name
    OBVIOUS
  <2>7. /\ dents' \in Seq((Name \X Semnum) \cup {NoDent}) /\ Distinct(dents') /\ HasDent(name, n)'
        /\ \A i \in DOMAIN dents' : dents'[i] # <<name, n>> => i \in DOMAIN dents /\ dents'[i] = dents[i]
    <3>1. dents \in Seq((Name \X Semnum) \cup {NoDent}) /\ Distinct(dents)
      BY <1>2 DEF TableTypes, Dents, Distinct
    <3>2. \A i \in DOMAIN dents : dents[i][1] # th[t].name
      BY <1>0, <1>2 DEF Directory
    <3>3. Unused(name, n) /\ name \in Name
      BY <1>2, <2>6, <2>13, <3>2 DEF Unused
    <3>4. dents' = Set(dents, FreeSlot(dents, NoDent), <<name, n>>)
      BY <1>1, <1>6, <2>13
    <3> QED
      BY <1>3, <3>1, <3>3, <3>4, NewDent
  <2>8. \A m : SemAt(m)' = SemAt(m) /\ (Linked(m)' <=> Linked(m))
    BY <1>0 DEF SemAt, Linked
  <2>9. Unfinished(n)'
    <3>1. th'[t] = r
      BY <1>2, <2>3
    <3> QED
      BY <1>0, <1>2, <2>2, <3>1 DEF Unfinished
  <2>10. Dents'
    <3>1. \A i \in DOMAIN dents' : \A m : dents'[i] # NoDent /\ m = dents'[i][2] => Linked(m)' \/ Unfinished(m)'
      <4> SUFFICES ASSUME NEW i \in DOMAIN dents', NEW m, dents'[i] # NoDent, m = dents'[i][2]
                   PROVE  Linked(m)' \/ Unfinished(m)'
        OBVIOUS
      <4>1. CASE dents'[i] = <<name, n>>
        <5>1. m = n
          BY <4>1, SMTT(30)
        <5> QED
          BY <2>9, <5>1
      <4>2. CASE dents'[i] # <<name, n>>
        BY <2>6, <2>7, <2>8, <4>2
      <4> QED
        BY <4>1, <4>2
    <3>2. (\A i \in DOMAIN dents : dents[i] # NoDent => Linked(dents[i][2]) \/ Unfinished(dents[i][2]))'
      BY <3>1
    <3>3. Distinct(dents)'
      BY <2>7
    <3> QED
      BY <3>2, <3>3 DEF Dents, Distinct
  <2>11. TableTypes' /\ Quiet
    BY <1>0, <1>2, <2>7 DEF TableTypes, Quiet
  <2>12. Directory(r)'
    <3>1. r.pc = "getvnode_new" /\ "getvnode_new" \notin {"insert", "dent", "unlink", "remove", "unlock"}
          /\ "getvnode_new" \notin {"getvnode", "getsembynum", "unlink"} /\ "getvnode_new" \notin Removing
      BY <2>2 DEF Removing
    <3>2. HasDent(r.name, r.num)' /\ r.num \in Semnum
      BY <1>3, <2>2, <2>7, <2>13
    <3>3. /\ r.sem \in Sem /\ SemAt(r.num)' = r.sem /\ ~Reclaimed(r.num)'
          /\ ~sem'[r.sem].hasvnode /\ ~sem'[r.sem].linked
      BY <1>0, <1>3, <2>2, <2>4, <2>8
    <3> QED
      BY <3>1, <3>2, <3>3 DEF Directory
  <2> QED
    BY <2>4, <2>10, <2>11, <2>12, QuietDirectory
<1> QED
  BY <1>5, <1>6 DEF semfs_creat_dent

\* The new semaphore has its vnode and is linked, or the name is taken back.
LEMMA CreatLinkStep ==
    ASSUME SemFSInv, NEW t \in Thread, semfs_creat_link(t)
    PROVE  SemFSInv'
<1>1. PICK n, s : n = th[t].num /\ s = th[t].sem
  OBVIOUS
<1>0. /\ th[t].pc = "getvnode_new" /\ th[t].pc \in InDir /\ th[t].pc \in Creating
      /\ tablelock = NULL /\ tablelock' = tablelock /\ sems' = sems
  BY DEF semfs_creat_link, InDir, Creating
<1>2. /\ dirlock = t /\ Types /\ VnodeRefs /\ Dents /\ TableTypes /\ Reachable
      /\ ThType(th[t]) /\ Position(th[t]) /\ Directory(th[t]) /\ HasDent(th[t].name, th[t].num)
      /\ th[t].dir /\ th[t].name \in Name /\ th[t].vn = {} /\ DOMAIN th = Thread
      /\ vnodes \in [Vnode -> Nat] /\ DOMAIN sem = Sem
  <2>1. Directory(th[t]) => HasDent(th[t].name, th[t].num)
    BY <1>0 DEF Directory
  <2> QED
    BY <1>0, <2>1, HasDirlock DEF SemFSInv, Types, TableTypes
<1>3. /\ n \in Semnum /\ n \in Vnode /\ s \in Sem /\ SemAt(n) = s /\ s # NULL /\ SemType(sem[s])
      /\ ~sem[s].hasvnode /\ ~sem[s].linked /\ ~Reclaimed(n) /\ vnodes[n] = 0 /\ ~Linked(n) /\ th[t].fd = {}
  BY <1>0, <1>1, Created
<1>4. DOMAIN th[t] = {"pc", "op", "name", "dir", "num", "sem", "resid", "vn", "fd"}
  BY <1>2 DEF ThType
<1>5. ASSUME dents' = [dents EXCEPT ![Found(th[t].name)] = NoDent], th' = [th EXCEPT ![t].pc = "uninsert"],
             vnodes' = vnodes, sem' = sem, dirlock' = dirlock
      PROVE  SemFSInv'
  <2>1. PICK r : r = [th[t] EXCEPT !.pc = "uninsert"]
    OBVIOUS
  <2>2. "uninsert" \in PC /\ "uninsert" \in InDir /\ "uninsert" \in InCall /\ "uninsert" \in Creating
    BY DEF PC, InCall, InDir, Creating
  <2>3. /\ ThType(r) /\ r.pc = "uninsert" /\ r.name = th[t].name /\ r.dir = th[t].dir /\ r.num = n
        /\ r.sem = s /\ r.vn = th[t].vn /\ r.fd = th[t].fd
    BY <1>1, <1>2, <2>1, <2>2, PcRecord
  <2>4. Position(r)
    BY <1>2, <1>3, <2>2, <2>3 DEF Position
  <2>5. th' = [th EXCEPT ![t] = r]
    BY <1>5, <2>1
  <2>6. InDirMove(t, r)
    BY <1>0, <1>2, <1>5, <2>2, <2>3, <2>4, <2>5 DEF InDirMove
  <2>7. VnodeRefs'
    BY <1>2, <1>5, <2>3, <2>5, RefsKeptOne
  <2>8. Forgotten(n)
    <3>1. dents \in Seq((Name \X Semnum) \cup {NoDent}) /\ Distinct(dents)
      BY <1>2 DEF TableTypes, Dents, Distinct
    <3> QED
      BY <1>1, <1>2, <1>3, <1>5, <3>1, ForgetDent
  <2>9. \A m : SemAt(m)' = SemAt(m) /\ (Linked(m)' <=> Linked(m))
    BY <1>0, <1>5 DEF SemAt, Linked
  <2>10. Dents'
    BY <1>1, <1>2, <2>8, <2>9, DentsForgotten
  <2>11. TableTypes' /\ Quiet
    BY <1>0, <1>2, <1>5, <2>8 DEF TableTypes, Quiet, Forgotten
  <2>12. Handed(t, r)
    BY <1>1, <2>2, <2>3 DEF Handed
  <2>13. Directory(r)'
    <3>1. r.pc = "uninsert" /\ "uninsert" \notin {"insert", "dent", "unlink", "remove", "unlock"}
          /\ "uninsert" \notin {"getvnode", "getsembynum", "unlink"} /\ "uninsert" \notin Removing
          /\ "uninsert" \notin {"getsembynum", "unlink", "getvnode_new"}
      BY <2>3 DEF Removing
    <3>2. ~Reclaimed(n)'
      <4>1. \A u \in Thread : th'[u] = IF u = t THEN r ELSE th[u]
        BY <1>2, <2>5
      <4> QED
        BY <1>3, <2>3, <4>1 DEF Reclaimed
    <3> QED
      BY <1>3, <1>5, <2>3, <2>9, <3>1, <3>2 DEF Directory
  <2> QED
    BY <2>6, <2>7, <2>10, <2>11, <2>12, <2>13, QuietDirectory
<1>6. ASSUME vnodes' = [vnodes EXCEPT ![n] = 1], sem' = [sem EXCEPT ![s] = [@ EXCEPT !.hasvnode = TRUE, !.linked = TRUE]],
             dirlock' = NULL, th' = [th EXCEPT ![t] = [@ EXCEPT !.pc = "dropdir", !.fd = {n}, !.sem = NULL]],
             dents' = dents
      PROVE  SemFSInv'
  <2>1. PICK r, q : /\ r = [th[t] EXCEPT !.pc = "dropdir", !.fd = {n}, !.sem = NULL]
                    /\ q = [sem[s] EXCEPT !.hasvnode = TRUE, !.linked = TRUE]
    OBVIOUS
  <2>2. th' = [th EXCEPT ![t] = r] /\ sem' = [sem EXCEPT ![s] = q]
    BY <1>6, <2>1
  <2>3. /\ DOMAIN r = DOMAIN th[t] /\ r.pc = "dropdir" /\ r.name = th[t].name /\ r.dir = th[t].dir
        /\ r.sem = NULL /\ r.resid = th[t].resid /\ r.num = th[t].num /\ r.vn = th[t].vn /\ r.fd = {n}
    BY <1>4, <2>1, SMTT(30)
  <2>4. ThType(r) /\ Position(r)
    BY <1>2, <1>3, <2>3, OpenRecord
  <2>5. InDirMove(t, r)
    BY <1>0, <1>2, <1>6, <2>2, <2>3, <2>4 DEF InDirMove, InDir, Creating, Removing
  <2>6. vnodes' = [vnodes EXCEPT ![n] = @ + 1]
    <3>1. vnodes[n] + 1 = 1
      BY <1>3, SMTT(30)
    <3> QED
      BY <1>6, <3>1
  <2>7. VnodeRefs'
    <3>1. Gains(th[t], r, n, 1)
      <4>1. 1 # 2 /\ 1 # 3
        BY SMTT(30)
      <4> QED
        BY <1>3, <2>3, <4>1, GainsFields
    <3> QED
      BY <1>2, <1>3, <2>2, <2>6, <3>1, RefGained
  <2>8. /\ DOMAIN q = DOMAIN sem[s] /\ q.count = sem[s].count /\ q.state = sem[s].state /\ q.lock = sem[s].lock
        /\ q.hasvnode = TRUE /\ q.linked = TRUE
    <3>1. DOMAIN sem[s] = {"state", "lock", "count", "hasvnode", "linked"}
      BY <1>3 DEF SemType
    <3> QED
      BY <2>1, <3>1, SMTT(30)
  <2>9. SemType(q)
    BY <1>3, <2>8 DEF SemType
  <2>10. vnodes' \in [Vnode -> Nat] /\ vnodes'[n] # 0 /\ \A m \in Semnum : m # n => vnodes'[m] = vnodes[m]
    <3>1. 1 \in Nat /\ 1 # 0
      BY SMTT(30)
    <3> QED
      BY <1>2, <1>3, <1>6, <3>1 DEF Vnode
  <2>11. Flagged(n, s, q)
    BY <1>0, <1>3, <1>6, <2>2, <2>8, <2>9, <2>10 DEF Flagged
  <2>12. /\ TableTypes' /\ Table' /\ HasVnodes' /\ Linked(n)'
         /\ \A m : SemAt(m)' = SemAt(m) /\ (m # n => (Linked(m)' <=> Linked(m)))
    <3>1. q.linked
      BY <2>8
    <3> QED
      BY <1>3, <2>11, <3>1, FlagSlot
  <2>13. \A u \in Thread : th'[u] = IF u = t THEN r ELSE th[u]
    BY <1>2, <2>2
  <2>14. \A m : Linked(m) => Linked(m)'
    BY <2>12
  <2>15. Dents'
    <3>1. \A m : Unfinished(m) => Linked(m)'
      BY <1>1, <1>2, <2>12 DEF Unfinished
    <3> QED
      BY <1>2, <1>6, <2>14, <3>1 DEF Dents
  <2>16. Reachable'
    <3>1. \A m : m # n /\ Busy(m) => Busy(m)'
      BY <1>1, <2>13 DEF Busy
    <3>2. \A m : Reclaimed(m) => Reclaimed(m)'
      BY <1>0, <2>13 DEF Reclaimed
    <3> QED
      BY <1>2, <2>10, <2>12, <2>14, <3>1, <3>2 DEF Reachable
  <2>17. Directory(r)'
    BY <2>3 DEF Directory, InDir, Creating, Removing
  <2> QED
    BY <1>0, <2>5, <2>7, <2>12, <2>15, <2>16, <2>17, SlotStep
<1> QED
  BY <1>1, <1>5, <1>6 DEF semfs_creat_link

\* A thread lets go of semfs_dirlock and of its semaphore.
LetsGo(t, r) ==
    /\ r = [th[t] EXCEPT !.pc = "dropdir", !.sem = NULL] /\ th' = [th EXCEPT ![t] = r]
    /\ th[t].pc \in InDir /\ dirlock' = NULL /\ tablelock' = tablelock /\ vnodes' = vnodes

\* It keeps its references, and nothing is asked of it any more.
LEMMA LetGo ==
    ASSUME SemFSInv, NEW t \in Thread, NEW r, LetsGo(t, r)
    PROVE  /\ InDirMove(t, r) /\ VnodeRefs' /\ r.pc = "dropdir" /\ Directory(r)'
           /\ \A u \in Thread : th'[u] = IF u = t THEN r ELSE th[u]
<1>1. /\ dirlock = t /\ Types /\ VnodeRefs /\ ThType(th[t]) /\ Position(th[t]) /\ DOMAIN th = Thread
      /\ th[t].dir /\ th[t].name \in Name /\ th[t].vn = {}
  BY HasDirlock DEF Types, LetsGo
<1>2. /\ DOMAIN r = DOMAIN th[t] /\ r.pc = "dropdir" /\ r.name = th[t].name /\ r.dir = th[t].dir
      /\ r.sem = NULL /\ r.resid = th[t].resid /\ r.num = th[t].num /\ r.vn = th[t].vn /\ r.fd = th[t].fd
  <2>1. DOMAIN th[t] = {"pc", "op", "name", "dir", "num", "sem", "resid", "vn", "fd"}
    BY <1>1 DEF ThType
  <2> QED
    <3>1. r = [th[t] EXCEPT !.pc = "dropdir", !.sem = NULL]
      BY DEF LetsGo
    <3> QED
      BY <2>1, <3>1, SMTT(30)
<1>3. ThType(r)
  BY <1>1, <1>2 DEF ThType, PC, InCall
<1>4. Position(r)
  BY <1>1, <1>2 DEF Position, InCall, InDir, Creating
<1>5. InDirMove(t, r)
  BY <1>1, <1>2, <1>3, <1>4 DEF InDirMove, InDir, Creating, Removing, LetsGo
<1>6. VnodeRefs'
  <2>1. th' = [th EXCEPT ![t] = r] /\ vnodes' = vnodes
    BY DEF LetsGo
  <2> QED
    BY <1>1, <1>2, <2>1, RefsKeptOne
<1>7. Directory(r)'
  BY <1>2 DEF Directory, InDir, Creating, Removing
<1>8. \A u \in Thread : th'[u] = IF u = t THEN r ELSE th[u]
  BY <1>1 DEF LetsGo
<1> QED
  BY <1>2, <1>5, <1>6, <1>7, <1>8

\* A thread that has semfs_dirlock destroys the semaphore of its number.
LEMMA ClearedReachable ==
    ASSUME SemFSInv, NEW t \in Thread, th[t].pc # "reclaim_check", NEW s, NEW n, n = th[t].num, Cleared(n, s),
           vnodes' = vnodes, NEW r, \A u \in Thread : th'[u] = IF u = t THEN r ELSE th[u]
    PROVE  Reachable'
<1>1. Reachable
  BY DEF SemFSInv
<1>2. SemAt(n)' = NULL /\ \A m : m # n => SemAt(m)' = SemAt(m) /\ (Linked(m)' <=> Linked(m))
  BY DEF Cleared
<1>3. \A m : m # n /\ Busy(m) => Busy(m)'
  BY DEF Busy
<1>4. \A m : Reclaimed(m) => Reclaimed(m)'
  BY DEF Reclaimed
<1> SUFFICES ASSUME NEW m \in Semnum, SemAt(m)' # NULL
             PROVE  Linked(m)' \/ vnodes'[m] # 0 \/ Busy(m)' \/ Reclaimed(m)'
  BY DEF Reachable
<1>5. m # n
  BY <1>2
<1>6. SemAt(m) # NULL
  BY <1>2, <1>5
<1>7. Linked(m) \/ vnodes[m] # 0 \/ Busy(m) \/ Reclaimed(m)
  BY <1>1, <1>6 DEF Reachable
<1> QED
  BY <1>2, <1>3, <1>4, <1>5, <1>7

\* A creation that failed destroys its semaphore.
LEMMA UninsertStep ==
    ASSUME SemFSInv, NEW t \in Thread, semfs_uninsert(t)
    PROVE  SemFSInv'
<1>1. PICK n, s, r : n = th[t].num /\ s = th[t].sem /\ r = [th[t] EXCEPT !.pc = "dropdir", !.sem = NULL]
  OBVIOUS
<1>0. /\ th[t].pc = "uninsert" /\ th[t].pc \in InDir /\ th[t].pc \in Creating
      /\ tablelock = NULL /\ tablelock' = tablelock /\ dirlock' = NULL
      /\ sems' = [sems EXCEPT ![n] = NULL] /\ semfs_sem_destroy(s)
      /\ th' = [th EXCEPT ![t] = r] /\ vnodes' = vnodes /\ dents' = dents
  BY <1>1 DEF semfs_uninsert, InDir, Creating
<1>2. dirlock = t /\ Dents /\ HasVnodes /\ dents' \in Seq((Name \X Semnum) \cup {NoDent})
  BY <1>0, HasDirlock DEF Types, TableTypes
<1>3. n \in Semnum /\ SemAt(n) = s /\ s # NULL /\ vnodes[n] = 0 /\ ~Linked(n)
  BY <1>0, <1>1, Created
<1>4. /\ InDirMove(t, r) /\ VnodeRefs' /\ Directory(r)'
      /\ \A u \in Thread : th'[u] = IF u = t THEN r ELSE th[u]
  <2>1. LetsGo(t, r)
    BY <1>0, <1>1 DEF LetsGo
  <2> QED
    BY <2>1, LetGo
<1>5. Cleared(n, s) /\ TableTypes' /\ Table' /\ HasVnodes'
  BY <1>0, <1>2, <1>3, ClearSlot
<1>6. Dents'
  <2>1. \A m : ~Unfinished(m)
    BY <1>0, <1>2 DEF Unfinished, Removing
  <2>2. \A m : Linked(m) => Linked(m)'
    BY <1>3, <1>5 DEF Cleared
  <2> QED
    BY <1>0, <1>2, <2>1, <2>2 DEF Dents
<1>7. Reachable'
  BY <1>0, <1>1, <1>4, <1>5, ClearedReachable
<1>8. \A m \in Semnum : SemAt(m)' = SemAt(m) \/ vnodes[m] = 0
  BY <1>3, <1>5 DEF Cleared
<1> QED
  BY <1>0, <1>4, <1>5, <1>6, <1>7, <1>8, SlotStep

\* semfs_remove destroys the semaphore, or leaves it to semfs_reclaim.
LEMMA RemoveStep ==
    ASSUME SemFSInv, NEW t \in Thread, semfs_remove(t)
    PROVE  SemFSInv'
<1>1. PICK n, s, r : n = th[t].num /\ s = th[t].sem /\ r = [th[t] EXCEPT !.pc = "dropdir", !.sem = NULL]
  OBVIOUS
<1>0. /\ th[t].pc \in {"remove", "unlock"} /\ th[t].pc \in InDir /\ th[t].pc \in Removing
      /\ th[t].pc # "reclaim_check" /\ sem[s].state = "live"
      /\ tablelock' = tablelock /\ dirlock' = NULL /\ vnodes' = vnodes /\ th' = [th EXCEPT ![t] = r]
      /\ dents' = [dents EXCEPT ![Found(th[t].name)] = NoDent]
  BY <1>1 DEF semfs_remove, Forget, InDir, Removing
<1>2. /\ dirlock = t /\ Types /\ TableTypes /\ Table /\ HasVnodes /\ Dents /\ Directory(th[t]) /\ th[t].name \in Name
      /\ dents \in Seq((Name \X Semnum) \cup {NoDent}) /\ DOMAIN sem = Sem /\ DOMAIN th = Thread
  BY <1>0, HasDirlock DEF Types, TableTypes
<1>3. /\ n \in Semnum /\ HasDent(th[t].name, n) /\ s \in Sem /\ SemAt(n) = s /\ ~sem[s].linked
      /\ (th[t].pc = "remove" => ~sem[s].hasvnode) /\ (th[t].pc = "unlock" => sem[s].hasvnode \/ Reclaimed(n))
  <2>1. n \in Semnum /\ HasDent(th[t].name, n)
    BY <1>0, <1>1, <1>2 DEF Directory
  <2>2. s \in Sem /\ SemAt(n) = s /\ ~sem[s].linked
    BY <1>0, <1>1, <1>2 DEF Directory
  <2> QED
    BY <1>0, <1>1, <1>2, <2>1, <2>2 DEF Directory
<1>4. s # NULL /\ (sem[s].hasvnode <=> vnodes[n] # 0) /\ SemType(sem[s])
  BY <1>2, <1>3, SemFSAssumption DEF HasVnodes, TableTypes
<1>5. /\ InDirMove(t, r) /\ VnodeRefs' /\ Directory(r)'
      /\ \A u \in Thread : th'[u] = IF u = t THEN r ELSE th[u]
  <2>1. LetsGo(t, r)
    BY <1>0, <1>1 DEF LetsGo
  <2> QED
    BY <2>1, LetGo
<1>6. Forgotten(n)
  <2>1. Distinct(dents)
    BY <1>2 DEF Dents, Distinct
  <2> QED
    BY <1>0, <1>2, <1>3, <2>1, ForgetDent
<1>7. ASSUME th[t].pc = "remove", tablelock = NULL, sems' = [sems EXCEPT ![n] = NULL], semfs_sem_destroy(s)
      PROVE  SemFSInv'
  <2>1. Cleared(n, s) /\ TableTypes' /\ Table' /\ HasVnodes'
    <3>1. dents' \in Seq((Name \X Semnum) \cup {NoDent})
      BY <1>6 DEF Forgotten
    <3> QED
      BY <1>0, <1>3, <1>4, <1>7, <3>1, ClearSlot
  <2>2. Dents'
    <3>1. \A m : m # n /\ Linked(m) => Linked(m)'
      BY <2>1 DEF Cleared
    <3> QED
      BY <1>1, <1>2, <1>6, <3>1, DentsForgotten
  <2>3. Reachable'
    BY <1>0, <1>1, <1>5, <2>1, ClearedReachable
  <2>4. \A m \in Semnum : SemAt(m)' = SemAt(m) \/ vnodes[m] = 0
    BY <1>3, <1>4, <1>7, <2>1 DEF Cleared
  <2> QED
    BY <1>5, <1>7, <2>1, <2>2, <2>3, <2>4, SlotStep
<1>8. ASSUME th[t].pc = "unlock", sem' = [sem EXCEPT ![s].lock = NULL], sems' = sems
      PROVE  SemFSInv'
  <2>1. PICK q : q = [sem[s] EXCEPT !.lock = NULL]
    OBVIOUS
  <2>2. sem' = [sem EXCEPT ![s] = q]
    BY <1>8, <2>1
  <2>3. /\ DOMAIN q = DOMAIN sem[s] /\ q.count = sem[s].count /\ q.state = sem[s].state /\ q.lock = NULL
        /\ q.hasvnode = sem[s].hasvnode /\ q.linked = sem[s].linked
    <3>1. DOMAIN sem[s] = {"state", "lock", "count", "hasvnode", "linked"}
      BY <1>4 DEF SemType
    <3> QED
      BY <2>1, <3>1, SMTT(30)
  <2>4. SemType(q)
    BY <1>4, <2>3 DEF SemType
  <2>5. DOMAIN sem' = Sem /\ sem'[s] = q /\ \A x \in Sem : x # s => sem'[x] = sem[x]
    BY <1>2, <1>3, <2>2
  <2>6. TableTypes'
    <3>1. \A x \in Sem : SemType(sem'[x])
      BY <1>2, <2>4, <2>5 DEF TableTypes
    <3>2. dents' \in Seq((Name \X Semnum) \cup {NoDent})
      BY <1>6 DEF Forgotten
    <3> QED
      BY <1>0, <1>2, <1>8, <2>5, <3>1, <3>2 DEF TableTypes
  <2>7. Quiet
    <3>1. \A x \in Sem : /\ sem'[x].state = sem[x].state /\ sem'[x].linked = sem[x].linked
                         /\ sem'[x].hasvnode = sem[x].hasvnode
      BY <2>3, <2>5
    <3> QED
      BY <1>0, <1>8, <3>1 DEF Quiet
  <2>8. Dents'
    <3>1. \A m : m # n /\ Linked(m) => Linked(m)'
      BY <1>2, <2>7, QuietTable
    <3> QED
      BY <1>1, <1>2, <1>6, <3>1, DentsForgotten
  <2>9. Handed(t, r)
    BY <1>1, <1>3, <1>4, <1>8 DEF Handed
  <2> QED
    BY <1>5, <2>6, <2>7, <2>8, <2>9, QuietDirectory
<1> QED
  BY <1>1, <1>7, <1>8 DEF semfs_remove

-----------------------------------------------------------------------------
(* The invariant *)

\* semfs_create: no semaphore, no name, no vnode, and no thread in the module.
LEMMA InitInv ==
    ASSUME Init
    PROVE  SemFSInv
<1>1. \A t \in Thread : th[t] = Out({})
  BY DEF Init
<1>2. \A t \in Thread : /\ ThType(th[t]) /\ Position(th[t]) /\ Uses(th[t])
                        /\ th[t].pc = "out" /\ th[t].fd = {} /\ ~th[t].dir /\ th[t].vn = {}
  <2>1. PICK fd : fd = {}
    OBVIOUS
  <2>2. ThType(Out(fd)) /\ Position(Out(fd)) /\ Out(fd).pc = "out" /\ Out(fd).fd = fd /\ ~Out(fd).dir /\ Out(fd).vn = {}
    BY <2>1, OutRecord
  <2>3. \A t \in Thread : th[t] = Out(fd)
    BY <1>1, <2>1
  <2>4. \A t \in Thread : ThType(th[t]) /\ Position(th[t]) /\ th[t].pc = "out" /\ th[t].fd = {} /\ ~th[t].dir /\ th[t].vn = {}
    BY <2>1, <2>2, <2>3
  <2> QED
    BY <2>4 DEF Uses, Using
<1>3. /\ sems \in Seq(Sem \cup {NULL}) /\ DOMAIN sems = {} /\ Len(sems) = 0 /\ DOMAIN dents = {}
      /\ dents \in Seq((Name \X Semnum) \cup {NoDent})
  <2>1. sems = <<>> /\ dents = <<>>
    BY DEF Init
  <2>2. PICK S, T : S = Sem \cup {NULL} /\ T = (Name \X Semnum) \cup {NoDent}
    OBVIOUS
  <2>3. sems \in Seq(S) /\ dents \in Seq(T) /\ Len(sems) = 0 /\ DOMAIN sems = {} /\ DOMAIN dents = {}
    BY <2>1, SMTT(30)
  <2> QED
    BY <2>2, <2>3
<1>4. Cardinality(Sem) \in Nat /\ Len(sems) <= Cardinality(Sem)
  <2>1. Cardinality(Sem) \in Nat
    BY FS_CardinalityType, SemFSAssumption
  <2> QED
    BY <1>3, <2>1, SMTT(30)
<1>5. 0 \in Nat /\ 0 \in 0 .. UINT_MAX
  BY SemFSAssumption, SMTT(30)
<1>6. vnodes \in [Vnode -> Nat] /\ \A n \in Vnode : vnodes[n] = 0
  BY <1>5 DEF Init, Vnode
<1>7. DOMAIN sem = Sem /\ \A s \in Sem : SemType(sem[s]) /\ sem[s].state = "fresh" /\ ~sem[s].linked /\ ~sem[s].hasvnode
  BY <1>5 DEF Init, SemType
<1>8. Types
  <2>1. TableTypes
    BY <1>3, <1>4, <1>6, <1>7 DEF TableTypes
  <2>2. DOMAIN th = Thread /\ {dirlock, tablelock} \subseteq Thread \cup {NULL}
    BY DEF Init
  <2> QED
    BY <1>2, <2>1, <2>2 DEF Types
<1>9. Locks
  BY <1>2, SemFSAssumption DEF Locks, Init, InDir, Creating, Removing
<1>10. \A n : SemAt(n) = NULL
  BY <1>3 DEF SemAt
<1>11. Table
  BY <1>7, <1>10 DEF Table
<1>12. HasVnodes
  BY <1>6, <1>10 DEF HasVnodes, Vnode
<1>13. Dents /\ Reachable
  BY <1>3, <1>10 DEF Dents, Reachable
<1>14. VnodeRefs
  <2> SUFFICES ASSUME NEW n \in Vnode PROVE vnodes[n] = Cardinality(Refs(n))
    BY <1>6 DEF VnodeRefs
  <2>1. Refs(n) = {}
    BY <1>2 DEF Refs
  <2> QED
    BY <1>6, <2>1, FS_EmptySet
<1>15. \A t \in Thread : Checking(th[t]) /\ Directory(th[t])
  BY <1>2 DEF Checking, Directory, InDir, Creating, Removing
<1> QED
  BY <1>2, <1>8, <1>9, <1>11, <1>12, <1>13, <1>14, <1>15 DEF SemFSInv

\* A step that changes nothing.
LEMMA StutterInv ==
    ASSUME SemFSInv, UNCHANGED vars
    PROVE  SemFSInv'
<1>1. /\ dirlock' = dirlock /\ tablelock' = tablelock /\ sems' = sems /\ dents' = dents
      /\ vnodes' = vnodes /\ sem' = sem /\ th' = th
  BY DEF vars
<1>2. Types /\ VnodeRefs /\ DOMAIN th = Thread
  BY DEF SemFSInv, Types
<1>3. TableTypes' /\ Quiet
  BY <1>1, <1>2, SameTables
<1>4. VnodeRefs'
  BY <1>1, <1>2, RefsKept
<1> QED
  BY <1>1, <1>2, <1>3, <1>4, OutsideStep

\* Each operation of the module keeps the invariant.
LEMMA NextInv ==
    ASSUME SemFSInv, Next
    PROVE  SemFSInv'
<1>1. PICK t \in Thread : Step(t)
  BY DEF Next
<1>2. CASE semfs_getroot(t)
  BY <1>2, GetrootStep
<1>3. CASE semfs_scan(t)
  BY <1>3, ScanStep
<1>4. CASE semfs_opened(t)
  BY <1>4, OpenedStep
<1>5. CASE semfs_sem_insert(t)
  BY <1>5, InsertStep
<1>6. CASE semfs_creat_dent(t)
  BY <1>6, CreatDentStep
<1>7. CASE semfs_creat_link(t)
  BY <1>7, CreatLinkStep
<1>8. CASE semfs_uninsert(t)
  BY <1>8, UninsertStep
<1>9. CASE semfs_remove_find(t)
  BY <1>9, RemoveFindStep
<1>10. CASE semfs_remove_unlink(t)
  BY <1>10, UnlinkStep
<1>11. CASE semfs_remove_hasvnode(t)
  BY <1>11, RemoveHasvnodeStep
<1>12. CASE semfs_remove(t)
  BY <1>12, RemoveStep
<1>13. CASE UseAfterFree(t)
  BY <1>13, UseAfterFreeStep
<1>14. CASE drop_dir(t)
  BY <1>14, DropDirStep
<1>15. CASE vfs_close(t)
  BY <1>15, CloseStep
<1>16. CASE semfs_reclaim(t)
  BY <1>16, ReclaimStep
<1>17. CASE semfs_reclaim_check(t)
  BY <1>17, ReclaimCheckStep
<1>18. CASE semfs_getdirentry(t)
  BY <1>18, GetdirentryStep
<1>19. CASE semfs_semstat(t)
  BY <1>19, SemstatStep
<1>20. CASE semfs_getsem(t)
  BY <1>20, GetsemStep
<1>21. CASE semfs_read(t)
  BY <1>21, ReadStep
<1>22. CASE semfs_write(t)
  BY <1>22, WriteStep
<1>23. CASE semfs_truncate(t)
  BY <1>23, TruncateStep
<1> QED
  BY <1>1, <1>2, <1>3, <1>4, <1>5, <1>6, <1>7, <1>8, <1>9, <1>10, <1>11, <1>12, <1>13, <1>14, <1>15,
     <1>16, <1>17, <1>18, <1>19, <1>20, <1>21, <1>22, <1>23 DEF Step

\* The inductive invariant, for any finite sets of threads and semaphores and
\* any set of names: the two tables, the vnodes' counts and the position of
\* each thread fit together in every reachable state, whatever the order in
\* which creations, removals, opens and closes interleave.
THEOREM SemFSInvariance == Spec => []SemFSInv
<1>1. Init => SemFSInv
  BY InitInv
<1>2. SemFSInv /\ [Next]_vars => SemFSInv'
  BY NextInv, StutterInv
<1> QED
  BY <1>1, <1>2, PTL DEF Spec

\* vnode.c and semfs_getvnode: a vnode's reference count is the number of
\* references the threads hold, also while semfs_reclaim is on its way.
THEOREM CountsAreReferences == Spec => []VnodeRefs
<1>1. SemFSInv => VnodeRefs
  BY DEF SemFSInv
<1> QED
  BY <1>1, SemFSInvariance, PTL

\* semfs_remove and semfs_reclaim: a semaphore that a thread has open is
\* allocated and in the table under its number, and the pointer a thread took
\* from the table before it released semfs_tablelock is still that one's.
THEOREM OpenSemaphoresLive == Spec => []OpenSemAlive
<1>1. SemFSInv => OpenSemAlive
  <2> SUFFICES ASSUME SemFSInv, NEW t \in Thread, NEW n \in th[t].fd \ {SEMFS_ROOTDIR}
               PROVE  /\ sems[n] # NULL
                      /\ sem[sems[n]].state = "live" /\ sem[sems[n]].hasvnode
                      /\ th[t].pc \in {"read", "write", "truncate", "stat", "asleep"} => th[t].sem = sems[n]
    BY DEF OpenSemAlive
  <2>1. Types /\ VnodeRefs /\ ThType(th[t]) /\ Uses(th[t])
    BY DEF SemFSInv, Types
  <2>2. n \in Vnode /\ n \in Semnum
    BY <2>1 DEF ThType, Vnode
  <2>3. Holds(th[t], n) # {}
    BY HoldsFields
  <2>4. vnodes[n] # 0
    BY <2>1, <2>2, <2>3, HeldIsCounted
  <2>5. SemAt(n) \in Sem /\ sems[n] = SemAt(n) /\ sem[SemAt(n)].state = "live" /\ sem[SemAt(n)].hasvnode
    BY <2>2, <2>4, SlotWithVnode
  <2>6. NULL \notin Sem
    BY SemFSAssumption
  <2>7. th[t].pc \in {"read", "write", "truncate", "stat", "asleep"} => th[t].sem = sems[n]
    BY <2>1, <2>5 DEF Uses, Using
  <2> QED
    BY <2>5, <2>6, <2>7
<1> QED
  BY <1>1, SemFSInvariance, PTL

\* semfs_creat, semfs_remove and semfs_reclaim: with neither lock held the
\* names and the semaphores agree, and no semaphore is left without a name and
\* without an open file.
THEOREM NamesMatchSems == Spec => []NamesAndSemsAgree
<1>1. SemFSInv => NamesAndSemsAgree
  <2> SUFFICES ASSUME SemFSInv, dirlock = NULL, tablelock = NULL
               PROVE  /\ \A i, j \in DOMAIN dents :
                          /\ dents[i] # NoDent => sems[dents[i][2]] # NULL /\ sem[sems[dents[i][2]]].linked
                          /\ dents[i] # NoDent /\ i # j => dents[i][1] # dents[j][1] /\ dents[i][2] # dents[j][2]
                      /\ \A s \in Sem : sem[s].state = "live" =>
                          \E n \in DOMAIN sems : sems[n] = s /\ (sem[s].linked \/ vnodes[n] > 0)
    BY DEF NamesAndSemsAgree
  <2>1. /\ Types /\ Locks /\ Table /\ Dents /\ Reachable /\ vnodes \in [Vnode -> Nat]
        /\ NULL \notin Thread /\ NULL \notin Sem
    BY SemFSAssumption DEF SemFSInv, Types, TableTypes
  <2>2. \A n : ~Unfinished(n) /\ ~Busy(n) /\ ~Reclaimed(n)
    BY <2>1 DEF Unfinished, Busy, Reclaimed, Locks, InDir
  <2>3. \A n : SemAt(n) # NULL => n \in DOMAIN sems /\ n \in Semnum /\ sems[n] = SemAt(n)
    BY <2>1, SlotFacts
  <2>4. \A n : Linked(n) => sems[n] # NULL /\ sem[sems[n]].linked
    BY <2>3 DEF Linked
  <2>5. \A i \in DOMAIN dents : dents[i] # NoDent => Linked(dents[i][2])
    BY <2>1, <2>2 DEF Dents
  <2>6. ASSUME NEW s \in Sem, sem[s].state = "live"
        PROVE  \E n \in DOMAIN sems : sems[n] = s /\ (sem[s].linked \/ vnodes[n] > 0)
    <3>1. PICK n \in Semnum : SemAt(n) = s
      BY <2>1, <2>6 DEF Table
    <3>2. n \in DOMAIN sems /\ sems[n] = s
      BY <2>1, <2>3, <3>1
    <3>3. Linked(n) \/ vnodes[n] # 0
      BY <2>1, <2>2, <3>1 DEF Reachable
    <3>4. vnodes[n] # 0 => vnodes[n] > 0
      <4>1. vnodes[n] \in Nat
        BY <2>1 DEF Vnode
      <4> QED
        BY <4>1, SMTT(30)
    <3> QED
      BY <3>1, <3>2, <3>3, <3>4 DEF Linked
  <2>7. \A i, j \in DOMAIN dents : dents[i] # NoDent /\ i # j => dents[i][1] # dents[j][1] /\ dents[i][2] # dents[j][2]
    BY <2>1 DEF Dents
  <2> QED
    BY <2>4, <2>5, <2>6, <2>7
<1> QED
  BY <1>1, SemFSInvariance, PTL
=============================================================================
