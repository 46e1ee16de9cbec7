------------------------------ MODULE Kmalloc ------------------------------
(***************************************************************************)
(* kern/vm/kmalloc.c: the subpage allocator of the kernel heap, with its   *)
(* tables of page references, over alloc_kpages and free_kpages.           *)
(*                                                                         *)
(* Everything between spinlock_acquire and spinlock_release of             *)
(* kmalloc_spinlock is one step.  The code drops the spinlock around every *)
(* alloc_kpages and free_kpages ("things can change behind our back"), so  *)
(* each of those calls is a step of its own.                               *)
(***************************************************************************)
EXTENDS Naturals, Sequences, FiniteSets, SequencesExt

CONSTANTS
    Thread,
    Page,           \* the physical pages alloc_kpages hands out
    NoPage,         \* address 0
    NSIZES,         \* block types 1 .. NSIZES
    PerPage,        \* PerPage[b]: PAGE_SIZE / sizes[b]
    NUM_PAGEREFPAGES, NPAGEREFS_PER_PAGE,
    MaxOwned        \* bound: the blocks a thread holds at a time

Type == 1 .. NSIZES
Root == 1 .. NUM_PAGEREFPAGES
Slot == 1 .. NPAGEREFS_PER_PAGE

ASSUME HeapAssumption ==
    /\ NoPage \notin Page
    /\ PerPage \in [Type -> Nat \ {0}]

VARIABLES
    kpages,         \* pages alloc_kpages has handed out and not got back
    kheaproots,     \* per root: its page, and the slots marked in use
    pageref,        \* struct pageref by <<root, slot>>
    sizebases, allbase,
    owned,          \* the blocks each caller of kmalloc holds
    pc, local,      \* local: what the thread keeps across a dropped spinlock
    lost            \* history: slots marked in use whose caller got NULL

vars == <<kpages, kheaproots, pageref, sizebases, allbase, owned, pc, local, lost>>
lists == <<pageref, sizebases, allbase>>

NoRef == <<0, 0>>
NoPageref == [page |-> NoPage, type |-> 0, freelist |-> <<>>]
NoLocal == [type |-> 0, prpage |-> NoPage, ref |-> NoRef, va |-> NoPage]
Blocks(b) == 0 .. PerPage[b] - 1

\* A block is its page, its type and its index; a big allocation has type 0.
Big(p) == <<p, 0, 0>>

TypeOK ==
    /\ kpages \subseteq Page
    /\ kheaproots \in [Root -> [page : Page \cup {NoPage}, inuse : SUBSET Slot]]
    /\ sizebases \in [Type -> Seq(Root \X Slot)]
    /\ allbase \in Seq(Root \X Slot)
    /\ pc \in [Thread -> {"out", "newpage", "getref", "refpage", "refpage_got", "refpage_spare",
                          "giveback", "freepage"}]

Init ==
    /\ kpages = {}
    /\ kheaproots = [r \in Root |-> [page |-> NoPage, inuse |-> {}]]
    /\ pageref = [x \in Root \X Slot |-> NoPageref]
    /\ sizebases = [b \in Type |-> <<>>]
    /\ allbase = <<>>
    /\ owned = [t \in Thread |-> {}]
    /\ pc = [t \in Thread |-> "out"]
    /\ local = [t \in Thread |-> NoLocal]
    /\ lost = {}

\* alloc_kpages(1) outside the spinlock: a page nobody has, or 0 when the
\* rest of the system has used the memory up.
alloc_kpages(p) ==
    \/ p \in Page \ kpages /\ kpages' = kpages \cup {p}
    \/ p = NoPage /\ UNCHANGED kpages

free_kpages(p) == kpages' = kpages \ {p}

-----------------------------------------------------------------------------
(* Getting a block *)

\* doalloc: the head of the page's free list is the caller's.  refs, sb and
\* ab are the tables after what the same critical section did before.
doalloc(t, x, refs, sb, ab) ==
    /\ pageref' = [refs EXCEPT ![x].freelist = Tail(@)]
    /\ sizebases' = sb
    /\ allbase' = ab
    /\ owned' = [owned EXCEPT ![t] = @ \cup {<<refs[x].page, refs[x].type, Head(refs[x].freelist)>>}]
    /\ pc' = [pc EXCEPT ![t] = "out"]
    /\ local' = [local EXCEPT ![t] = NoLocal]

\* kmalloc of more than LARGEST_SUBPAGE_SIZE goes to alloc_kpages.
kmalloc_big(t) ==
    /\ pc[t] = "out" /\ Cardinality(owned[t]) < MaxOwned
    /\ \E p \in Page \cup {NoPage} :
        /\ alloc_kpages(p)
        /\ owned' = [owned EXCEPT ![t] = @ \cup (IF p = NoPage THEN {} ELSE {Big(p)})]
    /\ UNCHANGED <<kheaproots, lists, pc, local, lost>>

\* The first page of the size that has a free block; if there is none, the
\* spinlock is released to get a page.
subpage_kmalloc(t) ==
    /\ pc[t] = "out" /\ Cardinality(owned[t]) < MaxOwned
    /\ \E b \in Type :
        LET usable == SelectSeq(sizebases[b], LAMBDA x : pageref[x].freelist # <<>>)
        IN IF usable # <<>>
           THEN doalloc(t, Head(usable), pageref, sizebases, allbase)
           ELSE /\ pc' = [pc EXCEPT ![t] = "newpage"]
                /\ local' = [local EXCEPT ![t].type = b]
                /\ UNCHANGED <<lists, owned>>
    /\ UNCHANGED <<kpages, kheaproots, lost>>

\* The page, or "Subpage allocator couldn't get a page".
subpage_kmalloc_page(t) ==
    /\ pc[t] = "newpage"
    /\ \E p \in Page \cup {NoPage} :
        /\ alloc_kpages(p)
        /\ pc' = [pc EXCEPT ![t] = IF p = NoPage THEN "out" ELSE "getref"]
        /\ local' = [local EXCEPT ![t] = IF p = NoPage THEN NoLocal ELSE [@ EXCEPT !.prpage = p]]
    /\ UNCHANGED <<kheaproots, lists, owned, lost>>

\* The fresh page: its blocks are linked from the last to the first, its
\* pageref is put at the head of both lists, and a block is taken from it.
Install(t, x) ==
    LET b == local[t].type
        refs == [pageref EXCEPT ![x] = [page |-> local[t].prpage, type |-> b,
                     freelist |-> [i \in 1 .. PerPage[b] |-> PerPage[b] - i]]]
    IN doalloc(t, x, refs, [sizebases EXCEPT ![b] = <<x>> \o @], <<x>> \o allbase)

Least(S) == CHOOSE i \in S : \A j \in S : i <= j

\* The bit is set and numinuse counted before the page is looked at.
Mark(r, i) == kheaproots' = [kheaproots EXCEPT ![r].inuse = @ \cup {i}]

\* allocpageref: the first free slot of the first root that is not full.
\* Without a page for that root the spinlock is dropped again.
allocpageref(t) ==
    LET open == {r \in Root : kheaproots[r].inuse # Slot}
        r == Least(open)
        i == Least(Slot \ kheaproots[r].inuse)
    IN /\ pc[t] = "getref"
       /\ IF open = {}
          THEN /\ pc' = [pc EXCEPT ![t] = "giveback"]
               /\ UNCHANGED <<kheaproots, lists, owned, local>>
          ELSE /\ Mark(r, i)
               /\ IF kheaproots[r].page # NoPage
                  THEN Install(t, <<r, i>>)
                  ELSE /\ pc' = [pc EXCEPT ![t] = "refpage"]
                       /\ local' = [local EXCEPT ![t].ref = <<r, i>>]
                       /\ UNCHANGED <<lists, owned>>
       /\ UNCHANGED <<kpages, lost>>

\* allocpagerefpage, the spinlock released.
allocpagerefpage(t) ==
    /\ pc[t] = "refpage"
    /\ \E p \in Page \cup {NoPage} :
        /\ alloc_kpages(p)
        /\ local' = [local EXCEPT ![t].va = p]
    /\ pc' = [pc EXCEPT ![t] = "refpage_got"]
    /\ UNCHANGED <<kheaproots, lists, owned, lost>>

\* Mutant: the root's page is not looked at again.
RootTaken_blind(t) == FALSE

\* "Oops, somebody else allocated it."
RootTaken(t) == kheaproots[local[t].ref[1]].page # NoPage

\* The spinlock is held again: the page becomes the root's, or is a spare.
\* With no page at all allocpageref returns NULL, and the slot stays marked.
allocpagerefpage_got(t) ==
    LET x == local[t].ref
    IN /\ pc[t] = "refpage_got"
       /\ \/ /\ local[t].va = NoPage /\ ~RootTaken(t)
             /\ pc' = [pc EXCEPT ![t] = "giveback"]
             /\ lost' = lost \cup {x}
             /\ UNCHANGED <<kheaproots, lists, owned, local>>
          \/ /\ local[t].va = NoPage /\ RootTaken(t)
             /\ Install(t, x)
             /\ UNCHANGED <<kheaproots, lost>>
          \/ /\ local[t].va # NoPage /\ ~RootTaken(t)
             /\ kheaproots' = [kheaproots EXCEPT ![x[1]].page = local[t].va]
             /\ Install(t, x)
             /\ UNCHANGED lost
          \/ /\ local[t].va # NoPage /\ RootTaken(t)
             /\ pc' = [pc EXCEPT ![t] = "refpage_spare"]
             /\ UNCHANGED <<kheaproots, lists, owned, local, lost>>
       /\ UNCHANGED kpages

\* The spare page is freed with the spinlock released, which is then taken
\* again: "Once allocated it isn't ever freed."
allocpagerefpage_spare(t) ==
    /\ pc[t] = "refpage_spare"
    /\ free_kpages(local[t].va)
    /\ pc' = [pc EXCEPT ![t] = "refpage_got"]
    /\ local' = [local EXCEPT ![t].va = NoPage]
    /\ UNCHANGED <<kheaproots, lists, owned, lost>>

\* "Subpage allocator couldn't get pageref".
subpage_kmalloc_fails(t) ==
    /\ pc[t] = "giveback"
    /\ free_kpages(local[t].prpage)
    /\ pc' = [pc EXCEPT ![t] = "out"]
    /\ local' = [local EXCEPT ![t] = NoLocal]
    /\ UNCHANGED <<kheaproots, lists, owned, lost>>

-----------------------------------------------------------------------------
(* Giving a block back *)

OnPage(x, blk) == pageref[x].page = blk[1]

\* Mutant: the page is taken off the list of all pages only.
remove_lists_all(x) ==
    /\ allbase' = SelectSeq(allbase, LAMBDA y : y # x)
    /\ UNCHANGED sizebases

remove_lists(x) ==
    /\ allbase' = SelectSeq(allbase, LAMBDA y : y # x)
    /\ sizebases' = [sizebases EXCEPT ![pageref[x].type] = SelectSeq(@, LAMBDA y : y # x)]

freepageref(x) == kheaproots' = [kheaproots EXCEPT ![x[1]].inuse = @ \ {x[2]}]

\* Mutant: the page is released one block too early.
WholePageFree_early(x) == Len(pageref[x].freelist) + 2 >= PerPage[pageref[x].type]

WholePageFree(x) == Len(pageref[x].freelist) + 1 = PerPage[pageref[x].type]

\* subpage_kfree finds the page on allbase and pushes the block on its free
\* list.  A page all free leaves the lists, and is freed without the spinlock.
subpage_kfree(t) ==
    /\ pc[t] = "out"
    /\ \E blk \in owned[t] : \E k \in DOMAIN allbase :
        LET x == allbase[k]
        IN /\ OnPage(x, blk)
           /\ \A j \in 1 .. k - 1 : ~OnPage(allbase[j], blk)
           /\ owned' = [owned EXCEPT ![t] = @ \ {blk}]
           /\ pageref' = [pageref EXCEPT ![x].freelist = <<blk[3]>> \o @]
           /\ IF WholePageFree(x)
              THEN /\ remove_lists(x)
                   /\ freepageref(x)
                   /\ pc' = [pc EXCEPT ![t] = "freepage"]
                   /\ local' = [local EXCEPT ![t].prpage = blk[1]]
              ELSE UNCHANGED <<sizebases, allbase, kheaproots, pc, local>>
    /\ UNCHANGED <<kpages, lost>>

\* kfree of a pointer on none of the heap's pages: a big allocation.
kfree_big(t) ==
    /\ pc[t] = "out"
    /\ \E blk \in owned[t] :
        /\ \A k \in DOMAIN allbase : ~OnPage(allbase[k], blk)
        /\ owned' = [owned EXCEPT ![t] = @ \ {blk}]
        /\ local' = [local EXCEPT ![t].prpage = blk[1]]
    /\ pc' = [pc EXCEPT ![t] = "freepage"]
    /\ UNCHANGED <<kpages, kheaproots, lists, lost>>

kfree_page(t) ==
    /\ pc[t] = "freepage"
    /\ free_kpages(local[t].prpage)
    /\ pc' = [pc EXCEPT ![t] = "out"]
    /\ local' = [local EXCEPT ![t] = NoLocal]
    /\ UNCHANGED <<kheaproots, lists, owned, lost>>

-----------------------------------------------------------------------------
Next ==
    \E t \in Thread :
        \/ kmalloc_big(t) \/ subpage_kmalloc(t) \/ subpage_kmalloc_page(t)
        \/ allocpageref(t) \/ allocpagerefpage(t) \/ allocpagerefpage_got(t)
        \/ allocpagerefpage_spare(t) \/ subpage_kmalloc_fails(t)
        \/ subpage_kfree(t) \/ kfree_big(t) \/ kfree_page(t)

Spec == Init /\ [][Next]_vars

-----------------------------------------------------------------------------
\* The uses of a page: a root's array of pagerefs, a heap page on allbase, a
\* big allocation, or a page some thread is about to use or to free.
Uses(p) ==
    {<<"root", r>> : r \in {r \in Root : kheaproots[r].page = p}} \cup
    {<<"heap", k>> : k \in {k \in DOMAIN allbase : pageref[allbase[k]].page = p}} \cup
    {<<"big", t>> : t \in {t \in Thread : Big(p) \in owned[t]}} \cup
    {<<"page", t>> : t \in {t \in Thread : local[t].prpage = p}} \cup
    {<<"va", t>> : t \in {t \in Thread : local[t].va = p}}

\* Whatever happens while the spinlock is dropped around alloc_kpages and
\* free_kpages, a page the heap has got has exactly one use, and a page it
\* gave back has none: none is leaked, shared, or freed while in use.
PagesAccounted ==
    \A p \in Page : Cardinality(Uses(p)) = IF p \in kpages THEN 1 ELSE 0

\* Every block of a heap page is on its free list once, or belongs to exactly
\* one caller of kmalloc: no block is handed out twice or lost, and no caller
\* holds a block of a page that was given back.
BlocksAccounted ==
    /\ \A k \in DOMAIN allbase : \A i \in Blocks(pageref[allbase[k]].type) :
        LET pr == pageref[allbase[k]]
            free == {j \in DOMAIN pr.freelist : pr.freelist[j] = i}
            used == {t \in Thread : <<pr.page, pr.type, i>> \in owned[t]}
        IN Cardinality(free) + Cardinality(used) = 1
    /\ \A t \in Thread : \A blk \in owned[t] :
        blk[2] # 0 => \E k \in DOMAIN allbase : OnPage(allbase[k], blk)

\* allocpageref, freepageref and the two lists: a slot is marked in use
\* exactly while its pageref is on allbase and on the list of its size, or
\* some kmalloc holds it across a dropped spinlock; except for the slots lost
\* when the root's page could not be had.
PagerefsAccounted ==
    \A x \in Root \X Slot :
        LET all == {k \in DOMAIN allbase : allbase[k] = x}
            sized == {<<b, k>> \in Type \X (1 .. Len(allbase)) :
                        k <= Len(sizebases[b]) /\ sizebases[b][k] = x}
            held == {t \in Thread : local[t].ref = x}
        IN /\ (x[2] \in kheaproots[x[1]].inuse)
                <=> (Cardinality(all) + Cardinality(held) = 1 \/ x \in lost)
           /\ Cardinality(all) + Cardinality(held) <= 1
           /\ Cardinality(sized) = Cardinality(all)
           /\ \A bk \in sized : pageref[x].type = bk[1]
=============================================================================
