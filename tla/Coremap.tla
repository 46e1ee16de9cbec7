------------------------------ MODULE Coremap ------------------------------
(***************************************************************************)
(* kern/arch/mips/vm/dumbvm.c with DUMBVM_WITH_FREE, and ram_stealmem of   *)
(* kern/arch/mips/vm/ram.c: physical memory in pages, handed out to the    *)
(* kernel (alloc_kpages) and to address spaces, whose two segments and     *)
(* stack are each contiguous.                                              *)
(*                                                                         *)
(* freeRamFrames marks the pages that were handed out once and have come   *)
(* back; the others are taken from RAM beyond firstpaddr.  Address 0 means *)
(* failure.  A step is one critical section of freemem_lock or             *)
(* stealmem_lock.  Addresses are counted in pages.                         *)
(***************************************************************************)
EXTENDS Naturals

CONSTANTS
    Thread,
    Space,          \* blocks for struct addrspace
    NoSpace,        \* the requester is the kernel itself
    nRamFrames,
    FirstFree,      \* the first page after the kernel's image
    KernelSizes,    \* sizes of the kernel's requests
    SegmentSizes,   \* sizes of a program's segments; 0 when it has only one
    STACKPAGES,
    MaxSteal        \* bound on the pages taken before vm_bootstrap

Frame == 0..nRamFrames - 1
Segment == 1..3
Sizes == KernelSizes \cup SegmentSizes \cup {STACKPAGES}

ASSUME SizesAssumption ==
    /\ nRamFrames \in Nat /\ FirstFree \in Nat /\ MaxSteal \in Nat
    /\ 0 < FirstFree /\ FirstFree <= nRamFrames
    /\ Sizes \subseteq 0..nRamFrames
    /\ 0 \notin KernelSizes \cup {STACKPAGES}
    /\ NoSpace \notin Space

VARIABLES
    freeRamFrames,      \* the set of pages marked 1
    allocSize,
    active,             \* allocTableActive
    firstpaddr,
    kernel,             \* the blocks that the kernel has, as pairs of first page and size
    state,              \* of each address space
    pbase, npages,      \* as_pbase1, as_pbase2, as_stackpbase and their sizes
    pc, req,            \* where a thread is; what it asked for and got
    bootTop,            \* history: firstpaddr at vm_bootstrap
    spoiled             \* history: "nomem" as_destroy was given a space that lacks memory,
                        \* "empty" a segment of no pages was asked for

maps == <<freeRamFrames, allocSize, firstpaddr>>
spaces == <<state, pbase, npages>>
history == <<bootTop, spoiled>>
vars == <<maps, active, kernel, spaces, pc, req, history>>

Labels == {"idle", "getfree", "steal", "record", "failed", "free", "halted"}

\* For whom the pages are: the kernel, or a segment of an address space.
Request == [n : Nat, addr : 0..nRamFrames, as : Space \cup {NoSpace}, seg : 0..3]
Blank == [n |-> 0, addr |-> 0, as |-> NoSpace, seg |-> 0]

TypeOK ==
    /\ freeRamFrames \subseteq Frame
    /\ allocSize \in [Frame -> Nat]
    /\ active \in BOOLEAN
    /\ firstpaddr \in FirstFree..nRamFrames
    /\ kernel \subseteq Frame \X KernelSizes
    /\ state \in [Space -> {"none", "loading", "ready", "broken", "dying"}]
    /\ pbase \in [Space -> [Segment -> 0..nRamFrames]]
    /\ npages \in [Space -> [Segment -> Nat]]
    /\ pc \in [Thread -> Labels]
    /\ req \in [Thread -> Request]
    /\ bootTop \in FirstFree..nRamFrames
    /\ spoiled \subseteq {"nomem", "empty"}

Init ==
    /\ freeRamFrames = {}
    /\ allocSize = [f \in Frame |-> 0]
    /\ active = FALSE
    /\ firstpaddr = FirstFree
    /\ kernel = {}
    /\ state = [s \in Space |-> "none"]
    /\ pbase = [s \in Space |-> [i \in Segment |-> 0]]
    /\ npages = [s \in Space |-> [i \in Segment |-> 0]]
    /\ pc = [t \in Thread |-> "idle"]
    /\ req = [t \in Thread |-> Blank]
    /\ bootTop = FirstFree
    /\ spoiled = {}

Pages(first, n) == first..first + n - 1

\* The boot processor sets up the tables; no other thread exists yet.
vm_bootstrap ==
    /\ ~active
    /\ \A t \in Thread : pc[t] = "idle"
    /\ active' = TRUE
    /\ bootTop' = firstpaddr
    /\ UNCHANGED <<maps, kernel, spaces, pc, req, spoiled>>

-----------------------------------------------------------------------------
(***************************************************************************)
(* getppages.                                                              *)
(***************************************************************************)
\* Mutant: the last page of the run is not looked at.
Runs_short(n) == {f \in freeRamFrames : Pages(f, n) \subseteq Frame /\ Pages(f, n - 1) \subseteq freeRamFrames}

\* The search takes the first run that is long enough.
Runs(n) == {f \in freeRamFrames : Pages(f, n) \subseteq freeRamFrames}

getfreeppages(t) ==
    LET n == req[t].n
    IN  /\ pc[t] = "getfree"
        /\ \/ \E found \in Runs(n) :
                 /\ active
                 /\ \A f \in Runs(n) : found <= f
                 /\ freeRamFrames' = freeRamFrames \ Pages(found, n)
                 /\ allocSize' = [allocSize EXCEPT ![found] = n]
                 /\ req' = [req EXCEPT ![t].addr = found]
                 /\ pc' = [pc EXCEPT ![t] = IF found = 0 THEN "steal" ELSE "record"]
           \/ /\ ~active \/ Runs(n) = {}
              /\ pc' = [pc EXCEPT ![t] = "steal"]
              /\ UNCHANGED <<freeRamFrames, allocSize, req>>
        /\ UNCHANGED <<active, firstpaddr, kernel, spaces, history>>

ram_stealmem(t) ==
    /\ pc[t] = "steal"
    /\ IF firstpaddr + req[t].n > nRamFrames
       THEN /\ pc' = [pc EXCEPT ![t] = "failed"]
            /\ req' = [req EXCEPT ![t].addr = 0]
            /\ UNCHANGED firstpaddr
       ELSE /\ pc' = [pc EXCEPT ![t] = "record"]
            /\ req' = [req EXCEPT ![t].addr = firstpaddr]
            /\ firstpaddr' = firstpaddr + req[t].n
    /\ UNCHANGED <<freeRamFrames, allocSize, active, kernel, spaces, history>>

\* Mutant: the size is not entered in the table.
Recorded_not(t) == UNCHANGED allocSize

\* The end of getppages.  For 0 pages the address may be lastpaddr; the entry is
\* then past the end of the table.
Recorded(t) ==
    allocSize' = IF active /\ req[t].addr \in Frame
                 THEN [allocSize EXCEPT ![req[t].addr] = req[t].n]
                 ELSE allocSize

Ask(t, n, s, seg) ==
    /\ pc' = [pc EXCEPT ![t] = "getfree"]
    /\ req' = [req EXCEPT ![t] = [n |-> n, addr |-> 0, as |-> s, seg |-> seg]]

Done(t) ==
    /\ pc' = [pc EXCEPT ![t] = "idle"]
    /\ req' = [req EXCEPT ![t] = Blank]

\* Pages that come back; before vm_bootstrap they are lost.
freeppages(first, n) ==
    freeRamFrames' = IF active THEN freeRamFrames \cup Pages(first, n) ELSE freeRamFrames

-----------------------------------------------------------------------------
(***************************************************************************)
(* The kernel's own pages: kmalloc, stacks.                                *)
(***************************************************************************)
alloc_kpages(t) ==
    /\ pc[t] = "idle"
    /\ active \/ (firstpaddr < FirstFree + MaxSteal /\ \A u \in Thread : pc[u] = "idle")
    /\ \E n \in KernelSizes : Ask(t, n, NoSpace, 0)
    /\ UNCHANGED <<maps, active, kernel, spaces, history>>

KernelGot(t) ==
    /\ pc[t] = "record"
    /\ req[t].as = NoSpace
    /\ Recorded(t)
    /\ kernel' = kernel \cup {<<req[t].addr, req[t].n>>}
    /\ Done(t)
    /\ UNCHANGED <<freeRamFrames, firstpaddr, active, spaces, history>>

KernelFailed(t) ==
    /\ pc[t] = "failed"
    /\ req[t].as = NoSpace
    /\ Done(t)
    /\ UNCHANGED <<maps, active, kernel, spaces, history>>

\* allocSize is read without the lock; the block is no longer anybody's.
free_kpages(t) ==
    /\ pc[t] = "idle"
    /\ \E b \in kernel : /\ kernel' = kernel \ {b}
                         /\ freeppages(b[1], allocSize[b[1]])
    /\ UNCHANGED <<allocSize, firstpaddr, active, spaces, pc, req, history>>

-----------------------------------------------------------------------------
(***************************************************************************)
(* Address spaces.                                                         *)
(***************************************************************************)
\* as_create, as_define_region for two regions (or as_copy's copy of them), and
\* as_prepare_load up to its first request.
as_prepare_load(t) ==
    /\ active
    /\ pc[t] = "idle"
    /\ \E s \in Space, n1, n2 \in SegmentSizes :
          /\ state[s] = "none"
          /\ state' = [state EXCEPT ![s] = "loading"]
          /\ npages' = [npages EXCEPT ![s] = <<n1, n2, STACKPAGES>>]
          /\ Ask(t, n1, s, 1)
          /\ spoiled' = IF 0 \in {n1, n2} THEN spoiled \cup {"empty"} ELSE spoiled
    /\ UNCHANGED <<maps, active, kernel, pbase, bootTop>>

SegmentGot(t) ==
    LET s == req[t].as
        i == req[t].seg
    IN  /\ pc[t] = "record"
        /\ s # NoSpace
        /\ Recorded(t)
        /\ pbase' = [pbase EXCEPT ![s][i] = req[t].addr]
        /\ IF i + 1 \in Segment
           THEN Ask(t, npages[s][i + 1], s, i + 1) /\ UNCHANGED state
           ELSE Done(t) /\ state' = [state EXCEPT ![s] = "ready"]
        /\ UNCHANGED <<freeRamFrames, firstpaddr, active, kernel, npages, history>>

\* ENOMEM.  as_copy and execv destroy the address space.
Destroying(t, s) ==
    /\ state' = [state EXCEPT ![s] = "dying"]
    /\ pc' = [pc EXCEPT ![t] = "free"]
    /\ req' = [req EXCEPT ![t] = [n |-> 0, addr |-> 0, as |-> s, seg |-> 1]]

SegmentFailed(t) ==
    /\ pc[t] = "failed"
    /\ req[t].as # NoSpace
    /\ Destroying(t, req[t].as)
    /\ spoiled' = spoiled \cup {"nomem"}
    /\ UNCHANGED <<maps, active, kernel, pbase, npages, bootTop>>

\* execv of a file that load_elf refuses before it comes to as_prepare_load: the
\* new address space is destroyed with the regions that were defined so far.
LoadRefused(t) ==
    /\ active
    /\ pc[t] = "idle"
    /\ \E s \in Space, n1, n2 \in SegmentSizes \cup {0} :
          /\ state[s] = "none"
          /\ npages' = [npages EXCEPT ![s] = <<n1, n2, STACKPAGES>>]
          /\ Destroying(t, s)
    /\ spoiled' = spoiled \cup {"nomem"}
    /\ UNCHANGED <<maps, active, kernel, pbase, bootTop>>

\* runprogram leaves it to the process, which is never destroyed.
SegmentAbandoned(t) ==
    /\ pc[t] = "failed"
    /\ req[t].as # NoSpace
    /\ state' = [state EXCEPT ![req[t].as] = "broken"]
    /\ Done(t)
    /\ UNCHANGED <<maps, active, kernel, pbase, npages, history>>

as_destroy(t) ==
    /\ pc[t] = "idle"
    /\ \E s \in Space : state[s] = "ready" /\ Destroying(t, s)
    /\ UNCHANGED <<maps, active, kernel, pbase, npages, history>>

\* The next segment, or the end: the block is given back.
Advance(t, s, i) ==
    IF i + 1 \in Segment
    THEN req' = [req EXCEPT ![t].seg = i + 1] /\ UNCHANGED <<pc, spaces>>
    ELSE /\ Done(t)
         /\ state' = [state EXCEPT ![s] = "none"]
         /\ pbase' = [pbase EXCEPT ![s] = [k \in Segment |-> 0]]
         /\ npages' = [npages EXCEPT ![s] = [k \in Segment |-> 0]]

DestroySegment(t) ==
    LET s == req[t].as
        i == req[t].seg
    IN  /\ pc[t] = "free"
        /\ pbase[s][i] \in Frame
        /\ freeppages(pbase[s][i], npages[s][i])
        /\ Advance(t, s, i)
        /\ UNCHANGED <<allocSize, firstpaddr, active, kernel, history>>

\* KASSERT(nRamFrames>first) stops the system: a segment of no pages may have been
\* given lastpaddr as its address.
DestroyPanics(t) ==
    /\ pc[t] = "free"
    /\ pbase[req[t].as][req[t].seg] \notin Frame
    /\ pc' = [u \in Thread |-> "halted"]
    /\ UNCHANGED <<maps, active, kernel, spaces, req, history>>

-----------------------------------------------------------------------------
Step(t) ==
    \/ getfreeppages(t) \/ ram_stealmem(t)
    \/ alloc_kpages(t) \/ KernelGot(t) \/ KernelFailed(t) \/ free_kpages(t)
    \/ as_prepare_load(t) \/ SegmentGot(t) \/ SegmentFailed(t) \/ SegmentAbandoned(t)
    \/ LoadRefused(t) \/ as_destroy(t) \/ DestroySegment(t) \/ DestroyPanics(t)

Next == vm_bootstrap \/ \E t \in Thread : Step(t)

Spec == Init /\ [][Next]_vars

-----------------------------------------------------------------------------
(***************************************************************************)
(* Properties.                                                             *)
(***************************************************************************)
\* Who has pages: kernel blocks, segments (those that a destroyer has not
\* reached yet), and requests that have an address but have not returned.
Segments == {x \in Space \X Segment :
                /\ state[x[1]] # "none"
                /\ pbase[x[1]][x[2]] # 0
                /\ \A t \in Thread : state[x[1]] = "dying" /\ req[t].as = x[1] => x[2] >= req[t].seg}
InFlight == {t \in Thread : pc[t] = "record"}

KernelPages == UNION {Pages(b[1], b[2]) : b \in kernel}
SegmentPages == UNION {Pages(pbase[x[1]][x[2]], npages[x[1]][x[2]]) : x \in Segments}
FlightPages == UNION {Pages(req[t].addr, req[t].n) : t \in InFlight}

\* A page that was handed out has one owner: no two blocks of the kernel,
\* segments of address spaces or requests on their way back through getppages
\* overlap.  Until as_destroy is given an address space that lacks memory.
OneOwner ==
    "nomem" \notin spoiled =>
       /\ \A a, b \in kernel : a # b => Pages(a[1], a[2]) \cap Pages(b[1], b[2]) = {}
       /\ \A x, y \in Segments : x # y =>
             Pages(pbase[x[1]][x[2]], npages[x[1]][x[2]])
                \cap Pages(pbase[y[1]][y[2]], npages[y[1]][y[2]]) = {}
       /\ \A t, u \in InFlight : t # u =>
             Pages(req[t].addr, req[t].n) \cap Pages(req[u].addr, req[u].n) = {}
       /\ KernelPages \cap SegmentPages = {}
       /\ (KernelPages \cup SegmentPages) \cap FlightPages = {}

\* getfreeppages and ram_stealmem cannot hand out a page that somebody owns, nor
\* one of the kernel's image.  Under the same proviso.
OwnedNotFree ==
    "nomem" \notin spoiled =>
       /\ (KernelPages \cup SegmentPages \cup FlightPages)
             \cap (freeRamFrames \cup 0..FirstFree - 1 \cup firstpaddr..nRamFrames) = {}
       /\ freeRamFrames \subseteq FirstFree..firstpaddr - 1

\* No page is lost: a page taken from RAM after vm_bootstrap belongs to somebody
\* or is marked free, in the middle of every operation too, so free_kpages reads
\* the right allocSize.  If no segment is empty: for one, getppages enters the
\* size 0 at an address that another thread may own by then.
NothingLost ==
    active /\ spoiled = {} =>
       bootTop..firstpaddr - 1
          \subseteq KernelPages \cup SegmentPages \cup FlightPages \cup freeRamFrames

\* ram.c: address 0 is "not a legal *allocatable* physical address, because it's
\* the page with the exception handlers on it"; so freeppages never marks it free.
ImageKept == 0 \notin freeRamFrames
=============================================================================
