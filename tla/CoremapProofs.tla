--------------------------- MODULE CoremapProofs ---------------------------
(***************************************************************************)
(* Proofs about Coremap: pages that were handed out have one owner, are    *)
(* not handed out again, and are not lost, for any memory, any sizes and   *)
(* any number of threads and address spaces.                               *)
(***************************************************************************)
EXTENDS Coremap, TLAPS

\* Zenon proves the leaves that need no arithmetic; the others name their prover.
USE ZenonT(30)

-----------------------------------------------------------------------------
(* Who can have pages, and which pages they have *)

Kinds == {"kernel", "segment", "flight"}
Holder(k) ==
    CASE k = "kernel" -> Frame \X KernelSizes
      [] k = "segment" -> Space \X Segment
      [] k = "flight" -> Thread

Claim(k, x) ==
    CASE k = "kernel" -> IF x \in kernel THEN Pages(x[1], x[2]) ELSE {}
      [] k = "segment" -> IF x \in Segments THEN Pages(pbase[x[1]][x[2]], npages[x[1]][x[2]]) ELSE {}
      [] k = "flight" -> IF pc[x] = "record" THEN Pages(req[x].addr, req[x].n) ELSE {}

\* Nobody's pages are another's, free, of the image, or still in RAM.
Claims ==
    /\ \A k, l \in Kinds : \A x \in Holder(k), y \in Holder(l) :
          (k # l \/ x # y) => Claim(k, x) \cap Claim(l, y) = {}
    /\ \A k \in Kinds : \A x \in Holder(k) :
          Claim(k, x) \subseteq FirstFree .. firstpaddr - 1 /\ Claim(k, x) \cap freeRamFrames = {}
    /\ freeRamFrames \subseteq bootTop .. firstpaddr - 1

\* Every page taken after vm_bootstrap is somebody's or free.
Covered ==
    \A f \in bootTop .. firstpaddr - 1 :
        f \in freeRamFrames \/ \E k \in Kinds : \E x \in Holder(k) : f \in Claim(k, x)

CoreType ==
    /\ allocSize \in [Frame -> Nat]
    /\ firstpaddr \in FirstFree .. nRamFrames
    /\ bootTop \in FirstFree .. firstpaddr
    /\ kernel \subseteq Frame \X KernelSizes
    /\ state \in [Space -> {"none", "loading", "ready", "broken", "dying"}]
    /\ pbase \in [Space -> [Segment -> 0 .. nRamFrames]]
    /\ npages \in [Space -> [Segment -> Nat]]
    /\ pc \in [Thread -> Labels]
    /\ DOMAIN req = Thread
    /\ \A t \in Thread :
          /\ DOMAIN req[t] = {"n", "addr", "as", "seg"}
          /\ req[t].n \in Nat /\ req[t].addr \in 0 .. nRamFrames /\ req[t].as \in Space \cup {NoSpace}

\* An address space is prepared, or destroyed, by one thread, which has its
\* memory from the first segment on, or from the segment it has come to.
Spaces ==
    /\ \A t, u \in Thread : t # u /\ req[t].as = req[u].as => req[t].as = NoSpace
    /\ \A t \in Thread : req[t].as # NoSpace => state[req[t].as] \in {"loading", "dying"}
    /\ \A s \in Space, i \in Segment : /\ state[s] = "none" => pbase[s][i] = 0
                                       /\ state[s] \in {"ready", "dying"} => pbase[s][i] # 0
    /\ \A t \in Thread :
          /\ pc[t] = "idle" => req[t].as = NoSpace
          /\ pc[t] \in {"getfree", "steal", "record", "failed"} /\ req[t].as # NoSpace =>
                /\ state[req[t].as] = "loading" /\ req[t].seg \in Segment
                /\ req[t].n = npages[req[t].as][req[t].seg]
                /\ \A i \in Segment : pbase[req[t].as][i] = 0 <=> i >= req[t].seg
          /\ pc[t] = "free" => /\ req[t].as # NoSpace /\ state[req[t].as] = "dying"
                               /\ req[t].seg \in Segment

\* What getppages has on its way.
Requests ==
    \A t \in Thread :
        /\ pc[t] \in {"getfree", "steal", "record"} /\ req[t].as = NoSpace => req[t].n \in KernelSizes
        /\ pc[t] = "record" => req[t].addr >= FirstFree /\ (active => req[t].addr >= bootTop)

\* The table of sizes is right for the kernel's blocks; a request for no pages
\* may have cleared an entry.
SizesKept ==
    /\ ~active => /\ freeRamFrames = {} /\ \A f \in Frame : allocSize[f] = 0
                  /\ \A s \in Space : state[s] = "none"
    /\ active => \A s \in Space, i \in Segment : pbase[s][i] = 0 \/ pbase[s][i] >= bootTop
    /\ \A f \in Frame : f < bootTop => allocSize[f] = 0
    /\ active => \A b \in kernel :
          /\ b[1] < bootTop => b[1] + b[2] <= bootTop
          /\ b[1] >= bootTop => allocSize[b[1]] = b[2] \/ (allocSize[b[1]] = 0 /\ spoiled # {})
    /\ spoiled = {} => \A s \in Space, i \in Segment : state[s] # "none" => npages[s][i] > 0

Core == CoreType /\ Claims /\ Spaces /\ Requests /\ SizesKept /\ (active /\ spoiled = {} => Covered)

CoreInv == "nomem" \notin spoiled => Core

-----------------------------------------------------------------------------
(* How pages change hands *)

\* The frames that a kernel block, a segment and a request under way claim.
LEMMA ClaimOf ==
    /\ \A b : Claim("kernel", b) = IF b \in kernel THEN Pages(b[1], b[2]) ELSE {}
    /\ \A x : Claim("segment", x) =
                 IF x \in Segments THEN Pages(pbase[x[1]][x[2]], npages[x[1]][x[2]]) ELSE {}
    /\ \A t : Claim("flight", t) = IF pc[t] = "record" THEN Pages(req[t].addr, req[t].n) ELSE {}
    /\ Holder("kernel") = Frame \X KernelSizes
    /\ Holder("segment") = Space \X Segment
    /\ Holder("flight") = Thread
BY DEF Claim, Holder

\* The same in the next state.
LEMMA ClaimOfNext ==
    /\ \A b : Claim("kernel", b)' = IF b \in kernel' THEN Pages(b[1], b[2]) ELSE {}
    /\ \A x : Claim("segment", x)' =
                 IF x \in Segments' THEN Pages(pbase'[x[1]][x[2]], npages'[x[1]][x[2]]) ELSE {}
    /\ \A t : Claim("flight", t)' = IF pc'[t] = "record" THEN Pages(req'[t].addr, req'[t].n) ELSE {}
BY DEF Claim

\* A longer run of frames contains a shorter one.
LEMMA Wider ==
    ASSUME NEW a \in Nat, NEW b \in Nat, NEW c \in Nat, b <= c
    PROVE  a .. b - 1 \subseteq a .. c - 1
BY SMT

\* A frame of a run is before or after a point.
LEMMA Between ==
    ASSUME NEW a \in Nat, NEW b \in Nat, NEW c \in Nat, NEW f \in a .. c - 1
    PROVE  f \in b .. c - 1 \/ f \in a .. b - 1
BY SMT

\* All holders but one keep what they have.
Others(k, x) == \A l \in Kinds : \A y \in Holder(l) : (l # k \/ y # x) => Claim(l, y)' = Claim(l, y)

\* One holder takes pages from the free ones or from RAM, or gives pages back.
LEMMA Flow ==
    ASSUME CoreType, Claims, NEW k \in Kinds, NEW x \in Holder(k), Others(k, x),
           bootTop' = bootTop, firstpaddr' \in firstpaddr .. nRamFrames,
           Claim(k, x)' \subseteq
              Claim(k, x) \cup (freeRamFrames \ freeRamFrames') \cup (firstpaddr .. firstpaddr' - 1),
           freeRamFrames' \subseteq freeRamFrames \cup (Claim(k, x) \cap (bootTop .. firstpaddr - 1)),
           Claim(k, x)' \cap freeRamFrames' = {}
    PROVE  Claims'
<1> DEFINE C(l, y) == Claim(l, y)
           D(l, y) == Claim(l, y)'
<1>0. FirstFree \in Nat /\ nRamFrames \in Nat /\ firstpaddr \in Nat /\ firstpaddr' \in Nat /\ bootTop \in Nat
      /\ bootTop <= firstpaddr /\ FirstFree <= bootTop /\ firstpaddr <= firstpaddr'
  BY SizesAssumption, SMT DEF CoreType
<1>1. \A l, m \in Kinds : \A y \in Holder(l), z \in Holder(m) : (l # m \/ y # z) => C(l, y) \cap C(m, z) = {}
  BY DEF Claims
<1>2. \A l \in Kinds : \A y \in Holder(l) : C(l, y) \subseteq FirstFree .. firstpaddr - 1 /\ C(l, y) \cap freeRamFrames = {}
  BY DEF Claims
<1>3. freeRamFrames \subseteq bootTop .. firstpaddr - 1
  BY DEF Claims
<1>4. \A l \in Kinds : \A y \in Holder(l) : (l # k \/ y # x) => D(l, y) = C(l, y)
  BY DEF Others
<1>5. D(k, x) \subseteq C(k, x) \cup (freeRamFrames \ freeRamFrames') \cup (firstpaddr .. firstpaddr' - 1)
  OBVIOUS
<1>6. /\ freeRamFrames' \subseteq freeRamFrames \cup (C(k, x) \cap (bootTop .. firstpaddr - 1))
      /\ D(k, x) \cap freeRamFrames' = {}
  OBVIOUS
<1> HIDE DEF C, D
<1>7. ASSUME NEW l \in Kinds, NEW y \in Holder(l), l # k \/ y # x
      PROVE  D(l, y) \cap D(k, x) = {} /\ D(l, y) \cap freeRamFrames' = {}
             /\ D(l, y) \subseteq FirstFree .. firstpaddr' - 1
  <2>1. D(l, y) = C(l, y) /\ C(l, y) \cap C(k, x) = {} /\ C(l, y) \cap freeRamFrames = {}
        /\ C(l, y) \subseteq FirstFree .. firstpaddr - 1
    BY <1>1, <1>2, <1>4, <1>7
  <2>2. \A f \in C(l, y) : f \in Nat /\ f >= FirstFree /\ f < firstpaddr
    BY <1>0, <2>1, SMT
  <2> QED
    BY <1>0, <1>5, <1>6, <2>1, <2>2, SMT
<1>8. D(k, x) \subseteq FirstFree .. firstpaddr' - 1
  <2> SUFFICES ASSUME NEW f \in D(k, x) PROVE f \in FirstFree .. firstpaddr' - 1
    OBVIOUS
  <2>1. f \in C(k, x) \/ f \in freeRamFrames \/ f \in firstpaddr .. firstpaddr' - 1
    BY <1>5
  <2>2. f \in C(k, x) => f \in FirstFree .. firstpaddr - 1
    BY <1>2
  <2>3. f \in FirstFree .. firstpaddr - 1 \/ f \in bootTop .. firstpaddr - 1 \/ f \in firstpaddr .. firstpaddr' - 1
    BY <1>3, <2>1, <2>2
  <2> QED
    BY <1>0, <2>3, SMT
<1>9. \A l, m \in Kinds : \A y \in Holder(l), z \in Holder(m) : (l # m \/ y # z) => D(l, y) \cap D(m, z) = {}
  <2> SUFFICES ASSUME NEW l \in Kinds, NEW m \in Kinds, NEW y \in Holder(l), NEW z \in Holder(m), l # m \/ y # z
               PROVE  D(l, y) \cap D(m, z) = {}
    OBVIOUS
  <2>1. CASE l = k /\ y = x
    BY <1>7, <2>1
  <2>2. CASE m = k /\ z = x
    BY <1>7, <2>2
  <2>3. CASE (l # k \/ y # x) /\ (m # k \/ z # x)
    BY <1>1, <1>4, <2>3, SMT
  <2> QED
    BY <2>1, <2>2, <2>3
<1>10. \A l \in Kinds : \A y \in Holder(l) : D(l, y) \subseteq FirstFree .. firstpaddr' - 1 /\ D(l, y) \cap freeRamFrames' = {}
  BY <1>6, <1>7, <1>8
<1>11. freeRamFrames' \subseteq bootTop' .. firstpaddr' - 1
  <2>1. freeRamFrames' \subseteq bootTop .. firstpaddr - 1
    BY <1>3, <1>6
  <2>2. bootTop .. firstpaddr - 1 \subseteq bootTop .. firstpaddr' - 1
    BY <1>0, Wider
  <2> QED
    BY <2>1, <2>2
<1>12. Claims' = (/\ \A l, m \in Kinds : \A y \in Holder(l), z \in Holder(m) :
                      (l # m \/ y # z) => D(l, y) \cap D(m, z) = {}
                  /\ \A l \in Kinds : \A y \in Holder(l) :
                        D(l, y) \subseteq FirstFree .. firstpaddr' - 1 /\ D(l, y) \cap freeRamFrames' = {}
                  /\ freeRamFrames' \subseteq bootTop' .. firstpaddr' - 1)
  BY DEF Claims, D
<1> QED
  BY <1>9, <1>10, <1>11, <1>12

\* ... and no page is lost, if what it gives up becomes free.
LEMMA FlowCovers ==
    ASSUME CoreType, Covered, NEW k \in Kinds, NEW x \in Holder(k), Others(k, x),
           bootTop' = bootTop, firstpaddr' \in firstpaddr .. nRamFrames,
           \A f \in bootTop .. firstpaddr - 1 :
              f \in freeRamFrames \/ f \in Claim(k, x) => f \in freeRamFrames' \/ f \in Claim(k, x)',
           firstpaddr .. firstpaddr' - 1 \subseteq Claim(k, x)'
    PROVE  Covered'
<1> SUFFICES ASSUME NEW f \in bootTop .. firstpaddr' - 1
             PROVE  f \in freeRamFrames' \/ \E l \in Kinds : \E y \in Holder(l) : f \in Claim(l, y)'
  BY DEF Covered, Holder
<1>1. CASE f \in firstpaddr .. firstpaddr' - 1
  BY <1>1
<1>2. CASE f \in bootTop .. firstpaddr - 1
  <2>1. CASE f \in freeRamFrames \/ f \in Claim(k, x)
    BY <1>2, <2>1
  <2>2. CASE ~(f \in freeRamFrames \/ f \in Claim(k, x))
    <3>1. PICK l \in Kinds : \E y \in Holder(l) : f \in Claim(l, y)
      BY <1>2, <2>2 DEF Covered
    <3>2. PICK y \in Holder(l) : f \in Claim(l, y)
      BY <3>1
    <3>3. l # k \/ y # x
      BY <2>2, <3>2
    <3> QED
      BY <3>2, <3>3 DEF Others
  <2> QED
    BY <2>1, <2>2
<1>3. firstpaddr \in Nat /\ bootTop \in Nat /\ firstpaddr' \in Nat
  BY SizesAssumption, SMT DEF CoreType
<1>4. f \in firstpaddr .. firstpaddr' - 1 \/ f \in bootTop .. firstpaddr - 1
  BY <1>3, Between
<1> QED
  BY <1>1, <1>2, <1>4

\* One holder hands all it has to another that has nothing.
LEMMA Handover ==
    ASSUME CoreType, Claims, UNCHANGED <<bootTop, firstpaddr, freeRamFrames>>,
           NEW k \in Kinds, NEW x \in Holder(k), NEW l \in Kinds, NEW y \in Holder(l), k # l,
           Claim(l, y) = {}, Claim(k, x)' = {}, Claim(l, y)' = Claim(k, x),
           \A m \in Kinds : \A z \in Holder(m) :
              (m # k \/ z # x) /\ (m # l \/ z # y) => Claim(m, z)' = Claim(m, z)
    PROVE  Claims' /\ (Covered => Covered')
<1> DEFINE C(m, z) == Claim(m, z)
           D(m, z) == Claim(m, z)'
<1>1. \A m, n \in Kinds : \A z \in Holder(m), w \in Holder(n) : (m # n \/ z # w) => C(m, z) \cap C(n, w) = {}
  BY DEF Claims
<1>2. \A m \in Kinds : \A z \in Holder(m) : C(m, z) \subseteq FirstFree .. firstpaddr - 1 /\ C(m, z) \cap freeRamFrames = {}
  BY DEF Claims
<1>3. C(l, y) = {} /\ D(k, x) = {} /\ D(l, y) = C(k, x)
  OBVIOUS
<1>4. \A m \in Kinds : \A z \in Holder(m) : (m # k \/ z # x) /\ (m # l \/ z # y) => D(m, z) = C(m, z)
  OBVIOUS
<1> HIDE DEF C, D
<1>5. ASSUME NEW m \in Kinds, NEW n \in Kinds, NEW z \in Holder(m), NEW w \in Holder(n), m # n \/ z # w
      PROVE  D(m, z) \cap D(n, w) = {}
  <2>1. CASE (m = k /\ z = x) \/ (n = k /\ w = x)
    BY <1>3, <2>1
  <2>2. CASE m = l /\ z = y /\ (n # k \/ w # x)
    <3>1. D(n, w) = C(n, w)
      BY <1>4, <1>5, <2>2
    <3> QED
      BY <1>1, <1>3, <2>2, <3>1, SMT
  <2>3. CASE n = l /\ w = y /\ (m # k \/ z # x)
    <3>1. D(m, z) = C(m, z)
      BY <1>4, <1>5, <2>3
    <3> QED
      BY <1>1, <1>3, <2>3, <3>1, SMT
  <2>4. CASE (m # k \/ z # x) /\ (m # l \/ z # y) /\ (n # k \/ w # x) /\ (n # l \/ w # y)
    BY <1>1, <1>4, <1>5, <2>4, SMT
  <2> QED
    BY <2>1, <2>2, <2>3, <2>4
<1>6. \A m \in Kinds : \A z \in Holder(m) : D(m, z) \subseteq FirstFree .. firstpaddr - 1 /\ D(m, z) \cap freeRamFrames = {}
  BY <1>2, <1>3, <1>4, SMT
<1>7. Claims'
  BY <1>5, <1>6 DEF Claims, D
<1>8. ASSUME Covered PROVE Covered'
  <2> SUFFICES ASSUME NEW f \in bootTop .. firstpaddr - 1, f \notin freeRamFrames
               PROVE  \E m \in Kinds : \E z \in Holder(m) : f \in D(m, z)
    BY DEF Covered, D
  <2>1. PICK m \in Kinds : \E z \in Holder(m) : f \in C(m, z)
    BY <1>8 DEF Covered, C
  <2>2. PICK z \in Holder(m) : f \in C(m, z)
    BY <2>1
  <2>3. CASE m = k /\ z = x
    BY <1>3, <2>2, <2>3
  <2>4. CASE m # k \/ z # x
    BY <1>3, <1>4, <2>2, <2>4
  <2> QED
    BY <2>3, <2>4
<1> QED
  BY <1>7, <1>8

\* Nobody's pages change.
LEMMA Still ==
    ASSUME Claims, UNCHANGED <<bootTop, firstpaddr, freeRamFrames, kernel>>,
           \A u \in Thread : /\ pc'[u] = "record" <=> pc[u] = "record"
                             /\ pc[u] = "record" => req'[u] = req[u],
           \A x \in Space \X Segment : Claim("segment", x)' = Claim("segment", x)
    PROVE  Claims' /\ (Covered => Covered')
<1>1. \A k \in Kinds : \A x \in Holder(k) : Claim(k, x)' = Claim(k, x)
  <2>1. \A b : Claim("kernel", b)' = Claim("kernel", b)
    BY ClaimOf, ClaimOfNext
  <2>2. \A u \in Thread : Claim("flight", u)' = Claim("flight", u)
    BY ClaimOf, ClaimOfNext
  <2> QED
    BY <2>1, <2>2, ClaimOf DEF Kinds
<1>2. Claims'
  BY <1>1, SMT DEF Claims
<1>3. Covered => Covered'
  BY <1>1, SMT DEF Covered
<1> QED
  BY <1>2, <1>3

\* A segment keeps its pages as long as its destroyer does not come to it.
LEMMA SegmentStill ==
    ASSUME NEW x \in Space \X Segment,
           pbase'[x[1]][x[2]] = pbase[x[1]][x[2]], npages'[x[1]][x[2]] = npages[x[1]][x[2]],
           state'[x[1]] = state[x[1]],
           \A u \in Thread : /\ req'[u].as = x[1] <=> req[u].as = x[1]
                             /\ state[x[1]] = "dying" /\ req[u].as = x[1] => req'[u].seg = req[u].seg
    PROVE  Claim("segment", x)' = Claim("segment", x)
<1>1. x \in Segments <=> x \in Segments'
  BY DEF Segments
<1> QED
  BY <1>1, ClaimOf, ClaimOfNext

\* getfreeppages finds nothing.
LEMMA NoneFree ==
    ASSUME Core, NEW t \in Thread, pc[t] = "getfree", pc' = [pc EXCEPT ![t] = "steal"],
           UNCHANGED <<freeRamFrames, allocSize, req, active, firstpaddr, kernel, spaces, history>>
    PROVE  Core'
<1>t. CoreType /\ Claims /\ Spaces /\ Requests /\ SizesKept /\ (active /\ spoiled = {} => Covered)
  BY DEF Core
<1>u. UNCHANGED <<state, pbase, npages, bootTop, spoiled>>
  BY DEF spaces, history
<1>1. pc'[t] = "steal" /\ \A u \in Thread : u # t => pc'[u] = pc[u]
  BY <1>t DEF CoreType
<1>2. CoreType'
  BY <1>t, <1>u DEF CoreType, Labels
<1>3. \A x \in Space \X Segment : Claim("segment", x)' = Claim("segment", x)
  BY <1>u, SegmentStill
<1>4. Claims' /\ (Covered => Covered')
  BY <1>t, <1>u, <1>1, <1>3, Still
<1>5. Spaces'
  BY <1>t, <1>u, <1>1 DEF Spaces
<1>6. Requests'
  BY <1>t, <1>u, <1>1 DEF Requests
<1>7. SizesKept'
  BY <1>t, <1>u DEF SizesKept
<1> QED
  BY <1>t, <1>u, <1>2, <1>4, <1>5, <1>6, <1>7 DEF Core

\* ram_stealmem has no RAM left.
LEMMA NoRam ==
    ASSUME Core, NEW t \in Thread, pc[t] = "steal", pc' = [pc EXCEPT ![t] = "failed"],
           req' = [req EXCEPT ![t].addr = 0],
           UNCHANGED <<freeRamFrames, allocSize, active, firstpaddr, kernel, spaces, history>>
    PROVE  Core'
<1>t. CoreType /\ Claims /\ Spaces /\ Requests /\ SizesKept /\ (active /\ spoiled = {} => Covered)
  BY DEF Core
<1>u. UNCHANGED <<state, pbase, npages, bootTop, spoiled>>
  BY DEF spaces, history
<1>1. pc'[t] = "failed" /\ \A u \in Thread : u # t => pc'[u] = pc[u] /\ req'[u] = req[u]
  BY <1>t DEF CoreType
<1>2. /\ DOMAIN req' = Thread /\ DOMAIN req'[t] = DOMAIN req[t] /\ req'[t].addr = 0 /\ req'[t].n = req[t].n
      /\ req'[t].as = req[t].as /\ req'[t].seg = req[t].seg
  BY <1>t DEF CoreType
<1>3. CoreType'
  BY <1>t, <1>u, <1>1, <1>2, SizesAssumption, SMT DEF CoreType, Labels
<1>4. \A x \in Space \X Segment : Claim("segment", x)' = Claim("segment", x)
  BY <1>u, <1>1, <1>2, SegmentStill, SMT
<1>5. Claims' /\ (Covered => Covered')
  BY <1>t, <1>u, <1>1, <1>4, Still
<1>6. Spaces'
  BY <1>t, <1>u, <1>1, <1>2, SMT DEF Spaces
<1>7. Requests'
  BY <1>t, <1>u, <1>1, <1>2, SMT DEF Requests
<1>8. SizesKept'
  BY <1>t, <1>u DEF SizesKept
<1> QED
  BY <1>t, <1>u, <1>3, <1>5, <1>6, <1>7, <1>8 DEF Core

\* vm_bootstrap: what was taken so far stays taken.
LEMMA Bootstrap ==
    ASSUME Core, vm_bootstrap
    PROVE  Core'
<1>t. CoreType /\ Claims /\ Spaces /\ Requests /\ SizesKept /\ (active /\ spoiled = {} => Covered)
  BY DEF Core
<1>u. UNCHANGED <<freeRamFrames, allocSize, firstpaddr, kernel, state, pbase, npages, pc, req, spoiled>>
  BY DEF vm_bootstrap, maps, spaces
<1>1. ~active /\ active' /\ bootTop' = firstpaddr /\ \A t \in Thread : pc[t] = "idle"
  BY DEF vm_bootstrap
<1>2. /\ freeRamFrames = {} /\ \A f \in Frame : allocSize[f] = 0
      /\ \A s \in Space, i \in Segment : pbase[s][i] = 0
  BY <1>t, <1>1 DEF SizesKept, Spaces
<1>3. CoreType'
  BY <1>t, <1>u, <1>1, SizesAssumption, SMT DEF CoreType
<1>4. \A k \in Kinds : \A x \in Holder(k) : Claim(k, x)' = Claim(k, x)
  BY <1>u DEF Claim, Segments
<1>5. Claims'
  BY <1>t, <1>u, <1>2, <1>4, SMT DEF Claims
<1>6. Spaces'
  BY <1>t, <1>u DEF Spaces
<1>7. Requests'
  BY <1>u, <1>1 DEF Requests
<1>8. ASSUME NEW b \in kernel PROVE b[1] + b[2] <= firstpaddr
  <2>1. b[1] \in Nat /\ b[2] \in Nat /\ b[2] > 0 /\ b \in Frame \X KernelSizes
    BY <1>t, SizesAssumption, SMT DEF CoreType, Frame, Sizes
  <2>2. Pages(b[1], b[2]) \subseteq FirstFree .. firstpaddr - 1
    BY <1>t, <2>1, ClaimOf, SMT DEF Claims, Kinds
  <2>3. b[1] + b[2] - 1 \in Pages(b[1], b[2])
    BY <2>1, SMT DEF Pages
  <2>4. b[1] + b[2] - 1 <= firstpaddr - 1
    BY <1>t, <2>2, <2>3, SizesAssumption, SMT DEF CoreType
  <2> QED
    BY <1>t, <2>1, <2>4, SizesAssumption, SMT DEF CoreType
<1>9. SizesKept'
  <2>1. \A b \in kernel : b[1] < firstpaddr
    <3> SUFFICES ASSUME NEW b \in kernel PROVE b[1] < firstpaddr
      OBVIOUS
    <3>1. b[1] \in Nat /\ b[2] \in Nat /\ b[2] > 0
      BY <1>t, SizesAssumption, SMT DEF CoreType, Frame, Sizes
    <3> QED
      BY <1>t, <1>8, <3>1, SizesAssumption, SMT DEF CoreType
  <2>2. \A b \in kernel' : b[1] < bootTop' /\ b[1] + b[2] <= bootTop'
    BY <1>u, <1>1, <1>8, <2>1
  <2>3. \A b \in kernel' : ~(b[1] >= bootTop')
    BY <1>t, <1>1, <2>2, <1>u, SizesAssumption, SMT DEF CoreType, Frame
  <2> QED
    BY <1>t, <1>u, <1>1, <1>2, <2>2, <2>3 DEF SizesKept
<1>10. Covered'
  BY <1>u, <1>1, <1>t, SizesAssumption, SMT DEF Covered, CoreType
<1> QED
  BY <1>3, <1>5, <1>6, <1>7, <1>9, <1>10 DEF Core

\* alloc_kpages asks.
LEMMA KernelAsks ==
    ASSUME Core, NEW t \in Thread, alloc_kpages(t)
    PROVE  Core'
<1>t. CoreType /\ Claims /\ Spaces /\ Requests /\ SizesKept /\ (active /\ spoiled = {} => Covered)
  BY DEF Core
<1>u. UNCHANGED <<freeRamFrames, allocSize, firstpaddr, active, kernel, state, pbase, npages, bootTop, spoiled>>
  BY DEF alloc_kpages, maps, spaces, history
<1>n. PICK n \in KernelSizes : Ask(t, n, NoSpace, 0)
  BY DEF alloc_kpages
<1>0. pc[t] = "idle" /\ req[t].as = NoSpace /\ n \in Nat
  BY <1>t, SizesAssumption, SMT DEF alloc_kpages, Spaces, Sizes
<1>1. /\ pc'[t] = "getfree" /\ \A u \in Thread : u # t => pc'[u] = pc[u] /\ req'[u] = req[u]
      /\ req'[t] = [n |-> n, addr |-> 0, as |-> NoSpace, seg |-> 0]
  BY <1>t, <1>n DEF CoreType, Ask
<1>2. CoreType'
  BY <1>t, <1>u, <1>n, <1>0, <1>1, SizesAssumption, SMT DEF CoreType, Labels, Ask
<1>3. \A x \in Space \X Segment : Claim("segment", x)' = Claim("segment", x)
  BY <1>u, <1>0, <1>1, SegmentStill, SizesAssumption, SMT
<1>4. Claims' /\ (Covered => Covered')
  BY <1>t, <1>u, <1>0, <1>1, <1>3, Still
<1>5. Spaces'
  BY <1>t, <1>u, <1>0, <1>1, SMT DEF Spaces
<1>6. Requests'
  BY <1>t, <1>u, <1>1, SMT DEF Requests
<1>7. SizesKept'
  BY <1>t, <1>u DEF SizesKept
<1> QED
  BY <1>t, <1>u, <1>2, <1>4, <1>5, <1>6, <1>7 DEF Core

\* alloc_kpages gets nothing.
LEMMA KernelGetsNone ==
    ASSUME Core, NEW t \in Thread, KernelFailed(t)
    PROVE  Core'
<1>t. CoreType /\ Claims /\ Spaces /\ Requests /\ SizesKept /\ (active /\ spoiled = {} => Covered)
  BY DEF Core
<1>u. UNCHANGED <<freeRamFrames, allocSize, firstpaddr, active, kernel, state, pbase, npages, bootTop, spoiled>>
  BY DEF KernelFailed, maps, spaces, history
<1>0. pc[t] = "failed" /\ req[t].as = NoSpace
  BY DEF KernelFailed
<1>1. /\ pc'[t] = "idle" /\ \A u \in Thread : u # t => pc'[u] = pc[u] /\ req'[u] = req[u]
      /\ req'[t] = Blank
  BY <1>t DEF CoreType, KernelFailed, Done
<1>2. CoreType'
  BY <1>t, <1>u, <1>0, <1>1, SizesAssumption, SMT DEF CoreType, Labels, KernelFailed, Done, Blank
<1>3. \A x \in Space \X Segment : Claim("segment", x)' = Claim("segment", x)
  BY <1>u, <1>0, <1>1, SegmentStill, SizesAssumption, SMT DEF Blank
<1>4. Claims' /\ (Covered => Covered')
  BY <1>t, <1>u, <1>0, <1>1, <1>3, Still
<1>5. Spaces'
  BY <1>t, <1>u, <1>0, <1>1, SMT DEF Spaces, Blank
<1>6. Requests'
  BY <1>t, <1>u, <1>1 DEF Requests
<1>7. SizesKept'
  BY <1>t, <1>u DEF SizesKept
<1> QED
  BY <1>t, <1>u, <1>2, <1>4, <1>5, <1>6, <1>7 DEF Core

\* as_prepare_load asks for the first segment.
LEMMA SpaceAsks ==
    ASSUME Core, NEW t \in Thread, as_prepare_load(t)
    PROVE  Core'
<1>t. CoreType /\ Claims /\ Spaces /\ Requests /\ SizesKept /\ (active /\ spoiled = {} => Covered)
  BY DEF Core
<1>u. UNCHANGED <<freeRamFrames, allocSize, firstpaddr, active, kernel, pbase, bootTop>>
  BY DEF as_prepare_load, maps
<1>s. PICK s \in Space, n1 \in SegmentSizes, n2 \in SegmentSizes :
         /\ state[s] = "none"
         /\ state' = [state EXCEPT ![s] = "loading"]
         /\ npages' = [npages EXCEPT ![s] = <<n1, n2, STACKPAGES>>]
         /\ Ask(t, n1, s, 1)
         /\ spoiled' = IF 0 \in {n1, n2} THEN spoiled \cup {"empty"} ELSE spoiled
  BY DEF as_prepare_load
<1>n. n1 \in Nat /\ n2 \in Nat /\ STACKPAGES \in Nat /\ STACKPAGES # 0 /\ s # NoSpace
  BY SizesAssumption, SMT DEF Sizes
<1>0. pc[t] = "idle" /\ req[t].as = NoSpace /\ \A u \in Thread : req[u].as # s
  BY <1>t, <1>s, <1>n DEF as_prepare_load, Spaces
<1>1. /\ pc'[t] = "getfree" /\ \A u \in Thread : u # t => pc'[u] = pc[u] /\ req'[u] = req[u]
      /\ req'[t] = [n |-> n1, addr |-> 0, as |-> s, seg |-> 1]
  BY <1>t, <1>s DEF CoreType, Ask
<1>2. /\ state'[s] = "loading" /\ npages'[s] = <<n1, n2, STACKPAGES>>
      /\ \A r \in Space : r # s => state'[r] = state[r] /\ npages'[r] = npages[r]
  BY <1>t, <1>s DEF CoreType
<1>3. <<n1, n2, STACKPAGES>> \in [Segment -> Nat]
  BY <1>n, SMT DEF Segment
<1>4. CoreType'
  <2>1. npages' \in [Space -> [Segment -> Nat]]
    BY <1>t, <1>s, <1>3 DEF CoreType
  <2>2. state' \in [Space -> {"none", "loading", "ready", "broken", "dying"}]
    BY <1>t, <1>s DEF CoreType
  <2>3. pc' \in [Thread -> Labels] /\ DOMAIN req' = Thread
    BY <1>t, <1>s DEF CoreType, Labels, Ask
  <2>4. \A u \in Thread :
           /\ DOMAIN req'[u] = {"n", "addr", "as", "seg"}
           /\ req'[u].n \in Nat /\ req'[u].addr \in 0 .. nRamFrames /\ req'[u].as \in Space \cup {NoSpace}
    BY <1>t, <1>n, <1>1, SizesAssumption, SMT DEF CoreType
  <2> QED
    BY <1>t, <1>u, <2>1, <2>2, <2>3, <2>4 DEF CoreType
<1>5. ASSUME NEW x \in Space \X Segment PROVE Claim("segment", x)' = Claim("segment", x)
  <2>1. x[1] \in Space /\ x[2] \in Segment
    OBVIOUS
  <2>2. CASE x[1] = s
    <3>1. pbase[x[1]][x[2]] = 0 /\ pbase'[x[1]][x[2]] = 0
      BY <1>t, <1>u, <1>s, <2>1, <2>2 DEF Spaces
    <3>2. x \notin Segments /\ x \notin Segments'
      BY <3>1 DEF Segments
    <3> QED
      BY <3>2, ClaimOf, ClaimOfNext
  <2>3. CASE x[1] # s
    <3>1. \A u \in Thread : /\ req'[u].as = x[1] <=> req[u].as = x[1]
                            /\ req[u].as = x[1] => req'[u].seg = req[u].seg
      BY <1>0, <1>1, <2>1, <2>3, SizesAssumption, SMT
    <3> QED
      BY <1>u, <1>2, <2>1, <2>3, <3>1, SegmentStill
  <2> QED
    BY <2>2, <2>3
<1>6. Claims' /\ (Covered => Covered')
  BY <1>t, <1>u, <1>0, <1>1, <1>5, Still
<1>7. Spaces'
  <2>1. \A u, v \in Thread : u # v /\ req'[u].as = req'[v].as => req'[u].as = NoSpace
    BY <1>t, <1>0, <1>1, SMT DEF Spaces
  <2>2. \A u \in Thread : req'[u].as # NoSpace => state'[req'[u].as] \in {"loading", "dying"}
    BY <1>t, <1>0, <1>1, <1>2, SMT DEF Spaces, CoreType
  <2>3. \A r \in Space, i \in Segment : /\ state'[r] = "none" => pbase'[r][i] = 0
                                        /\ state'[r] \in {"ready", "dying"} => pbase'[r][i] # 0
    BY <1>t, <1>u, <1>2, SMT DEF Spaces
  <2>4. ASSUME NEW u \in Thread
        PROVE  /\ pc'[u] = "idle" => req'[u].as = NoSpace
               /\ pc'[u] \in {"getfree", "steal", "record", "failed"} /\ req'[u].as # NoSpace =>
                     /\ state'[req'[u].as] = "loading" /\ req'[u].seg \in Segment
                     /\ req'[u].n = npages'[req'[u].as][req'[u].seg]
                     /\ \A i \in Segment : pbase'[req'[u].as][i] = 0 <=> i >= req'[u].seg
               /\ pc'[u] = "free" => /\ req'[u].as # NoSpace /\ state'[req'[u].as] = "dying"
                                     /\ req'[u].seg \in Segment
    <3>1. CASE u = t
      <4>1. \A i \in Segment : pbase'[s][i] = 0 /\ i >= 1
        BY <1>t, <1>u, <1>s, SMT DEF Spaces, Segment
      <4>2. 1 \in Segment /\ npages'[s][1] = n1
        BY <1>2, SMT DEF Segment
      <4> QED
        BY <1>1, <1>2, <3>1, <4>1, <4>2, SMT
    <3>2. CASE u # t
      <4>1. req'[u] = req[u] /\ pc'[u] = pc[u] /\ req[u].as # s
        BY <1>0, <1>1, <3>2
      <4>2. req[u].as # NoSpace => state'[req[u].as] = state[req[u].as] /\ npages'[req[u].as] = npages[req[u].as]
        BY <1>t, <1>2, <4>1 DEF CoreType
      <4> QED
        BY <1>t, <1>u, <4>1, <4>2 DEF Spaces
    <3> QED
      BY <3>1, <3>2
  <2> QED
    BY <2>1, <2>2, <2>3, <2>4 DEF Spaces
<1>8. Requests'
  BY <1>t, <1>u, <1>n, <1>1, SMT DEF Requests
<1>9. spoiled' = {} => spoiled = {} /\ n1 # 0 /\ n2 # 0
  BY <1>s
<1>10. SizesKept'
  <2>1. spoiled # {} => spoiled' # {}
    BY <1>9
  <2>2. spoiled' = {} => \A r \in Space, i \in Segment : state'[r] # "none" => npages'[r][i] > 0
    <3>1. spoiled' = {} => \A i \in Segment : npages'[s][i] > 0
      BY <1>n, <1>2, <1>9, SMT DEF Segment
    <3> QED
      BY <1>t, <1>2, <1>9, <3>1 DEF SizesKept
  <2>3. active
    BY DEF as_prepare_load
  <2> QED
    BY <1>t, <1>u, <2>1, <2>2, <2>3 DEF SizesKept
<1> QED
  BY <1>t, <1>u, <1>4, <1>6, <1>7, <1>8, <1>9, <1>10 DEF Core

\* runprogram leaves a half-prepared address space behind.
LEMMA SpaceAbandoned ==
    ASSUME Core, NEW t \in Thread, SegmentAbandoned(t)
    PROVE  Core'
<1>t. CoreType /\ Claims /\ Spaces /\ Requests /\ SizesKept /\ (active /\ spoiled = {} => Covered)
  BY DEF Core
<1>u. UNCHANGED <<freeRamFrames, allocSize, firstpaddr, active, kernel, pbase, npages, bootTop, spoiled>>
  BY DEF SegmentAbandoned, maps, history
<1>s. PICK s \in Space : s = req[t].as
  BY <1>t DEF CoreType, SegmentAbandoned
<1>n. s # NoSpace
  BY <1>s DEF SegmentAbandoned
<1>0. pc[t] = "failed" /\ state[s] = "loading" /\ \A u \in Thread : u # t => req[u].as # s
  BY <1>t, <1>s, <1>n DEF SegmentAbandoned, Spaces
<1>1. /\ pc'[t] = "idle" /\ \A u \in Thread : u # t => pc'[u] = pc[u] /\ req'[u] = req[u]
      /\ req'[t] = Blank
  BY <1>t DEF CoreType, SegmentAbandoned, Done
<1>2. state'[s] = "broken" /\ \A r \in Space : r # s => state'[r] = state[r]
  BY <1>t, <1>s DEF CoreType, SegmentAbandoned
<1>3. CoreType'
  <2>1. state' \in [Space -> {"none", "loading", "ready", "broken", "dying"}]
    BY <1>t DEF CoreType, SegmentAbandoned
  <2>2. pc' \in [Thread -> Labels] /\ DOMAIN req' = Thread
    BY <1>t DEF CoreType, SegmentAbandoned, Done, Labels
  <2>3. /\ DOMAIN Blank = {"n", "addr", "as", "seg"}
        /\ Blank.n \in Nat /\ Blank.addr \in 0 .. nRamFrames /\ Blank.as \in Space \cup {NoSpace}
    BY SizesAssumption, SMT DEF Blank
  <2>4. \A u \in Thread :
           /\ DOMAIN req'[u] = {"n", "addr", "as", "seg"}
           /\ req'[u].n \in Nat /\ req'[u].addr \in 0 .. nRamFrames /\ req'[u].as \in Space \cup {NoSpace}
    BY <1>t, <1>1, <2>3 DEF CoreType
  <2> QED
    BY <1>t, <1>u, <2>1, <2>2, <2>4 DEF CoreType
<1>4. ASSUME NEW x \in Space \X Segment PROVE Claim("segment", x)' = Claim("segment", x)
  <2>1. x[1] \in Space /\ x[2] \in Segment
    OBVIOUS
  <2>2. CASE x[1] = s
    <3>1. x \in Segments <=> x \in Segments'
      BY <1>u, <1>0, <1>2, <2>2 DEF Segments
    <3> QED
      BY <1>u, <3>1, ClaimOf, ClaimOfNext
  <2>3. CASE x[1] # s
    <3>1. \A u \in Thread : /\ req'[u].as = x[1] <=> req[u].as = x[1]
                            /\ req[u].as = x[1] => req'[u].seg = req[u].seg
      BY <1>s, <1>0, <1>1, <2>1, <2>3, SizesAssumption, SMT DEF Blank
    <3> QED
      BY <1>u, <1>2, <2>1, <2>3, <3>1, SegmentStill
  <2> QED
    BY <2>2, <2>3
<1>5. Claims' /\ (Covered => Covered')
  BY <1>t, <1>u, <1>0, <1>1, <1>4, Still
<1>6. Spaces'
  <2>1. ASSUME NEW u \in Thread, NEW v \in Thread, u # v, req'[u].as = req'[v].as
        PROVE  req'[u].as = NoSpace
    <3>1. req'[t].as = NoSpace
      BY <1>1, SMT DEF Blank
    <3>2. CASE u # t /\ v # t
      <4>1. req[u].as = req[v].as /\ req'[u].as = req[u].as
        BY <1>1, <2>1, <3>2
      <4> QED
        BY <1>t, <2>1, <4>1 DEF Spaces
    <3> QED
      BY <2>1, <3>1, <3>2
  <2>2. \A u \in Thread : req'[u].as # NoSpace => state'[req'[u].as] = state[req[u].as] /\ u # t /\ req[u].as \in Space
    BY <1>t, <1>0, <1>1, <1>2, SMT DEF CoreType, Blank
  <2>3. \A r \in Space, i \in Segment : /\ state'[r] = "none" => pbase'[r][i] = 0
                                        /\ state'[r] \in {"ready", "dying"} => pbase'[r][i] # 0
    BY <1>t, <1>u, <1>2 DEF Spaces
  <2> QED
    BY <1>t, <1>u, <1>1, <2>1, <2>2, <2>3, SMT DEF Spaces, Blank
<1>7. Requests'
  BY <1>t, <1>u, <1>1 DEF Requests
<1>8. SizesKept'
  BY <1>t, <1>u, <1>0, <1>2 DEF SizesKept
<1> QED
  BY <1>t, <1>u, <1>3, <1>5, <1>6, <1>7, <1>8 DEF Core

\* as_destroy is given an address space that has its memory.
LEMMA SpaceDies ==
    ASSUME Core, NEW t \in Thread, as_destroy(t)
    PROVE  Core'
<1>t. CoreType /\ Claims /\ Spaces /\ Requests /\ SizesKept /\ (active /\ spoiled = {} => Covered)
  BY DEF Core
<1>u. UNCHANGED <<freeRamFrames, allocSize, firstpaddr, active, kernel, pbase, npages, bootTop, spoiled>>
  BY DEF as_destroy, maps, history
<1>s. PICK s \in Space : state[s] = "ready" /\ Destroying(t, s)
  BY DEF as_destroy
<1>0. pc[t] = "idle" /\ req[t].as = NoSpace /\ s # NoSpace /\ \A u \in Thread : req[u].as # s
  BY <1>t, <1>s, SizesAssumption DEF as_destroy, Spaces
<1>r. req'[t] = [n |-> 0, addr |-> 0, as |-> s, seg |-> 1]
  BY <1>t, <1>s DEF CoreType, Destroying
<1>1. pc'[t] = "free" /\ \A u \in Thread : u # t => pc'[u] = pc[u] /\ req'[u] = req[u]
  BY <1>t, <1>s DEF CoreType, Destroying
<1>2. DOMAIN req'[t] = {"n", "addr", "as", "seg"} /\ req'[t].n = 0 /\ req'[t].addr = 0 /\ req'[t].as = s /\ req'[t].seg = 1
  BY <1>r, SMT
<1>3. state'[s] = "dying" /\ \A r \in Space : r # s => state'[r] = state[r]
  BY <1>t, <1>s DEF CoreType, Destroying
<1>4. CoreType'
  <2>1. state' \in [Space -> {"none", "loading", "ready", "broken", "dying"}]
    BY <1>t, <1>s DEF CoreType, Destroying
  <2>2. pc' \in [Thread -> Labels] /\ DOMAIN req' = Thread
    BY <1>t, <1>s DEF CoreType, Destroying, Labels
  <2>3. \A u \in Thread :
           /\ DOMAIN req'[u] = {"n", "addr", "as", "seg"}
           /\ req'[u].n \in Nat /\ req'[u].addr \in 0 .. nRamFrames /\ req'[u].as \in Space \cup {NoSpace}
    BY <1>t, <1>1, <1>2, SizesAssumption, SMTT(30) DEF CoreType
  <2> QED
    BY <1>t, <1>u, <2>1, <2>2, <2>3 DEF CoreType
<1>5. ASSUME NEW x \in Space \X Segment PROVE Claim("segment", x)' = Claim("segment", x)
  <2>1. x[1] \in Space /\ x[2] \in Segment /\ x[2] >= 1
    BY SMT DEF Segment
  <2>2. CASE x[1] = s
    <3>1. \A u \in Thread : req'[u].as = x[1] => x[2] >= req'[u].seg
      BY <1>0, <1>1, <1>2, <2>1, <2>2
    <3>2. x \in Segments <=> x \in Segments'
      BY <1>u, <1>s, <1>3, <2>2, <3>1 DEF Segments
    <3> QED
      BY <1>u, <3>2, ClaimOf, ClaimOfNext
  <2>3. CASE x[1] # s
    <3>1. \A u \in Thread : /\ req'[u].as = x[1] <=> req[u].as = x[1]
                            /\ req[u].as = x[1] => req'[u].seg = req[u].seg
      BY <1>0, <1>1, <1>2, <2>1, <2>3, SizesAssumption
    <3> QED
      BY <1>u, <1>3, <2>1, <2>3, <3>1, SegmentStill
  <2> QED
    BY <2>2, <2>3
<1>6. Claims' /\ (Covered => Covered')
  BY <1>t, <1>u, <1>0, <1>1, <1>5, Still
<1>7. Spaces'
  <2>1. ASSUME NEW u \in Thread, NEW v \in Thread, u # v, req'[u].as = req'[v].as
        PROVE  req'[u].as = NoSpace
    <3>1. CASE u # t /\ v # t
      <4>1. req[u].as = req[v].as /\ req'[u].as = req[u].as
        BY <1>1, <2>1, <3>1
      <4> QED
        BY <1>t, <2>1, <4>1 DEF Spaces
    <3>2. CASE u = t
      BY <1>0, <1>1, <1>2, <2>1, <3>2
    <3>3. CASE v = t
      BY <1>0, <1>1, <1>2, <2>1, <3>3
    <3> QED
      BY <3>1, <3>2, <3>3
  <2>2. \A u \in Thread : u # t /\ req'[u].as # NoSpace => state'[req'[u].as] = state[req[u].as]
    BY <1>t, <1>0, <1>1, <1>3, SMT DEF CoreType
  <2>3. \A r \in Space, i \in Segment : /\ state'[r] = "none" => pbase'[r][i] = 0
                                        /\ state'[r] \in {"ready", "dying"} => pbase'[r][i] # 0
    BY <1>t, <1>u, <1>s, <1>3 DEF Spaces
  <2> QED
    BY <1>t, <1>u, <1>0, <1>1, <1>2, <1>3, <2>1, <2>2, <2>3, SMT DEF Spaces, Segment
<1>8. Requests'
  BY <1>t, <1>u, <1>1 DEF Requests
<1>9. SizesKept'
  BY <1>t, <1>u, <1>s, <1>3 DEF SizesKept
<1> QED
  BY <1>t, <1>u, <1>4, <1>6, <1>7, <1>8, <1>9 DEF Core

-----------------------------------------------------------------------------
(* getppages *)

\* Where the kernel's blocks are.
LEMMA KernelBlock ==
    ASSUME CoreType, Claims, NEW b \in kernel
    PROVE  /\ b \in Frame \X KernelSizes /\ b[1] \in Nat /\ b[2] \in Nat /\ b[2] > 0
           /\ Claim("kernel", b) = Pages(b[1], b[2]) /\ b[1] \in Pages(b[1], b[2])
           /\ b[1] \notin freeRamFrames /\ FirstFree <= b[1] /\ b[1] + b[2] <= firstpaddr
<1>1. b \in Frame \X KernelSizes
  BY DEF CoreType
<1>2. b[1] \in Nat /\ b[2] \in Nat /\ b[2] > 0
  BY <1>1, SizesAssumption, SMT DEF Frame, Sizes
<1>3. Claim("kernel", b) = Pages(b[1], b[2])
  BY ClaimOf
<1>4. b[1] \in Pages(b[1], b[2]) /\ b[1] + b[2] - 1 \in Pages(b[1], b[2])
  BY <1>2, SMT DEF Pages
<1>5. Pages(b[1], b[2]) \subseteq FirstFree .. firstpaddr - 1 /\ Pages(b[1], b[2]) \cap freeRamFrames = {}
  BY <1>1, <1>3, ClaimOf, SMT DEF Claims, Kinds
<1>6. b[1] \in FirstFree .. firstpaddr - 1 /\ b[1] + b[2] - 1 \in FirstFree .. firstpaddr - 1
  BY <1>4, <1>5
<1>7. FirstFree <= b[1] /\ b[1] + b[2] <= firstpaddr
  BY <1>2, <1>6, SizesAssumption, SMT DEF CoreType
<1> QED
  BY <1>1, <1>2, <1>3, <1>4, <1>5, <1>7

\* A step of getppages for thread t changes nobody else's pages.
LEMMA OthersFlight ==
    ASSUME NEW t \in Thread, kernel' = kernel,
           \A u \in Thread : u # t => pc'[u] = pc[u] /\ req'[u] = req[u],
           UNCHANGED <<state, pbase, npages>>,
           req'[t].as = req[t].as, req'[t].seg = req[t].seg
    PROVE  Others("flight", t)
<1>1. \A b : Claim("kernel", b)' = Claim("kernel", b)
  BY ClaimOf, ClaimOfNext
<1>2. \A u \in Thread : u # t => Claim("flight", u)' = Claim("flight", u)
  BY ClaimOf, ClaimOfNext
<1>3. \A x \in Space \X Segment : Claim("segment", x)' = Claim("segment", x)
  BY SegmentStill
<1> QED
  BY <1>1, <1>2, <1>3, ClaimOf DEF Others, Kinds

\* getfreeppages takes a run of free pages.
LEMMA RunTaken ==
    ASSUME Core, NEW t \in Thread, pc[t] = "getfree", active, NEW found \in Runs(req[t].n),
           freeRamFrames' = freeRamFrames \ Pages(found, req[t].n),
           allocSize' = [allocSize EXCEPT ![found] = req[t].n],
           req' = [req EXCEPT ![t].addr = found],
           pc' = [pc EXCEPT ![t] = IF found = 0 THEN "steal" ELSE "record"],
           UNCHANGED <<active, firstpaddr, kernel, spaces, history>>
    PROVE  Core'
<1>t. CoreType /\ Claims /\ Spaces /\ Requests /\ SizesKept /\ (active /\ spoiled = {} => Covered)
  BY DEF Core
<1>u. UNCHANGED <<state, pbase, npages, bootTop, spoiled>>
  BY DEF spaces, history
<1>n. PICK n \in Nat : n = req[t].n
  BY <1>t DEF CoreType
<1>f. /\ found \in freeRamFrames /\ Pages(found, n) \subseteq freeRamFrames
      /\ found \in Nat /\ found >= bootTop /\ found >= FirstFree /\ found # 0 /\ found \in Frame
      /\ found \in 0 .. nRamFrames
  <2>1. found \in freeRamFrames /\ Pages(found, n) \subseteq freeRamFrames
    BY <1>n DEF Runs
  <2>2. found \in bootTop .. firstpaddr - 1
    BY <1>t, <2>1 DEF Claims
  <2> QED
    BY <1>t, <2>1, <2>2, SizesAssumption, SMT DEF CoreType, Frame
<1>1. pc'[t] = "record" /\ \A u \in Thread : u # t => pc'[u] = pc[u] /\ req'[u] = req[u]
  BY <1>t, <1>f DEF CoreType
<1>2. /\ DOMAIN req' = Thread /\ DOMAIN req'[t] = DOMAIN req[t] /\ req'[t].addr = found /\ req'[t].n = n
      /\ req'[t].as = req[t].as /\ req'[t].seg = req[t].seg
  BY <1>t, <1>n DEF CoreType
<1>3. CoreType'
  <2>1. allocSize' \in [Frame -> Nat] /\ pc' \in [Thread -> Labels]
    BY <1>t, <1>n, <1>f DEF CoreType, Labels
  <2> QED
    BY <1>t, <1>u, <1>n, <1>f, <1>1, <1>2, <2>1 DEF CoreType
<1>4. Claim("flight", t) = {} /\ Claim("flight", t)' = Pages(found, n)
  BY <1>1, <1>2, ClaimOf, ClaimOfNext
<1>5. Others("flight", t)
  BY <1>u, <1>1, <1>2, OthersFlight
<1>6. "flight" \in Kinds /\ t \in Holder("flight") /\ firstpaddr' \in firstpaddr .. nRamFrames
  BY <1>t, ClaimOf, SizesAssumption, SMT DEF Kinds, CoreType
<1>7. Claims'
  <2>1. Claim("flight", t)' \subseteq
           Claim("flight", t) \cup (freeRamFrames \ freeRamFrames') \cup (firstpaddr .. firstpaddr' - 1)
    BY <1>n, <1>f, <1>4
  <2>2. freeRamFrames' \subseteq freeRamFrames \cup (Claim("flight", t) \cap (bootTop .. firstpaddr - 1))
    OBVIOUS
  <2>3. Claim("flight", t)' \cap freeRamFrames' = {}
    BY <1>n, <1>4
  <2> QED
    BY <1>t, <1>u, <1>5, <1>6, <2>1, <2>2, <2>3, Flow
<1>8. Covered => Covered'
  <2>1. \A f \in bootTop .. firstpaddr - 1 :
           f \in freeRamFrames \/ f \in Claim("flight", t) => f \in freeRamFrames' \/ f \in Claim("flight", t)'
    BY <1>n, <1>4
  <2>2. firstpaddr .. firstpaddr' - 1 \subseteq Claim("flight", t)'
    BY <1>t, SizesAssumption, SMT DEF CoreType
  <2> QED
    BY <1>t, <1>u, <1>5, <1>6, <2>1, <2>2, FlowCovers
<1>9. Spaces'
  BY <1>t, <1>u, <1>n, <1>1, <1>2, SMT DEF Spaces
<1>10. Requests'
  BY <1>t, <1>u, <1>n, <1>f, <1>1, <1>2, SMT DEF Requests
<1>11. SizesKept'
  <2>1. allocSize'[found] = n /\ \A f \in Frame : f # found => allocSize'[f] = allocSize[f]
    BY <1>t, <1>n, <1>f DEF CoreType
  <2>2. \A b \in kernel : b[1] # found /\ b[1] \in Frame
    BY <1>t, <1>f, KernelBlock
  <2>3. \A f \in Frame : f < bootTop => f # found
    BY <1>t, <1>f, SizesAssumption, SMT DEF Frame, CoreType
  <2> QED
    BY <1>t, <1>u, <2>1, <2>2, <2>3 DEF SizesKept
<1> QED
  BY <1>t, <1>u, <1>3, <1>7, <1>8, <1>9, <1>10, <1>11 DEF Core

\* ram_stealmem takes the next pages of RAM.
LEMMA RamTaken ==
    ASSUME Core, NEW t \in Thread, pc[t] = "steal", ~(firstpaddr + req[t].n > nRamFrames),
           pc' = [pc EXCEPT ![t] = "record"], req' = [req EXCEPT ![t].addr = firstpaddr],
           firstpaddr' = firstpaddr + req[t].n,
           UNCHANGED <<freeRamFrames, allocSize, active, kernel, spaces, history>>
    PROVE  Core'
<1>t. CoreType /\ Claims /\ Spaces /\ Requests /\ SizesKept /\ (active /\ spoiled = {} => Covered)
  BY DEF Core
<1>u. UNCHANGED <<state, pbase, npages, bootTop, spoiled>>
  BY DEF spaces, history
<1>n. PICK n \in Nat : n = req[t].n
  BY <1>t DEF CoreType
<1>0. /\ firstpaddr \in Nat /\ FirstFree \in Nat /\ bootTop \in Nat /\ nRamFrames \in Nat
      /\ FirstFree <= bootTop /\ bootTop <= firstpaddr /\ firstpaddr + n <= nRamFrames
      /\ firstpaddr' = firstpaddr + n
  BY <1>t, <1>n, SizesAssumption, SMT DEF CoreType
<1>1. pc'[t] = "record" /\ \A u \in Thread : u # t => pc'[u] = pc[u] /\ req'[u] = req[u]
  BY <1>t DEF CoreType
<1>2. /\ DOMAIN req' = Thread /\ DOMAIN req'[t] = DOMAIN req[t] /\ req'[t].addr = firstpaddr /\ req'[t].n = n
      /\ req'[t].as = req[t].as /\ req'[t].seg = req[t].seg
  BY <1>t, <1>n DEF CoreType
<1>3. CoreType'
  <2>1. pc' \in [Thread -> Labels]
    BY <1>t DEF CoreType, Labels
  <2>2. /\ firstpaddr' \in FirstFree .. nRamFrames /\ bootTop' \in FirstFree .. firstpaddr'
        /\ firstpaddr \in 0 .. nRamFrames
    BY <1>u, <1>0, SMT
  <2> QED
    BY <1>t, <1>u, <1>n, <1>1, <1>2, <2>1, <2>2 DEF CoreType
<1>4. Claim("flight", t) = {} /\ Claim("flight", t)' = firstpaddr .. firstpaddr' - 1
  BY <1>0, <1>1, <1>2, ClaimOf, ClaimOfNext, SMT DEF Pages
<1>5. Others("flight", t)
  BY <1>u, <1>1, <1>2, OthersFlight
<1>6. "flight" \in Kinds /\ t \in Holder("flight") /\ firstpaddr' \in firstpaddr .. nRamFrames
  BY <1>0, ClaimOf, SMT DEF Kinds
<1>7. Claims'
  <2>1. \A f \in firstpaddr .. firstpaddr' - 1 : f \notin freeRamFrames
    BY <1>t, <1>0, SMT DEF Claims
  <2> QED
    BY <1>t, <1>u, <1>4, <1>5, <1>6, <2>1, Flow
<1>8. Covered => Covered'
  BY <1>t, <1>u, <1>4, <1>5, <1>6, FlowCovers
<1>9. Spaces'
  BY <1>t, <1>u, <1>n, <1>1, <1>2, SMT DEF Spaces
<1>10. Requests'
  BY <1>t, <1>u, <1>n, <1>0, <1>1, <1>2, SMT DEF Requests
<1>11. SizesKept'
  BY <1>t, <1>u DEF SizesKept
<1> QED
  BY <1>t, <1>u, <1>3, <1>7, <1>8, <1>9, <1>10, <1>11 DEF Core

\* The size is entered at the end of getppages: it is the kernel's own block,
\* or nobody's first page, or the size 0.
LEMMA SizeEntered ==
    ASSUME CoreType, Claims, Requests, SizesKept, NEW t \in Thread, pc[t] = "record", Recorded(t)
    PROVE  /\ allocSize' \in [Frame -> Nat]
           /\ ~active => allocSize' = allocSize
           /\ \A f \in Frame : f < bootTop => allocSize'[f] = 0
           /\ \A b \in kernel : \/ allocSize'[b[1]] = allocSize[b[1]]
                                \/ req[t].n = 0 /\ allocSize'[b[1]] = 0
           /\ active /\ req[t].addr \in Frame => allocSize'[req[t].addr] = req[t].n
<1> DEFINE a == req[t].addr
           n == req[t].n
<1>1. a \in Nat /\ n \in Nat /\ (active => a >= bootTop)
  BY SMT DEF CoreType, Requests
<1>2. CASE active /\ a \in Frame
  <2>1. allocSize' = [allocSize EXCEPT ![a] = n]
    BY <1>2 DEF Recorded
  <2>2. allocSize'[a] = n /\ \A f \in Frame : f # a => allocSize'[f] = allocSize[f]
    BY <1>2, <2>1 DEF CoreType
  <2>3. \A f \in Frame : f < bootTop => f # a
    BY <1>1, <1>2, SizesAssumption, SMT DEF Frame, CoreType
  <2>4. ASSUME NEW b \in kernel, n # 0 PROVE b[1] # a
    <3>1. b \in Frame \X KernelSizes /\ Claim("kernel", b) = Pages(b[1], b[2]) /\ b[1] \in Pages(b[1], b[2])
      BY KernelBlock
    <3>2. a \in Pages(a, n) /\ Claim("flight", t) = Pages(a, n)
      BY <1>1, <2>4, ClaimOf, SMT DEF Pages
    <3>3. Claim("kernel", b) \cap Claim("flight", t) = {}
      BY <3>1, ClaimOf DEF Claims, Kinds
    <3> QED
      BY <3>1, <3>2, <3>3
  <2>5. \A b \in kernel : b[1] \in Frame
    BY DEF CoreType
  <2>6. allocSize' \in [Frame -> Nat]
    BY <1>1, <2>1 DEF CoreType
  <2> QED
    BY <1>2, <2>2, <2>3, <2>4, <2>5, <2>6 DEF SizesKept
<1>3. CASE ~(active /\ a \in Frame)
  <2>1. allocSize' = allocSize
    BY <1>3 DEF Recorded
  <2> QED
    BY <1>3, <2>1 DEF SizesKept, CoreType
<1> QED
  BY <1>2, <1>3

-----------------------------------------------------------------------------
(* getppages: the answer *)

\* alloc_kpages returns a block.
LEMMA KernelGets ==
    ASSUME Core, NEW t \in Thread, KernelGot(t)
    PROVE  Core'
<1>t. CoreType /\ Claims /\ Spaces /\ Requests /\ SizesKept /\ (active /\ spoiled = {} => Covered)
  BY DEF Core
<1>u. UNCHANGED <<freeRamFrames, firstpaddr, active, state, pbase, npages, bootTop, spoiled>>
  BY DEF KernelGot, spaces, history
<1>a. PICK a : a = req[t].addr
  OBVIOUS
<1>n. PICK n : n = req[t].n
  OBVIOUS
<1>0. pc[t] = "record" /\ req[t].as = NoSpace /\ Recorded(t) /\ kernel' = kernel \cup {<<a, n>>}
  BY <1>a, <1>n DEF KernelGot
<1>1. /\ pc'[t] = "idle" /\ \A u \in Thread : u # t => pc'[u] = pc[u] /\ req'[u] = req[u]
      /\ req'[t] = Blank
  BY <1>t DEF CoreType, KernelGot, Done
<1>2. n \in KernelSizes /\ n \in Nat /\ n > 0 /\ a \in Nat /\ (active => a >= bootTop)
  BY <1>t, <1>a, <1>n, <1>0, SizesAssumption, SMT DEF Requests, Sizes, CoreType
<1>3. Claim("flight", t) = Pages(a, n) /\ a \in Pages(a, n)
  BY <1>a, <1>n, <1>0, <1>2, ClaimOf, SMT DEF Pages
<1>4. a \in Frame
  <2>1. Claim("flight", t) \subseteq FirstFree .. firstpaddr - 1
    BY <1>t, ClaimOf DEF Claims, Kinds
  <2> QED
    BY <1>t, <1>2, <1>3, <2>1, SizesAssumption, SMT DEF CoreType, Frame
<1>5. <<a, n>> \in Holder("kernel") /\ <<a, n>> \notin kernel
  <2>1. <<a, n>> \in Holder("kernel")
    BY <1>2, <1>4, ClaimOf
  <2>2. Claim("kernel", <<a, n>>) \cap Claim("flight", t) = {}
    BY <1>t, <2>1, ClaimOf DEF Claims, Kinds
  <2>3. <<a, n>> \in kernel => Claim("kernel", <<a, n>>) = Pages(a, n)
    BY ClaimOf
  <2> QED
    BY <1>3, <2>1, <2>2, <2>3
<1>6. CoreType'
  <2>1. allocSize' \in [Frame -> Nat]
    BY <1>t, <1>0, SizeEntered
  <2>2. pc' \in [Thread -> Labels] /\ DOMAIN req' = Thread
    BY <1>t DEF CoreType, KernelGot, Done, Labels
  <2>3. kernel' \subseteq Frame \X KernelSizes
    BY <1>t, <1>0, <1>2, <1>4, SMT DEF CoreType
  <2>4. \A u \in Thread :
           /\ DOMAIN req'[u] = {"n", "addr", "as", "seg"}
           /\ req'[u].n \in Nat /\ req'[u].addr \in 0 .. nRamFrames /\ req'[u].as \in Space \cup {NoSpace}
    BY <1>t, <1>1, SizesAssumption, SMT DEF CoreType, Blank
  <2> QED
    BY <1>t, <1>u, <2>1, <2>2, <2>3, <2>4 DEF CoreType
<1>7. Claims' /\ (Covered => Covered')
  <2>1. /\ Claim("kernel", <<a, n>>) = {} /\ Claim("flight", t)' = {}
        /\ Claim("kernel", <<a, n>>)' = Claim("flight", t)
    BY <1>0, <1>1, <1>3, <1>5, ClaimOf, ClaimOfNext
  <2>2. \A b : b # <<a, n>> => Claim("kernel", b)' = Claim("kernel", b)
    BY <1>0, ClaimOf, ClaimOfNext
  <2>3. \A u \in Thread : u # t => Claim("flight", u)' = Claim("flight", u)
    BY <1>1, ClaimOf, ClaimOfNext
  <2>4. \A x \in Space \X Segment : Claim("segment", x)' = Claim("segment", x)
    BY <1>u, <1>0, <1>1, SegmentStill, SizesAssumption, SMT DEF Blank
  <2>5. \A m \in Kinds : \A z \in Holder(m) :
           (m # "flight" \/ z # t) /\ (m # "kernel" \/ z # <<a, n>>) => Claim(m, z)' = Claim(m, z)
    BY <2>2, <2>3, <2>4, ClaimOf DEF Kinds
  <2>6. "flight" \in Kinds /\ "kernel" \in Kinds /\ t \in Holder("flight") /\ "flight" # "kernel"
    BY ClaimOf DEF Kinds
  <2> QED
    BY <1>t, <1>u, <1>5, <2>1, <2>5, <2>6, Handover, SMT
<1>8. Spaces'
  BY <1>t, <1>u, <1>0, <1>1, SMT DEF Spaces, Blank
<1>9. Requests'
  BY <1>t, <1>u, <1>1 DEF Requests
<1>10. SizesKept'
  <2>1. /\ ~active => allocSize' = allocSize
        /\ \A f \in Frame : f < bootTop => allocSize'[f] = 0
        /\ \A b \in kernel : allocSize'[b[1]] = allocSize[b[1]]
        /\ active => allocSize'[a] = n
    <3>1. /\ ~active => allocSize' = allocSize
          /\ \A f \in Frame : f < bootTop => allocSize'[f] = 0
          /\ \A b \in kernel : \/ allocSize'[b[1]] = allocSize[b[1]]
                               \/ req[t].n = 0 /\ allocSize'[b[1]] = 0
          /\ active /\ req[t].addr \in Frame => allocSize'[req[t].addr] = req[t].n
      BY <1>t, <1>0, SizeEntered
    <3>2. req[t].n # 0
      BY <1>n, <1>2, SMT
    <3> QED
      BY <1>a, <1>n, <1>4, <3>1, <3>2
  <2>2. active => ~(a < bootTop)
    BY <1>t, <1>2, SizesAssumption, SMT DEF CoreType
  <2>3. active => \A b \in kernel' :
           /\ b[1] < bootTop => b[1] + b[2] <= bootTop
           /\ b[1] >= bootTop => allocSize'[b[1]] = b[2] \/ (allocSize'[b[1]] = 0 /\ spoiled # {})
    BY <1>t, <1>0, <2>1, <2>2, SMT DEF SizesKept
  <2> QED
    BY <1>t, <1>u, <2>1, <2>3 DEF SizesKept
<1> QED
  BY <1>t, <1>u, <1>6, <1>7, <1>8, <1>9, <1>10 DEF Core

\* as_prepare_load gets a segment, and asks for the next or is done.
LEMMA SegmentGets ==
    ASSUME Core, NEW t \in Thread, SegmentGot(t)
    PROVE  Core'
<1>t. CoreType /\ Claims /\ Spaces /\ Requests /\ SizesKept /\ (active /\ spoiled = {} => Covered)
  BY DEF Core
<1>u. UNCHANGED <<freeRamFrames, firstpaddr, active, kernel, npages, bootTop, spoiled>>
  BY DEF SegmentGot, history
<1>a. PICK a : a = req[t].addr
  OBVIOUS
<1>n. PICK n : n = req[t].n
  OBVIOUS
<1>i. PICK i : i = req[t].seg
  OBVIOUS
<1>s. PICK s \in Space : s = req[t].as
  BY <1>t DEF SegmentGot, CoreType
<1>0. /\ pc[t] = "record" /\ s # NoSpace /\ Recorded(t) /\ pbase' = [pbase EXCEPT ![s][i] = a]
      /\ IF i + 1 \in Segment
         THEN Ask(t, npages[s][i + 1], s, i + 1) /\ UNCHANGED state
         ELSE Done(t) /\ state' = [state EXCEPT ![s] = "ready"]
  BY <1>a, <1>i, <1>s DEF SegmentGot
<1>1. /\ state[s] = "loading" /\ i \in Segment /\ n = npages[s][i]
      /\ \A j \in Segment : pbase[s][j] = 0 <=> j >= i
      /\ \A u \in Thread : u # t => req[u].as # s
  BY <1>t, <1>n, <1>i, <1>s, <1>0 DEF Spaces
<1>2. n \in Nat /\ a \in 0 .. nRamFrames /\ a # 0 /\ (active => a >= bootTop) /\ active
  BY <1>t, <1>a, <1>n, <1>0, <1>1, SizesAssumption, SMT DEF Requests, CoreType, SizesKept
<1>3. pc'[t] # "record" /\ \A u \in Thread : u # t => pc'[u] = pc[u] /\ req'[u] = req[u]
  BY <1>t, <1>0 DEF CoreType, Ask, Done
<1>4. /\ pbase'[s][i] = a /\ \A j \in Segment : j # i => pbase'[s][j] = pbase[s][j]
      /\ \A r \in Space : r # s => pbase'[r] = pbase[r]
  BY <1>t, <1>0, <1>1 DEF CoreType
<1>5. state'[s] \in {"loading", "ready"} /\ \A r \in Space : r # s => state'[r] = state[r]
  BY <1>t, <1>0, <1>1 DEF CoreType
<1>6. i + 1 \in Segment =>
         /\ pc'[t] = "getfree" /\ state'[s] = "loading"
         /\ req'[t] = [n |-> npages[s][i + 1], addr |-> 0, as |-> s, seg |-> i + 1]
  BY <1>t, <1>0, <1>1 DEF CoreType, Ask
<1>7. i + 1 \notin Segment => pc'[t] = "idle" /\ state'[s] = "ready" /\ req'[t] = Blank
  BY <1>t, <1>0 DEF CoreType, Done
<1>8. CoreType'
  <2>1. allocSize' \in [Frame -> Nat]
    BY <1>t, <1>0, SizeEntered
  <2>2. pc' \in [Thread -> Labels] /\ DOMAIN req' = Thread
    BY <1>t, <1>0 DEF CoreType, Ask, Done, Labels
  <2>3. pbase' \in [Space -> [Segment -> 0 .. nRamFrames]]
    BY <1>t, <1>0, <1>1, <1>2 DEF CoreType
  <2>4. state' \in [Space -> {"none", "loading", "ready", "broken", "dying"}]
    BY <1>t, <1>0 DEF CoreType
  <2>5. /\ DOMAIN req'[t] = {"n", "addr", "as", "seg"}
        /\ req'[t].n \in Nat /\ req'[t].addr \in 0 .. nRamFrames /\ req'[t].as \in Space \cup {NoSpace}
    BY <1>t, <1>6, <1>7, SizesAssumption, SMT DEF CoreType, Blank
  <2> QED
    BY <1>t, <1>u, <1>3, <2>1, <2>2, <2>3, <2>4, <2>5 DEF CoreType
<1>9. Claims' /\ (Covered => Covered')
  <2>0. <<s, i>> \in Space \X Segment /\ Claim("flight", t) = Pages(a, n) /\ Claim("flight", t)' = {}
    BY <1>a, <1>n, <1>0, <1>1, <1>3, ClaimOf, ClaimOfNext
  <2>1. Claim("segment", <<s, i>>) = {} /\ Claim("segment", <<s, i>>)' = Pages(a, n)
    <3>1. pbase[s][i] = 0
      BY <1>1, SMT DEF Segment
    <3>2. <<s, i>> \notin Segments
      BY <3>1 DEF Segments
    <3>3. <<s, i>> \in Segments'
      BY <1>2, <1>4, <1>5, <2>0 DEF Segments
    <3> QED
      BY <1>u, <1>1, <1>4, <3>2, <3>3, ClaimOf, ClaimOfNext
  <2>2. ASSUME NEW x \in Space \X Segment, x # <<s, i>>
        PROVE  Claim("segment", x)' = Claim("segment", x)
    <3>1. x[1] \in Space /\ x[2] \in Segment /\ (x[1] # s \/ x[2] # i)
      BY <2>2, SMT
    <3>2. CASE x[1] = s
      <4>1. x \in Segments <=> x \in Segments'
        BY <1>1, <1>4, <1>5, <3>1, <3>2 DEF Segments
      <4> QED
        BY <1>u, <1>4, <3>1, <3>2, <4>1, ClaimOf, ClaimOfNext
    <3>3. CASE x[1] # s
      <4>1. req'[t].as # x[1] /\ req[t].as # x[1]
        BY <1>s, <1>6, <1>7, <3>1, <3>3, SizesAssumption, SMT DEF Blank
      <4> QED
        BY <1>u, <1>3, <1>4, <1>5, <3>1, <3>3, <4>1, SegmentStill
    <3> QED
      BY <3>2, <3>3
  <2>3. \A u \in Thread : u # t => Claim("flight", u)' = Claim("flight", u)
    BY <1>3, ClaimOf, ClaimOfNext
  <2>4. \A b : Claim("kernel", b)' = Claim("kernel", b)
    BY <1>u, ClaimOf, ClaimOfNext
  <2>5. \A m \in Kinds : \A z \in Holder(m) :
           (m # "flight" \/ z # t) /\ (m # "segment" \/ z # <<s, i>>) => Claim(m, z)' = Claim(m, z)
    BY <2>2, <2>3, <2>4, ClaimOf DEF Kinds
  <2>6. /\ "flight" \in Kinds /\ "segment" \in Kinds /\ t \in Holder("flight") /\ "flight" # "segment"
        /\ <<s, i>> \in Holder("segment")
    BY <2>0, ClaimOf DEF Kinds
  <2> QED
    BY <1>t, <1>u, <2>0, <2>1, <2>5, <2>6, Handover, SMT
<1>10. Spaces'
  <2>1. \A u, v \in Thread : u # v /\ req'[u].as = req'[v].as => req'[u].as = NoSpace
    BY <1>t, <1>1, <1>3, <1>6, <1>7, SMT DEF Spaces, Blank
  <2>2. \A u \in Thread : u # t /\ req[u].as # NoSpace =>
           state'[req[u].as] = state[req[u].as] /\ pbase'[req[u].as] = pbase[req[u].as]
    BY <1>t, <1>1, <1>4, <1>5 DEF CoreType
  <2>3. \A r \in Space, j \in Segment : /\ state'[r] = "none" => pbase'[r][j] = 0
                                        /\ state'[r] \in {"ready", "dying"} => pbase'[r][j] # 0
    <3> SUFFICES ASSUME NEW r \in Space, NEW j \in Segment
                 PROVE  /\ state'[r] = "none" => pbase'[r][j] = 0
                        /\ state'[r] \in {"ready", "dying"} => pbase'[r][j] # 0
      OBVIOUS
    <3>1. CASE r # s
      BY <1>t, <1>4, <1>5, <3>1, SMT DEF Spaces
    <3>2. CASE r = s
      <4>1. i + 1 \notin Segment /\ j # i => ~(j >= i)
        BY <1>1, SMT DEF Segment
      <4> QED
        BY <1>1, <1>2, <1>4, <1>5, <1>6, <3>2, <4>1
    <3> QED
      BY <3>1, <3>2
  <2>4. i + 1 \in Segment => \A j \in Segment : pbase'[s][j] = 0 <=> j >= i + 1
    BY <1>1, <1>2, <1>4, SMT DEF Segment
  <2>5. ASSUME NEW u \in Thread
        PROVE  /\ req'[u].as # NoSpace => state'[req'[u].as] \in {"loading", "dying"}
               /\ pc'[u] = "idle" => req'[u].as = NoSpace
               /\ pc'[u] \in {"getfree", "steal", "record", "failed"} /\ req'[u].as # NoSpace =>
                     /\ state'[req'[u].as] = "loading" /\ req'[u].seg \in Segment
                     /\ req'[u].n = npages'[req'[u].as][req'[u].seg]
                     /\ \A j \in Segment : pbase'[req'[u].as][j] = 0 <=> j >= req'[u].seg
               /\ pc'[u] = "free" => /\ req'[u].as # NoSpace /\ state'[req'[u].as] = "dying"
                                     /\ req'[u].seg \in Segment
    <3>1. CASE u = t /\ i + 1 \in Segment
      BY <1>u, <1>6, <2>4, <3>1, SMT
    <3>2. CASE u = t /\ i + 1 \notin Segment
      BY <1>7, <3>2, SMTT(30) DEF Blank
    <3>3. CASE u # t
      BY <1>t, <1>u, <1>3, <2>2, <3>3, SMT DEF Spaces
    <3> QED
      BY <3>1, <3>2, <3>3
  <2> QED
    BY <2>1, <2>3, <2>5 DEF Spaces
<1>11. Requests'
  <2>1. /\ ~(pc'[t] \in {"getfree", "steal", "record"} /\ req'[t].as = NoSpace)
    BY <1>0, <1>6, <1>7, SMT
  <2> QED
    BY <1>t, <1>u, <1>3, <2>1 DEF Requests
<1>12. SizesKept'
  <2>1. /\ \A f \in Frame : f < bootTop => allocSize'[f] = 0
        /\ \A b \in kernel : \/ allocSize'[b[1]] = allocSize[b[1]]
                             \/ n = 0 /\ allocSize'[b[1]] = 0
    BY <1>t, <1>n, <1>0, SizeEntered
  <2>2. n = 0 => spoiled # {}
    <3>1. spoiled = {} => npages[s][i] > 0
      BY <1>t, <1>1 DEF SizesKept
    <3> QED
      BY <1>1, <1>2, <3>1, SMT
  <2>3. \A r \in Space, j \in Segment : pbase'[r][j] = 0 \/ pbase'[r][j] >= bootTop
    <3> SUFFICES ASSUME NEW r \in Space, NEW j \in Segment, ~(r = s /\ j = i)
                 PROVE  pbase'[r][j] = 0 \/ pbase'[r][j] >= bootTop
      BY <1>2, <1>4
    <3>1. pbase'[r][j] = pbase[r][j]
      BY <1>4
    <3> QED
      BY <1>t, <1>2, <3>1 DEF SizesKept
  <2>4. \A r \in Space : state'[r] # "none" => state[r] # "none"
    BY <1>1, <1>5
  <2> QED
    BY <1>t, <1>u, <1>2, <2>1, <2>2, <2>3, <2>4 DEF SizesKept
<1> QED
  BY <1>t, <1>u, <1>8, <1>9, <1>10, <1>11, <1>12 DEF Core

-----------------------------------------------------------------------------
(* Pages that come back *)

\* free_kpages reads the size of the block, or 0.
LEMMA KernelFrees ==
    ASSUME Core, NEW t \in Thread, free_kpages(t)
    PROVE  Core'
<1>t. CoreType /\ Claims /\ Spaces /\ Requests /\ SizesKept /\ (active /\ spoiled = {} => Covered)
  BY DEF Core
<1>u. UNCHANGED <<allocSize, firstpaddr, active, state, pbase, npages, pc, req, bootTop, spoiled>>
  BY DEF free_kpages, spaces, history
<1>b. PICK b \in kernel : kernel' = kernel \ {b} /\ freeppages(b[1], allocSize[b[1]])
  BY DEF free_kpages
<1>1. /\ b \in Frame \X KernelSizes /\ b[1] \in Nat /\ b[2] \in Nat /\ b[2] > 0
      /\ Claim("kernel", b) = Pages(b[1], b[2]) /\ b[1] + b[2] <= firstpaddr
  BY <1>t, <1>b, KernelBlock
<1>2. firstpaddr \in Nat /\ bootTop \in Nat
  BY <1>t, SizesAssumption, SMT DEF CoreType
<1>q. PICK q \in Nat : q = allocSize[b[1]]
  BY <1>t, <1>1 DEF CoreType
<1>3. active => /\ b[1] < bootTop => q = 0 /\ b[1] + b[2] <= bootTop
                /\ b[1] >= bootTop => q = b[2] \/ (q = 0 /\ spoiled # {})
  BY <1>t, <1>b, <1>q, <1>1 DEF SizesKept
<1>4. /\ active => freeRamFrames' = freeRamFrames \cup Pages(b[1], q)
      /\ ~active => freeRamFrames' = freeRamFrames
  BY <1>b, <1>q DEF freeppages
<1>5. active => Pages(b[1], q) \subseteq Pages(b[1], b[2]) \cap (bootTop .. firstpaddr - 1)
  BY <1>1, <1>2, <1>3, SMT DEF Pages
<1>6. Claim("kernel", b)' = {}
  BY <1>b, ClaimOfNext
<1>7. Others("kernel", b)
  <2>1. \A c : c # b => Claim("kernel", c)' = Claim("kernel", c)
    BY <1>b, ClaimOf, ClaimOfNext
  <2>2. \A u \in Thread : Claim("flight", u)' = Claim("flight", u)
    BY <1>u, ClaimOf, ClaimOfNext
  <2>3. \A x \in Space \X Segment : Claim("segment", x)' = Claim("segment", x)
    BY <1>u, SegmentStill
  <2> QED
    BY <2>1, <2>2, <2>3, ClaimOf DEF Others, Kinds
<1>8. "kernel" \in Kinds /\ b \in Holder("kernel") /\ firstpaddr' \in firstpaddr .. nRamFrames
  BY <1>t, <1>u, <1>1, ClaimOf, SizesAssumption, SMT DEF Kinds, CoreType
<1>9. CoreType'
  BY <1>t, <1>u, <1>b DEF CoreType
<1>10. Claims'
  <2>1. freeRamFrames' \subseteq freeRamFrames \cup (Claim("kernel", b) \cap (bootTop .. firstpaddr - 1))
    BY <1>1, <1>4, <1>5
  <2> QED
    BY <1>t, <1>u, <1>6, <1>7, <1>8, <2>1, Flow
<1>11. active /\ spoiled = {} /\ Covered => Covered'
  <2> SUFFICES ASSUME active, spoiled = {}, Covered PROVE Covered'
    OBVIOUS
  <2>1. \A f \in bootTop .. firstpaddr - 1 :
           f \in freeRamFrames \/ f \in Claim("kernel", b) => f \in freeRamFrames' \/ f \in Claim("kernel", b)'
    <3> SUFFICES ASSUME NEW f \in bootTop .. firstpaddr - 1, f \in Pages(b[1], b[2])
                 PROVE  f \in Pages(b[1], q)
      BY <1>1, <1>4
    <3>1. b[1] \in Nat /\ b[2] \in Nat /\ f >= bootTop /\ f < b[1] + b[2] /\ f \in Nat
      BY <1>1, <1>2, SMT DEF Pages
    <3>2. ~(b[1] + b[2] <= bootTop)
      BY <1>2, <3>1, SMT
    <3>3. q = b[2]
      BY <1>1, <1>2, <1>3, <3>2, SMT
    <3> QED
      BY <3>3
  <2>2. firstpaddr .. firstpaddr' - 1 \subseteq Claim("kernel", b)'
    BY <1>u, <1>2, SMT
  <2> QED
    BY <1>t, <1>u, <1>7, <1>8, <2>1, <2>2, FlowCovers
<1>12. Spaces' /\ Requests'
  BY <1>t, <1>u DEF Spaces, Requests
<1>13. SizesKept'
  BY <1>t, <1>u, <1>b, <1>4 DEF SizesKept
<1> QED
  BY <1>t, <1>u, <1>9, <1>10, <1>11, <1>12, <1>13 DEF Core

\* as_destroy gives back a segment.
LEMMA SegmentFrees ==
    ASSUME Core, NEW t \in Thread, DestroySegment(t)
    PROVE  Core'
<1>t. CoreType /\ Claims /\ Spaces /\ Requests /\ SizesKept /\ (active /\ spoiled = {} => Covered)
  BY DEF Core
<1>u. UNCHANGED <<allocSize, firstpaddr, active, kernel, bootTop, spoiled>>
  BY DEF DestroySegment, history
<1>i. PICK i : i = req[t].seg
  OBVIOUS
<1>s. PICK s \in Space : s = req[t].as
  BY <1>t DEF DestroySegment, Spaces, CoreType
<1>0. pc[t] = "free" /\ freeppages(pbase[s][i], npages[s][i]) /\ Advance(t, s, i)
  BY <1>i, <1>s DEF DestroySegment
<1>1. /\ s # NoSpace /\ state[s] = "dying" /\ i \in Segment /\ i \in Nat /\ pbase[s][i] # 0
      /\ \A u \in Thread : u # t => req[u].as # s
  BY <1>t, <1>i, <1>s, <1>0, SizesAssumption, SMT DEF Spaces, Segment
<1>p. PICK P : P = Pages(pbase[s][i], npages[s][i])
  OBVIOUS
<1>2. /\ active => freeRamFrames' = freeRamFrames \cup P
      /\ ~active => freeRamFrames' = freeRamFrames
  BY <1>0, <1>p DEF freeppages
<1>3. \A u \in Thread : u # t => pc'[u] = pc[u] /\ req'[u] = req[u]
  BY <1>t, <1>0 DEF CoreType, Advance, Done
<1>4. i + 1 \in Segment => /\ UNCHANGED <<pc, state, pbase, npages>> /\ req'[t].seg = i + 1 /\ req'[t].as = s
                           /\ req'[t].n = req[t].n /\ req'[t].addr = req[t].addr
                           /\ DOMAIN req'[t] = DOMAIN req[t] /\ DOMAIN req' = Thread
  BY <1>t, <1>s, <1>0, SMT DEF CoreType, Advance, spaces
<1>5. i + 1 \notin Segment =>
         /\ pc' \in [Thread -> Labels] /\ pc'[t] = "idle" /\ DOMAIN req' = Thread /\ req'[t] = Blank
         /\ state' = [state EXCEPT ![s] = "none"]
         /\ pbase' = [pbase EXCEPT ![s] = [k \in Segment |-> 0]]
         /\ npages' = [npages EXCEPT ![s] = [k \in Segment |-> 0]]
  BY <1>t, <1>0 DEF CoreType, Advance, Done, Labels
<1>6. i + 1 \notin Segment =>
         /\ state'[s] = "none" /\ \A j \in Segment : pbase'[s][j] = 0 /\ npages'[s][j] = 0
         /\ \A r \in Space : r # s => state'[r] = state[r] /\ pbase'[r] = pbase[r] /\ npages'[r] = npages[r]
  BY <1>t, <1>5, SMT DEF CoreType
<1>7. CoreType'
  <2>1. CASE i + 1 \in Segment
    BY <1>t, <1>u, <1>3, <1>4, <2>1 DEF CoreType
  <2>2. CASE i + 1 \notin Segment
    <3>0. [k \in Segment |-> 0] \in [Segment -> 0 .. nRamFrames] /\ [k \in Segment |-> 0] \in [Segment -> Nat]
      BY SizesAssumption, SMT
    <3>1. /\ state' \in [Space -> {"none", "loading", "ready", "broken", "dying"}]
          /\ pbase' \in [Space -> [Segment -> 0 .. nRamFrames]] /\ npages' \in [Space -> [Segment -> Nat]]
      <4>1. state' \in [Space -> {"none", "loading", "ready", "broken", "dying"}]
        BY <1>t, <1>5, <2>2 DEF CoreType
      <4>2. pbase' \in [Space -> [Segment -> 0 .. nRamFrames]]
        BY <1>t, <1>5, <2>2, <3>0 DEF CoreType
      <4>3. npages' \in [Space -> [Segment -> Nat]]
        BY <1>t, <1>5, <2>2, <3>0 DEF CoreType
      <4> QED
        BY <4>1, <4>2, <4>3
    <3>2. /\ DOMAIN req'[t] = {"n", "addr", "as", "seg"}
          /\ req'[t].n \in Nat /\ req'[t].addr \in 0 .. nRamFrames /\ req'[t].as \in Space \cup {NoSpace}
      BY <1>5, <2>2, SizesAssumption, SMT DEF Blank
    <3> QED
      BY <1>t, <1>u, <1>3, <1>5, <2>2, <3>1, <3>2 DEF CoreType
  <2> QED
    BY <2>1, <2>2
<1>8. /\ <<s, i>> \in Space \X Segment /\ Claim("segment", <<s, i>>) = P /\ Claim("segment", <<s, i>>)' = {}
  <2>1. <<s, i>> \in Segments
    BY <1>i, <1>1, SMT DEF Segments
  <2>2. <<s, i>> \notin Segments'
    <3>1. CASE i + 1 \in Segment
      BY <1>1, <1>4, <3>1, SMT DEF Segments
    <3>2. CASE i + 1 \notin Segment
      BY <1>6, <3>2 DEF Segments
    <3> QED
      BY <3>1, <3>2
  <2> QED
    BY <1>p, <1>1, <2>1, <2>2, ClaimOf, ClaimOfNext
<1>9. Others("segment", <<s, i>>)
  <2>1. \A b : Claim("kernel", b)' = Claim("kernel", b)
    BY <1>u, ClaimOf, ClaimOfNext
  <2>2. \A u \in Thread : Claim("flight", u)' = Claim("flight", u)
    BY <1>0, <1>3, <1>4, <1>5, ClaimOf, ClaimOfNext, ZenonT(40)
  <2>3. ASSUME NEW x \in Space \X Segment, x # <<s, i>>
        PROVE  Claim("segment", x)' = Claim("segment", x)
    <3>1. x[1] \in Space /\ x[2] \in Segment /\ (x[1] # s \/ x[2] # i)
      BY <2>3, SMT
    <3>2. CASE x[1] = s /\ i + 1 \in Segment
      <4>1. x[2] >= i + 1 <=> x[2] >= i
        BY <1>1, <3>1, <3>2, SMT DEF Segment
      <4>2. x \in Segments <=> x \in Segments'
        BY <1>i, <1>s, <1>1, <1>3, <1>4, <3>1, <3>2, <4>1, SMT DEF Segments
      <4> QED
        BY <1>4, <3>2, <4>2, ClaimOf, ClaimOfNext
    <3>3. CASE x[1] = s /\ i + 1 \notin Segment
      <4>1. ~(x[2] >= i)
        BY <1>1, <3>1, <3>3, SMT DEF Segment
      <4>2. x \notin Segments
        BY <1>i, <1>s, <1>1, <3>3, <4>1 DEF Segments
      <4>3. x \notin Segments'
        BY <1>6, <3>3 DEF Segments
      <4> QED
        BY <4>2, <4>3, ClaimOf, ClaimOfNext
    <3>4. CASE x[1] # s
      <4>1. req'[t].as # x[1] /\ req[t].as # x[1]
        BY <1>s, <1>4, <1>5, <3>1, <3>4, SizesAssumption, SMT DEF Blank
      <4>2. state'[x[1]] = state[x[1]] /\ pbase'[x[1]] = pbase[x[1]] /\ npages'[x[1]] = npages[x[1]]
        BY <1>4, <1>6, <3>1, <3>4
      <4> QED
        BY <1>3, <4>1, <4>2, SegmentStill
    <3> QED
      BY <3>2, <3>3, <3>4
  <2> QED
    BY <2>1, <2>2, <2>3, ClaimOf DEF Others, Kinds
<1>10. "segment" \in Kinds /\ <<s, i>> \in Holder("segment") /\ firstpaddr' \in firstpaddr .. nRamFrames
  BY <1>t, <1>u, <1>8, ClaimOf, SizesAssumption, SMT DEF Kinds, CoreType
<1>11. active => P \subseteq bootTop .. firstpaddr - 1
  <2> SUFFICES ASSUME active, NEW f \in P PROVE f \in bootTop .. firstpaddr - 1
    OBVIOUS
  <2>1. P \subseteq FirstFree .. firstpaddr - 1
    BY <1>t, <1>8, <1>10 DEF Claims
  <2>2. pbase[s][i] >= bootTop /\ pbase[s][i] \in Nat /\ npages[s][i] \in Nat
    BY <1>t, <1>1, SizesAssumption, SMT DEF SizesKept, CoreType
  <2>3. f >= pbase[s][i]
    BY <1>p, <2>2, SMT DEF Pages
  <2>4. f \in Nat /\ f <= firstpaddr - 1
    BY <1>t, <2>1, SizesAssumption, SMT DEF CoreType
  <2>5. bootTop \in Nat /\ firstpaddr \in Nat
    BY <1>t, SizesAssumption, SMT DEF CoreType
  <2> QED
    BY <2>2, <2>3, <2>4, <2>5, SMT
<1>12. Claims'
  <2>1. freeRamFrames' \subseteq freeRamFrames \cup (Claim("segment", <<s, i>>) \cap (bootTop .. firstpaddr - 1))
    BY <1>2, <1>8, <1>11
  <2> QED
    BY <1>t, <1>u, <1>8, <1>9, <1>10, <2>1, Flow
<1>13. active /\ Covered => Covered'
  <2> SUFFICES ASSUME active, Covered PROVE Covered'
    OBVIOUS
  <2>1. \A f \in bootTop .. firstpaddr - 1 :
           f \in freeRamFrames \/ f \in Claim("segment", <<s, i>>)
              => f \in freeRamFrames' \/ f \in Claim("segment", <<s, i>>)'
    BY <1>2, <1>8
  <2>2. firstpaddr .. firstpaddr' - 1 \subseteq Claim("segment", <<s, i>>)'
    BY <1>t, <1>u, SizesAssumption, SMT DEF CoreType
  <2> QED
    BY <1>t, <1>u, <1>9, <1>10, <2>1, <2>2, FlowCovers
<1>14. Spaces' /\ Requests' /\ SizesKept'
  <2>1. CASE i + 1 \in Segment
    <3>1. Spaces'
      <4>1. \A u \in Thread : req'[u].as = req[u].as /\ pc'[u] = pc[u] /\ (u # t => req'[u] = req[u])
        BY <1>s, <1>3, <1>4, <2>1
      <4>2. pc[t] = "free" /\ req'[t].seg \in Segment /\ UNCHANGED <<state, pbase, npages>>
        BY <1>0, <1>4, <2>1
      <4>3. /\ \A v, u \in Thread : v # u /\ req'[v].as = req'[u].as => req'[v].as = NoSpace
            /\ \A u \in Thread : req'[u].as # NoSpace => state'[req'[u].as] \in {"loading", "dying"}
            /\ \A r \in Space, k \in Segment : /\ state'[r] = "none" => pbase'[r][k] = 0
                                               /\ state'[r] \in {"ready", "dying"} => pbase'[r][k] # 0
        BY <1>t, <4>1, <4>2, SMTT(30) DEF Spaces
      <4>4. ASSUME NEW u \in Thread
            PROVE  /\ pc'[u] = "idle" => req'[u].as = NoSpace
                   /\ pc'[u] \in {"getfree", "steal", "record", "failed"} /\ req'[u].as # NoSpace =>
                         /\ state'[req'[u].as] = "loading" /\ req'[u].seg \in Segment
                         /\ req'[u].n = npages'[req'[u].as][req'[u].seg]
                         /\ \A k \in Segment : pbase'[req'[u].as][k] = 0 <=> k >= req'[u].seg
                   /\ pc'[u] = "free" => /\ req'[u].as # NoSpace /\ state'[req'[u].as] = "dying"
                                         /\ req'[u].seg \in Segment
        <5>1. CASE u = t
          BY <1>t, <4>1, <4>2, <5>1 DEF Spaces
        <5>2. CASE u # t
          <6>1. req'[u] = req[u] /\ pc'[u] = pc[u] /\ UNCHANGED <<state, pbase, npages>>
            BY <4>1, <4>2, <5>2
          <6>2. /\ pc[u] = "idle" => req[u].as = NoSpace
                /\ pc[u] \in {"getfree", "steal", "record", "failed"} /\ req[u].as # NoSpace =>
                      /\ state[req[u].as] = "loading" /\ req[u].seg \in Segment
                      /\ req[u].n = npages[req[u].as][req[u].seg]
                      /\ \A k \in Segment : pbase[req[u].as][k] = 0 <=> k >= req[u].seg
                /\ pc[u] = "free" => req[u].as # NoSpace /\ state[req[u].as] = "dying" /\ req[u].seg \in Segment
            BY <1>t DEF Spaces
          <6> QED
            BY <6>1, <6>2
        <5> QED
          BY <5>1, <5>2
      <4> QED
        BY <4>3, <4>4 DEF Spaces
    <3>2. Requests'
      BY <1>t, <1>u, <1>0, <1>3, <1>4, <2>1 DEF Requests
    <3>3. SizesKept'
      BY <1>t, <1>u, <1>1, <1>2, <1>4, <2>1 DEF SizesKept
    <3> QED
      BY <3>1, <3>2, <3>3
  <2>2. CASE i + 1 \notin Segment
    <3>1. \A u \in Thread : u # t /\ req[u].as # NoSpace =>
             /\ state'[req[u].as] = state[req[u].as] /\ pbase'[req[u].as] = pbase[req[u].as]
             /\ npages'[req[u].as] = npages[req[u].as]
      BY <1>t, <1>1, <1>6, <2>2 DEF CoreType
    <3>2. Spaces'
      BY <1>t, <1>1, <1>3, <1>5, <1>6, <2>2, <3>1, SMT DEF Spaces, Blank
    <3>3. Requests'
      BY <1>t, <1>u, <1>3, <1>5, <2>2 DEF Requests
    <3>4. SizesKept'
      BY <1>t, <1>u, <1>1, <1>2, <1>6, <2>2 DEF SizesKept
    <3> QED
      BY <3>2, <3>3, <3>4
  <2> QED
    BY <2>1, <2>2
<1> QED
  BY <1>t, <1>u, <1>7, <1>12, <1>13, <1>14 DEF Core

\* The assertion of freeppages fails for a segment of no pages only.
LEMMA Panics ==
    ASSUME Core, NEW t \in Thread, DestroyPanics(t)
    PROVE  Core' /\ spoiled # {}
<1>t. CoreType /\ Claims /\ Spaces /\ Requests /\ SizesKept /\ (active /\ spoiled = {} => Covered)
  BY DEF Core
<1>u. UNCHANGED <<freeRamFrames, allocSize, firstpaddr, active, kernel, state, pbase, npages, req, bootTop, spoiled>>
  BY DEF DestroyPanics, maps, spaces, history
<1>i. PICK i : i = req[t].seg
  OBVIOUS
<1>s. PICK s \in Space : s = req[t].as
  BY <1>t DEF DestroyPanics, Spaces, CoreType
<1>0. pc[t] = "free" /\ pbase[s][i] \notin Frame /\ \A u \in Thread : pc'[u] = "halted"
  BY <1>i, <1>s DEF DestroyPanics
<1>1. /\ s # NoSpace /\ state[s] = "dying" /\ i \in Segment /\ i \in Nat /\ pbase[s][i] # 0
      /\ \A u \in Thread : u # t => req[u].as # s
  BY <1>t, <1>i, <1>s, <1>0, SizesAssumption, SMT DEF Spaces, Segment
<1>2. spoiled # {}
  <2> SUFFICES ASSUME spoiled = {} PROVE FALSE
    OBVIOUS
  <2>1. npages[s][i] > 0
    BY <1>t, <1>1 DEF SizesKept
  <2>2. pbase[s][i] \in Nat /\ npages[s][i] \in Nat
    BY <1>t, <1>1, SizesAssumption, SMT DEF CoreType
  <2>3. <<s, i>> \in Segments
    BY <1>i, <1>1, SMT DEF Segments
  <2>4. Pages(pbase[s][i], npages[s][i]) \subseteq FirstFree .. firstpaddr - 1
    BY <1>t, <1>1, <2>3, ClaimOf, SMT DEF Claims, Kinds
  <2>5. pbase[s][i] \in Pages(pbase[s][i], npages[s][i])
    BY <2>1, <2>2, SMT DEF Pages
  <2>6. pbase[s][i] \in FirstFree .. firstpaddr - 1
    BY <2>4, <2>5
  <2> QED
    BY <1>t, <1>0, <2>2, <2>6, SizesAssumption, SMT DEF Frame, CoreType
<1>3. CoreType'
  <2>1. pc' \in [Thread -> Labels]
    BY DEF DestroyPanics, Labels
  <2> QED
    BY <1>t, <1>u, <2>1 DEF CoreType
<1>4. \A k \in Kinds : \A x \in Holder(k) : Claim(k, x)' \subseteq Claim(k, x)
  <2>1. \A b : Claim("kernel", b)' = Claim("kernel", b)
    BY <1>u, ClaimOf, ClaimOfNext
  <2>2. \A u \in Thread : Claim("flight", u)' = {}
    BY <1>0, ClaimOfNext
  <2>3. \A x \in Space \X Segment : Claim("segment", x)' = Claim("segment", x)
    BY <1>u, SegmentStill
  <2> QED
    BY <2>1, <2>2, <2>3, ClaimOf DEF Kinds
<1>5. Claims'
  BY <1>t, <1>u, <1>4, SMT DEF Claims
<1>6. Spaces'
  BY <1>t, <1>u, <1>0 DEF Spaces
<1>7. Requests'
  BY <1>0 DEF Requests
<1>8. SizesKept'
  BY <1>t, <1>u DEF SizesKept
<1> QED
  BY <1>u, <1>2, <1>3, <1>5, <1>6, <1>7, <1>8 DEF Core

-----------------------------------------------------------------------------
(* The invariant *)

\* The invariant holds at the start.
LEMMA CoreInit == Init => CoreInv
<1> SUFFICES ASSUME Init PROVE Core
  BY DEF CoreInv
<1>1. CoreType
  BY SizesAssumption, SMT DEF Init, CoreType, Blank, Labels
<1>2. Claims
  <2>1. \A k \in Kinds : \A x \in Holder(k) : Claim(k, x) = {}
    <3>1. \A b : Claim("kernel", b) = {}
      BY ClaimOf DEF Init
    <3>2. \A u \in Thread : Claim("flight", u) = {}
      BY ClaimOf DEF Init
    <3>3. Segments = {}
      BY DEF Init, Segments
    <3>4. \A x : Claim("segment", x) = {}
      BY <3>3, ClaimOf
    <3> QED
      BY <3>1, <3>2, <3>4, ClaimOf DEF Kinds
  <2> QED
    BY <2>1 DEF Claims, Init
<1>3. Spaces
  BY DEF Init, Spaces, Blank
<1>4. Requests
  BY DEF Init, Requests
<1>5. SizesKept
  BY SizesAssumption DEF Init, SizesKept
<1>6. ~active
  BY DEF Init
<1> QED
  BY <1>1, <1>2, <1>3, <1>4, <1>5, <1>6 DEF Core

\* Every step keeps the invariant.
LEMMA CoreNext == CoreInv /\ [Next]_vars => CoreInv'
<1> SUFFICES ASSUME CoreInv, [Next]_vars, "nomem" \notin spoiled' PROVE Core'
  BY DEF CoreInv
<1>1. CASE vm_bootstrap
  <2>1. Core
    BY <1>1 DEF CoreInv, vm_bootstrap
  <2> QED
    BY <1>1, <2>1, Bootstrap
<1>2. ASSUME NEW t \in Thread, Step(t) PROVE Core'
  <2>1. "nomem" \notin spoiled
    BY <1>2 DEF Step, getfreeppages, ram_stealmem, alloc_kpages, KernelGot, KernelFailed, free_kpages,
         as_prepare_load, SegmentGot, SegmentFailed, SegmentAbandoned, LoadRefused, as_destroy,
         DestroySegment, DestroyPanics, history
  <2>2. Core
    BY <2>1 DEF CoreInv
  <2>3. CASE getfreeppages(t)
    <3>1. CASE \E found \in Runs(req[t].n) :
                  /\ active
                  /\ freeRamFrames' = freeRamFrames \ Pages(found, req[t].n)
                  /\ allocSize' = [allocSize EXCEPT ![found] = req[t].n]
                  /\ req' = [req EXCEPT ![t].addr = found]
                  /\ pc' = [pc EXCEPT ![t] = IF found = 0 THEN "steal" ELSE "record"]
      BY <2>2, <2>3, <3>1, RunTaken DEF getfreeppages
    <3>2. CASE /\ pc' = [pc EXCEPT ![t] = "steal"]
               /\ UNCHANGED <<freeRamFrames, allocSize, req>>
      BY <2>2, <2>3, <3>2, NoneFree DEF getfreeppages
    <3> QED
      BY <2>3, <3>1, <3>2 DEF getfreeppages
  <2>4. CASE ram_stealmem(t)
    <3>1. CASE firstpaddr + req[t].n > nRamFrames
      BY <2>2, <2>4, <3>1, NoRam DEF ram_stealmem
    <3>2. CASE ~(firstpaddr + req[t].n > nRamFrames)
      BY <2>2, <2>4, <3>2, RamTaken DEF ram_stealmem
    <3> QED
      BY <3>1, <3>2
  <2>5. CASE alloc_kpages(t) \/ KernelGot(t) \/ KernelFailed(t) \/ free_kpages(t)
    BY <2>2, <2>5, KernelAsks, KernelGets, KernelGetsNone, KernelFrees
  <2>6. CASE as_prepare_load(t) \/ SegmentGot(t) \/ SegmentAbandoned(t)
    BY <2>2, <2>6, SpaceAsks, SegmentGets, SpaceAbandoned
  <2>7. CASE SegmentFailed(t) \/ LoadRefused(t)
    BY <2>7 DEF SegmentFailed, LoadRefused
  <2>8. CASE as_destroy(t) \/ DestroySegment(t) \/ DestroyPanics(t)
    BY <2>2, <2>8, SpaceDies, SegmentFrees, Panics
  <2> QED
    BY <1>2, <2>3, <2>4, <2>5, <2>6, <2>7, <2>8 DEF Step
<1>3. CASE UNCHANGED vars
  <2>1. UNCHANGED <<freeRamFrames, allocSize, firstpaddr, active, kernel, state, pbase, npages, pc, req, bootTop, spoiled>>
    BY <1>3 DEF vars, maps, spaces, history
  <2>2. Core
    BY <2>1 DEF CoreInv
  <2>3. \A x \in Space \X Segment : Claim("segment", x)' = Claim("segment", x)
    BY <2>1, SegmentStill
  <2>4. Claims' /\ (Covered => Covered')
    BY <2>1, <2>2, <2>3, Still DEF Core
  <2>5. CoreType' /\ Spaces' /\ Requests' /\ SizesKept'
    BY <2>1, <2>2 DEF Core, CoreType, Spaces, Requests, SizesKept
  <2> QED
    BY <2>1, <2>2, <2>4, <2>5 DEF Core
<1> QED
  BY <1>1, <1>2, <1>3 DEF Next

\* The inductive invariant of the page allocator holds throughout.
THEOREM Invariance == Spec => []CoreInv
BY CoreInit, CoreNext, PTL DEF Spec

-----------------------------------------------------------------------------
(* What it implies *)

\* The pages of each kind of owner, as claims.
LEMMA PagesAreClaims ==
    ASSUME CoreType
    PROVE  /\ \A f : f \in KernelPages <=> \E b \in kernel : f \in Claim("kernel", b)
           /\ \A f : f \in SegmentPages <=> \E x \in Segments : f \in Claim("segment", x)
           /\ \A f : f \in FlightPages <=> \E t \in InFlight : f \in Claim("flight", t)
           /\ kernel \subseteq Holder("kernel") /\ Segments \subseteq Holder("segment")
           /\ InFlight \subseteq Holder("flight")
<1>1. kernel \subseteq Holder("kernel") /\ Segments \subseteq Holder("segment") /\ InFlight \subseteq Holder("flight")
  BY ClaimOf DEF CoreType, Segments, InFlight
<1>2. \A f : f \in KernelPages <=> \E b \in kernel : f \in Claim("kernel", b)
  BY ClaimOf DEF KernelPages
<1>3. \A f : f \in SegmentPages <=> \E x \in Segments : f \in Claim("segment", x)
  BY ClaimOf DEF SegmentPages
<1>4. \A f : f \in FlightPages <=> \E t \in InFlight : f \in Claim("flight", t)
  BY ClaimOf DEF FlightPages, InFlight
<1> QED
  BY <1>1, <1>2, <1>3, <1>4

\* The invariant says that a frame has one owner.
LEMMA CoreSaysOwner == CoreInv => OneOwner
<1> SUFFICES ASSUME Core PROVE OneOwner
  BY DEF CoreInv, OneOwner
<1>1. CoreType /\ Claims
  BY DEF Core
<1>2. \A k, l \in Kinds : \A x \in Holder(k), y \in Holder(l) : (k # l \/ x # y) => Claim(k, x) \cap Claim(l, y) = {}
  BY <1>1 DEF Claims
<1>3. "kernel" \in Kinds /\ "segment" \in Kinds /\ "flight" \in Kinds
  BY DEF Kinds
<1>4. \A a, b \in kernel : a # b => Pages(a[1], a[2]) \cap Pages(b[1], b[2]) = {}
  BY <1>1, <1>2, <1>3, PagesAreClaims, ClaimOf, SMT
<1>5. \A x, y \in Segments : x # y =>
         Pages(pbase[x[1]][x[2]], npages[x[1]][x[2]]) \cap Pages(pbase[y[1]][y[2]], npages[y[1]][y[2]]) = {}
  BY <1>1, <1>2, <1>3, PagesAreClaims, ClaimOf, SMT
<1>6. \A t, u \in InFlight : t # u => Pages(req[t].addr, req[t].n) \cap Pages(req[u].addr, req[u].n) = {}
  BY <1>1, <1>2, <1>3, PagesAreClaims, ClaimOf, SMT DEF InFlight
<1>7. KernelPages \cap SegmentPages = {}
  BY <1>1, <1>2, <1>3, PagesAreClaims
<1>8. KernelPages \cap FlightPages = {} /\ SegmentPages \cap FlightPages = {}
  BY <1>1, <1>2, <1>3, PagesAreClaims, SMT
<1> QED
  BY <1>4, <1>5, <1>6, <1>7, <1>8 DEF OneOwner

\* The invariant says that a frame with an owner is not free.
LEMMA CoreSaysFree == CoreInv => OwnedNotFree
<1> SUFFICES ASSUME Core PROVE OwnedNotFree
  BY DEF CoreInv, OwnedNotFree
<1>1. CoreType /\ Claims
  BY DEF Core
<1>2. "kernel" \in Kinds /\ "segment" \in Kinds /\ "flight" \in Kinds
  BY DEF Kinds
<1>3. ASSUME NEW f \in KernelPages \cup SegmentPages \cup FlightPages
      PROVE  f \in FirstFree .. firstpaddr - 1 /\ f \notin freeRamFrames
  BY <1>1, <1>2, PagesAreClaims DEF Claims
<1>4. \A f \in FirstFree .. firstpaddr - 1 : f \notin 0 .. FirstFree - 1 /\ f \notin firstpaddr .. nRamFrames
  BY <1>1, SizesAssumption, SMT DEF CoreType
<1>5. freeRamFrames \subseteq FirstFree .. firstpaddr - 1
  BY <1>1, SizesAssumption, SMT DEF Claims, CoreType
<1> QED
  BY <1>3, <1>4, <1>5 DEF OwnedNotFree

\* The invariant says that no frame is lost.
LEMMA CoreSaysLost == CoreInv => NothingLost
<1> SUFFICES ASSUME Core, active, spoiled = {}, NEW f \in bootTop .. firstpaddr - 1, f \notin freeRamFrames
             PROVE  f \in KernelPages \cup SegmentPages \cup FlightPages
  BY DEF CoreInv, NothingLost
<1>1. CoreType /\ Covered
  BY DEF Core
<1>2. PICK k \in Kinds : \E x \in Holder(k) : f \in Claim(k, x)
  BY <1>1 DEF Covered
<1>3. PICK x \in Holder(k) : f \in Claim(k, x)
  BY <1>2
<1>4. CASE k = "kernel"
  BY <1>1, <1>3, <1>4, PagesAreClaims, ClaimOf
<1>5. CASE k = "segment"
  BY <1>1, <1>3, <1>5, PagesAreClaims, ClaimOf
<1>6. CASE k = "flight"
  <2>1. x \in InFlight
    BY <1>3, <1>6, ClaimOf DEF InFlight
  <2> QED
    BY <1>1, <1>3, <1>6, <2>1, PagesAreClaims
<1> QED
  BY <1>4, <1>5, <1>6 DEF Kinds

\* getppages, alloc_kpages, free_kpages, as_prepare_load and as_destroy, for any
\* memory and any number of threads and address spaces: a page that was handed
\* out has one owner, until as_destroy is given a space that lacks memory.
THEOREM PageOwners == Spec => []OneOwner
BY Invariance, CoreSaysOwner, PTL

\* getfreeppages and ram_stealmem: a page that somebody owns, or of the kernel's
\* image, is neither marked free nor still in RAM to be taken.
THEOREM PagesNotFree == Spec => []OwnedNotFree
BY Invariance, CoreSaysFree, PTL

\* free_kpages and as_destroy: a page taken after vm_bootstrap is owned or free,
\* as long as no program has an empty segment.
THEOREM PagesKept == Spec => []NothingLost
BY Invariance, CoreSaysLost, PTL
=============================================================================
