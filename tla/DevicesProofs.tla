--------------------------- MODULE DevicesProofs ---------------------------
(***************************************************************************)
(* Proofs about the bus and its devices, for every set of threads, every   *)
(* disk, every size of the console's ring and every set of handles.  Each  *)
(* device has an invariant of its own, which speaks of the bus only to say *)
(* where its interrupt handler is.                                         *)
(***************************************************************************)
EXTENDS Devices, FiniteSetTheorems, TLAPS

\* Zenon proves the leaves that need no arithmetic; the others name their prover.
USE ZenonT(30)

-----------------------------------------------------------------------------
(* The bus *)

Handlers == {"lhd", "lhd_iodone", "con", "con_start", "con_input", "con_V", "emu", "emu_V"}

BusType ==
    /\ DOMAIN bus = {"class", "inuse", "irqfuncs", "pc", "slot", "irqs", "duds", "dudsnow"}
    /\ bus.pc \in {"idle", "irq", "scan"} \cup Handlers
    /\ bus.irqs \subseteq Slot /\ bus.slot \in Int

\* The bus has three slots, each with a device.
LEMMA Slots == Slot = {1, 2, 3} /\ \A s \in Slot : SlotDev[s] \in Device
BY SMT DEF Slot, SlotDev, Device

\* What the bus does by itself: no device is touched, and no handler is left.
BusStep ==
    /\ UNCHANGED <<lhdvars, convars, emuvars>>
    /\ \/ bus'.pc = bus.pc
       \/ bus.pc \in {"idle", "irq", "scan"} /\ bus'.pc \in {"idle", "irq", "scan"} \cup Device

\* What the steps of the bus itself do: configuration and the scan for
\* interrupts.
LEMMA BusMoves ==
    ASSUME BusType,
           \/ autoconf_lamebus \/ mainbus_interrupt \/ lamebus_interrupt
           \/ lamebus_interrupt_call \/ lamebus_interrupt_end
    PROVE  BusStep /\ BusType'
<1> USE DEF BusType, BusStep
<1>1. CASE autoconf_lamebus
  <2>1. \/ \E s \in Slot : bus' = [bus EXCEPT !.inuse = @ \cup {s}, !.irqfuncs = @ \cup {s}]
        \/ bus' = [bus EXCEPT !.class = @ + 1]
    BY <1>1 DEF autoconf_lamebus, tryattach_emu_to_lamebus, tryattach_lhd_to_lamebus,
         tryattach_lser_to_lamebus, attach_emu_to_lamebus, attach_lhd_to_lamebus,
         attach_lser_to_lamebus, Attach, NoMore, lamebus_attach_interrupt, lamebus_mark, lamebus_probe
  <2> QED
    BY <1>1, <2>1 DEF autoconf_lamebus
<1>2. CASE mainbus_interrupt
  BY <1>2 DEF mainbus_interrupt
<1>3. CASE lamebus_interrupt
  <2>1. Asserting \subseteq Slot
    BY DEF Asserting
  <2> QED
    BY <1>3, <2>1, SMT DEF lamebus_interrupt
<1>4. CASE lamebus_interrupt_call
  <2>1. First \in Slot
    <3>1. Rest \subseteq {1, 2, 3} /\ Rest # {}
      BY <1>4, Slots DEF lamebus_interrupt_call, Rest
    <3>2. \E s \in Rest : \A r \in Rest : s <= r
      <4>1. CASE 1 \in Rest
        BY <3>1, <4>1, SMT
      <4>2. CASE 1 \notin Rest /\ 2 \in Rest
        BY <3>1, <4>2, SMT
      <4>3. CASE Rest = {3}
        BY <4>3, SMT
      <4> QED
        BY <3>1, <4>1, <4>2, <4>3
    <3> QED
      BY <3>1, <3>2, Slots DEF First
  <2>2. SlotDev[First] \in Device /\ First \in Int
    BY <2>1, Slots, SMT
  <2> QED
    BY <1>4, <2>2, SMT DEF lamebus_interrupt_call, Device, Handlers
<1>5. CASE lamebus_interrupt_end
  BY <1>5, SMT DEF lamebus_interrupt_end
<1> QED
  BY <1>1, <1>2, <1>3, <1>4, <1>5

-----------------------------------------------------------------------------
(* The disk *)

\* One thread has the card from P(lh_clear) to V(lh_clear).
HasCard(t) == req[t].pc \in {"start", "done", "result", "free"}

\* lhd_irq has read a result that lhd_iodone has not saved yet.
ResultRead == bus.pc = "lhd_iodone" /\ lh.code # "none"

\* The transfer has succeeded, wherever its status is by now.
CardOK == lh.stat = "OK" \/ (ResultRead /\ lh.code = "OK") \/ (lh.done = 1 /\ lh.result = "OK")

\* The sectors of this request that uiomove has moved past.
Moved(r) ==
    IF (r.write /\ r.pc \in {"done", "result", "free"}) \/ (~r.write /\ r.pc = "free" /\ r.result = "OK")
    THEN r.i + 1 ELSE r.i

LhdType ==
    /\ DOMAIN lh = {"stat", "sect", "write", "buf", "clear", "done", "code", "result"}
    /\ lh.stat \in {"IDLE", "WORKING", "OK", "MEDIA"}
    /\ lh.code \in {"OK", "MEDIA", "none"}
    /\ lh.clear \in {0, 1} /\ lh.done \in {0, 1}
    /\ DOMAIN sectors = 0 .. NSECT - 1
    /\ DOMAIN req = LhdThread
    /\ \A t \in LhdThread :
          /\ DOMAIN req[t] = DOMAIN NoReq
          /\ req[t].pc \in {"out", "clear", "start", "done", "result", "free"}
          /\ req[t].sector \in Nat /\ req[t].len \in Nat /\ req[t].i \in Nat

\* The card has one user, and works for it or not at all.
LhdToken ==
    /\ \A t \in LhdThread : HasCard(t) => lh.clear = 0
    /\ \A t, u \in LhdThread : HasCard(t) /\ HasCard(u) => t = u
    /\ (\A t \in LhdThread : ~At(t, "done")) => lh.stat = "IDLE" /\ ~ResultRead /\ lh.done = 0
    /\ lh.stat # "IDLE" => ~ResultRead /\ lh.done = 0
    /\ ResultRead => lh.done = 0

\* What the card has been asked, and what its buffer holds.
LhdData ==
    \A t \in LhdThread :
        /\ req[t].pc \in {"done", "result"} =>
              /\ lh.sect = req[t].sector + req[t].i
              /\ lh.write = req[t].write
              /\ req[t].write => lh.buf = req[t].data
        /\ At(t, "done") /\ CardOK => sectors[lh.sect] = lh.buf
        /\ At(t, "result") /\ lh.result = "OK" => sectors[lh.sect] = lh.buf
        /\ At(t, "free") /\ req[t].result = "OK" => sectors[req[t].sector + req[t].i] = req[t].data

LhdUio ==
    \A t \in LhdThread :
        req[t].pc # "out" =>
            /\ req[t].i < req[t].len /\ req[t].sector + req[t].len <= NSECT
            /\ (At(t, "free") => req[t].result = "OK") =>
                  /\ req[t].uio_offset = (req[t].sector + Moved(req[t])) * LHD_SECTSIZE
                  /\ req[t].uio_resid = (req[t].len - Moved(req[t])) * LHD_SECTSIZE

LhdInv == LhdType /\ LhdToken /\ LhdData /\ LhdUio

\* A length that lhd_io accepts is a number of sectors.
LEMMA WholeSectors ==
    ASSUME NEW n \in Nat, n % LHD_SECTSIZE = 0
    PROVE  n \div LHD_SECTSIZE \in Nat /\ n = (n \div LHD_SECTSIZE) * LHD_SECTSIZE
BY LhdAssumption, SMT

\* A thread asks for whole sectors of the disk.
LEMMA LhdAsk ==
    ASSUME LhdInv, NEW t \in LhdThread, dev_read(t) \/ dev_write(t), UNCHANGED bus
    PROVE  LhdInv'
<1>a. \E write, o, n, d : o \in Nat /\ n \in Nat /\ lhd_io(t, write, o, n, d)
  <2>1. \A o \in Offsets, n \in Sizes : o \in Nat /\ n \in Nat
    BY SMT DEF Offsets, Sizes
  <2> QED
    BY <2>1 DEF dev_read, dev_write
<1>1. PICK write, o, n, d : o \in Nat /\ n \in Nat /\ lhd_io(t, write, o, n, d)
  BY <1>a
<1> DEFINE sector == o \div LHD_SECTSIZE
           len == n \div LHD_SECTSIZE
           r == req'[t]
<1>2. sector \in Nat /\ len \in Nat /\ o = sector * LHD_SECTSIZE /\ n = len * LHD_SECTSIZE
  BY <1>1, WholeSectors DEF lhd_io
<1>3. UNCHANGED <<lh, sectors>> /\ At(t, "out") /\ sector + len <= NSECT
  BY <1>1 DEF lhd_io
<1>4. DOMAIN req' = LhdThread /\ \A u \in LhdThread : u # t => req'[u] = req[u]
  BY <1>1 DEF lhd_io, Req, LhdInv, LhdType
<1>5. \/ r = NoReq
      \/ /\ len # 0
         /\ r = [NoReq EXCEPT !.pc = "clear", !.write = write, !.sector = sector, !.len = len,
                              !.data = d, !.uio_offset = o, !.uio_resid = n]
  BY <1>1 DEF lhd_io, Req, LhdInv, LhdType
<1> HIDE DEF r, sector, len
<1>6. /\ DOMAIN r = DOMAIN NoReq
      /\ r.pc \in {"out", "clear"} /\ r.sector \in Nat /\ r.len \in Nat /\ r.i = 0
      /\ r.pc # "out" => /\ 0 < r.len /\ r.sector + r.len <= NSECT
                         /\ r.uio_offset = r.sector * LHD_SECTSIZE /\ r.uio_resid = r.len * LHD_SECTSIZE
  <2>1. CASE r = NoReq
    BY <2>1 DEF NoReq
  <2>2. CASE r # NoReq
    <3>1. /\ DOMAIN r = DOMAIN NoReq /\ r.i = 0 /\ r.pc = "clear" /\ r.sector = sector /\ r.len = len
          /\ r.uio_offset = o /\ r.uio_resid = n
      BY <1>5, <2>2 DEF NoReq
    <3> QED
      BY <1>2, <1>3, <1>5, <2>2, <3>1, SMT
  <2> QED
    BY <2>1, <2>2
<1>7. LhdType'
  BY <1>3, <1>4, <1>6, SMT DEF LhdInv, LhdType, r
<1>8. LhdToken'
  BY <1>3, <1>4, <1>6 DEF LhdInv, LhdToken, HasCard, ResultRead, At, r
<1>9. LhdData'
  BY <1>3, <1>4, <1>6, SMT DEF LhdInv, LhdData, CardOK, ResultRead, At, r
<1>10. LhdUio'
  BY <1>3, <1>4, <1>6, SMT DEF LhdInv, LhdUio, Moved, At, r
<1> QED
  BY <1>7, <1>8, <1>9, <1>10 DEF LhdInv

\* The steps of a thread that has asked.
LEMMA LhdThreadMoves ==
    ASSUME LhdInv, NEW t \in LhdThread, UNCHANGED bus,
           \/ lhd_io_clear(t) \/ lhd_io_start(t) \/ lhd_io_fault(t) \/ lhd_io_done(t)
           \/ lhd_io_result(t) \/ lhd_io_next(t)
    PROVE  LhdInv'
<1> DEFINE r == req[t]
<1>t. LhdType
  BY DEF LhdInv
<1>1. CASE lhd_io_clear(t)
  <2>1. /\ At(t, "clear") /\ lh.clear = 1 /\ lh' = [lh EXCEPT !.clear = 0]
        /\ req' = [req EXCEPT ![t] = [r EXCEPT !.pc = "start"]] /\ sectors' = sectors
    BY <1>1, <1>t, SMT DEF lhd_io_clear, LhdType, Req
  <2>2. LhdType'
    BY <1>t, <2>1 DEF LhdType, NoReq
  <2>3. LhdToken'
    BY <1>t, <2>1, SMT DEF LhdInv, LhdType, LhdToken, HasCard, ResultRead, At, NoReq
  <2>4. LhdData'
    BY <1>t, <2>1, SMT DEF LhdInv, LhdType, LhdData, CardOK, ResultRead, At, NoReq
  <2>5. LhdUio'
    BY <1>t, <2>1, SMT DEF LhdInv, LhdType, LhdUio, Moved, At, NoReq
  <2> QED
    BY <2>2, <2>3, <2>4, <2>5 DEF LhdInv
<1>2. CASE lhd_io_start(t)
  <2>1. /\ At(t, "start")
        /\ lh' = [lh EXCEPT !.buf = IF r.write THEN r.data ELSE @, !.sect = r.sector + r.i,
                            !.write = r.write, !.stat = "WORKING"]
        /\ req' = [req EXCEPT ![t] = [IF r.write THEN uiomove(r) ELSE r EXCEPT !.pc = "done"]]
        /\ sectors' = sectors
    BY <1>2 DEF lhd_io_start, Req
  <2>2. LhdType'
    BY <1>t, <2>1, SMT DEF LhdType, NoReq, uiomove
  <2>3. LhdToken'
    BY <1>t, <2>1, SMT DEF LhdInv, LhdType, LhdToken, HasCard, ResultRead, At, NoReq, uiomove
  <2>4. LhdData'
    BY <1>t, <2>1, SMT DEF LhdInv, LhdType, LhdToken, LhdData, HasCard, CardOK, ResultRead, At, NoReq, uiomove
  <2>5. LhdUio'
    BY <1>t, <2>1, LhdAssumption, SMTT(30) DEF LhdInv, LhdType, LhdUio, Moved, At, NoReq, uiomove
  <2> QED
    BY <2>2, <2>3, <2>4, <2>5 DEF LhdInv
<1>3. CASE lhd_io_fault(t)
  <2>1. /\ At(t, "start")
        /\ lh' = [lh EXCEPT !.clear = @ + 1] /\ req' = [req EXCEPT ![t] = NoReq] /\ sectors' = sectors
    BY <1>3 DEF lhd_io_fault, Req
  <2>2. lh.clear = 0 /\ \A u \in LhdThread : u # t => ~HasCard(u)
    BY <2>1 DEF LhdInv, LhdToken, HasCard, At
  <2>3. LhdType'
    BY <1>t, <2>1, <2>2, SMT DEF LhdType, NoReq
  <2>4. LhdToken'
    BY <1>t, <2>1, <2>2 DEF LhdInv, LhdType, LhdToken, HasCard, ResultRead, At, NoReq
  <2>5. LhdData'
    BY <1>t, <2>1, <2>2 DEF LhdInv, LhdType, LhdData, CardOK, ResultRead, HasCard, At, NoReq
  <2>6. LhdUio'
    BY <1>t, <2>1 DEF LhdInv, LhdType, LhdUio, Moved, At, NoReq
  <2> QED
    BY <2>3, <2>4, <2>5, <2>6 DEF LhdInv
<1>4. CASE lhd_io_done(t)
  <2>1. /\ At(t, "done") /\ lh.done = 1 /\ lh' = [lh EXCEPT !.done = 0]
        /\ req' = [req EXCEPT ![t] = [r EXCEPT !.pc = "result"]] /\ sectors' = sectors
    BY <1>4, <1>t, SMTT(30) DEF lhd_io_done, LhdType, Req
  <2>2. lh.stat = "IDLE" /\ ~ResultRead /\ \A u \in LhdThread : u # t => ~HasCard(u)
    BY <2>1, SMT DEF LhdInv, LhdToken, HasCard, At
  <2>3. LhdType'
    BY <1>t, <2>1 DEF LhdType, NoReq
  <2>4. LhdToken'
    BY <1>t, <2>1, <2>2 DEF LhdInv, LhdType, LhdToken, HasCard, ResultRead, At, NoReq
  <2>5. LhdData'
    BY <1>t, <2>1, <2>2, SMT DEF LhdInv, LhdType, LhdData, CardOK, ResultRead, HasCard, At, NoReq
  <2>6. LhdUio'
    BY <1>t, <2>1, SMT DEF LhdInv, LhdType, LhdUio, Moved, At, NoReq
  <2> QED
    BY <2>3, <2>4, <2>5, <2>6 DEF LhdInv
<1>5. CASE lhd_io_result(t)
  <2>1. PICK res : /\ res = "FAULT" \/ res = lh.result
                   /\ req' = [req EXCEPT ![t] =
                         [IF res = "OK" /\ ~r.write THEN [uiomove(r) EXCEPT !.data = lh.buf] ELSE r
                          EXCEPT !.pc = "free", !.result = res]]
    BY <1>5 DEF lhd_io_result, Req
  <2>2. At(t, "result") /\ lh' = lh /\ sectors' = sectors
    BY <1>5 DEF lhd_io_result
  <2>3. \A u \in LhdThread : u # t => ~HasCard(u)
    BY <2>2 DEF LhdInv, LhdToken, HasCard, At
  <2>4. LhdType'
    BY <1>t, <2>1, <2>2, SMT DEF LhdType, NoReq, uiomove
  <2>5. LhdToken'
    BY <1>t, <2>1, <2>2, <2>3 DEF LhdInv, LhdType, LhdToken, HasCard, ResultRead, At, NoReq, uiomove
  <2>6. LhdData'
    <3>1. /\ req'[t].pc = "free" /\ req'[t].result = res
          /\ req'[t].sector = r.sector /\ req'[t].i = r.i
          /\ res = "OK" => req'[t].data = IF r.write THEN r.data ELSE lh.buf
          /\ \A u \in LhdThread : u # t => req'[u] = req[u]
      BY <1>t, <2>1 DEF LhdType, NoReq, uiomove
    <3>2. res = "OK" => sectors[r.sector + r.i] = IF r.write THEN r.data ELSE lh.buf
      BY <2>1, <2>2 DEF LhdInv, LhdData, At
    <3> QED
      BY <2>2, <2>3, <3>1, <3>2, SMT DEF LhdInv, LhdData, HasCard, At
  <2>7. LhdUio'
    <3>1. /\ req'[t].pc = "free" /\ req'[t].result = res /\ req'[t].write = r.write
          /\ req'[t].sector = r.sector /\ req'[t].i = r.i /\ req'[t].len = r.len
          /\ \A u \in LhdThread : u # t => req'[u] = req[u]
      BY <1>t, <2>1 DEF LhdType, NoReq, uiomove
    <3>2. res = "OK" =>
             /\ req'[t].uio_offset = IF r.write THEN r.uio_offset ELSE r.uio_offset + LHD_SECTSIZE
             /\ req'[t].uio_resid = IF r.write THEN r.uio_resid ELSE r.uio_resid - LHD_SECTSIZE
      BY <1>t, <2>1 DEF LhdType, NoReq, uiomove
    <3>3. /\ r.uio_offset = (r.sector + (IF r.write THEN r.i + 1 ELSE r.i)) * LHD_SECTSIZE
          /\ r.uio_resid = (r.len - (IF r.write THEN r.i + 1 ELSE r.i)) * LHD_SECTSIZE
          /\ r.i < r.len /\ r.sector + r.len <= NSECT
      BY <2>2 DEF LhdInv, LhdUio, Moved, At
    <3>4. res = "OK" => /\ req'[t].uio_offset = (r.sector + (r.i + 1)) * LHD_SECTSIZE
                        /\ req'[t].uio_resid = (r.len - (r.i + 1)) * LHD_SECTSIZE
      <4>1. CASE r.write
        BY <3>2, <3>3, <4>1
      <4>2. CASE ~r.write
        <5>1. r.sector \in Nat /\ r.len \in Nat /\ r.i \in Nat
          BY <1>t DEF LhdType
        <5>2. /\ (r.sector + (r.i + 1)) * LHD_SECTSIZE = (r.sector + r.i) * LHD_SECTSIZE + LHD_SECTSIZE
              /\ (r.len - (r.i + 1)) * LHD_SECTSIZE = (r.len - r.i) * LHD_SECTSIZE - LHD_SECTSIZE
          BY <5>1, LhdAssumption, SMT
        <5> QED
          BY <3>2, <3>3, <4>2, <5>2
      <4> QED
        BY <4>1, <4>2
    <3> QED
      BY <3>1, <3>3, <3>4, SMT DEF LhdInv, LhdUio, Moved, At
  <2> QED
    BY <2>4, <2>5, <2>6, <2>7 DEF LhdInv
<1>6. CASE lhd_io_next(t)
  <2>1. /\ At(t, "free") /\ lh' = [lh EXCEPT !.clear = @ + 1] /\ sectors' = sectors
        /\ req' = [req EXCEPT ![t] = IF r.result = "OK" /\ r.i + 1 < r.len
                                      THEN [r EXCEPT !.pc = "clear", !.i = @ + 1] ELSE NoReq]
    BY <1>6 DEF lhd_io_next, Req
  <2>2. lh.clear = 0 /\ \A u \in LhdThread : u # t => ~HasCard(u)
    BY <2>1 DEF LhdInv, LhdToken, HasCard, At
  <2>3. LhdType'
    BY <1>t, <2>1, <2>2, SMT DEF LhdType, NoReq
  <2>4. LhdToken'
    BY <1>t, <2>1, <2>2 DEF LhdInv, LhdType, LhdToken, HasCard, ResultRead, At, NoReq
  <2>5. LhdData'
    BY <1>t, <2>1, <2>2, SMT DEF LhdInv, LhdType, LhdData, CardOK, ResultRead, HasCard, At, NoReq
  <2>6. LhdUio'
    BY <1>t, <2>1, SMT DEF LhdInv, LhdType, LhdUio, Moved, At, NoReq
  <2> QED
    BY <2>3, <2>4, <2>5, <2>6 DEF LhdInv
<1> QED
  BY <1>1, <1>2, <1>3, <1>4, <1>5, <1>6

\* The card and the interrupt handler.
LEMMA LhdCardMoves ==
    ASSUME LhdInv, BusType,
           \/ lhd_card /\ UNCHANGED bus
           \/ bus.pc = "lhd" /\ lhd_irq /\ bus'.pc = "lhd_iodone"
           \/ bus.pc = "lhd_iodone" /\ lhd_iodone /\ bus'.pc = "scan"
    PROVE  LhdInv'
<1>t. LhdType /\ req' = req
  BY DEF LhdInv, lhd_card, lhd_irq, lhd_iodone
<1>u. LhdUio'
  BY <1>t DEF LhdInv, LhdUio, Moved, At
<1>1. CASE lhd_card /\ UNCHANGED bus
  <2>1. PICK t \in LhdThread : At(t, "done")
    BY <1>1 DEF lhd_card, LhdInv, LhdToken
  <2>2. \A u \in LhdThread : u # t => ~HasCard(u)
    BY <2>1 DEF LhdInv, LhdToken, HasCard, At
  <2>3. lh.sect \in 0 .. NSECT - 1
    BY <1>t, <2>1, LhdAssumption, SMT DEF LhdInv, LhdType, LhdData, LhdUio, At
  <2>4. lh.stat = "WORKING" /\ ~ResultRead /\ lh.done = 0
    BY <1>1 DEF lhd_card, LhdInv, LhdToken
  <2>5. PICK code \in {"OK", "MEDIA"} :
          /\ lh' = [lh EXCEPT !.stat = code, !.buf = IF code = "OK" /\ ~lh.write THEN sectors[lh.sect] ELSE @]
          /\ sectors' = IF code = "OK" /\ lh.write THEN [sectors EXCEPT ![lh.sect] = lh.buf] ELSE sectors
    BY <1>1 DEF lhd_card
  <2>6. LhdType'
    BY <1>t, <2>5 DEF LhdType
  <2>7. LhdToken'
    BY <1>1, <1>t, <2>1, <2>4, <2>5 DEF LhdInv, LhdType, LhdToken, HasCard, ResultRead, At
  <2>8. /\ lh'.sect = lh.sect /\ lh'.write = lh.write /\ (lh.write => lh'.buf = lh.buf)
        /\ lh'.stat = "OK" => sectors'[lh.sect] = lh'.buf
        /\ ~ResultRead' /\ lh'.done = 0
    BY <1>1, <1>t, <2>3, <2>4, <2>5 DEF LhdType, ResultRead
  <2>9. LhdData'
    BY <1>t, <2>1, <2>2, <2>8, SMT DEF LhdInv, LhdData, CardOK, HasCard, At
  <2> QED
    BY <1>u, <2>6, <2>7, <2>9 DEF LhdInv
<1>2. CASE bus.pc = "lhd" /\ lhd_irq /\ bus'.pc = "lhd_iodone"
  <2>1. lh' = [lh EXCEPT !.stat = IF lhd_asserts THEN "IDLE" ELSE @,
                         !.code = IF lhd_asserts THEN lh.stat ELSE "none"] /\ sectors' = sectors
    BY <1>2 DEF lhd_irq
  <2>2. LhdType'
    BY <1>t, <2>1 DEF LhdType, lhd_asserts
  <2>3. LhdToken'
    BY <1>t, <1>2, <2>1 DEF LhdInv, LhdType, LhdToken, HasCard, ResultRead, At, lhd_asserts
  <2>4. LhdData'
    BY <1>t, <1>2, <2>1 DEF LhdInv, LhdType, LhdData, CardOK, ResultRead, At, lhd_asserts
  <2> QED
    BY <1>u, <2>2, <2>3, <2>4 DEF LhdInv
<1>3. CASE bus.pc = "lhd_iodone" /\ lhd_iodone /\ bus'.pc = "scan"
  <2>1. lh' = IF lh.code = "none" THEN lh ELSE [lh EXCEPT !.result = lh.code, !.done = @ + 1]
    BY <1>3 DEF lhd_iodone
  <2>2. sectors' = sectors
    BY <1>3 DEF lhd_iodone
  <2>3. lh.code # "none" => lh.done = 0 /\ lh.stat = "IDLE"
    BY <1>3 DEF LhdInv, LhdToken, ResultRead
  <2>4. LhdType'
    BY <1>t, <2>1, <2>2, <2>3, SMT DEF LhdType
  <2>5. LhdToken'
    BY <1>t, <1>3, <2>1, <2>3 DEF LhdInv, LhdType, LhdToken, HasCard, ResultRead, At
  <2>6. LhdData'
    <3>1. CASE lh.code = "none"
      BY <1>t, <1>3, <2>1, <2>2, <3>1 DEF LhdInv, LhdData, CardOK, ResultRead, At
    <3>2. CASE lh.code # "none"
      <4>1. \A t \in LhdThread : ~At(t, "result")
        BY <1>3, <3>2 DEF LhdInv, LhdToken, HasCard, ResultRead, At
      <4> QED
        BY <1>t, <1>3, <2>1, <2>2, <2>3, <3>2, <4>1 DEF LhdInv, LhdType, LhdData, CardOK, ResultRead, At
    <3> QED
      BY <3>1, <3>2
  <2> QED
    BY <1>u, <2>4, <2>5, <2>6 DEF LhdInv
<1> QED
  BY <1>1, <1>2, <1>3

\* No other step concerns the disk.
LEMMA LhdQuiet ==
    ASSUME LhdInv, UNCHANGED lhdvars, bus'.pc = "lhd_iodone" <=> bus.pc = "lhd_iodone"
    PROVE  LhdInv'
<1>1. lh' = lh /\ sectors' = sectors /\ req' = req
  BY DEF lhdvars
<1> QED
  BY <1>1, SMT DEF LhdInv, LhdType, LhdToken, LhdData, LhdUio, HasCard, ResultRead, CardOK, Moved, At

-----------------------------------------------------------------------------
(* The console: types *)

Polling == {"poll", "polled", "sent"}
Reading == {"getch", "take", "tail", "read"}

ConType ==
    /\ DOMAIN cs = {"head", "tail", "gotchars", "rsem", "wsem", "rlock", "wlock"}
    /\ DOMAIN ls = {"lock", "wbusy", "sending", "ready", "force", "enable", "ractive", "char", "start",
                    "input", "notclear"}
    /\ DOMAIN ct = ConThread
    /\ \A t \in ConThread :
          /\ DOMAIN ct[t] = DOMAIN NoCt
          /\ ct[t].pc \in {"out", "char", "putch", "send"} \cup Polling \cup Reading
    /\ typed \in Nat /\ ls.char \in Nat /\ ls.input \in Nat
    /\ cs.wsem \in {0, 1}

-----------------------------------------------------------------------------
(* The console: output *)

Sender == \E t \in ConThread : CAt(t, "send")

\* The permission to write is in one place.
OneToken ==
    /\ cs.wsem = 1 \/ Sender \/ ls.wbusy \/ ls.start
    /\ cs.wsem = 1 => ~Sender /\ ~ls.wbusy /\ ~ls.start
    /\ Sender => ~ls.wbusy /\ ~ls.start
    /\ ls.wbusy => ~ls.start
    /\ \A t, u \in ConThread : CAt(t, "send") /\ CAt(u, "send") => t = u
    /\ ls.start => bus.pc = "con_start"

\* The port, and what a polled write makes of it while it has the lock.
PortState ==
    /\ ~ls.notclear
    /\ ~(ls.sending /\ ls.ready)
    /\ ls.lock = Nobody => ls.enable /\ (ls.wbusy <=> ls.sending \/ ls.ready)
    /\ ls.lock # Nobody => ls.lock \in ConThread /\ ct[ls.lock].pc \in Polling
    /\ \A t \in ConThread :
          ct[t].pc \in Polling =>
             /\ ls.lock = t
             /\ ct[t].pending <=> ls.wbusy
             /\ ls.wbusy => ls.enable
             /\ CAt(t, "poll") => ls.wbusy
             /\ CAt(t, "polled") <=> ~(ls.sending \/ ls.ready)

-----------------------------------------------------------------------------
(* The console: input *)

Count == Len(accepted) - Len(got)
Pos(k) == IF cs.tail + k < CONSOLE_INPUT_BUFFER_SIZE
          THEN cs.tail + k ELSE cs.tail + k - CONSOLE_INPUT_BUFFER_SIZE

\* The ring holds what was accepted and not yet read.
RingState ==
    /\ accepted \in Seq(Nat) /\ got \in Seq(Nat)
    /\ cs.tail \in Ring /\ cs.head \in Ring /\ DOMAIN cs.gotchars = Ring
    /\ Count \in Ring
    /\ cs.head = Pos(Count)
    /\ \A k \in Ring : k < Count => cs.gotchars[Pos(k)] = accepted[Len(got) + 1 + k]
    /\ \A i \in 1 .. Len(got) : got[i] = accepted[i]

Taker == \E t \in ConThread : ct[t].pc \in {"take", "tail"}
OwedV == bus.pc = "con_V" /\ ls.input # 0

\* cs_rsem counts those that no reader has claimed and that were announced.
ReadSem ==
    /\ cs.rsem \in Nat
    /\ cs.rsem + (IF Taker THEN 1 ELSE 0) + (IF OwedV THEN 1 ELSE 0) = Count
    /\ \A t \in ConThread :
          /\ ct[t].pc \in Reading => cs.rlock = t
          /\ CAt(t, "tail") => ct[t].ch = accepted[Len(got) + 1]

ConInv == ConType /\ OneToken /\ PortState /\ RingState /\ ReadSem

\* Steps that leave one half of the console alone.
SameOutput ==
    /\ cs'.wsem = cs.wsem
    /\ ls'.lock = ls.lock /\ ls'.wbusy = ls.wbusy /\ ls'.sending = ls.sending /\ ls'.ready = ls.ready
    /\ ls'.enable = ls.enable /\ ls'.start = ls.start /\ ls'.notclear = ls.notclear
    /\ ls.start => bus'.pc = bus.pc
    /\ \A t \in ConThread : \/ ct'[t].pc = ct[t].pc /\ ct'[t].pending = ct[t].pending
                            \/ {ct[t].pc, ct'[t].pc} \cap ({"send"} \cup Polling) = {}

SameInput ==
    /\ accepted' = accepted /\ got' = got
    /\ cs'.head = cs.head /\ cs'.tail = cs.tail /\ cs'.gotchars = cs.gotchars
    /\ cs'.rsem = cs.rsem /\ cs'.rlock = cs.rlock
    /\ OwedV' <=> OwedV
    /\ \A t \in ConThread : \/ ct'[t].pc = ct[t].pc /\ ct'[t].ch = ct[t].ch
                            \/ {ct[t].pc, ct'[t].pc} \cap Reading = {}

\* A step that leaves output alone keeps what is known of it.
LEMMA OutputKept ==
    ASSUME OneToken, PortState, SameOutput
    PROVE  OneToken' /\ PortState'
<1>1. \A t \in ConThread : CAt(t, "send") <=> CAt(t, "send")'
  BY DEF SameOutput, CAt
<1>2. OneToken'
  BY <1>1 DEF OneToken, SameOutput, Sender
<1>3. \A t \in ConThread : /\ ct[t].pc \in Polling <=> ct'[t].pc \in Polling
                           /\ ct[t].pc \in Polling => ct'[t].pc = ct[t].pc /\ ct'[t].pending = ct[t].pending
  BY DEF SameOutput
<1>4. PortState'
  BY <1>3, SMT DEF PortState, SameOutput, CAt
<1> QED
  BY <1>2, <1>4

\* A step that leaves input alone keeps what is known of it.
LEMMA InputKept ==
    ASSUME RingState, ReadSem, SameInput
    PROVE  RingState' /\ ReadSem'
<1>1. RingState'
  BY DEF RingState, SameInput, Count, Pos
<1>2. \A t \in ConThread : /\ ct[t].pc \in Reading <=> ct'[t].pc \in Reading
                           /\ ct[t].pc \in Reading => ct'[t].pc = ct[t].pc /\ ct'[t].ch = ct[t].ch
  BY DEF SameInput
<1>3. Taker' <=> Taker
  BY <1>2 DEF Taker, Reading
<1>4. ReadSem'
  BY <1>2, <1>3 DEF ReadSem, SameInput, Count, CAt, Reading
<1> QED
  BY <1>1, <1>4

\* con_io on its way out, putch and lser_write.
LEMMA ConOutput ==
    ASSUME ConInv, BusType, NEW t \in ConThread, UNCHANGED bus,
           \/ con_io_write(t) \/ con_io_char(t) \/ con_io_written(t) \/ putch(t) \/ putch_intr(t)
           \/ lser_write(t)
    PROVE  ConInv'
<1>t. ConType /\ OneToken /\ PortState /\ RingState /\ ReadSem
  BY DEF ConInv
<1> DEFINE r == ct[t]
<1>1. CASE \/ con_io_write(t) \/ con_io_char(t) \/ con_io_written(t) \/ putch(t)
  <2>1. /\ DOMAIN ct' = ConThread /\ \A u \in ConThread : u # t => ct'[u] = ct[u]
        /\ DOMAIN ct'[t] = DOMAIN NoCt /\ ct'[t].pc \in {"char", "putch", "out"}
    <3>1. CASE con_io_write(t)
      <4>1. PICK n : ct' = [ct EXCEPT ![t] = [NoCt EXCEPT !.pc = "char", !.left = n]]
        BY <3>1 DEF con_io_write, Ct
      <4> QED
        BY <1>t, <4>1 DEF ConType, NoCt
    <3>2. CASE con_io_char(t)
      BY <3>2, <1>t, SMT DEF con_io_char, Ct, ConType, NoCt
    <3>3. CASE con_io_written(t)
      BY <3>3, <1>t DEF con_io_written, Ct, ConType, NoCt
    <3>4. CASE putch(t)
      BY <3>4, <1>t DEF putch, Ct, ConType, NoCt
    <3> QED
      BY <1>1, <3>1, <3>2, <3>3, <3>4
  <2>a. cs' = cs \/ cs' = [cs EXCEPT !.wlock = t] \/ cs' = [cs EXCEPT !.wlock = Nobody]
    BY <1>1 DEF con_io_write, con_io_char, con_io_written, putch
  <2>2. ct[t].pc \in {"out", "char"} /\ UNCHANGED <<ls, accepted, got, typed>>
    BY <1>1 DEF con_io_write, con_io_char, con_io_written, putch, history, CAt
  <2>3. ConType'
    BY <1>t, <2>1, <2>a, <2>2 DEF ConType
  <2>4. SameOutput
    BY <1>t, <2>1, <2>a, <2>2, SMT DEF ConType, SameOutput, Polling
  <2>5. SameInput
    BY <1>t, <2>1, <2>a, <2>2, SMT DEF ConType, SameInput, Reading, OwedV
  <2> QED
    BY <1>t, <2>3, <2>4, <2>5, OutputKept, InputKept DEF ConInv
<1>2. CASE putch_intr(t)
  <2>1. /\ r.pc = "putch" /\ cs.wsem = 1 /\ cs' = [cs EXCEPT !.wsem = 0]
        /\ ct' = [ct EXCEPT ![t] = [r EXCEPT !.pc = "send"]] /\ UNCHANGED <<ls, accepted, got, typed>>
    BY <1>2, <1>t, SMT DEF putch_intr, ConType, CAt, Ct, history
  <2>2. ConType'
    BY <1>t, <2>1 DEF ConType, NoCt
  <2>3. OneToken'
    BY <1>t, <2>1, SMT DEF OneToken, ConType, NoCt, CAt, Sender
  <2>4. PortState'
    BY <1>t, <2>1, SMT DEF PortState, ConType, NoCt, CAt, Polling
  <2>5. SameInput
    BY <1>t, <2>1, SMT DEF ConType, SameInput, Reading, OwedV, NoCt
  <2> QED
    BY <1>t, <2>2, <2>3, <2>4, <2>5, InputKept DEF ConInv
<1>3. CASE lser_write(t)
  <2>1. /\ r.pc = "send" /\ ls.lock = Nobody /\ cs' = cs
        /\ ls' = [ls EXCEPT !.notclear = @ \/ ls.wbusy \/ ls.sending, !.wbusy = TRUE, !.sending = TRUE]
        /\ UNCHANGED <<accepted, got, typed>>
    BY <1>3 DEF lser_write, CAt, history
  <2>2. /\ DOMAIN ct' = DOMAIN ct /\ \A u \in ConThread : u # t => ct'[u] = ct[u]
        /\ DOMAIN ct'[t] = DOMAIN NoCt /\ ct'[t].pc \in {"putch", "char"}
    BY <1>3, <1>t DEF lser_write, Ct, ConType, NoCt
  <2>3. ~ls.wbusy /\ ~ls.sending /\ ~ls.ready /\ ~ls.start /\ cs.wsem = 0
    BY <1>t, <2>1 DEF OneToken, PortState, ConType, CAt, Sender
  <2>4. ConType'
    BY <1>t, <2>1, <2>2 DEF ConType
  <2>5. OneToken'
    <3>1. /\ ls'.wbusy /\ ~ls'.start /\ cs'.wsem = 0 /\ \A u \in ConThread : ~CAt(u, "send")'
      BY <1>t, <2>1, <2>2, <2>3 DEF OneToken, ConType, CAt
    <3> QED
      BY <3>1, SMT DEF OneToken, Sender
  <2>6. PortState'
    <3>1. ~ls'.notclear /\ ls'.sending /\ ls'.wbusy /\ ~ls'.ready /\ ls'.lock = Nobody /\ (ls.enable => ls'.enable)
      BY <1>t, <2>1, <2>3 DEF ConType, PortState
    <3>2. \A u \in ConThread : ct'[u].pc \notin Polling
      BY <1>t, <2>1, <2>2, ConAssumption DEF PortState, Polling
    <3> QED
      BY <1>t, <2>1, <3>1, <3>2 DEF PortState
  <2>7. SameInput
    BY <1>t, <2>1, <2>2, SMT DEF ConType, SameInput, Reading, OwedV
  <2> QED
    BY <1>t, <2>4, <2>5, <2>6, <2>7, InputKept DEF ConInv
<1> QED
  BY <1>1, <1>2, <1>3

\* Polled output: lser_writepolled.
LEMMA ConPolled ==
    ASSUME ConInv, NEW t \in ConThread, UNCHANGED bus,
           \/ lser_writepolled(t) \/ lser_poll_until_write(t) \/ lser_writepolled_send(t)
           \/ lser_writepolled_done(t)
    PROVE  ConInv'
<1>t. ConType /\ OneToken /\ PortState /\ RingState /\ ReadSem
  BY DEF ConInv
<1> DEFINE r == ct[t]
<1>1. /\ UNCHANGED <<cs, accepted, got, typed>>
      /\ DOMAIN ct' = ConThread /\ \A u \in ConThread : u # t => ct'[u] = ct[u]
      /\ r.pc \in {"out"} \cup Polling
  BY <1>t DEF lser_writepolled, lser_poll_until_write, lser_writepolled_send, lser_writepolled_done,
       ConType, Ct, CAt, Polling, history
<1>2. DOMAIN ct'[t] = DOMAIN NoCt /\ ct'[t].pc \in {"out"} \cup Polling
  <2>1. CASE lser_writepolled(t)
    BY <1>t, <2>1 DEF lser_writepolled, ConType, Ct, NoCt, Polling
  <2>2. CASE lser_poll_until_write(t)
    BY <1>t, <2>2 DEF lser_poll_until_write, ConType, Ct, NoCt, Polling
  <2>3. CASE lser_writepolled_send(t)
    BY <1>t, <2>3 DEF lser_writepolled_send, ConType, Ct, NoCt, Polling
  <2>4. CASE lser_writepolled_done(t)
    BY <1>t, <2>4 DEF lser_writepolled_done, ConType, Ct, NoCt, Polling
  <2> QED
    BY <2>1, <2>2, <2>3, <2>4
<1>3. /\ DOMAIN ls' = DOMAIN ls /\ ls'.char = ls.char /\ ls'.input = ls.input
      /\ ls'.wbusy = ls.wbusy /\ ls'.start = ls.start
  BY <1>t DEF lser_writepolled, lser_poll_until_write, lser_writepolled_send, lser_writepolled_done, ConType
<1>4. ConType'
  BY <1>t, <1>1, <1>2, <1>3 DEF ConType
<1>5. OneToken'
  <2>1. \A u \in ConThread : CAt(u, "send") <=> CAt(u, "send")'
    BY <1>1, <1>2 DEF CAt, Polling
  <2> QED
    BY <1>t, <1>1, <1>3, <2>1 DEF OneToken, Sender
<1>6. SameInput
  BY <1>1, <1>2, <1>3 DEF SameInput, Reading, Polling, OwedV
<1>7. PortState'
  <2>1. CASE lser_writepolled(t)
    <3>1. /\ r.pc = "out" /\ ls.lock = Nobody /\ ls' = [ls EXCEPT !.lock = t, !.enable = ls.wbusy]
          /\ ct'[t] = [NoCt EXCEPT !.pc = IF ls.wbusy THEN "poll" ELSE "polled", !.pending = ls.wbusy]
      BY <2>1, <1>t DEF lser_writepolled, CAt, Ct, ConType
    <3>2. /\ ct'[t].pc = IF ls.wbusy THEN "poll" ELSE "polled"
          /\ ct'[t].pending = ls.wbusy
      BY <3>1 DEF NoCt
    <3>3. /\ ls'.lock = t /\ ls'.enable = ls.wbusy /\ ls'.sending = ls.sending /\ ls'.ready = ls.ready
          /\ ls'.notclear = ls.notclear
      BY <3>1, <1>t DEF ConType
    <3>4. \A u \in ConThread : ct[u].pc \notin Polling
      BY <1>t, <3>1, ConAssumption DEF PortState
    <3> QED
      BY <1>t, <1>1, <1>3, <3>1, <3>2, <3>3, <3>4, ConAssumption, ZenonT(40) DEF PortState, CAt, Polling
  <2>2. CASE ~lser_writepolled(t)
    <3>1. ls.lock = t /\ r.pc \in Polling /\ \A u \in ConThread : u # t => ct'[u].pc \notin Polling
      BY <1>t, <1>1, <2>2 DEF PortState, lser_poll_until_write, lser_writepolled_send, lser_writepolled_done,
           CAt, Polling
    <3>2. CASE lser_poll_until_write(t)
      <4>1. /\ ls' = [ls EXCEPT !.ready = FALSE, !.force = TRUE] /\ ct'[t] = [r EXCEPT !.pc = "polled"]
            /\ r.pc = "poll" /\ ls.ready
        BY <3>2, <1>t DEF lser_poll_until_write, CAt, Ct, ConType
      <4>2. ct'[t].pc = "polled" /\ ct'[t].pending = r.pending
        BY <4>1, <1>t, SMT DEF ConType, NoCt
      <4> QED
        BY <1>t, <1>3, <3>1, <4>1, <4>2, ConAssumption DEF PortState, CAt, Polling, ConType
    <3>3. CASE lser_writepolled_send(t)
      <4>1. /\ ls' = [ls EXCEPT !.notclear = @ \/ ls.sending, !.sending = TRUE]
            /\ ct'[t] = [r EXCEPT !.pc = "sent"] /\ r.pc = "polled"
        BY <3>3, <1>t DEF lser_writepolled_send, CAt, Ct, ConType
      <4>2. ct'[t].pc = "sent" /\ ct'[t].pending = r.pending
        BY <4>1, <1>t DEF ConType, NoCt
      <4>3. ~ls.sending /\ ~ls.ready /\ ~ls.notclear
        BY <1>t, <4>1 DEF PortState, CAt, Polling
      <4>4. /\ ~ls'.notclear /\ ls'.sending /\ ~ls'.ready /\ ls'.lock = t
            /\ ls'.enable = ls.enable
        BY <1>t, <3>1, <4>1, <4>3 DEF ConType
      <4> QED
        BY <1>t, <1>3, <3>1, <4>2, <4>4, ConAssumption DEF PortState, CAt, Polling
    <3>4. CASE lser_writepolled_done(t)
      <4>1. /\ ls' = IF r.pending THEN [ls EXCEPT !.lock = Nobody]
                      ELSE [ls EXCEPT !.lock = Nobody, !.ready = FALSE, !.enable = TRUE]
            /\ ct'[t] = NoCt /\ r.pc = "sent" /\ ls.ready
        BY <3>4, <1>t DEF lser_writepolled_done, CAt, Ct, ConType
      <4>2. r.pending <=> ls.wbusy
        BY <1>t, <3>1 DEF PortState
      <4>3. \A u \in ConThread : ct'[u].pc \notin Polling
        BY <3>1, <4>1, SMT DEF NoCt, Polling
      <4>4. CASE ls.wbusy
        BY <1>t, <1>3, <3>1, <4>1, <4>2, <4>3, <4>4 DEF PortState, ConType
      <4>5. CASE ~ls.wbusy
        BY <1>t, <1>3, <3>1, <4>1, <4>2, <4>3, <4>5 DEF PortState, ConType
      <4> QED
        BY <4>4, <4>5
    <3> QED
      BY <2>2, <3>2, <3>3, <3>4
  <2> QED
    BY <2>1, <2>2
<1> QED
  BY <1>t, <1>4, <1>5, <1>6, <1>7, InputKept DEF ConInv

\* The port and the interrupt handler, up to ls_input.
LEMMA ConPort ==
    ASSUME ConInv, BusType,
           \/ lser_sent /\ UNCHANGED bus
           \/ lser_key /\ UNCHANGED bus
           \/ bus.pc = "con" /\ lser_irq /\ bus'.pc = "con_start"
           \/ bus.pc = "con_start" /\ con_start /\ bus'.pc = "con_input"
    PROVE  ConInv'
<1>t. ConType /\ OneToken /\ PortState /\ RingState /\ ReadSem
  BY DEF ConInv
<1>1. CASE lser_sent /\ UNCHANGED bus
  <2>1. /\ ls.sending /\ ls' = [ls EXCEPT !.sending = FALSE, !.ready = TRUE]
        /\ UNCHANGED <<cs, ct, accepted, got, typed>>
    BY <1>1 DEF lser_sent, history
  <2>2. ConType'
    BY <1>t, <2>1 DEF ConType
  <2>3. OneToken'
    BY <1>t, <1>1, <2>1 DEF ConType, OneToken, Sender, CAt
  <2>4. PortState'
    BY <1>t, <2>1 DEF ConType, PortState, CAt, Polling
  <2>5. SameInput
    BY <1>t, <1>1, <2>1 DEF ConType, SameInput, OwedV
  <2> QED
    BY <1>t, <2>2, <2>3, <2>4, <2>5, InputKept DEF ConInv
<1>2. CASE lser_key /\ UNCHANGED bus
  <2>1. /\ ls' = [ls EXCEPT !.ractive = TRUE, !.char = typed + 1] /\ typed' = typed + 1
        /\ UNCHANGED <<cs, ct, accepted, got>>
    BY <1>2 DEF lser_key
  <2>2. ConType'
    BY <1>t, <2>1, SMT DEF ConType
  <2>3. SameOutput
    BY <1>t, <1>2, <2>1 DEF ConType, SameOutput
  <2>4. SameInput
    BY <1>t, <1>2, <2>1 DEF ConType, SameInput, OwedV
  <2> QED
    BY <1>t, <2>2, <2>3, <2>4, OutputKept, InputKept DEF ConInv
<1>3. CASE bus.pc = "con" /\ lser_irq /\ bus'.pc = "con_start"
  <2>1. /\ ls.lock = Nobody
        /\ ls' = [ls EXCEPT !.start = ls.ready, !.wbusy = @ /\ ~ls.ready, !.ready = FALSE,
                            !.force = @ /\ ~ls.ready, !.enable = @ \/ ls.ready,
                            !.input = IF ls.ractive THEN ls.char ELSE 0, !.ractive = FALSE, !.char = 0]
        /\ UNCHANGED <<cs, ct, accepted, got, typed>>
    BY <1>3 DEF lser_irq, history
  <2>2. ConType'
    BY <1>t, <2>1 DEF ConType
  <2>3. /\ ls'.start = ls.ready /\ (ls'.wbusy <=> ls.wbusy /\ ~ls.ready) /\ ~ls'.ready
        /\ (ls'.enable <=> ls.enable \/ ls.ready) /\ ls'.lock = Nobody /\ ls'.sending = ls.sending
        /\ ls'.notclear = ls.notclear
    BY <1>t, <2>1 DEF ConType
  <2>4. ~ls.start /\ (ls.ready => ls.wbusy)
    BY <1>t, <1>3, <2>1 DEF OneToken, PortState
  <2>5. OneToken'
    BY <1>t, <1>3, <2>1, <2>3, <2>4 DEF OneToken, Sender, CAt
  <2>6. PortState'
    BY <1>t, <2>1, <2>3, <2>4, ConAssumption DEF PortState, CAt
  <2>7. SameInput
    BY <1>t, <1>3, <2>1 DEF ConType, SameInput, OwedV
  <2> QED
    BY <1>t, <2>2, <2>5, <2>6, <2>7, InputKept DEF ConInv
<1>4. CASE bus.pc = "con_start" /\ con_start /\ bus'.pc = "con_input"
  <2>1. /\ cs' = IF ls.start THEN [cs EXCEPT !.wsem = @ + 1] ELSE cs
        /\ ls' = [ls EXCEPT !.start = FALSE] /\ UNCHANGED <<ct, accepted, got, typed>>
    BY <1>4 DEF con_start, history
  <2>2. ls.start => cs.wsem = 0 /\ ~ls.wbusy /\ ~Sender
    BY <1>t DEF OneToken, ConType
  <2>3. ConType'
    BY <1>t, <2>1, <2>2, SMT DEF ConType
  <2>4. OneToken'
    BY <1>t, <2>1, <2>2, SMT DEF OneToken, ConType, Sender, CAt
  <2>5. PortState'
    BY <1>t, <2>1 DEF PortState, ConType, CAt
  <2>6. SameInput
    BY <1>t, <1>4, <2>1 DEF ConType, SameInput, OwedV
  <2> QED
    BY <1>t, <2>3, <2>4, <2>5, <2>6, InputKept DEF ConInv
<1> QED
  BY <1>1, <1>2, <1>3, <1>4

-----------------------------------------------------------------------------
(* The console: readers, and con_input *)

\* An index of the ring wraps around at most once.
LEMMA Wraps ==
    ASSUME NEW a \in Nat, a < 2 * CONSOLE_INPUT_BUFFER_SIZE
    PROVE  a % CONSOLE_INPUT_BUFFER_SIZE = IF a < CONSOLE_INPUT_BUFFER_SIZE THEN a ELSE a - CONSOLE_INPUT_BUFFER_SIZE
<1>1. CASE a < CONSOLE_INPUT_BUFFER_SIZE
  BY <1>1, ConAssumption, SMT
<1>2. CASE ~(a < CONSOLE_INPUT_BUFFER_SIZE)
  BY <1>2, ConAssumption, SMT
<1> QED
  BY <1>1, <1>2

\* con_io on its way in, and getch_intr.
LEMMA ConInput ==
    ASSUME ConInv, NEW t \in ConThread, UNCHANGED bus,
           con_io_read(t) \/ getch_intr(t) \/ getch_take(t) \/ con_io_more(t)
    PROVE  ConInv'
<1>t. ConType /\ OneToken /\ PortState /\ RingState /\ ReadSem
  BY DEF ConInv
<1> DEFINE r == ct[t]
<1>1. /\ UNCHANGED <<ls, accepted, got, typed>>
      /\ DOMAIN ct' = ConThread /\ \A u \in ConThread : u # t => ct'[u] = ct[u]
      /\ r.pc \in {"out"} \cup Reading
  BY <1>t DEF con_io_read, getch_intr, getch_take, con_io_more, ConType, Ct, CAt, Reading, history
<1>2. DOMAIN ct'[t] = DOMAIN NoCt /\ ct'[t].pc \in {"out"} \cup Reading
  <2>1. CASE con_io_read(t)
    <3>1. PICK n : ct' = [ct EXCEPT ![t] = [NoCt EXCEPT !.pc = "getch", !.left = n]]
      BY <2>1 DEF con_io_read, Ct
    <3> QED
      BY <1>t, <3>1 DEF ConType, NoCt, Reading
  <2>2. CASE getch_intr(t)
    BY <1>t, <2>2 DEF getch_intr, Ct, ConType, NoCt, Reading
  <2>3. CASE getch_take(t)
    BY <1>t, <2>3 DEF getch_take, Ct, ConType, NoCt, Reading
  <2>4. CASE con_io_more(t)
    <3>1. ct' = [ct EXCEPT ![t] = NoCt] \/ ct' = [ct EXCEPT ![t] = [r EXCEPT !.pc = "getch"]]
      BY <2>4 DEF con_io_more, Ct
    <3> QED
      BY <1>t, <3>1, SMT DEF ConType, NoCt, Reading
  <2> QED
    BY <2>1, <2>2, <2>3, <2>4
<1>3. /\ DOMAIN cs' = DOMAIN cs /\ cs'.wsem = cs.wsem /\ cs'.head = cs.head /\ cs'.tail = cs.tail
      /\ cs'.gotchars = cs.gotchars
  BY <1>t DEF con_io_read, getch_intr, getch_take, con_io_more, ConType
<1>4. ConType'
  BY <1>t, <1>1, <1>2, <1>3 DEF ConType
<1>5. SameOutput
  BY <1>1, <1>2, <1>3 DEF SameOutput, Reading, Polling
<1>6. RingState'
  BY <1>t, <1>1, <1>3 DEF RingState, Count, Pos
<1>7. ReadSem'
  <2>a. OwedV' <=> OwedV
    BY <1>1 DEF OwedV
  <2>b. Count' = Count
    BY <1>1 DEF Count
  <2>1. CASE con_io_read(t)
    <3>1. r.pc = "out" /\ cs.rlock = Nobody /\ cs'.rlock = t /\ cs'.rsem = cs.rsem
      BY <2>1, <1>t DEF con_io_read, CAt, ConType
    <3>2. PICK n : ct' = [ct EXCEPT ![t] = [NoCt EXCEPT !.pc = "getch", !.left = n]]
      BY <2>1 DEF con_io_read, Ct
    <3>3. ct'[t].pc = "getch"
      BY <1>t, <3>2 DEF ConType, NoCt
    <3>4. \A u \in ConThread : ct[u].pc \notin Reading
      BY <1>t, <3>1, ConAssumption DEF ReadSem
    <3>5. ~Taker /\ ~Taker'
      BY <1>1, <3>3, <3>4 DEF Taker, Reading
    <3> QED
      BY <1>t, <1>1, <2>a, <2>b, <3>1, <3>3, <3>4, <3>5 DEF ReadSem, CAt, Reading
  <2>2. CASE ~con_io_read(t)
    <3>1. cs.rlock = t /\ r.pc \in Reading /\ \A u \in ConThread : u # t => ct[u].pc \notin Reading
      BY <1>t, <2>2 DEF ReadSem, getch_intr, getch_take, con_io_more, CAt, Reading
    <3>2. /\ Taker <=> r.pc \in {"take", "tail"}
          /\ Taker' <=> ct'[t].pc \in {"take", "tail"}
      BY <1>1, <3>1 DEF Taker, Reading
    <3>3. CASE getch_intr(t)
      <4>1. r.pc = "getch" /\ cs.rsem > 0 /\ cs'.rsem = cs.rsem - 1 /\ cs'.rlock = cs.rlock
        BY <1>t, <3>3 DEF getch_intr, CAt, ConType
      <4>2. ct'[t].pc = "take"
        BY <1>t, <3>3 DEF getch_intr, Ct, ConType, NoCt
      <4> QED
        BY <1>t, <1>1, <2>a, <2>b, <3>1, <3>2, <4>1, <4>2, SMT DEF ReadSem, CAt, Reading
    <3>4. CASE getch_take(t)
      <4>1. r.pc = "take" /\ cs' = cs
        BY <3>4 DEF getch_take, CAt
      <4>2. ct'[t].pc = "tail" /\ ct'[t].ch = cs.gotchars[cs.tail]
        BY <1>t, <3>4 DEF getch_take, Ct, ConType, NoCt
      <4>3. Count >= 1
        BY <1>t, <3>2, <4>1, SMT DEF ReadSem
      <4>4. cs.gotchars[cs.tail] = accepted[Len(got) + 1]
        <5>1. 0 \in Ring /\ Pos(0) = cs.tail /\ 0 < Count /\ Len(got) \in Nat
          BY <1>t, <4>3, ConAssumption, SMT DEF RingState, Ring, Pos
        <5>2. cs.gotchars[Pos(0)] = accepted[Len(got) + 1 + 0]
          BY <1>t, <5>1 DEF RingState
        <5>3. Len(got) + 1 + 0 = Len(got) + 1
          BY <5>1, SMT
        <5> QED
          BY <5>1, <5>2, <5>3
      <4> QED
        BY <1>t, <1>1, <2>a, <2>b, <3>1, <3>2, <4>1, <4>2, <4>4 DEF ReadSem, CAt, Reading
    <3>5. CASE con_io_more(t)
      <4>1. r.pc = "read" /\ cs'.rsem = cs.rsem
        BY <1>t, <3>5 DEF con_io_more, CAt, ConType
      <4>2. \/ ct'[t].pc = "getch" /\ cs'.rlock = cs.rlock
            \/ ct'[t].pc = "out"
        BY <1>t, <3>5, SMT DEF con_io_more, Ct, ConType, NoCt
      <4> QED
        BY <1>t, <1>1, <2>a, <2>b, <3>1, <3>2, <4>1, <4>2 DEF ReadSem, CAt, Reading
    <3> QED
      BY <2>2, <3>3, <3>4, <3>5
  <2> QED
    BY <2>1, <2>2
<1> QED
  BY <1>t, <1>4, <1>5, <1>6, <1>7, OutputKept DEF ConInv

\* The tail moves on: what was at position k + 1 is at position k.
LEMMA ConTail ==
    ASSUME ConInv, NEW t \in ConThread, UNCHANGED bus, getch_tail(t)
    PROVE  ConInv'
<1>t. ConType /\ OneToken /\ PortState /\ RingState /\ ReadSem
  BY DEF ConInv
<1> DEFINE r == ct[t]
           N == CONSOLE_INPUT_BUFFER_SIZE
           NewPos(k) == IF cs'.tail + k < N THEN cs'.tail + k ELSE cs'.tail + k - N
<1>1. /\ r.pc = "tail" /\ cs' = [cs EXCEPT !.tail = (@ + 1) % N] /\ got' = Append(got, r.ch)
      /\ UNCHANGED <<ls, typed, accepted>>
  BY DEF getch_tail, CAt
<1>2. /\ DOMAIN ct' = ConThread /\ \A u \in ConThread : u # t => ct'[u] = ct[u]
      /\ DOMAIN ct'[t] = DOMAIN NoCt /\ ct'[t].pc = "read"
  BY <1>t DEF getch_tail, Ct, ConType, NoCt
<1>3. ConType'
  BY <1>t, <1>1, <1>2 DEF ConType, Reading
<1>4. SameOutput
  BY <1>t, <1>1, <1>2 DEF ConType, SameOutput, Polling
<1>5. \A u \in ConThread : u # t => ct[u].pc \notin Reading
  BY <1>t, <1>1 DEF ReadSem, Reading
<1>6. Taker /\ ~Taker'
  BY <1>1, <1>2, <1>5 DEF Taker, Reading
<1>7. N \in Nat /\ cs.tail \in 0 .. N - 1 /\ Count \in 1 .. N - 1 /\ Len(got) \in Nat /\ Len(accepted) \in Nat
  BY <1>t, <1>6, ConAssumption, SMT DEF RingState, ReadSem, Ring
<1>8. r.ch = accepted[Len(got) + 1] /\ r.ch \in Nat
  <2>1. Len(got) + 1 \in 1 .. Len(accepted)
    BY <1>7, SMT DEF Count
  <2> QED
    BY <1>t, <1>1, <2>1, SMT DEF RingState, ReadSem, CAt
<1>9. /\ Len(got') = Len(got) + 1 /\ Count' = Count - 1 /\ got' \in Seq(Nat)
      /\ \A i \in 1 .. Len(got) : got'[i] = got[i]
      /\ got'[Len(got) + 1] = r.ch
  BY <1>t, <1>1, <1>7, <1>8, SMT DEF RingState, Count
<1>10. cs'.tail = IF cs.tail + 1 < N THEN cs.tail + 1 ELSE 0
  <2>1. cs'.tail = (cs.tail + 1) % N
    BY <1>t, <1>1 DEF ConType
  <2> QED
    BY <1>7, <2>1, Wraps, SMTT(30)
<1>11. \A k \in Nat : k + 1 < N => NewPos(k) = Pos(k + 1)
  BY <1>7, <1>10, SMTT(30) DEF Pos
<1>12. cs'.head = cs.head /\ cs'.gotchars = cs.gotchars /\ cs'.rsem = cs.rsem /\ cs'.rlock = cs.rlock
  BY <1>t, <1>1 DEF ConType
<1>13. RingState'
  <2>1. cs'.tail \in Ring /\ cs'.head \in Ring /\ DOMAIN cs'.gotchars = Ring /\ Count' \in Ring
    BY <1>t, <1>7, <1>9, <1>10, <1>12, SMTT(30) DEF RingState, Ring
  <2>2. cs'.head = NewPos(Count')
    <3>1. Count - 1 \in Nat /\ (Count - 1) + 1 = Count /\ Count < N
      BY <1>7, SMT
    <3>2. NewPos(Count - 1) = Pos(Count)
      BY <1>11, <3>1
    <3> QED
      BY <1>t, <1>9, <1>12, <3>2 DEF RingState
  <2>3. ASSUME NEW k \in Ring, k < Count'
        PROVE  cs'.gotchars[NewPos(k)] = accepted'[Len(got') + 1 + k]
    <3>1. k + 1 \in Ring /\ k + 1 < Count /\ k \in Nat /\ k + 1 < N
      BY <1>7, <1>9, <2>3, SMT DEF Ring
    <3>2. cs.gotchars[Pos(k + 1)] = accepted[Len(got) + 1 + (k + 1)]
      BY <1>t, <3>1 DEF RingState
    <3>3. Len(got) + 1 + (k + 1) = Len(got') + 1 + k
      BY <1>7, <1>9, <3>1, SMT
    <3> QED
      BY <1>1, <1>11, <1>12, <3>1, <3>2, <3>3
  <2>4. \A i \in 1 .. Len(got') : got'[i] = accepted'[i]
    BY <1>t, <1>1, <1>7, <1>8, <1>9, SMTT(30) DEF RingState
  <2> QED
    BY <1>t, <1>1, <1>9, <2>1, <2>2, <2>3, <2>4 DEF RingState, Pos, Count
<1>14. ReadSem'
  <2>1. OwedV' <=> OwedV
    BY <1>1 DEF OwedV
  <2>2. cs'.rsem + (IF OwedV' THEN 1 ELSE 0) = Count'
    BY <1>t, <1>6, <1>7, <1>9, <1>12, <2>1, SMTT(30) DEF ReadSem
  <2>3. \A u \in ConThread : /\ ct'[u].pc \in Reading => cs'.rlock = u
                             /\ ~CAt(u, "tail")'
    BY <1>t, <1>1, <1>2, <1>5, <1>12 DEF ReadSem, CAt, Reading
  <2> QED
    BY <1>t, <1>6, <1>12, <2>2, <2>3, SMT DEF ReadSem
<1> QED
  BY <1>t, <1>3, <1>4, <1>13, <1>14, OutputKept DEF ConInv

\* con_input puts a character at the head, if there is room for it.
LEMMA ConInputMoves ==
    ASSUME ConInv, bus.pc = "con_input", con_input, bus'.pc = "con_V"
    PROVE  ConInv'
<1>t. ConType /\ OneToken /\ PortState /\ RingState /\ ReadSem
  BY DEF ConInv
<1> DEFINE N == CONSOLE_INPUT_BUFFER_SIZE
           nexthead == (cs.head + 1) % N
           keep == ls.input # 0 /\ nexthead # cs.tail
<1>1. /\ cs' = IF keep THEN [cs EXCEPT !.gotchars[cs.head] = ls.input, !.head = nexthead] ELSE cs
      /\ accepted' = IF keep THEN Append(accepted, ls.input) ELSE accepted
      /\ ls' = [ls EXCEPT !.input = IF keep THEN @ ELSE 0]
      /\ UNCHANGED <<ct, typed, got>>
  BY DEF con_input
<1> HIDE DEF keep, nexthead
<1>2. ConType'
  BY <1>t, <1>1 DEF ConType
<1>3. SameOutput
  BY <1>t, <1>1 DEF ConType, SameOutput, OneToken
<1>4. ~OwedV /\ (OwedV' <=> keep)
  BY <1>t, <1>1 DEF OwedV, ConType, keep
<1>5. CASE ~keep
  <2>1. SameInput
    BY <1>t, <1>1, <1>4, <1>5 DEF SameInput
  <2> QED
    BY <1>t, <1>2, <1>3, <2>1, OutputKept, InputKept DEF ConInv
<1>6. CASE keep
  <2>1. /\ N \in Nat \ {0} /\ cs.tail \in 0 .. N - 1 /\ cs.head \in 0 .. N - 1 /\ Count \in 0 .. N - 1
        /\ Len(got) \in Nat /\ Len(accepted) \in Nat /\ cs.head = Pos(Count)
    BY <1>t, ConAssumption, SMT DEF RingState, Ring
  <2>2. nexthead = IF cs.head + 1 < N THEN cs.head + 1 ELSE 0
    BY <2>1, Wraps, SMT DEF nexthead
  <2>3. Count + 1 < N /\ nexthead = Pos(Count + 1)
    <3>1. nexthead # cs.tail
      BY <1>6 DEF keep
    <3> QED
      BY <2>1, <2>2, <3>1, SMTT(30) DEF Pos
  <2>4. /\ cs'.tail = cs.tail /\ cs'.head = nexthead /\ cs'.rsem = cs.rsem /\ cs'.rlock = cs.rlock
        /\ cs'.gotchars = [cs.gotchars EXCEPT ![cs.head] = ls.input]
    BY <1>t, <1>1, <1>6 DEF ConType
  <2>5. /\ accepted' \in Seq(Nat) /\ Len(accepted') = Len(accepted) + 1
        /\ \A i \in 1 .. Len(accepted) : accepted'[i] = accepted[i]
        /\ accepted'[Len(accepted) + 1] = ls.input
    BY <1>t, <1>1, <1>6, SMT DEF RingState, ConType
  <2>6. Count' = Count + 1 /\ Len(got') = Len(got)
    BY <1>1, <2>1, <2>5, SMT DEF Count
  <2>7. RingState'
    <3>1. \A k \in Ring : Pos(k) \in Ring /\ (k < Count => Pos(k) # cs.head)
      <4> SUFFICES ASSUME NEW k \in 0 .. N - 1
                   PROVE  Pos(k) \in 0 .. N - 1 /\ (k < Count => Pos(k) # cs.head)
        BY DEF Ring
      <4>1. cs.head = IF cs.tail + Count < N THEN cs.tail + Count ELSE cs.tail + Count - N
        BY <2>1 DEF Pos
      <4> QED
        BY <2>1, <4>1, SMTT(30) DEF Pos
    <3>2. ASSUME NEW k \in Ring, k < Count'
          PROVE  cs'.gotchars[Pos(k)] = accepted'[Len(got) + 1 + k]
      <4>1. CASE k < Count
        <5>1. cs.gotchars[Pos(k)] = accepted[Len(got) + 1 + k]
          BY <1>t, <4>1 DEF RingState
        <5>2. Len(got) + 1 + k \in 1 .. Len(accepted)
          BY <2>1, <4>1, SMT DEF Count, Ring
        <5> QED
          BY <1>t, <2>4, <2>5, <3>1, <4>1, <5>1, <5>2 DEF RingState
      <4>2. CASE k = Count
        <5>1. Len(got) + 1 + k = Len(accepted) + 1
          BY <2>1, <4>2, SMT DEF Count
        <5> QED
          BY <1>t, <2>1, <2>4, <2>5, <4>2, <5>1 DEF RingState
      <4> QED
        BY <2>1, <2>6, <3>2, <4>1, <4>2, SMT DEF Ring
    <3>3. \A i \in 1 .. Len(got') : got'[i] = accepted'[i]
      BY <1>t, <1>1, <2>1, <2>5, SMT DEF RingState, Count
    <3>4. cs'.tail \in Ring /\ cs'.head \in Ring /\ DOMAIN cs'.gotchars = Ring /\ Count' \in Ring
      BY <1>t, <2>1, <2>2, <2>3, <2>4, <2>6, SMT DEF RingState, Ring
    <3>5. cs'.head = IF cs'.tail + Count' < N THEN cs'.tail + Count' ELSE cs'.tail + Count' - N
      BY <2>3, <2>4, <2>6 DEF Pos
    <3>6. \A k \in Ring : k < Count' => cs'.gotchars[Pos(k)'] = accepted'[Len(got') + 1 + k]
      BY <2>4, <2>6, <3>2 DEF Pos
    <3>7. got' \in Seq(Nat) /\ accepted' \in Seq(Nat)
      BY <1>t, <1>1, <2>5 DEF RingState
    <3> QED
      BY <3>3, <3>4, <3>5, <3>6, <3>7 DEF RingState, Pos
  <2>8. ReadSem'
    <3>1. Taker' <=> Taker
      BY <1>1 DEF Taker
    <3>2. \A t \in ConThread : CAt(t, "tail") => accepted'[Len(got) + 1] = accepted[Len(got) + 1]
      <4> SUFFICES ASSUME NEW t \in ConThread, CAt(t, "tail")
                   PROVE  accepted'[Len(got) + 1] = accepted[Len(got) + 1]
        OBVIOUS
      <4>1. Taker
        BY DEF Taker, CAt
      <4>2. Len(got) + 1 \in 1 .. Len(accepted)
        BY <1>t, <2>1, <4>1, SMTT(30) DEF ReadSem, Count
      <4> QED
        BY <2>5, <4>2
    <3>3. cs'.rsem + (IF Taker' THEN 1 ELSE 0) + (IF OwedV' THEN 1 ELSE 0) = Count'
      BY <1>t, <1>4, <1>6, <2>1, <2>4, <2>6, <3>1, SMT DEF ReadSem
    <3>4. \A t \in ConThread : /\ ct'[t].pc \in Reading => cs'.rlock = t
                               /\ CAt(t, "tail")' => ct'[t].ch = accepted'[Len(got') + 1]
      <4> SUFFICES ASSUME NEW t \in ConThread
                   PROVE  /\ ct'[t].pc \in Reading => cs'.rlock = t
                          /\ CAt(t, "tail")' => ct'[t].ch = accepted'[Len(got') + 1]
        OBVIOUS
      <4>1. ct'[t] = ct[t]
        BY <1>1
      <4>2. /\ ct[t].pc \in Reading => cs.rlock = t
            /\ CAt(t, "tail") => ct[t].ch = accepted[Len(got) + 1]
        BY <1>t DEF ReadSem
      <4> QED
        BY <2>4, <2>6, <3>2, <4>1, <4>2 DEF CAt
    <3> QED
      BY <1>t, <2>4, <3>3, <3>4 DEF ReadSem
  <2> QED
    BY <1>t, <1>2, <1>3, <2>7, <2>8, OutputKept DEF ConInv
<1> QED
  BY <1>5, <1>6

\* con_input gives V(cs_rsem) for what it kept.
LEMMA ConInputVMoves ==
    ASSUME ConInv, bus.pc = "con_V", con_input_V, bus'.pc = "scan"
    PROVE  ConInv'
<1>t. ConType /\ OneToken /\ PortState /\ RingState /\ ReadSem
  BY DEF ConInv
<1>1. /\ cs' = IF ls.input # 0 THEN [cs EXCEPT !.rsem = @ + 1] ELSE cs
      /\ ls' = [ls EXCEPT !.input = 0] /\ UNCHANGED <<ct, typed, accepted, got>>
  BY DEF con_input_V, history
<1>2. ConType'
  BY <1>t, <1>1 DEF ConType
<1>3. SameOutput
  BY <1>t, <1>1 DEF ConType, SameOutput, OneToken
<1>4. /\ cs'.tail = cs.tail /\ cs'.head = cs.head /\ cs'.rlock = cs.rlock /\ cs'.gotchars = cs.gotchars
      /\ cs'.rsem = IF ls.input # 0 THEN cs.rsem + 1 ELSE cs.rsem
  BY <1>t, <1>1 DEF ConType
<1>5. RingState'
  BY <1>t, <1>1, <1>4 DEF RingState, Count, Pos
<1>6. (OwedV <=> ls.input # 0) /\ ~OwedV' /\ (Taker' <=> Taker) /\ Count' = Count
  BY <1>1 DEF OwedV, Taker, Count
<1>7. cs'.rsem \in Nat /\ cs'.rsem + (IF Taker' THEN 1 ELSE 0) + (IF OwedV' THEN 1 ELSE 0) = Count'
  BY <1>t, <1>4, <1>6, SMT DEF ReadSem
<1>8. ReadSem'
  BY <1>t, <1>1, <1>4, <1>7 DEF ReadSem, CAt
<1> QED
  BY <1>t, <1>2, <1>3, <1>5, <1>8, OutputKept DEF ConInv

\* No other step concerns the console.
LEMMA ConQuiet ==
    ASSUME ConInv, UNCHANGED convars, bus'.pc = "con_V" <=> bus.pc = "con_V",
           bus.pc = "con_start" => bus'.pc = bus.pc
    PROVE  ConInv'
<1>1. UNCHANGED <<cs, ls, ct, typed, accepted, got>>
  BY DEF convars
<1>2. ConType'
  BY <1>1 DEF ConInv, ConType
<1>3. SameOutput
  BY <1>1 DEF ConInv, SameOutput, OneToken
<1>4. SameInput
  BY <1>1 DEF SameInput, OwedV
<1> QED
  BY <1>2, <1>3, <1>4, OutputKept, InputKept DEF ConInv

-----------------------------------------------------------------------------
(* The emulator file system *)

OnCard == {"opening", "closing", "io", "reclaiming"}
Codes == {"SUCCESS", "MEDIA"}

EmuType ==
    /\ DOMAIN em = {"lock", "sem", "oper", "handle", "code", "reply", "result", "fatal"}
    /\ em.sem \in {0, 1}
    /\ em.oper \in {"none", "open", "close", "io"}
    /\ em.code \in {"none"} \cup Codes /\ em.result \in {"none"} \cup Codes
    /\ ~em.fatal
    /\ hopen \subseteq Handle
    /\ refs \in [Handle -> Nat]
    /\ DOMAIN et = EmuThread
    /\ \A t \in EmuThread :
          /\ DOMAIN et[t] = DOMAIN NoEt
          /\ et[t].pc \in {"out", "open", "load", "table", "close", "reclaim", "count"} \cup OnCard
          /\ et[t].fd \in Handle \cup {None}
          /\ et[t].fd # None => et[t].pc \in {"out", "io"}
          /\ et[t].pc \in {"reclaim", "count", "reclaiming"} => et[t].h \in Handle
          /\ et[t].pc = "io" => et[t].fd # None

\* The card has one user.  Its operation is at work, finished, read by emu_irq
\* or signalled; and emu_irq is called only for an operation that is finished.
EmuCard ==
    /\ \A t \in EmuThread : et[t].pc \in OnCard <=> em.lock = t
    /\ em.lock = None => em.oper = "none" /\ em.code = "none" /\ bus.pc # "emu_V" /\ em.sem = 0
    /\ em.oper # "none" => em.lock \in EmuThread /\ em.code = "none" /\ bus.pc # "emu_V" /\ em.sem = 0
    /\ em.code # "none" => bus.pc # "emu_V" /\ em.sem = 0
    /\ bus.pc = "emu_V" => em.sem = 0
    /\ bus.pc = "emu" => em.code # "none"
    /\ 3 \in bus.irqs /\ bus.slot <= 3 /\ bus.pc # "emu_V" => em.code # "none"

\* The operation is over and has succeeded.
Succeeded ==
    \/ em.code = "SUCCESS"
    \/ (bus.pc = "emu_V" \/ em.sem = 1) /\ em.result = "SUCCESS"

\* The operation on the card is the one its user asked for.
EmuOper ==
    \A t \in EmuThread :
        em.oper # "none" =>
            /\ EAt(t, "opening") => em.oper = "open"
            /\ et[t].pc \in {"closing", "reclaiming"} => em.oper = "close" /\ em.handle = et[t].h
            /\ EAt(t, "io") => em.oper = "io" /\ em.handle = et[t].fd

\* A handle that was opened and is not in ef_vnodes yet belongs to one thread.
NewHandle(t, h) ==
    \/ et[t].pc \in {"load", "table", "close", "closing"} /\ et[t].h = h
    \/ EAt(t, "opening") /\ Succeeded /\ em.reply = h

EmuNew ==
    /\ \A t \in EmuThread : et[t].pc \in {"load", "table", "close", "closing"} => et[t].h \in Handle
    /\ \A t \in EmuThread : EAt(t, "opening") /\ Succeeded => em.reply \in Handle
    /\ \A t \in EmuThread, h \in Handle :
          NewHandle(t, h) => refs[h] = 0 /\ (h \in hopen \/ (EAt(t, "closing") /\ Succeeded))
    /\ \A t, u \in EmuThread, h \in Handle : NewHandle(t, h) /\ NewHandle(u, h) => t = u

Holder(t, h) == et[t].fd = h \/ (et[t].h = h /\ et[t].pc \in {"reclaim", "count"})
Holders(h) == {t \in EmuThread : Holder(t, h)}

\* A vnode is counted for its holders; the one being reclaimed has none.
EmuRefs ==
    \A h \in Handle :
        /\ Cardinality(Holders(h)) <= refs[h]
        /\ \A t \in EmuThread :
              EAt(t, "reclaiming") /\ et[t].h = h =>
                 refs[h] = 1 /\ Holders(h) = {} /\ (h \in hopen \/ Succeeded)
        /\ refs[h] > 0 => h \in hopen \/ \E t \in EmuThread : EAt(t, "reclaiming") /\ et[t].h = h

EmuInv == EmuType /\ EmuCard /\ EmuOper /\ EmuNew /\ EmuRefs

\* A step of thread t alone.
Alone(t) ==
    /\ DOMAIN et' = EmuThread /\ DOMAIN et'[t] = DOMAIN NoEt
    /\ \A u \in EmuThread : u # t => et'[u] = et[u]

\* Steps that neither use the card nor the counts.
LEMMA EmuWalk ==
    ASSUME EmuInv, NEW t \in EmuThread, UNCHANGED <<em, hopen, refs, bus>>, Alone(t),
           et'[t].h = et[t].h, et'[t].fd = et[t].fd,
           \/ et[t].pc = "out" /\ et[t].fd = None /\ et'[t].pc = "open"
           \/ et[t].pc = "load" /\ et'[t].pc = "table"
           \/ et[t].pc = "table" /\ et'[t].pc = "close"
           \/ et[t].pc = "reclaim" /\ et'[t].pc = "count"
    PROVE  EmuInv'
<1>t. EmuType /\ EmuCard /\ EmuOper /\ EmuNew /\ EmuRefs
  BY DEF EmuInv
<1>1. \A u \in EmuThread : /\ et'[u].h = et[u].h /\ et'[u].fd = et[u].fd
                           /\ et'[u].pc \in OnCard <=> et[u].pc \in OnCard
                           /\ et[u].pc \in OnCard => et'[u].pc = et[u].pc
  BY DEF Alone, OnCard
<1>2. Succeeded' <=> Succeeded
  BY DEF Succeeded
<1>3. EmuType'
  BY <1>t DEF EmuType, Alone, OnCard
<1>4. EmuCard'
  BY <1>t, <1>1 DEF EmuCard
<1>5. EmuOper'
  BY <1>t, <1>1, SMT DEF EmuOper, EAt, OnCard
<1>6. \A u \in EmuThread, h \in Handle : NewHandle(u, h)' <=> NewHandle(u, h)
  BY <1>1, <1>2 DEF NewHandle, EAt, OnCard, Alone
<1>7. EmuNew'
  <2>1. \A u \in EmuThread : et'[u].pc \in {"load", "table", "close", "closing"} => et'[u].h \in Handle
    BY <1>t DEF EmuNew, Alone
  <2>2. \A u \in EmuThread : /\ EAt(u, "opening")' <=> EAt(u, "opening")
                             /\ EAt(u, "closing")' <=> EAt(u, "closing")
    BY <1>1 DEF EAt, OnCard
  <2> QED
    BY <1>t, <1>2, <1>6, <2>1, <2>2 DEF EmuNew
<1>8. \A h : Holders(h)' = Holders(h)
  BY SMT DEF Holders, Holder, Alone
<1>9. \A u \in EmuThread : EAt(u, "reclaiming")' <=> EAt(u, "reclaiming")
  BY <1>1 DEF EAt, OnCard
<1>10. EmuRefs'
  BY <1>t, <1>1, <1>2, <1>8, <1>9, SMT DEF EmuRefs
<1> QED
  BY <1>3, <1>4, <1>5, <1>7, <1>10 DEF EmuInv

\* Steps of emufs that only take vfs_biglock, or give up.
LEMMA EmuWalks ==
    ASSUME EmuInv, NEW t \in EmuThread, UNCHANGED bus,
           \/ emufs_lookup(t) \/ emufs_creat(t) \/ emufs_loadvnode_biglock(t)
           \/ emufs_loadvnode_fail(t) \/ emufs_reclaim_biglock(t)
    PROVE  EmuInv'
<1>t. EmuType
  BY DEF EmuInv
<1>1. CASE emufs_lookup(t)
  BY <1>t, <1>1, EmuWalk DEF emufs_lookup, Et, EAt, EmuType, NoEt, Alone
<1>2. CASE emufs_creat(t)
  BY <1>t, <1>2, EmuWalk DEF emufs_creat, Et, EAt, EmuType, NoEt, Alone
<1>3. CASE emufs_loadvnode_biglock(t)
  BY <1>t, <1>3, EmuWalk DEF emufs_loadvnode_biglock, Et, EAt, EmuType, NoEt, Alone
<1>4. CASE emufs_loadvnode_fail(t)
  BY <1>t, <1>4, EmuWalk DEF emufs_loadvnode_fail, Et, EAt, EmuType, NoEt, Alone
<1>5. CASE emufs_reclaim_biglock(t)
  BY <1>t, <1>5, EmuWalk DEF emufs_reclaim_biglock, Et, EAt, EmuType, NoEt, Alone
<1> QED
  BY <1>1, <1>2, <1>3, <1>4, <1>5

\* A thread that has been signalled gives up e_lock, or tries again.
LEMMA EmuSignalled ==
    ASSUME EmuInv, NEW t \in EmuThread, et[t].pc \in OnCard, em.sem > 0
    PROVE  /\ em.lock = t /\ em.sem = 1 /\ em.oper = "none" /\ em.code = "none" /\ bus.pc # "emu_V"
           /\ Succeeded <=> em.result = "SUCCESS"
           /\ \A u \in EmuThread : u # t => et[u].pc \notin OnCard
           /\ em.lock # None
           /\ DOMAIN Done = DOMAIN em /\ Done.sem = 0 /\ ~Done.fatal
           /\ Done.oper = em.oper /\ Done.code = em.code /\ Done.result = em.result
<1>t. EmuType /\ EmuCard
  BY DEF EmuInv
<1>1. em.lock = t /\ em.sem = 1 /\ \A u \in EmuThread : u # t => et[u].pc \notin OnCard
  BY <1>t, SMT DEF EmuType, EmuCard
<1>2. em.oper = "none" /\ em.code = "none" /\ bus.pc # "emu_V" /\ em.lock # None
  BY <1>t, <1>1, EmuAssumption, SMT DEF EmuType, EmuCard
<1>3. Succeeded <=> em.result = "SUCCESS"
  BY <1>1, <1>2 DEF Succeeded
<1>4. em.result # "BADHANDLE"
  BY <1>t DEF EmuType, Codes
<1>5. /\ DOMAIN Done = DOMAIN em /\ Done.sem = 0 /\ ~Done.fatal
      /\ Done.oper = em.oper /\ Done.code = em.code /\ Done.result = em.result
  <2>1. (em.fatal \/ em.result = "BADHANDLE") = FALSE
    BY <1>t, <1>4 DEF EmuType
  <2>2. Done = [em EXCEPT !.sem = @ - 1, !.fatal = FALSE]
    BY <2>1 DEF Done
  <2>3. /\ DOMAIN Done = DOMAIN em /\ Done.sem = em.sem - 1 /\ ~Done.fatal
        /\ Done.oper = em.oper /\ Done.code = em.code /\ Done.result = em.result
    BY <1>t, <2>2 DEF EmuType
  <2> QED
    BY <1>1, <2>3, SMT
<1> QED
  BY <1>1, <1>2, <1>3, <1>5

\* A failed close is tried again: the handle is still open.
LEMMA EmuRetry ==
    ASSUME EmuInv, NEW t \in EmuThread, UNCHANGED bus, emu_close_retry(t)
    PROVE  EmuInv'
<1>t. EmuType /\ EmuCard /\ EmuOper /\ EmuNew /\ EmuRefs
  BY DEF EmuInv
<1>1. /\ et[t].pc \in {"closing", "reclaiming"} /\ em.sem > 0 /\ em.result = "MEDIA"
      /\ em' = [Done EXCEPT !.oper = "close", !.handle = et[t].h]
      /\ et' = [et EXCEPT ![t] = [et[t] EXCEPT !.tries = @ + 1]] /\ UNCHANGED <<hopen, refs>>
  BY DEF emu_close_retry, Waitdone, EAt, Retry, Start, Et
<1>2. et[t].pc \in OnCard
  BY <1>1 DEF OnCard
<1>3. /\ em.lock = t /\ em.sem = 1 /\ em.oper = "none" /\ em.code = "none" /\ bus.pc # "emu_V"
      /\ Succeeded <=> em.result = "SUCCESS"
      /\ \A u \in EmuThread : u # t => et[u].pc \notin OnCard
  BY <1>1, <1>2, EmuSignalled
<1>4. /\ DOMAIN em' = DOMAIN em /\ em'.sem = 0 /\ ~em'.fatal /\ em'.lock = t
      /\ em'.oper = "close" /\ em'.code = "none" /\ em'.result = em.result /\ em'.handle = et[t].h
  <2>1. Done.lock = em.lock
    BY <1>t DEF EmuType, Done
  <2> QED
    BY <1>t, <1>1, <1>2, <1>3, <2>1, EmuSignalled DEF EmuType
<1>5. DOMAIN et' = EmuThread
  BY <1>t, <1>1 DEF EmuType
<1>6. \A u \in EmuThread : /\ DOMAIN et'[u] = DOMAIN et[u]
                           /\ et'[u].pc = et[u].pc /\ et'[u].h = et[u].h /\ et'[u].fd = et[u].fd
  BY <1>t, <1>1 DEF EmuType, NoEt
<1>7. ~Succeeded /\ ~Succeeded'
  BY <1>1, <1>3, <1>4 DEF Succeeded
<1>8. EmuType'
  BY <1>t, <1>1, <1>4, <1>5, <1>6, SMTT(30) DEF EmuType
<1>9. EmuCard'
  BY <1>t, <1>3, <1>4, <1>6, EmuAssumption, SMT DEF EmuCard
<1>10. EmuOper'
  BY <1>1, <1>3, <1>4, <1>6, SMT DEF EmuOper, EAt, OnCard
<1>11. \A u \in EmuThread, h \in Handle : NewHandle(u, h)' <=> NewHandle(u, h)
  BY <1>6, <1>7 DEF NewHandle, EAt
<1>12. EmuNew'
  BY <1>t, <1>1, <1>6, <1>7, <1>11 DEF EmuNew, EAt
<1>13. \A h \in Handle : Holders(h)' = Holders(h)
  BY <1>6 DEF Holders, Holder
<1>14. EmuRefs'
  BY <1>t, <1>1, <1>6, <1>7, <1>13, SMT DEF EmuRefs, EAt
<1> QED
  BY <1>8, <1>9, <1>10, <1>12, <1>14 DEF EmuInv


\* A thread outside the card moves between places outside the card.
LEMMA EmuCountFrame ==
    ASSUME EmuInv, NEW t \in EmuThread, UNCHANGED <<em, hopen, bus>>, Alone(t),
           et[t].pc \notin OnCard, et'[t].pc \notin OnCard
    PROVE  /\ EmuCard' /\ EmuOper' /\ (Succeeded' <=> Succeeded)
           /\ \A u \in EmuThread : u # t =>
                 \A h \in Handle : /\ NewHandle(u, h)' <=> NewHandle(u, h)
                                   /\ Holder(u, h)' <=> Holder(u, h)
<1>1. \A u \in EmuThread : /\ et'[u].pc \in OnCard <=> et[u].pc \in OnCard
                           /\ et[u].pc \in OnCard => et'[u] = et[u]
  BY DEF Alone
<1>2. EmuCard'
  BY <1>1 DEF EmuInv, EmuCard
<1>3. EmuOper'
  BY <1>1 DEF EmuInv, EmuOper, EAt, OnCard
<1>4. Succeeded' <=> Succeeded
  BY DEF Succeeded
<1>5. \A u \in EmuThread : u # t => \A h \in Handle : /\ NewHandle(u, h)' <=> NewHandle(u, h)
                                                      /\ Holder(u, h)' <=> Holder(u, h)
  BY <1>4 DEF Alone, NewHandle, Holder, EAt
<1> QED
  BY <1>2, <1>3, <1>4, <1>5

\* emu_irq saves the result, then signals the thread that waits for it.
LEMMA EmuIrqMoves ==
    ASSUME EmuInv, BusType,
           \/ bus.pc = "emu" /\ emu_irq /\ bus'.pc = "emu_V" /\ bus'.irqs = bus.irqs /\ bus'.slot = bus.slot
           \/ bus.pc = "emu_V" /\ emu_irq_V /\ bus'.pc = "scan" /\ (3 \in bus'.irqs => em'.code # "none")
    PROVE  EmuInv'
<1>t. EmuType /\ EmuCard /\ EmuOper /\ EmuNew /\ EmuRefs
  BY DEF EmuInv
<1>1. UNCHANGED <<hopen, refs, et>>
  BY DEF emu_irq, emu_irq_V
<1>2. /\ DOMAIN em' = DOMAIN em /\ em'.lock = em.lock /\ em'.oper = em.oper /\ em'.reply = em.reply
      /\ em'.handle = em.handle /\ em'.fatal = em.fatal
  <2>1. CASE emu_irq
    BY <1>t, <2>1 DEF emu_irq, EmuType
  <2>2. CASE emu_irq_V
    BY <1>t, <2>2 DEF emu_irq_V, EmuType
  <2> QED
    BY <2>1, <2>2
<1>3. CASE bus.pc = "emu" /\ emu_irq /\ bus'.pc = "emu_V" /\ bus'.irqs = bus.irqs /\ bus'.slot = bus.slot
  <2>1. em'.result = em.code /\ em'.code = "none" /\ em'.sem = em.sem
    BY <1>t, <1>3 DEF emu_irq, EmuType
  <2>2. em.code # "none" /\ em.sem = 0 /\ em.oper = "none" /\ em.lock # None
    BY <1>t, <1>3 DEF EmuCard
  <2>3. Succeeded' <=> Succeeded
    BY <1>3, <2>1, <2>2, SMT DEF Succeeded
  <2>4. EmuType'
    BY <1>t, <1>1, <1>2, <2>1 DEF EmuType
  <2>5. EmuCard'
    BY <1>t, <1>1, <1>2, <1>3, <2>1, <2>2 DEF EmuCard
  <2>6. EmuOper' /\ EmuNew' /\ EmuRefs'
    BY <1>t, <1>1, <1>2, <2>3, SMT DEF EmuOper, EmuNew, EmuRefs, NewHandle, Holders, Holder, EAt
  <2> QED
    BY <2>4, <2>5, <2>6 DEF EmuInv
<1>4. CASE bus.pc = "emu_V" /\ emu_irq_V /\ bus'.pc = "scan" /\ (3 \in bus'.irqs => em'.code # "none")
  <2>1. em'.result = em.result /\ em'.code = em.code /\ em'.sem = em.sem + 1
    BY <1>t, <1>4 DEF emu_irq_V, EmuType
  <2>2. em.code = "none" /\ em.sem = 0 /\ em.oper = "none" /\ em.lock # None
    BY <1>t, <1>4 DEF EmuCard
  <2>3. Succeeded' <=> Succeeded
    BY <1>4, <2>1, <2>2, SMTT(30) DEF Succeeded
  <2>4. EmuType'
    BY <1>t, <1>1, <1>2, <2>1, <2>2, SMT DEF EmuType
  <2>5. EmuCard'
    BY <1>t, <1>1, <1>2, <1>4, <2>1, <2>2 DEF EmuCard
  <2>6. EmuOper' /\ EmuNew' /\ EmuRefs'
    BY <1>t, <1>1, <1>2, <2>3, SMT DEF EmuOper, EmuNew, EmuRefs, NewHandle, Holders, Holder, EAt
  <2> QED
    BY <2>4, <2>5, <2>6 DEF EmuInv
<1> QED
  BY <1>3, <1>4

\* No other step concerns the emulator.
EmuSame ==
    /\ UNCHANGED emuvars
    /\ bus'.pc = "emu_V" <=> bus.pc = "emu_V"
    /\ bus'.pc = "emu" => em.code # "none"
    /\ 3 \in bus'.irqs /\ bus'.slot <= 3 /\ bus'.pc # "emu_V" => em.code # "none"

\* A step that does not concern the emulator.
LEMMA EmuQuiet ==
    ASSUME EmuInv, EmuSame
    PROVE  EmuInv'
<1>1. UNCHANGED <<em, hopen, refs, et>>
  BY DEF EmuSame, emuvars
<1>2. Succeeded' <=> Succeeded
  BY <1>1 DEF EmuSame, Succeeded
<1>3. EmuType'
  BY <1>1 DEF EmuInv, EmuType
<1>4. EmuCard'
  BY <1>1 DEF EmuInv, EmuCard, EmuSame
<1>5. EmuOper' /\ EmuNew' /\ EmuRefs'
  BY <1>1, <1>2, SMT DEF EmuInv, EmuOper, EmuNew, EmuRefs, NewHandle, Holders, Holder, EAt
<1> QED
  BY <1>3, <1>4, <1>5 DEF EmuInv
-----------------------------------------------------------------------------
(* The bus seen from the devices *)


\* The devices of the three slots.
LEMMA EmuSlot == Slot = {1, 2, 3} /\ SlotDev[1] = "lhd" /\ SlotDev[2] = "con" /\ SlotDev[3] = "emu"
BY SMT DEF Slot, SlotDev

\* The bus goes to a handler.
LEMMA GoFacts ==
    ASSUME BusType, NEW pc \in Handlers, Go(pc)
    PROVE  BusType' /\ bus'.pc = pc /\ bus'.irqs = bus.irqs /\ bus'.slot = bus.slot
BY DEF BusType, Go

\* The bus looks again at which devices interrupt.
LEMMA ReloadFacts ==
    ASSUME BusType, bus' = Reload
    PROVE  BusType' /\ bus'.pc = "scan" /\ (3 \in bus'.irqs => em'.code # "none")
<1>1. Asserting' \subseteq Slot /\ (3 \in Asserting' => em'.code # "none")
  BY EmuSlot DEF Asserting, emu_asserts
<1> QED
  BY <1>1, SMT DEF BusType, Reload

\* The dispatcher calls emu_irq only for a finished operation.
LEMMA BusEmu ==
    ASSUME BusType, EmuInv,
           \/ autoconf_lamebus \/ mainbus_interrupt \/ lamebus_interrupt
           \/ lamebus_interrupt_call \/ lamebus_interrupt_end
    PROVE  EmuSame
<1>t. EmuCard
  BY DEF EmuInv
<1>0. /\ UNCHANGED emuvars /\ (bus'.pc = "emu_V" <=> bus.pc = "emu_V")
  BY BusMoves DEF BusStep, Device
<1>1. CASE autoconf_lamebus
  <2>1. \/ \E s \in Slot : bus' = [bus EXCEPT !.inuse = @ \cup {s}, !.irqfuncs = @ \cup {s}]
        \/ bus' = [bus EXCEPT !.class = @ + 1]
    BY <1>1, ZenonT(40) DEF autoconf_lamebus, tryattach_emu_to_lamebus, tryattach_lhd_to_lamebus,
         tryattach_lser_to_lamebus, attach_emu_to_lamebus, attach_lhd_to_lamebus,
         attach_lser_to_lamebus, Attach, NoMore, lamebus_attach_interrupt, lamebus_mark, lamebus_probe
  <2>2. bus'.pc = bus.pc /\ bus'.irqs = bus.irqs /\ bus'.slot = bus.slot
    BY <2>1 DEF BusType
  <2> QED
    BY <1>t, <1>0, <2>2 DEF EmuSame, EmuCard
<1>2. CASE mainbus_interrupt
  <2>1. bus'.pc = "irq" /\ bus'.irqs = bus.irqs /\ bus'.slot = bus.slot /\ bus.pc = "idle"
    BY <1>2 DEF mainbus_interrupt, BusType
  <2> QED
    BY <1>t, <1>0, <2>1 DEF EmuSame, EmuCard
<1>3. CASE lamebus_interrupt
  <2>1. bus'.pc = "scan" /\ bus'.irqs = Asserting
    BY <1>3 DEF lamebus_interrupt, BusType
  <2>2. 3 \in Asserting => em.code # "none"
    BY EmuSlot DEF Asserting, emu_asserts
  <2> QED
    BY <1>0, <2>1, <2>2 DEF EmuSame
<1>4. CASE lamebus_interrupt_call
  <2>1. bus.pc = "scan" /\ Rest # {} /\ Rest \subseteq {1, 2, 3}
    BY <1>4, EmuSlot DEF lamebus_interrupt_call, Rest, BusType
  <2>2. First \in Rest
    <3>1. \E s \in Rest : \A r \in Rest : s <= r
      <4>1. CASE 1 \in Rest
        BY <2>1, <4>1, SMT
      <4>2. CASE 1 \notin Rest /\ 2 \in Rest
        BY <2>1, <4>2, SMT
      <4>3. CASE Rest = {3}
        BY <4>3, SMT
      <4> QED
        BY <2>1, <4>1, <4>2, <4>3
    <3> QED
      BY <3>1 DEF First
  <2>3. bus.slot <= First /\ First \in bus.irqs /\ First \in {1, 2, 3}
    BY <2>1, <2>2 DEF Rest, BusType
  <2>4. bus'.irqs = bus.irqs /\ (bus'.slot = First \/ bus'.slot = First + 1)
    BY <1>4 DEF lamebus_interrupt_call, BusType
  <2>5. bus'.pc = SlotDev[First] \/ bus'.pc = "scan"
    BY <1>4, <2>1 DEF lamebus_interrupt_call, BusType
  <2>6. bus'.pc = "emu" => First = 3
    BY <2>3, <2>5, EmuSlot
  <2>7. bus'.slot <= 3 => bus.slot <= 3
    BY <2>3, <2>4, SMT DEF BusType
  <2> QED
    BY <1>t, <1>0, <2>1, <2>3, <2>4, <2>6, <2>7 DEF EmuSame, EmuCard
<1>5. CASE lamebus_interrupt_end
  <2>1. bus'.pc = "idle" /\ bus'.irqs = {}
    BY <1>5 DEF lamebus_interrupt_end, BusType
  <2> QED
    BY <1>0, <2>1 DEF EmuSame
<1> QED
  BY <1>1, <1>2, <1>3, <1>4, <1>5

-----------------------------------------------------------------------------
(* What the invariants imply *)

\* The disk's invariant says what the property asks.
LEMMA LhdSays == LhdInv => TransferFaithful
<1> SUFFICES ASSUME LhdInv, NEW t \in LhdThread, At(t, "free"), req[t].result = "OK"
             PROVE  LET s == req[t].sector + req[t].i IN
                    /\ sectors[s] = req[t].data
                    /\ req[t].uio_offset = (s + 1) * LHD_SECTSIZE
                    /\ req[t].uio_resid = (req[t].len - req[t].i - 1) * LHD_SECTSIZE
  BY DEF TransferFaithful
<1>1. Moved(req[t]) = req[t].i + 1
  <2>1. CASE req[t].write
    BY <2>1 DEF Moved, At
  <2>2. CASE ~req[t].write
    BY <2>2 DEF Moved, At
  <2> QED
    BY <2>1, <2>2
<1>2. /\ req[t].uio_offset = (req[t].sector + (req[t].i + 1)) * LHD_SECTSIZE
      /\ req[t].uio_resid = (req[t].len - (req[t].i + 1)) * LHD_SECTSIZE
  BY <1>1 DEF LhdInv, LhdUio, At
<1>3. req[t].sector \in Nat /\ req[t].i \in Nat /\ req[t].len \in Nat
  BY DEF LhdInv, LhdType
<1>4. /\ req[t].sector + (req[t].i + 1) = req[t].sector + req[t].i + 1
      /\ req[t].len - (req[t].i + 1) = req[t].len - req[t].i - 1
  BY <1>3, SMT
<1> QED
  BY <1>2, <1>4 DEF LhdInv, LhdData

\* The console's invariant says what the property on input asks.
LEMMA ConSaysRead == ConInv => InputFaithful
<1> SUFFICES ASSUME ConInv PROVE InputFaithful
  OBVIOUS
<1>t. RingState /\ ReadSem
  BY DEF ConInv
<1> DEFINE N == CONSOLE_INPUT_BUFFER_SIZE
<1>1. /\ N \in Nat \ {0} /\ cs.tail \in 0 .. N - 1 /\ cs.head \in 0 .. N - 1 /\ Count \in 0 .. N - 1
      /\ cs.head = IF cs.tail + Count < N THEN cs.tail + Count ELSE cs.tail + Count - N
  BY <1>t, ConAssumption DEF RingState, Ring, Pos
<1>2. accepted \in Seq(Nat) /\ got \in Seq(Nat) /\ Len(got) \in Nat /\ Len(accepted) \in Nat
  BY <1>t, SMT DEF RingState
<1>3. Len(got) <= Len(accepted)
  BY <1>1, <1>2, SMT DEF Count
<1>4. got = SubSeq(accepted, 1, Len(got))
  BY <1>t, <1>2, <1>3, SMT DEF RingState
<1>5. (cs.head - cs.tail + N) % N = Count
  <2>1. CASE cs.tail + Count < N
    <3>1. cs.head - cs.tail + N = Count + N /\ Count + N \in Nat /\ Count + N < 2 * N /\ ~(Count + N < N)
      BY <1>1, <2>1, SMT
    <3> QED
      BY <1>1, <3>1, Wraps, SMT
  <2>2. CASE ~(cs.tail + Count < N)
    <3>1. cs.head - cs.tail + N = Count /\ Count \in Nat /\ Count < 2 * N /\ Count < N
      BY <1>1, <2>2, SMT
    <3> QED
      BY <1>1, <3>1, Wraps
  <2> QED
    BY <2>1, <2>2
<1>6. cs.rsem <= Count
  BY <1>t, <1>1, SMT DEF ReadSem
<1> QED
  BY <1>3, <1>4, <1>5, <1>6 DEF InputFaithful

-----------------------------------------------------------------------------
(* The emulator: operations *)

\* The holders of a handle are a finite set.
LEMMA HoldersFinite ==
    ASSUME NEW h
    PROVE  IsFiniteSet(Holders(h)) /\ Cardinality(Holders(h)) \in Nat
BY EmuAssumption, FS_Subset, FS_CardinalityType DEF Holders

\* One more member, one more in the cardinality.
LEMMA OneMore ==
    ASSUME NEW S, NEW x, IsFiniteSet(S), x \notin S
    PROVE  Cardinality(S \cup {x}) = Cardinality(S) + 1
BY FS_AddElement

\* A holder is counted, and the handle is open.
LEMMA HolderCounted ==
    ASSUME EmuInv, NEW t \in EmuThread, NEW h \in Handle, Holder(t, h)
    PROVE  /\ refs[h] \in Nat /\ refs[h] >= 1 /\ h \in hopen
           /\ Cardinality(Holders(h) \ {t}) = Cardinality(Holders(h)) - 1
           /\ refs[h] = 1 => Holders(h) = {t}
<1>1. t \in Holders(h) /\ refs[h] \in Nat
  BY DEF Holders, EmuInv, EmuType
<1>2. Cardinality(Holders(h) \ {t}) = Cardinality(Holders(h)) - 1 /\ IsFiniteSet(Holders(h) \ {t})
  BY <1>1, HoldersFinite, FS_RemoveElement
<1>3. Cardinality(Holders(h) \ {t}) \in Nat
  BY <1>2, FS_CardinalityType
<1>4. refs[h] >= 1
  BY <1>1, <1>2, <1>3, HoldersFinite, SMT DEF EmuInv, EmuRefs
<1>5. h \in hopen
  BY <1>1, <1>4, SMT DEF EmuInv, EmuRefs
<1>6. ASSUME refs[h] = 1 PROVE Holders(h) = {t}
  <2>1. Cardinality(Holders(h) \ {t}) = 0
    BY <1>2, <1>3, <1>6, HoldersFinite, SMT DEF EmuInv, EmuRefs
  <2>2. Holders(h) \ {t} = {}
    BY <1>2, <2>1, FS_EmptySet
  <2> QED
    BY <1>1, <2>2
<1> QED
  BY <1>1, <1>2, <1>4, <1>5, <1>6

\* A thread takes e_lock and starts an operation.
Starts(t, from, to, op) ==
    et[t].pc = from /\ et'[t].pc = to /\ em'.oper = op

\* A thread takes e_lock and gives the card an operation.
LEMMA EmuTake ==
    ASSUME EmuInv, NEW t \in EmuThread, UNCHANGED <<hopen, refs, bus>>, Alone(t), em.lock = None,
           DOMAIN em' = DOMAIN em, em'.lock = t, em'.sem = em.sem, em'.code = em.code,
           em'.result = em.result, em'.fatal = em.fatal,
           et'[t].h = et[t].h, et'[t].fd = et[t].fd,
           \/ Starts(t, "open", "opening", "open")
           \/ Starts(t, "close", "closing", "close") /\ em'.handle = et[t].h
           \/ Starts(t, "out", "io", "io") /\ em'.handle = et[t].fd /\ et[t].fd # None
           \/ Starts(t, "count", "reclaiming", "close") /\ em'.handle = et[t].h /\ ~(refs[et[t].h] > 1)
    PROVE  EmuInv'
<1>t. EmuType /\ EmuCard /\ EmuOper /\ EmuNew /\ EmuRefs
  BY DEF EmuInv
<1>1. /\ em.oper = "none" /\ em.code = "none" /\ bus.pc # "emu_V" /\ em.sem = 0
      /\ \A u \in EmuThread : et[u].pc \notin OnCard
  BY <1>t, EmuAssumption DEF EmuCard
<1>2. /\ et'[t].pc \in OnCard
      /\ \A u \in EmuThread : u # t => et'[u] = et[u] /\ et'[u].pc \notin OnCard
  BY <1>1 DEF Alone, OnCard, Starts
<1>3. ~Succeeded /\ ~Succeeded'
  BY <1>1, SMT DEF Succeeded
<1>4. EmuType'
  BY <1>t, <1>1, SMT DEF EmuType, Alone, OnCard, Starts
<1>5. EmuCard'
  BY <1>t, <1>1, <1>2, EmuAssumption DEF EmuCard
<1>6. EmuOper'
  <2>1. \A u \in EmuThread : u # t => et'[u].pc \notin {"opening", "closing", "io", "reclaiming"}
    BY <1>2 DEF OnCard
  <2> QED
    BY <1>t, <2>1 DEF EmuOper, EAt, Starts
<1>7. \A u \in EmuThread, h \in Handle : NewHandle(u, h)' <=> NewHandle(u, h)
  BY <1>1, <1>2, <1>3 DEF NewHandle, EAt, OnCard, Starts
<1>8. EmuNew'
  <2>1. \A u \in EmuThread : et'[u].pc \in {"load", "table", "close", "closing"} => et'[u].h \in Handle
    BY <1>t DEF EmuNew, Alone, Starts
  <2>2. \A u \in EmuThread, h \in Handle : NewHandle(u, h)' => refs'[h] = 0 /\ h \in hopen'
    BY <1>t, <1>3, <1>7 DEF EmuNew
  <2>3. \A u, v \in EmuThread, h \in Handle : NewHandle(u, h)' /\ NewHandle(v, h)' => u = v
    BY <1>t, <1>7 DEF EmuNew
  <2> QED
    BY <1>3, <2>1, <2>2, <2>3 DEF EmuNew
<1>9. EmuRefs'
  <2> SUFFICES ASSUME NEW h \in Handle
               PROVE  /\ Cardinality(Holders(h)') <= refs[h]
                      /\ \A u \in EmuThread : EAt(u, "reclaiming")' /\ et'[u].h = h =>
                             refs[h] = 1 /\ Holders(h)' = {} /\ h \in hopen
                      /\ refs[h] > 0 => h \in hopen
    BY DEF EmuRefs
  <2>1. refs[h] > 0 => h \in hopen
    BY <1>t, <1>1 DEF EmuRefs, EAt, OnCard
  <2>2. CASE et'[t].pc = "reclaiming" /\ et[t].h = h
    <3>1. et[t].pc = "count" /\ ~(refs[h] > 1) /\ et[t].fd = None
      BY <1>t, <2>2 DEF Starts, EmuType
    <3>2. Holder(t, h)
      BY <2>2, <3>1 DEF Holder
    <3>a. /\ refs[h] \in Nat /\ refs[h] >= 1 /\ h \in hopen
          /\ Cardinality(Holders(h) \ {t}) = Cardinality(Holders(h)) - 1
          /\ refs[h] = 1 => Holders(h) = {t}
      BY <3>2, HolderCounted
    <3>3. refs[h] = 1 /\ Holders(h) = {t} /\ h \in hopen
      BY <3>1, <3>a, SMT
    <3>4. Holders(h)' = {}
      <4>1. ~Holder(t, h)'
        BY <2>2, <3>1, EmuAssumption DEF Holder
      <4>2. \A u \in EmuThread : u # t => ~Holder(u, h)'
        BY <1>2, <3>3, SMT DEF Holder, Holders
      <4> QED
        BY <4>1, <4>2 DEF Holders
    <3> QED
      BY <2>1, <3>3, <3>4, FS_EmptySet, SMT
  <2>3. CASE ~(et'[t].pc = "reclaiming" /\ et[t].h = h)
    <3>1. Holders(h)' = Holders(h)
      BY <1>2, <2>3, SMT DEF Holders, Holder, Starts
    <3>2. \A u \in EmuThread : ~(EAt(u, "reclaiming")' /\ et'[u].h = h)
      BY <1>2, <2>3 DEF EAt, OnCard
    <3> QED
      BY <1>t, <2>1, <3>1, <3>2 DEF EmuRefs
  <2> QED
    BY <2>2, <2>3
<1> QED
  BY <1>4, <1>5, <1>6, <1>8, <1>9 DEF EmuInv

\* emu_open, emu_close, input and output, and emufs_reclaim of the last
\* reference take e_lock.
LEMMA EmuTakes ==
    ASSUME EmuInv, NEW t \in EmuThread, UNCHANGED bus,
           \/ emu_open(t) \/ emu_close(t) \/ emufs_io(t)
           \/ emufs_reclaim(t) /\ ~(refs[et[t].h] > 1)
    PROVE  EmuInv'
<1>t. EmuType
  BY DEF EmuInv
<1>1. CASE emu_open(t)
  BY <1>t, <1>1, EmuTake DEF emu_open, Start, Et, EAt, EmuType, NoEt, Alone, Starts
<1>2. CASE emu_close(t)
  BY <1>t, <1>2, EmuTake DEF emu_close, Start, Et, EAt, EmuType, NoEt, Alone, Starts
<1>3. CASE emufs_io(t)
  BY <1>t, <1>3, EmuTake DEF emufs_io, Start, Et, EAt, EmuType, NoEt, Alone, Starts
<1>4. CASE emufs_reclaim(t) /\ ~(refs[et[t].h] > 1)
  BY <1>t, <1>4, EmuTake DEF emufs_reclaim, Start, Et, EAt, EmuType, NoEt, Alone, Starts
<1> QED
  BY <1>1, <1>2, <1>3, <1>4

-----------------------------------------------------------------------------
(* emu_waitdone *)

\* The card has answered, and the thread releases e_lock.
LEMMA EmuRelease ==
    ASSUME EmuInv, NEW t \in EmuThread, et[t].pc \in OnCard, em.sem > 0,
           UNCHANGED <<hopen, bus>>, Alone(t),
           em' = [Done EXCEPT !.lock = None],
           \/ /\ et[t].pc = "opening" /\ refs' = refs /\ et'[t].fd = None
              /\ IF em.result = "SUCCESS" THEN et'[t].pc = "load" /\ et'[t].h = em.reply
                 ELSE et'[t].pc = "out"
           \/ et[t].pc = "closing" /\ refs' = refs /\ et'[t].pc = "out" /\ et'[t].fd = None
           \/ et[t].pc = "io" /\ refs' = refs /\ et'[t].pc = "out" /\ et'[t].fd = et[t].fd
           \/ /\ et[t].pc = "reclaiming" /\ et'[t].pc = "out" /\ et'[t].fd = None
              /\ refs' = IF em.result = "SUCCESS" THEN [refs EXCEPT ![et[t].h] = 0] ELSE refs
    PROVE  EmuInv'
<1>t. EmuType /\ EmuCard /\ EmuOper /\ EmuNew /\ EmuRefs
  BY DEF EmuInv
<1>1. /\ em.lock = t /\ em.sem = 1 /\ em.oper = "none" /\ em.code = "none" /\ bus.pc # "emu_V"
      /\ Succeeded <=> em.result = "SUCCESS"
      /\ \A u \in EmuThread : u # t => et[u].pc \notin OnCard
  BY EmuSignalled
<1>2. /\ DOMAIN em' = DOMAIN em /\ em'.lock = None /\ em'.sem = 0 /\ ~em'.fatal
      /\ em'.oper = "none" /\ em'.code = "none" /\ em'.result = em.result
  BY <1>t, <1>1, EmuSignalled DEF EmuType
<1>3. \A u \in EmuThread : et'[u].pc \notin OnCard
  BY <1>1 DEF Alone, OnCard
<1>4. et[t].fd # None => et[t].pc = "io"
  BY <1>t DEF EmuType, OnCard
<1>5. et[t].pc = "opening" /\ em.result = "SUCCESS" => em.reply \in Handle
  BY <1>t, <1>1 DEF EmuNew, EAt
<1>6. refs' \in [Handle -> Nat]
  BY <1>t, SMT DEF EmuType
<1>7. EmuType'
  BY <1>t, <1>2, <1>4, <1>6, SMTT(30) DEF EmuType, Alone, OnCard
<1>8. EmuCard'
  BY <1>t, <1>1, <1>2, <1>3, EmuAssumption, SMTT(30) DEF EmuCard
<1>9. EmuOper'
  BY <1>2 DEF EmuOper
<1>10. \A u \in EmuThread, h \in Handle : NewHandle(u, h)' => NewHandle(u, h) /\ et'[u].pc # "closing"
  BY <1>1, <1>3 DEF NewHandle, EAt, OnCard, Alone
<1>11. \A u \in EmuThread, h \in Handle : NewHandle(u, h) => refs[h] = 0 /\ (et[u].pc # "closing" => h \in hopen)
  BY <1>t DEF EmuNew, EAt
<1>12. EmuNew'
  <2>1. \A u \in EmuThread : et'[u].pc \in {"load", "table", "close", "closing"} => et'[u].h \in Handle
    BY <1>t, <1>5 DEF EmuNew, Alone
  <2>2. \A u \in EmuThread, h \in Handle : NewHandle(u, h)' => refs'[h] = 0 /\ h \in hopen'
    <3> SUFFICES ASSUME NEW u \in EmuThread, NEW h \in Handle, NewHandle(u, h)'
                 PROVE  refs'[h] = 0 /\ h \in hopen
      OBVIOUS
    <3>1. et[u].pc # "closing"
      BY <1>3, <1>10 DEF NewHandle, EAt, Alone, OnCard
    <3>2. refs[h] = 0 /\ h \in hopen
      BY <1>10, <1>11, <3>1
    <3>3. refs' = refs \/ refs' = [refs EXCEPT ![et[t].h] = 0]
      OBVIOUS
    <3> QED
      BY <1>t, <3>2, <3>3 DEF EmuType
  <2>3. \A u, v \in EmuThread, h \in Handle : NewHandle(u, h)' /\ NewHandle(v, h)' => u = v
    BY <1>t, <1>10 DEF EmuNew
  <2>4. \A u \in EmuThread : ~EAt(u, "opening")'
    BY <1>3 DEF EAt, OnCard
  <2> QED
    BY <2>1, <2>2, <2>3, <2>4 DEF EmuNew
<1>13. EmuRefs'
  <2>1. \A h \in Handle : Holders(h)' = Holders(h)
    BY <1>4, EmuAssumption, SMT DEF Holders, Holder, Alone, OnCard
  <2>2. \A u \in EmuThread : ~EAt(u, "reclaiming")'
    BY <1>3 DEF EAt, OnCard
  <2> SUFFICES ASSUME NEW h \in Handle
               PROVE  Cardinality(Holders(h)) <= refs'[h] /\ (refs'[h] > 0 => h \in hopen)
    BY <2>1, <2>2 DEF EmuRefs
  <2>3. CASE et[t].pc = "reclaiming" /\ et[t].h = h
    <3>1. refs[h] = 1 /\ Holders(h) = {} /\ (h \in hopen \/ em.result = "SUCCESS")
      BY <1>t, <1>1, <2>3 DEF EmuRefs, EAt
    <3>2. refs'[h] = IF em.result = "SUCCESS" THEN 0 ELSE refs[h]
      BY <1>t, <2>3 DEF EmuType
    <3> QED
      BY <3>1, <3>2, FS_EmptySet, SMT
  <2>4. CASE ~(et[t].pc = "reclaiming" /\ et[t].h = h)
    <3>1. refs'[h] = refs[h]
      BY <1>t, <2>4 DEF EmuType
    <3>2. refs[h] > 0 => h \in hopen
      BY <1>t, <1>1, <2>4, SMT DEF EmuRefs, EAt, OnCard
    <3> QED
      BY <1>t, <3>1, <3>2 DEF EmuRefs
  <2> QED
    BY <2>3, <2>4
<1> QED
  BY <1>7, <1>8, <1>9, <1>12, <1>13 DEF EmuInv

\* The four operations after emu_waitdone.
LEMMA EmuReleases ==
    ASSUME EmuInv, NEW t \in EmuThread, UNCHANGED bus,
           emu_open_done(t) \/ emu_close_done(t) \/ emufs_io_done(t) \/ emufs_reclaim_done(t)
    PROVE  EmuInv'
<1>t. EmuType
  BY DEF EmuInv
<1>1. et[t].pc \in OnCard /\ em.sem > 0 /\ UNCHANGED hopen /\ em' = [Done EXCEPT !.lock = None]
  BY DEF emu_open_done, emu_close_done, emufs_io_done, emufs_reclaim_done, Waitdone, EAt, OnCard
<1>2. et[t].fd # None => et[t].pc = "io"
  BY <1>t, <1>1 DEF EmuType, OnCard
<1>3. CASE emu_open_done(t)
  <2>1. et[t].pc = "opening" /\ UNCHANGED refs
    BY <1>3 DEF emu_open_done, Waitdone, EAt
  <2>2. CASE em.result = "SUCCESS"
    <3>1. et' = [et EXCEPT ![t] = [et[t] EXCEPT !.pc = "load", !.h = em.reply]]
      BY <1>3, <2>2 DEF emu_open_done, Et
    <3>2. Alone(t) /\ et'[t].pc = "load" /\ et'[t].h = em.reply /\ et'[t].fd = None
      BY <1>t, <1>2, <2>1, <3>1 DEF EmuType, Alone, NoEt
    <3> QED
      BY <1>1, <2>1, <2>2, <3>2, EmuRelease
  <2>3. CASE em.result # "SUCCESS"
    <3>1. et' = [et EXCEPT ![t] = [NoEt EXCEPT !.fd = None]]
      BY <1>3, <2>3 DEF emu_open_done, EndOpen, Et, Return
    <3>2. Alone(t) /\ et'[t].pc = "out" /\ et'[t].fd = None
      BY <1>t, <3>1 DEF EmuType, Alone, NoEt
    <3> QED
      BY <1>1, <2>1, <2>3, <3>2, EmuRelease
  <2> QED
    BY <2>2, <2>3
<1>4. CASE emu_close_done(t)
  <2>1. et[t].pc = "closing" /\ UNCHANGED refs /\ et' = [et EXCEPT ![t] = [NoEt EXCEPT !.fd = None]]
    BY <1>4 DEF emu_close_done, Waitdone, EAt, EndOpen, Et, Return
  <2>2. Alone(t) /\ et'[t].pc = "out" /\ et'[t].fd = None
    BY <1>t, <2>1 DEF EmuType, Alone, NoEt
  <2> QED
    BY <1>1, <2>1, <2>2, EmuRelease
<1>5. CASE emufs_io_done(t)
  <2>1. et[t].pc = "io" /\ UNCHANGED refs /\ et' = [et EXCEPT ![t] = [NoEt EXCEPT !.fd = et[t].fd]]
    BY <1>5 DEF emufs_io_done, Waitdone, EAt, Et, Return
  <2>2. Alone(t) /\ et'[t].pc = "out" /\ et'[t].fd = et[t].fd
    BY <1>t, <2>1 DEF EmuType, Alone, NoEt
  <2> QED
    BY <1>1, <2>1, <2>2, EmuRelease
<1>6. CASE emufs_reclaim_done(t)
  <2>1. /\ et[t].pc = "reclaiming" /\ et' = [et EXCEPT ![t] = NoEt]
        /\ refs' = IF em.result = "SUCCESS" THEN [refs EXCEPT ![et[t].h] = 0] ELSE refs
    BY <1>6 DEF emufs_reclaim_done, Waitdone, EAt, Et
  <2>2. Alone(t) /\ et'[t].pc = "out" /\ et'[t].fd = None
    BY <1>t, <2>1 DEF EmuType, Alone, NoEt
  <2> QED
    BY <1>1, <2>1, <2>2, EmuRelease
<1> QED
  BY <1>3, <1>4, <1>5, <1>6

-----------------------------------------------------------------------------
(* The counts of ef_vnodes *)

\* A new holder of h, whose handle is open and nobody else's new handle.
LEMMA EmuJoin ==
    ASSUME EmuInv, NEW t \in EmuThread, NEW h \in Handle, UNCHANGED <<em, hopen, bus>>, Alone(t),
           refs' \in [Handle -> Nat], \A g \in Handle : refs'[g] = IF g = h THEN refs[h] + 1 ELSE refs[g],
           h \in hopen,
           \/ et[t].pc = "out" /\ et[t].fd = None /\ refs[h] > 0
           \/ et[t].pc = "table" /\ et[t].h = h,
           et'[t].pc = "out", et'[t].fd = h,
           \A u \in EmuThread : ~(EAt(u, "reclaiming") /\ et[u].h = h)
    PROVE  EmuInv'
<1>t. EmuType /\ EmuCard /\ EmuOper /\ EmuNew /\ EmuRefs
  BY DEF EmuInv
<1>1. et[t].pc \notin OnCard /\ et'[t].pc \notin OnCard /\ et[t].fd = None
  BY <1>t DEF OnCard, EmuType
<1>2. /\ EmuCard' /\ EmuOper' /\ (Succeeded' <=> Succeeded)
      /\ \A u \in EmuThread : u # t =>
            \A g \in Handle : NewHandle(u, g)' <=> NewHandle(u, g)
  BY <1>1, EmuCountFrame
<1>3. \A u \in EmuThread : u # t => \A g \in Handle : Holder(u, g)' <=> Holder(u, g)
  BY <1>1, EmuCountFrame
<1>4. EmuType'
  BY <1>t, SMT DEF EmuType, Alone
<1>5. ~Holder(t, h) /\ Holder(t, h)' /\ \A g \in Handle : ~NewHandle(t, g)' /\ (g # h => ~Holder(t, g)' /\ ~Holder(t, g))
  BY <1>1, EmuAssumption DEF Holder, NewHandle, EAt
<1>6. \A u \in EmuThread : u # t => ~NewHandle(u, h)
  BY <1>t, SMT DEF EmuNew, NewHandle, EmuType
<1>7. \A g \in Handle : refs'[g] = IF g = h THEN refs[h] + 1 ELSE refs[g]
  OBVIOUS
<1>8. EmuNew'
  <2>1. \A u \in EmuThread : et'[u].pc \in {"load", "table", "close", "closing"} => et'[u].h \in Handle
    BY <1>t DEF EmuNew, Alone
  <2>2. \A u \in EmuThread : EAt(u, "opening")' /\ Succeeded' => em'.reply \in Handle
    BY <1>t, <1>2 DEF EmuNew, Alone, EAt
  <2>3. \A u \in EmuThread, g \in Handle : NewHandle(u, g)' =>
           u # t /\ g # h /\ NewHandle(u, g)
    BY <1>2, <1>5, <1>6
  <2>4. \A u \in EmuThread, g \in Handle :
          NewHandle(u, g)' => refs'[g] = 0 /\ (g \in hopen' \/ (EAt(u, "closing")' /\ Succeeded'))
    BY <1>t, <1>2, <1>7, <2>3, SMTT(30) DEF EmuNew, EAt, Alone
  <2>5. \A u, v \in EmuThread, g \in Handle : NewHandle(u, g)' /\ NewHandle(v, g)' => u = v
    BY <1>t, <2>3 DEF EmuNew
  <2> QED
    BY <2>1, <2>2, <2>4, <2>5 DEF EmuNew
<1>9. EmuRefs'
  <2>1. \A u \in EmuThread : EAt(u, "reclaiming")' => u # t /\ EAt(u, "reclaiming") /\ et'[u] = et[u]
    BY DEF EAt, Alone
  <2>2. \A u \in EmuThread : EAt(u, "reclaiming") => EAt(u, "reclaiming")' /\ et'[u] = et[u]
    BY <1>1 DEF EAt, Alone, OnCard
  <2> SUFFICES ASSUME NEW g \in Handle
               PROVE  /\ Cardinality(Holders(g)') <= refs'[g]
                      /\ \A u \in EmuThread : EAt(u, "reclaiming")' /\ et'[u].h = g =>
                             refs'[g] = 1 /\ Holders(g)' = {} /\ (g \in hopen' \/ Succeeded')
                      /\ refs'[g] > 0 => g \in hopen' \/ \E u \in EmuThread : EAt(u, "reclaiming")' /\ et'[u].h = g
    BY DEF EmuRefs
  <2>3. CASE g = h
    <3>1. Holders(h)' = Holders(h) \cup {t} /\ t \notin Holders(h)
      BY <1>3, <1>5 DEF Holders
    <3>a. IsFiniteSet(Holders(h))
      BY HoldersFinite
    <3>b. Cardinality(Holders(h) \cup {t}) = Cardinality(Holders(h)) + 1
      BY <3>1, <3>a, OneMore
    <3>2. Cardinality(Holders(h)') = Cardinality(Holders(h)) + 1
      BY <3>1, <3>b
    <3>3. refs[h] \in Nat /\ Cardinality(Holders(h)) \in Nat /\ Cardinality(Holders(h)) <= refs[h]
      BY <1>t, HoldersFinite DEF EmuType, EmuRefs
    <3>4. Cardinality(Holders(h)') <= refs'[h]
      BY <1>7, <3>2, <3>3, SMTT(30)
    <3>5. \A u \in EmuThread : ~(EAt(u, "reclaiming")' /\ et'[u].h = h)
      BY <2>1
    <3> QED
      BY <2>3, <3>4, <3>5
  <2>4. CASE g # h
    <3>1. Holders(g)' = Holders(g)
      BY <1>3, <1>5, <2>4 DEF Holders
    <3>2. refs'[g] = refs[g]
      BY <1>7, <2>4
    <3> QED
      BY <1>t, <1>2, <2>1, <2>2, <3>1, <3>2, SMTT(30) DEF EmuRefs
  <2> QED
    BY <2>3, <2>4
<1> QED
  BY <1>2, <1>4, <1>8, <1>9 DEF EmuInv

\* A holder of h that is not the last one leaves.
LEMMA EmuLeave ==
    ASSUME EmuInv, NEW t \in EmuThread, NEW h \in Handle, UNCHANGED <<em, hopen, bus>>, Alone(t),
           refs' \in [Handle -> Nat], \A g \in Handle : refs'[g] = IF g = h THEN refs[h] - 1 ELSE refs[g],
           refs[h] > 1,
           \/ et[t].pc = "out" /\ et[t].fd = h
           \/ et[t].pc = "count" /\ et[t].h = h,
           et'[t].pc = "out", et'[t].fd = None
    PROVE  EmuInv'
<1>t. EmuType /\ EmuCard /\ EmuOper /\ EmuNew /\ EmuRefs
  BY DEF EmuInv
<1>1. et[t].pc \notin OnCard /\ et'[t].pc \notin OnCard /\ (et[t].pc = "count" => et[t].fd = None)
  BY <1>t DEF OnCard, EmuType
<1>2. /\ EmuCard' /\ EmuOper' /\ (Succeeded' <=> Succeeded)
      /\ \A u \in EmuThread : u # t =>
            \A g \in Handle : NewHandle(u, g)' <=> NewHandle(u, g)
  BY <1>1, EmuCountFrame
<1>3. \A u \in EmuThread : u # t => \A g \in Handle : Holder(u, g)' <=> Holder(u, g)
  BY <1>1, EmuCountFrame
<1>4. Holder(t, h) /\ ~Holder(t, h)' /\ \A g \in Handle : ~NewHandle(t, g)' /\ (g # h => ~Holder(t, g)' /\ ~Holder(t, g))
  BY <1>1, EmuAssumption DEF Holder, NewHandle, EAt
<1>5. /\ refs[h] \in Nat /\ refs[h] >= 1 /\ h \in hopen
      /\ Cardinality(Holders(h) \ {t}) = Cardinality(Holders(h)) - 1
      /\ refs[h] = 1 => Holders(h) = {t}
  BY <1>4, HolderCounted
<1>6. \A g \in Handle : refs'[g] = IF g = h THEN refs[h] - 1 ELSE refs[g]
  OBVIOUS
<1>8. EmuType'
  BY <1>t, SMT DEF EmuType, Alone
<1>9. EmuNew'
  <2>1. \A u \in EmuThread : et'[u].pc \in {"load", "table", "close", "closing"} => et'[u].h \in Handle
    BY <1>t DEF EmuNew, Alone
  <2>2. \A u \in EmuThread : EAt(u, "opening")' /\ Succeeded' => em'.reply \in Handle
    BY <1>t, <1>2 DEF EmuNew, Alone, EAt
  <2>3. ASSUME NEW u \in EmuThread, NEW g \in Handle, NewHandle(u, g)'
        PROVE  u # t /\ NewHandle(u, g) /\ refs[g] = 0 /\ g # h
    <3>1. u # t
      BY <1>4, <2>3
    <3>2. NewHandle(u, g)
      BY <1>2, <2>3, <3>1
    <3>3. refs[g] = 0
      BY <1>t, <3>2 DEF EmuNew
    <3>4. g # h
      BY <1>5, <3>3, SMT
    <3> QED
      BY <3>1, <3>2, <3>3, <3>4
  <2>4. \A u \in EmuThread, g \in Handle :
          NewHandle(u, g)' => refs'[g] = 0 /\ (g \in hopen' \/ (EAt(u, "closing")' /\ Succeeded'))
    BY <1>t, <1>2, <1>6, <2>3 DEF EmuNew, EAt, Alone
  <2>5. \A u, v \in EmuThread, g \in Handle : NewHandle(u, g)' /\ NewHandle(v, g)' => u = v
    BY <1>t, <2>3 DEF EmuNew
  <2> QED
    BY <2>1, <2>2, <2>4, <2>5 DEF EmuNew
<1>10. EmuRefs'
  <2>1. \A u \in EmuThread : EAt(u, "reclaiming")' => u # t /\ EAt(u, "reclaiming") /\ et'[u] = et[u]
    BY DEF EAt, Alone
  <2>2. \A u \in EmuThread : EAt(u, "reclaiming") => EAt(u, "reclaiming")' /\ et'[u] = et[u]
    BY <1>1 DEF EAt, Alone, OnCard
  <2> SUFFICES ASSUME NEW g \in Handle
               PROVE  /\ Cardinality(Holders(g)') <= refs'[g]
                      /\ \A u \in EmuThread : EAt(u, "reclaiming")' /\ et'[u].h = g =>
                             refs'[g] = 1 /\ Holders(g)' = {} /\ (g \in hopen' \/ Succeeded')
                      /\ refs'[g] > 0 => g \in hopen' \/ \E u \in EmuThread : EAt(u, "reclaiming")' /\ et'[u].h = g
    BY DEF EmuRefs
  <2>3. CASE g = h
    <3>1. Holders(h)' = Holders(h) \ {t}
      BY <1>3, <1>4 DEF Holders
    <3>2. Cardinality(Holders(h)) \in Nat /\ Cardinality(Holders(h)) <= refs[h]
      BY <1>t, HoldersFinite DEF EmuRefs
    <3>3. Cardinality(Holders(h)') <= refs'[h]
      BY <1>5, <1>6, <3>1, <3>2, SMTT(30)
    <3>4. \A u \in EmuThread : ~(EAt(u, "reclaiming") /\ et[u].h = h)
      BY <1>t, <1>5 DEF EmuRefs
    <3> QED
      BY <1>5, <2>1, <2>3, <3>3, <3>4
  <2>4. CASE g # h
    <3>1. Holders(g)' = Holders(g)
      BY <1>3, <1>4, <2>4 DEF Holders
    <3>2. refs'[g] = refs[g]
      BY <1>6, <2>4
    <3> QED
      BY <1>t, <1>2, <2>1, <2>2, <3>1, <3>2, SMTT(30) DEF EmuRefs
  <2> QED
    BY <2>3, <2>4
<1> QED
  BY <1>2, <1>8, <1>9, <1>10 DEF EmuInv

\* Steps that change the reference count of a vnode.
LEMMA EmuCounts ==
    ASSUME EmuInv, NEW t \in EmuThread, UNCHANGED bus,
           \/ emufs_loadvnode(t) \/ VOP_INCREF(t) \/ vnode_decref(t)
           \/ emufs_reclaim(t) /\ refs[et[t].h] > 1
    PROVE  EmuInv'
<1>t. EmuType /\ EmuCard /\ EmuOper /\ EmuNew /\ EmuRefs
  BY DEF EmuInv
<1>1. CASE emufs_loadvnode(t)
  <2>h. PICK h : h = et[t].h
    OBVIOUS
  <2>1. /\ et[t].pc = "table" /\ em.lock = None /\ refs' = [refs EXCEPT ![h] = @ + 1]
        /\ et' = [et EXCEPT ![t] = [NoEt EXCEPT !.fd = h]] /\ UNCHANGED <<em, hopen>>
    BY <1>1, <2>h DEF emufs_loadvnode, EAt, Et, Return
  <2>2. Alone(t) /\ et'[t].pc = "out" /\ et'[t].fd = h
    BY <1>t, <2>1 DEF EmuType, Alone, NoEt
  <2>3. h \in Handle /\ NewHandle(t, h)
    BY <1>t, <2>h, <2>1 DEF EmuNew, NewHandle
  <2>4. h \in hopen
    BY <1>t, <2>1, <2>3 DEF EmuNew, EAt
  <2>r. refs' \in [Handle -> Nat] /\ \A g \in Handle : refs'[g] = IF g = h THEN refs[h] + 1 ELSE refs[g]
    BY <1>t, <2>1, <2>3, SMT DEF EmuType
  <2>a. et[t].pc = "table" /\ UNCHANGED <<em, hopen>>
    BY <2>1
  <2>5. \A u \in EmuThread : ~(EAt(u, "reclaiming") /\ et[u].h = h)
    BY <1>t, <2>1, EmuAssumption DEF EmuCard, EAt, OnCard
  <2> QED
    BY <2>h, <2>a, <2>2, <2>3, <2>4, <2>5, <2>r, EmuJoin
<1>2. CASE VOP_INCREF(t)
  <2>1. PICK u \in EmuThread :
          /\ et[u].pc = "out" /\ et[u].fd # None /\ refs' = [refs EXCEPT ![et[u].fd] = @ + 1]
          /\ et' = [et EXCEPT ![t] = [et[t] EXCEPT !.fd = et[u].fd]]
    BY <1>2 DEF VOP_INCREF, EAt, Et
  <2>2. et[t].pc = "out" /\ et[t].fd = None /\ UNCHANGED <<em, hopen>>
    BY <1>2 DEF VOP_INCREF, EAt
  <2>h. PICK h : h = et[u].fd
    OBVIOUS
  <2>3. h \in Handle /\ Holder(u, h)
    BY <1>t, <2>h, <2>1 DEF EmuType, Holder
  <2>4. Alone(t) /\ et'[t].pc = "out" /\ et'[t].fd = h
    BY <1>t, <2>h, <2>1, <2>2 DEF EmuType, Alone, NoEt
  <2>5. /\ refs[h] \in Nat /\ refs[h] >= 1 /\ h \in hopen
        /\ Cardinality(Holders(h) \ {u}) = Cardinality(Holders(h)) - 1
        /\ refs[h] = 1 => Holders(h) = {u}
    BY <2>3, HolderCounted
  <2>6. refs[h] > 0
    BY <2>5, SMT
  <2>r. refs' \in [Handle -> Nat] /\ \A g \in Handle : refs'[g] = IF g = h THEN refs[h] + 1 ELSE refs[g]
    BY <1>t, <2>h, <2>1, <2>3, SMTT(30) DEF EmuType
  <2>7. \A v \in EmuThread : ~(EAt(v, "reclaiming") /\ et[v].h = h)
    <3>1. Holders(h) # {}
      BY <2>3 DEF Holders
    <3> QED
      BY <1>t, <2>3, <3>1 DEF EmuRefs
  <2> QED
    BY <2>2, <2>3, <2>4, <2>5, <2>6, <2>7, <2>r, EmuJoin
<1>3. CASE vnode_decref(t)
  <2>h. PICK h : h = et[t].fd
    OBVIOUS
  <2>1. et[t].pc = "out" /\ h # None /\ UNCHANGED <<em, hopen>>
    BY <1>3, <2>h DEF vnode_decref, EAt
  <2>2. h \in Handle
    BY <1>t, <2>h, <2>1 DEF EmuType
  <2>3. CASE refs[h] > 1
    <3>1. refs' = [refs EXCEPT ![h] = @ - 1] /\ et' = [et EXCEPT ![t] = NoEt]
      BY <1>3, <2>h, <2>3 DEF vnode_decref, Et
    <3>2. Alone(t) /\ et'[t].pc = "out" /\ et'[t].fd = None
      BY <1>t, <3>1 DEF EmuType, Alone, NoEt
    <3>3. refs' \in [Handle -> Nat] /\ \A g \in Handle : refs'[g] = IF g = h THEN refs[h] - 1 ELSE refs[g]
      BY <1>t, <2>2, <2>3, <3>1, SMTT(30) DEF EmuType
    <3> QED
      BY <2>h, <2>1, <2>2, <2>3, <3>2, <3>3, EmuLeave
  <2>4. CASE ~(refs[h] > 1)
    <3>1. refs' = refs /\ et' = [et EXCEPT ![t] = [et[t] EXCEPT !.pc = "reclaim", !.h = h, !.fd = None]]
      BY <1>3, <2>h, <2>4 DEF vnode_decref, Et
    <3>2. Alone(t) /\ et'[t].pc = "reclaim" /\ et'[t].h = h /\ et'[t].fd = None
      BY <1>t, <3>1 DEF EmuType, Alone, NoEt
    <3>3. et[t].pc \notin OnCard /\ et'[t].pc \notin OnCard
      BY <2>1, <3>2 DEF OnCard
    <3>4. /\ EmuCard' /\ EmuOper' /\ (Succeeded' <=> Succeeded)
          /\ \A u \in EmuThread : u # t =>
                \A g \in Handle : NewHandle(u, g)' <=> NewHandle(u, g)
      BY <2>1, <3>2, <3>3, EmuCountFrame
    <3>5. \A u \in EmuThread : u # t => \A g \in Handle : Holder(u, g)' <=> Holder(u, g)
      BY <2>1, <3>2, <3>3, EmuCountFrame
    <3>6. EmuType'
      BY <1>t, <2>1, <2>2, <3>1, <3>2 DEF EmuType, Alone
    <3>7. \A u \in EmuThread, g \in Handle : NewHandle(u, g)' <=> NewHandle(u, g)
      BY <2>1, <3>2, <3>4 DEF NewHandle, EAt
    <3>8. \A u \in EmuThread : /\ EAt(u, "opening")' <=> EAt(u, "opening")
                               /\ EAt(u, "closing")' <=> EAt(u, "closing")
                               /\ EAt(u, "reclaiming")' <=> EAt(u, "reclaiming")
                               /\ et[u].pc # "out" => et'[u].h = et[u].h
      BY <2>1, <3>2 DEF EAt, Alone
    <3>9. \A u \in EmuThread : et'[u].pc \in {"load", "table", "close", "closing"} => et'[u].h \in Handle
      BY <1>t, <3>2 DEF EmuNew, Alone
    <3>10. EmuNew'
      BY <1>t, <2>1, <3>1, <3>4, <3>7, <3>8, <3>9 DEF EmuNew
    <3>11. \A g \in Handle : Holders(g)' = Holders(g)
      <4>1. \A g \in Handle : Holder(t, g)' <=> Holder(t, g)
        BY <2>h, <2>1, <3>2, EmuAssumption DEF Holder
      <4> QED
        BY <3>5, <4>1 DEF Holders
    <3>12. EmuRefs'
      BY <1>t, <2>1, <3>1, <3>4, <3>8, <3>11, SMTT(30) DEF EmuRefs, EAt
    <3> QED
      BY <3>4, <3>6, <3>10, <3>12 DEF EmuInv
  <2> QED
    BY <2>3, <2>4
<1>4. CASE emufs_reclaim(t) /\ refs[et[t].h] > 1
  <2>h. PICK h : h = et[t].h
    OBVIOUS
  <2>1. et[t].pc = "count" /\ refs[h] > 1 /\ UNCHANGED <<em, hopen>>
    BY <1>4, <2>h DEF emufs_reclaim, EAt
  <2>a. refs' = [refs EXCEPT ![h] = @ - 1]
    BY <1>4, <2>h DEF emufs_reclaim
  <2>b. DOMAIN et' = EmuThread /\ et'[t] = NoEt /\ \A u \in EmuThread : u # t => et'[u] = et[u]
    BY <1>t, <1>4 DEF emufs_reclaim, Et, EmuType
  <2>2. h \in Handle
    BY <1>t, <2>h, <2>1 DEF EmuType
  <2>3. Alone(t) /\ et'[t].pc = "out" /\ et'[t].fd = None
    BY <2>b, SMT DEF Alone, NoEt
  <2>4. refs' \in [Handle -> Nat] /\ \A g \in Handle : refs'[g] = IF g = h THEN refs[h] - 1 ELSE refs[g]
    BY <1>t, <2>1, <2>2, <2>a, SMTT(30) DEF EmuType
  <2> QED
    BY <2>h, <2>1, <2>2, <2>3, <2>4, EmuLeave
<1> QED
  BY <1>1, <1>2, <1>3, <1>4

-----------------------------------------------------------------------------
(* The card of the emulator, and emu_irq *)

\* The card carries out the operation.
LEMMA EmuCardMoves ==
    ASSUME EmuInv, UNCHANGED bus, emu_card
    PROVE  EmuInv'
<1>t. EmuType /\ EmuCard /\ EmuOper /\ EmuNew /\ EmuRefs
  BY DEF EmuInv
<1>1. /\ em.oper # "none" /\ em.lock \in EmuThread /\ em.code = "none" /\ bus.pc # "emu_V" /\ em.sem = 0
      /\ UNCHANGED <<refs, et>>
  BY <1>t DEF emu_card, EmuCard
<1>2. PICK t \in EmuThread : t = em.lock
  BY <1>1
<1>3. et[t].pc \in OnCard /\ \A u \in EmuThread : u # t => et[u].pc \notin OnCard
  BY <1>t, <1>2 DEF EmuCard
<1>4. ~Succeeded
  BY <1>1, SMT DEF Succeeded
<1>5. PICK code \in Codes, h \in Handle :
        /\ em.oper = "open" /\ code = "SUCCESS" => h \notin hopen
        /\ em.oper # "open" => h = em.handle
        /\ em' = [em EXCEPT !.oper = "none", !.reply = h,
                            !.code = IF em.oper # "open" /\ h \notin hopen THEN "BADHANDLE" ELSE code]
        /\ hopen' = CASE code = "SUCCESS" /\ em.oper = "open" -> hopen \cup {h}
                      [] code = "SUCCESS" /\ em.oper = "close" -> hopen \ {h}
                      [] OTHER -> hopen
  BY DEF emu_card, Codes
<1>6. /\ EAt(t, "opening") => em.oper = "open"
      /\ et[t].pc \in {"closing", "reclaiming"} => em.oper = "close" /\ h = et[t].h
      /\ EAt(t, "io") => em.oper = "io" /\ h = et[t].fd
  BY <1>t, <1>1, <1>5 DEF EmuOper
<1>7. em.oper # "open" => h \in hopen
  <2>1. CASE et[t].pc = "closing"
    <3>1. NewHandle(t, h)
      BY <1>6, <2>1 DEF NewHandle
    <3> QED
      BY <1>t, <1>4, <3>1 DEF EmuNew
  <2>2. CASE et[t].pc = "reclaiming"
    BY <1>t, <1>4, <1>6, <2>2 DEF EmuRefs, EAt
  <2>3. CASE et[t].pc = "io"
    <3>1. Holder(t, h)
      BY <1>6, <2>3 DEF Holder, EAt
    <3>2. /\ refs[h] \in Nat /\ refs[h] >= 1 /\ h \in hopen
          /\ Cardinality(Holders(h) \ {t}) = Cardinality(Holders(h)) - 1
          /\ refs[h] = 1 => Holders(h) = {t}
      BY <3>1, HolderCounted
    <3> QED
      BY <3>2
  <2> QED
    BY <1>3, <1>6, <2>1, <2>2, <2>3 DEF OnCard, EAt
<1>8. /\ DOMAIN em' = DOMAIN em /\ em'.lock = em.lock /\ em'.sem = 0 /\ em'.oper = "none" /\ em'.code = code
      /\ em'.reply = h /\ em'.result = em.result /\ ~em'.fatal
  BY <1>t, <1>1, <1>5, <1>7 DEF EmuType
<1>9. Succeeded' <=> code = "SUCCESS"
  BY <1>1, <1>8, SMT DEF Succeeded
<1>10. hopen' \subseteq Handle
  BY <1>t, <1>5 DEF EmuType
<1>11. EmuType'
  BY <1>t, <1>1, <1>8, <1>10 DEF EmuType
<1>12. code # "none"
  BY DEF Codes
<1>13. EmuCard'
  BY <1>t, <1>1, <1>2, <1>8, <1>12, EmuAssumption DEF EmuCard
<1>14. EmuOper'
  BY <1>8 DEF EmuOper
<1>15. \A u \in EmuThread, g \in Handle :
         NewHandle(u, g)' => NewHandle(u, g) \/ (u = t /\ g = h /\ EAt(t, "opening") /\ code = "SUCCESS")
  BY <1>1, <1>3, <1>8, <1>9 DEF NewHandle, EAt, OnCard
<1>16. EAt(t, "opening") /\ code = "SUCCESS" =>
          hopen' = hopen \cup {h} /\ refs[h] = 0 /\ \A u \in EmuThread : ~NewHandle(u, h)
  <2> SUFFICES ASSUME EAt(t, "opening"), code = "SUCCESS"
               PROVE  hopen' = hopen \cup {h} /\ refs[h] = 0 /\ \A u \in EmuThread : ~NewHandle(u, h)
    OBVIOUS
  <2>1. hopen' = hopen \cup {h} /\ h \notin hopen
    BY <1>5, <1>6
  <2>2. refs[h] = 0
    BY <1>t, <1>3, <2>1, SMTT(30) DEF EmuRefs, EmuType, EAt, OnCard
  <2>3. \A u \in EmuThread : ~NewHandle(u, h)
    BY <1>t, <1>4, <2>1 DEF EmuNew
  <2> QED
    BY <2>1, <2>2, <2>3
<1>17. /\ et[t].pc \in {"closing", "reclaiming"} /\ code = "SUCCESS" => hopen' = hopen \ {h}
       /\ EAt(t, "io") \/ code # "SUCCESS" => hopen' = hopen
  BY <1>5, <1>6
<1>18. EmuNew'
  <2>1. \A u \in EmuThread : et'[u].pc \in {"load", "table", "close", "closing"} => et'[u].h \in Handle
    BY <1>t, <1>1 DEF EmuNew
  <2>2. \A u \in EmuThread : EAt(u, "opening")' /\ Succeeded' => em'.reply \in Handle
    BY <1>8
  <2>3. ASSUME NEW u \in EmuThread, NEW g \in Handle, NewHandle(u, g)'
        PROVE  refs'[g] = 0 /\ (g \in hopen' \/ (EAt(u, "closing")' /\ Succeeded'))
    <3>1. CASE u = t /\ g = h /\ EAt(t, "opening") /\ code = "SUCCESS"
      BY <1>1, <1>16, <3>1
    <3>2. CASE NewHandle(u, g)
      <4>1. refs[g] = 0 /\ g \in hopen
        BY <1>t, <1>4, <3>2 DEF EmuNew
      <4>2. CASE EAt(t, "opening") \/ EAt(t, "io") \/ code # "SUCCESS"
        BY <1>1, <1>16, <1>17, <4>1, <4>2
      <4>3. CASE et[t].pc = "closing" /\ code = "SUCCESS"
        <5>1. NewHandle(t, h)
          BY <1>6, <4>3 DEF NewHandle
        <5>2. g = h => u = t
          BY <1>t, <3>2, <5>1 DEF EmuNew
        <5> QED
          BY <1>1, <1>9, <1>17, <4>1, <4>3, <5>2 DEF EAt
      <4>4. CASE et[t].pc = "reclaiming" /\ code = "SUCCESS"
        <5>1. refs[h] = 1
          BY <1>t, <1>6, <4>4 DEF EmuRefs, EAt
        <5> QED
          BY <1>1, <1>17, <4>1, <4>4, <5>1, SMTT(30)
      <4> QED
        BY <1>3, <4>2, <4>3, <4>4 DEF OnCard, EAt
    <3> QED
      BY <1>15, <2>3, <3>1, <3>2
  <2>4. \A u, v \in EmuThread, g \in Handle : NewHandle(u, g)' /\ NewHandle(v, g)' => u = v
    BY <1>t, <1>15, <1>16, SMTT(30) DEF EmuNew
  <2> QED
    BY <2>1, <2>2, <2>3, <2>4 DEF EmuNew
<1>19. EmuRefs'
  <2>1. \A g \in Handle : Holders(g)' = Holders(g)
    BY <1>1 DEF Holders, Holder
  <2>2. ASSUME NEW g \in Handle, NEW u \in EmuThread, et[u].pc = "reclaiming", et[u].h = g
        PROVE  refs[g] = 1 /\ Holders(g) = {} /\ (g \in hopen' \/ Succeeded')
    <3>1. refs[g] = 1 /\ Holders(g) = {} /\ g \in hopen
      BY <1>t, <1>4, <2>2 DEF EmuRefs, EAt
    <3>2. u = t
      BY <1>3, <2>2 DEF OnCard
    <3> QED
      BY <1>9, <1>17, <2>2, <3>1, <3>2
  <2>3. ASSUME NEW g \in Handle, refs[g] > 0
        PROVE  g \in hopen' \/ \E u \in EmuThread : et[u].pc = "reclaiming" /\ et[u].h = g
    <3>1. g \in hopen \/ \E u \in EmuThread : et[u].pc = "reclaiming" /\ et[u].h = g
      BY <1>t, <2>3 DEF EmuRefs, EAt
    <3>2. CASE EAt(t, "opening") \/ EAt(t, "io") \/ code # "SUCCESS"
      BY <1>16, <1>17, <3>1, <3>2
    <3>3. CASE et[t].pc = "closing" /\ code = "SUCCESS"
      <4>1. refs[h] = 0
        BY <1>t, <1>6, <3>3 DEF EmuNew, NewHandle
      <4> QED
        BY <1>17, <2>3, <3>1, <3>3, <4>1, SMTT(30)
    <3>4. CASE et[t].pc = "reclaiming" /\ code = "SUCCESS"
      BY <1>6, <1>17, <3>1, <3>4
    <3> QED
      BY <1>3, <3>2, <3>3, <3>4 DEF OnCard, EAt
  <2> QED
    BY <1>t, <1>1, <2>1, <2>2, <2>3, SMTT(30) DEF EmuRefs, EAt
<1> QED
  BY <1>11, <1>13, <1>14, <1>18, <1>19 DEF EmuInv


-----------------------------------------------------------------------------
(* The devices together *)
DevInv == BusType /\ LhdInv /\ ConInv /\ EmuInv

\* The devices' invariant holds at the start.
LEMMA DevInit == Init => DevInv
<1> SUFFICES ASSUME Init PROVE DevInv
  OBVIOUS
<1>1. BusType
  BY SMTT(30) DEF Init, BusType
<1>2. LhdInv
  BY <1>1, LhdAssumption DEF Init, LhdInit, LhdInv, LhdType, LhdToken, LhdData, LhdUio, NoReq, HasCard, ResultRead, CardOK, At
<1>3. ConInv
  <2>1. ConType
    BY DEF Init, ConInit, ConType, NoCt
  <2>2. OneToken /\ PortState
    BY ConAssumption DEF Init, ConInit, OneToken, PortState, NoCt, Sender, CAt, Polling
  <2>3. /\ accepted = <<>> /\ got = <<>> /\ Count = 0 /\ Len(got) = 0
        /\ cs.head = 0 /\ cs.tail = 0 /\ cs.rsem = 0 /\ cs.gotchars = [i \in Ring |-> 0]
    BY SMT DEF Init, ConInit, Count
  <2>4. RingState
    BY <2>3, ConAssumption, SMTT(30) DEF RingState, Ring, Pos
  <2>5. ~OwedV /\ ~Taker
    BY DEF Init, ConInit, OwedV, Taker, NoCt
  <2>6. ReadSem
    BY <2>3, <2>5, SMTT(30) DEF ReadSem, Init, ConInit, NoCt, Reading, CAt
  <2> QED
    BY <2>1, <2>2, <2>4, <2>6 DEF ConInv
<1>4. EmuInv
  <2>1. EmuType
    BY EmuAssumption DEF Init, EmuInit, EmuType, NoEt
  <2>2. EmuCard
    BY EmuAssumption DEF Init, EmuInit, EmuCard, NoEt, OnCard
  <2>3. EmuOper /\ EmuNew
    BY EmuAssumption DEF Init, EmuInit, EmuOper, EmuNew, NewHandle, NoEt, EAt
  <2>4. EmuRefs
    <3>1. \A h \in Handle : Holders(h) = {} /\ refs[h] = 0
      BY EmuAssumption DEF Init, EmuInit, NoEt, Holders, Holder
    <3> QED
      BY <3>1, FS_EmptySet, SMTT(30) DEF Init, EmuInit, NoEt, EmuRefs, EAt
  <2> QED
    BY <2>1, <2>2, <2>3, <2>4 DEF EmuInv
<1> QED
  BY <1>1, <1>2, <1>3, <1>4 DEF DevInv

\* A step of a thread on its device.
LEMMA LhdThreadStepKeeps ==
    ASSUME DevInv, NEW t \in Thread, LhdThreadStep(t)
    PROVE  DevInv'
<1>t. t \in LhdThread /\ UNCHANGED <<convars, emuvars, bus>>
  BY DevicesAssumption DEF LhdThreadStep, OnLhd
<1>1. \/ dev_read(t) \/ dev_write(t)
      \/ lhd_io_clear(t) \/ lhd_io_start(t) \/ lhd_io_fault(t) \/ lhd_io_done(t)
      \/ lhd_io_result(t) \/ lhd_io_next(t)
  BY DEF LhdThreadStep
<1>2. LhdInv'
  BY <1>t, <1>1, LhdAsk, LhdThreadMoves DEF DevInv
<1>3. ConInv'
  BY <1>t, ConQuiet DEF DevInv
<1>4. EmuSame
  BY <1>t DEF EmuSame, DevInv, EmuInv, EmuCard
<1> QED
  BY <1>t, <1>2, <1>3, <1>4, EmuQuiet DEF DevInv, BusType

\* A step of a thread in the console keeps the invariants of all devices.
LEMMA ConThreadStepKeeps ==
    ASSUME DevInv, NEW t \in Thread, ConThreadStep(t)
    PROVE  DevInv'
<1>t. t \in ConThread /\ UNCHANGED <<lhdvars, emuvars, bus>>
  BY DevicesAssumption DEF ConThreadStep, OnCon
<1>1. \/ con_io_write(t) \/ con_io_char(t) \/ con_io_written(t) \/ putch(t) \/ putch_intr(t)
      \/ lser_write(t)
      \/ lser_writepolled(t) \/ lser_poll_until_write(t) \/ lser_writepolled_send(t)
      \/ lser_writepolled_done(t)
      \/ con_io_read(t) \/ getch_intr(t) \/ getch_take(t) \/ con_io_more(t) \/ getch_tail(t)
  BY DEF ConThreadStep
<1>2. ConInv'
  BY <1>t, <1>1, ConOutput, ConPolled, ConInput, ConTail DEF DevInv
<1>3. LhdInv'
  BY <1>t, LhdQuiet DEF DevInv
<1>4. EmuSame
  BY <1>t DEF EmuSame, DevInv, EmuInv, EmuCard
<1> QED
  BY <1>t, <1>2, <1>3, <1>4, EmuQuiet DEF DevInv, BusType

\* A step of a thread in emufs keeps the invariants of all devices.
LEMMA EmuThreadStepKeeps ==
    ASSUME DevInv, NEW t \in Thread, EmuThreadStep(t)
    PROVE  DevInv'
<1>t. t \in EmuThread /\ UNCHANGED <<lhdvars, convars, bus>>
  BY DevicesAssumption DEF EmuThreadStep, OnEmu
<1>1. \/ emufs_lookup(t) \/ emufs_creat(t) \/ emufs_loadvnode_biglock(t)
      \/ emufs_loadvnode_fail(t) \/ emufs_reclaim_biglock(t)
      \/ emu_open(t) \/ emu_close(t) \/ emufs_io(t) \/ emufs_reclaim(t)
      \/ emu_open_done(t) \/ emu_close_done(t) \/ emufs_io_done(t) \/ emufs_reclaim_done(t)
      \/ emu_close_retry(t) \/ emufs_loadvnode(t) \/ VOP_INCREF(t) \/ vnode_decref(t)
  BY DEF EmuThreadStep
<1>2. EmuInv'
  BY <1>t, <1>1, EmuWalks, EmuTakes, EmuReleases, EmuRetry, EmuCounts DEF DevInv
<1>3. LhdInv'
  BY <1>t, LhdQuiet DEF DevInv
<1>4. ConInv'
  BY <1>t, ConQuiet DEF DevInv
<1> QED
  BY <1>t, <1>2, <1>3, <1>4 DEF DevInv, BusType

\* The handlers, one after the other on the boot CPU.
LEMMA HandlersKeep ==
    ASSUME DevInv, lhd_handler \/ lser_handler \/ emu_handler
    PROVE  DevInv'
<1>t. BusType /\ LhdInv /\ ConInv /\ EmuInv /\ EmuCard
  BY DEF DevInv, EmuInv
<1>1. CASE lhd_handler
  <2>1. UNCHANGED <<convars, emuvars>>
    BY <1>1 DEF lhd_handler
  <2>2. CASE bus.pc = "lhd" /\ lhd_irq /\ Go("lhd_iodone")
    <3>1. BusType' /\ bus'.pc = "lhd_iodone" /\ bus'.irqs = bus.irqs /\ bus'.slot = bus.slot
      BY <1>t, <2>2, GoFacts DEF Handlers
    <3>2. LhdInv'
      BY <1>t, <2>2, <3>1, LhdCardMoves
    <3>3. ConInv'
      BY <1>t, <2>1, <2>2, <3>1, ConQuiet
    <3>4. EmuSame
      BY <1>t, <2>1, <2>2, <3>1 DEF EmuSame, EmuCard
    <3> QED
      BY <1>t, <3>1, <3>2, <3>3, <3>4, EmuQuiet DEF DevInv
  <2>3. CASE bus.pc = "lhd_iodone" /\ lhd_iodone /\ bus' = Reload
    <3>1. BusType' /\ bus'.pc = "scan" /\ (3 \in bus'.irqs => em'.code # "none")
      BY <1>t, <2>3, ReloadFacts
    <3>2. LhdInv'
      BY <1>t, <2>3, <3>1, LhdCardMoves
    <3>3. ConInv'
      BY <1>t, <2>1, <2>3, <3>1, ConQuiet
    <3>4. EmuSame
      BY <1>t, <2>1, <2>3, <3>1 DEF EmuSame, emuvars
    <3> QED
      BY <1>t, <3>1, <3>2, <3>3, <3>4, EmuQuiet DEF DevInv
  <2> QED
    BY <1>1, <2>2, <2>3 DEF lhd_handler
<1>2. CASE lser_handler
  <2>1. UNCHANGED <<lhdvars, emuvars>>
    BY <1>2 DEF lser_handler
  <2>2. CASE bus.pc = "con" /\ lser_irq /\ Go("con_start")
    <3>1. BusType' /\ bus'.pc = "con_start" /\ bus'.irqs = bus.irqs /\ bus'.slot = bus.slot
      BY <1>t, <2>2, GoFacts DEF Handlers
    <3>2. ConInv'
      BY <1>t, <2>2, <3>1, ConPort
    <3>3. LhdInv'
      BY <1>t, <2>1, <2>2, <3>1, LhdQuiet
    <3>4. EmuSame
      BY <1>t, <2>1, <2>2, <3>1 DEF EmuSame, EmuCard
    <3> QED
      BY <1>t, <3>1, <3>2, <3>3, <3>4, EmuQuiet DEF DevInv
  <2>3. CASE bus.pc = "con_start" /\ con_start /\ Go("con_input")
    <3>1. BusType' /\ bus'.pc = "con_input" /\ bus'.irqs = bus.irqs /\ bus'.slot = bus.slot
      BY <1>t, <2>3, GoFacts DEF Handlers
    <3>2. ConInv'
      BY <1>t, <2>3, <3>1, ConPort
    <3>3. LhdInv'
      BY <1>t, <2>1, <2>3, <3>1, LhdQuiet
    <3>4. EmuSame
      BY <1>t, <2>1, <2>3, <3>1 DEF EmuSame, EmuCard
    <3> QED
      BY <1>t, <3>1, <3>2, <3>3, <3>4, EmuQuiet DEF DevInv
  <2>4. CASE bus.pc = "con_input" /\ con_input /\ Go("con_V")
    <3>1. BusType' /\ bus'.pc = "con_V" /\ bus'.irqs = bus.irqs /\ bus'.slot = bus.slot
      BY <1>t, <2>4, GoFacts DEF Handlers
    <3>2. ConInv'
      BY <1>t, <2>4, <3>1, ConInputMoves
    <3>3. LhdInv'
      BY <1>t, <2>1, <2>4, <3>1, LhdQuiet
    <3>4. EmuSame
      BY <1>t, <2>1, <2>4, <3>1 DEF EmuSame, EmuCard
    <3> QED
      BY <1>t, <3>1, <3>2, <3>3, <3>4, EmuQuiet DEF DevInv
  <2>5. CASE bus.pc = "con_V" /\ con_input_V /\ bus' = Reload
    <3>1. BusType' /\ bus'.pc = "scan" /\ (3 \in bus'.irqs => em'.code # "none")
      BY <1>t, <2>5, ReloadFacts
    <3>2. ConInv'
      BY <1>t, <2>5, <3>1, ConInputVMoves
    <3>3. LhdInv'
      BY <1>t, <2>1, <2>5, <3>1, LhdQuiet
    <3>4. EmuSame
      BY <1>t, <2>1, <2>5, <3>1 DEF EmuSame, emuvars
    <3> QED
      BY <1>t, <3>1, <3>2, <3>3, <3>4, EmuQuiet DEF DevInv
  <2> QED
    BY <1>2, <2>2, <2>3, <2>4, <2>5 DEF lser_handler
<1>3. CASE emu_handler
  <2>1. UNCHANGED <<lhdvars, convars>>
    BY <1>3 DEF emu_handler
  <2>2. CASE bus.pc = "emu" /\ emu_irq /\ Go("emu_V")
    <3>1. BusType' /\ bus'.pc = "emu_V" /\ bus'.irqs = bus.irqs /\ bus'.slot = bus.slot
      BY <1>t, <2>2, GoFacts DEF Handlers
    <3>2. EmuInv'
      BY <1>t, <2>2, <3>1, EmuIrqMoves
    <3>3. LhdInv' /\ ConInv'
      BY <1>t, <2>1, <2>2, <3>1, LhdQuiet, ConQuiet
    <3> QED
      BY <3>1, <3>2, <3>3 DEF DevInv
  <2>3. CASE bus.pc = "emu_V" /\ emu_irq_V /\ bus' = Reload
    <3>1. BusType' /\ bus'.pc = "scan" /\ (3 \in bus'.irqs => em'.code # "none")
      BY <1>t, <2>3, ReloadFacts
    <3>2. EmuInv'
      BY <1>t, <2>3, <3>1, EmuIrqMoves
    <3>3. LhdInv' /\ ConInv'
      BY <1>t, <2>1, <2>3, <3>1, LhdQuiet, ConQuiet
    <3> QED
      BY <3>1, <3>2, <3>3 DEF DevInv
  <2> QED
    BY <1>3, <2>2, <2>3 DEF emu_handler
<1> QED
  BY <1>1, <1>2, <1>3

\* A step of the hardware keeps the invariants of all devices.
LEMMA HardwareKeeps ==
    ASSUME DevInv, Hardware
    PROVE  DevInv'
<1>t. BusType /\ LhdInv /\ ConInv /\ EmuInv /\ EmuCard /\ UNCHANGED bus
  BY DEF DevInv, EmuInv, Hardware
<1>1. BusType'
  BY <1>t DEF BusType
<1>2. CASE lhd_card /\ UNCHANGED <<convars, emuvars>>
  <2>1. EmuSame
    BY <1>t, <1>2 DEF EmuSame, EmuCard
  <2> QED
    BY <1>t, <1>1, <1>2, <2>1, LhdCardMoves, ConQuiet, EmuQuiet DEF DevInv
<1>3. CASE emu_card /\ UNCHANGED <<lhdvars, convars>>
  BY <1>t, <1>1, <1>3, EmuCardMoves, LhdQuiet, ConQuiet DEF DevInv
<1>4. CASE (lser_sent \/ lser_key) /\ UNCHANGED <<lhdvars, emuvars>>
  <2>1. EmuSame
    BY <1>t, <1>4 DEF EmuSame, EmuCard
  <2> QED
    BY <1>t, <1>1, <1>4, <2>1, ConPort, LhdQuiet, EmuQuiet DEF DevInv
<1> QED
  BY <1>2, <1>3, <1>4 DEF Hardware

\* Every step keeps the invariants of all devices.
LEMMA DevNext == DevInv /\ [Next]_vars => DevInv'
<1> SUFFICES ASSUME DevInv, [Next]_vars PROVE DevInv'
  OBVIOUS
<1>1. ASSUME \/ autoconf_lamebus \/ mainbus_interrupt \/ lamebus_interrupt
             \/ lamebus_interrupt_call \/ lamebus_interrupt_end
      PROVE  DevInv'
  <2>1. BusStep /\ BusType' /\ EmuSame
    BY <1>1, BusMoves, BusEmu DEF DevInv
  <2>2. LhdInv'
    BY <2>1, LhdQuiet DEF DevInv, BusStep, Device
  <2>3. ConInv'
    BY <2>1, ConQuiet DEF DevInv, BusStep, Device
  <2> QED
    BY <2>1, <2>2, <2>3, EmuQuiet DEF DevInv
<1>2. CASE lhd_handler \/ lser_handler \/ emu_handler
  BY <1>2, HandlersKeep
<1>3. ASSUME NEW t \in Thread, LhdThreadStep(t) \/ ConThreadStep(t) \/ EmuThreadStep(t)
      PROVE  DevInv'
  BY <1>3, LhdThreadStepKeeps, ConThreadStepKeeps, EmuThreadStepKeeps
<1>4. CASE Hardware
  BY <1>4, HardwareKeeps
<1>5. CASE UNCHANGED vars
  <2>1. UNCHANGED <<lhdvars, convars, emuvars, bus>>
    BY <1>5 DEF vars
  <2>2. EmuSame
    BY <2>1 DEF EmuSame, DevInv, EmuInv, EmuCard
  <2> QED
    BY <2>1, <2>2, LhdQuiet, ConQuiet, EmuQuiet DEF DevInv, BusType
<1> QED
  BY <1>1, <1>2, <1>3, <1>4, <1>5 DEF Next

\* The inductive invariant of the bus and its devices holds throughout.
THEOREM Invariance == Spec => []DevInv
BY DevInit, DevNext, PTL DEF Spec

-----------------------------------------------------------------------------
(* What it implies *)

\* The console's invariant says what the property on output asks.
LEMMA ConSaysWrite == ConInv => WritePermission
<1> SUFFICES ASSUME ConInv PROVE WritePermission
  OBVIOUS
<1>t. ConType /\ OneToken /\ PortState
  BY DEF ConInv
<1> DEFINE S == {t \in ConThread : CAt(t, "send")}
<1>1. IF Sender THEN Cardinality(S) = 1 ELSE Cardinality(S) = 0
  <2>1. CASE Sender
    <3>1. PICK t \in ConThread : CAt(t, "send")
      BY <2>1 DEF Sender
    <3>2. S = {t}
      BY <1>t, <3>1 DEF OneToken
    <3> QED
      BY <2>1, <3>2, FS_Singleton
  <2>2. CASE ~Sender
    <3>1. S = {}
      BY <2>2 DEF Sender
    <3> QED
      BY <2>2, <3>1, FS_EmptySet
  <2> QED
    BY <2>1, <2>2
<1> HIDE DEF S
<1>2. cs.wsem + Cardinality(S) + (IF ls.wbusy THEN 1 ELSE 0) + (IF ls.start THEN 1 ELSE 0) = 1
  BY <1>t, <1>1, SMTT(30) DEF OneToken, ConType
<1> QED
  BY <1>t, <1>2 DEF PortState, WritePermission, S

\* The emulator's invariant says what the property asks.
LEMMA EmuSays == EmuInv => HandlesMatch
<1> SUFFICES ASSUME EmuInv PROVE HandlesMatch
  OBVIOUS
<1>1. ~em.fatal /\ (em.lock = None => em.oper = "none" /\ em.code = "none" /\ em.sem = 0)
  BY DEF EmuInv, EmuType, EmuCard
<1>2. ASSUME NEW h \in Handle
      PROVE  /\ Cardinality(Holders(h)) <= refs[h]
             /\ refs[h] > 0 => h \in hopen \/ \E t \in EmuThread : EAt(t, "reclaiming") /\ et[t].h = h
  BY DEF EmuInv, EmuRefs
<1> QED
  BY <1>1, <1>2 DEF HandlesMatch, Holders, Holder

\* lhd_io, lhd_irq and lhd_iodone, for any number of threads and sectors: a
\* sector reported as done is the one that was asked for, and what was read or
\* written is what is on the disk.
THEOREM DiskFaithful == Spec => []TransferFaithful
<1>1. DevInv => TransferFaithful
  BY LhdSays DEF DevInv
<1> QED
  BY <1>1, Invariance, PTL

\* putch_intr, con_start and the polled writes of lser.c, for any number of
\* threads: the permission to write is in one place, and never lost.
THEOREM ConsoleWrites == Spec => []WritePermission
<1>1. DevInv => WritePermission
  BY ConSaysWrite DEF DevInv
<1> QED
  BY <1>1, Invariance, PTL

\* con_input and getch_intr, for a ring of any size: what is read is what was
\* typed and kept, and cs_rsem never promises more than the ring holds.
THEOREM ConsoleReads == Spec => []InputFaithful
<1>1. DevInv => InputFaithful
  BY ConSaysRead DEF DevInv
<1> QED
  BY <1>1, Invariance, PTL

\* emufs_loadvnode, emufs_reclaim and emu_waitdone, for any finite set of
\* threads and any handles: a counted vnode's handle is open, every holder is
\* counted, and no answer is left over for the next user of the card.
THEOREM EmuHandles == Spec => []HandlesMatch
<1>1. DevInv => HandlesMatch
  BY EmuSays DEF DevInv
<1> QED
  BY <1>1, Invariance, PTL
=============================================================================
