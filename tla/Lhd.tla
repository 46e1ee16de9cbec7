-------------------------------- MODULE Lhd --------------------------------
(***************************************************************************)
(* The disk driver, kern/dev/lamebus/lhd.c.  One sector at a time is moved *)
(* through the buffer on the card: lh_clear gives the card to one thread,  *)
(* lh_done tells it that the interrupt handler has saved the result.       *)
(***************************************************************************)
EXTENDS Integers

CONSTANTS LhdThread, NSECT, LHD_SECTSIZE, Data, MaxLen

ASSUME LhdAssumption == NSECT \in Nat /\ LHD_SECTSIZE \in Nat \ {0} /\ MaxLen \in Nat

VARIABLES
    lh,         \* the softc and the card's registers and buffer
    sectors,    \* what is on the disk
    req         \* lhd_io of each thread

lhdvars == <<lh, sectors, req>>

NoReq == [pc |-> "out", write |-> FALSE, sector |-> 0, len |-> 0, i |-> 0, data |-> 0, result |-> "OK",
          uio_offset |-> 0, uio_resid |-> 0]

LhdInit ==
    /\ lh = [stat |-> "IDLE", sect |-> 0, write |-> FALSE, buf |-> 0,
             clear |-> 1, done |-> 0, code |-> "OK", result |-> "OK"]
    /\ sectors = [s \in 0 .. NSECT - 1 |-> 0]
    /\ req = [t \in LhdThread |-> NoReq]

At(t, pc) == req[t].pc = pc
Req(t, r) == req' = [req EXCEPT ![t] = r]

\* A request that is not within the disk, or not made of whole sectors, is
\* refused before anything is done.
lhd_io(t, write, offset, resid, d) ==
    LET sector == offset \div LHD_SECTSIZE
        len == resid \div LHD_SECTSIZE
    IN /\ At(t, "out")
       /\ offset % LHD_SECTSIZE = 0 /\ resid % LHD_SECTSIZE = 0
       /\ sector + len <= NSECT
       /\ Req(t, IF len = 0 THEN NoReq
                 ELSE [NoReq EXCEPT !.pc = "clear", !.write = write, !.sector = sector, !.len = len,
                                    !.data = d, !.uio_offset = offset, !.uio_resid = resid])
       /\ UNCHANGED <<lh, sectors>>

\* The device's vnode checks the position first.
dev_tryseek(pos) == pos % LHD_SECTSIZE = 0 /\ pos \div LHD_SECTSIZE < NSECT

Offsets == 0 .. NSECT * LHD_SECTSIZE
Sizes == 0 .. MaxLen * LHD_SECTSIZE

dev_read(t) == \E o \in Offsets, n \in Sizes : dev_tryseek(o) /\ lhd_io(t, FALSE, o, n, 0)
dev_write(t) == \E o \in Offsets, n \in Sizes, d \in Data : dev_tryseek(o) /\ lhd_io(t, TRUE, o, n, d)

\* uiomove of one sector advances the uio; it moves nothing once it fails.
uiomove(r) == [r EXCEPT !.uio_offset = @ + LHD_SECTSIZE, !.uio_resid = @ - LHD_SECTSIZE]

\* Mutant: the card is not waited for.
lhd_io_clear_free(t) ==
    /\ At(t, "clear")
    /\ Req(t, [req[t] EXCEPT !.pc = "start"])
    /\ UNCHANGED <<lh, sectors>>

\* P(lh_clear)
lhd_io_clear(t) ==
    /\ At(t, "clear") /\ lh.clear > 0
    /\ lh' = [lh EXCEPT !.clear = @ - 1]
    /\ Req(t, [req[t] EXCEPT !.pc = "start"])
    /\ UNCHANGED sectors

\* The data to be written is moved to the card, and the card is started.
lhd_io_start(t) ==
    /\ At(t, "start")
    /\ lh' = [lh EXCEPT !.buf = IF req[t].write THEN req[t].data ELSE @, !.sect = req[t].sector + req[t].i,
                        !.write = req[t].write, !.stat = "WORKING"]
    /\ Req(t, [IF req[t].write THEN uiomove(req[t]) ELSE req[t] EXCEPT !.pc = "done"])
    /\ UNCHANGED sectors

\* Or uiomove fails.
lhd_io_fault(t) ==
    /\ At(t, "start") /\ req[t].write
    /\ lh' = [lh EXCEPT !.clear = @ + 1]
    /\ Req(t, NoReq)
    /\ UNCHANGED sectors

\* P(lh_done)
lhd_io_done(t) ==
    /\ At(t, "done") /\ lh.done > 0
    /\ lh' = [lh EXCEPT !.done = @ - 1]
    /\ Req(t, [req[t] EXCEPT !.pc = "result"])
    /\ UNCHANGED sectors

\* The result; the data read is moved out, and that may fail.
lhd_io_result(t) ==
    /\ At(t, "result")
    /\ \E r \in {lh.result} \cup (IF req[t].write THEN {} ELSE {"FAULT"}) :
          Req(t, [IF r = "OK" /\ ~req[t].write THEN [uiomove(req[t]) EXCEPT !.data = lh.buf] ELSE req[t]
                  EXCEPT !.pc = "free", !.result = r])
    /\ UNCHANGED <<lh, sectors>>

\* V(lh_clear); then the next sector, or the end.
lhd_io_next(t) ==
    /\ At(t, "free")
    /\ lh' = [lh EXCEPT !.clear = @ + 1]
    /\ Req(t, IF req[t].result = "OK" /\ req[t].i + 1 < req[t].len
              THEN [req[t] EXCEPT !.pc = "clear", !.i = @ + 1]
              ELSE NoReq)
    /\ UNCHANGED sectors

\* The card: the transfer is done, or the medium fails.
lhd_card ==
    /\ lh.stat = "WORKING"
    /\ \E code \in {"OK", "MEDIA"} :
          /\ lh' = [lh EXCEPT !.stat = code,
                              !.buf = IF code = "OK" /\ ~lh.write THEN sectors[lh.sect] ELSE @]
          /\ sectors' = IF code = "OK" /\ lh.write THEN [sectors EXCEPT ![lh.sect] = lh.buf] ELSE sectors
    /\ UNCHANGED req

lhd_asserts == lh.stat \notin {"IDLE", "WORKING"}

\* lhd_irq: the status of a finished operation is read and cleared.
lhd_irq ==
    /\ lh' = [lh EXCEPT !.stat = IF lhd_asserts THEN "IDLE" ELSE @,
                        !.code = IF lhd_asserts THEN lh.stat ELSE "none"]
    /\ UNCHANGED <<sectors, req>>

\* lhd_iodone: the result is saved, and V(lh_done).
lhd_iodone ==
    /\ lh' = IF lh.code = "none" THEN lh ELSE [lh EXCEPT !.result = lh.code, !.done = @ + 1]
    /\ UNCHANGED <<sectors, req>>

\* lhd_io: whenever the driver reports success for a sector, what it read is
\* what is on the disk, what it wrote is on the disk, and the sector is the one
\* the caller's uio has just moved past; whatever other threads ask of the disk
\* at the same time.
TransferFaithful ==
    \A t \in LhdThread :
        At(t, "free") /\ req[t].result = "OK" =>
            LET s == req[t].sector + req[t].i IN
            /\ sectors[s] = req[t].data
            /\ req[t].uio_offset = (s + 1) * LHD_SECTSIZE
            /\ req[t].uio_resid = (req[t].len - req[t].i - 1) * LHD_SECTSIZE
=============================================================================
