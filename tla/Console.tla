------------------------------ MODULE Console ------------------------------
(***************************************************************************)
(* The console, kern/dev/generic/console.c, on the serial port,            *)
(* kern/dev/lamebus/lser.c.  Output waits for cs_wsem, which the write-done*)
(* interrupt gives back; from interrupt handlers and under spinlocks it is *)
(* polled.  Input is put in a ring by the interrupt handler and counted by *)
(* cs_rsem.                                                                *)
(***************************************************************************)
EXTENDS Integers, Sequences, FiniteSets

CONSTANTS ConThread, CONSOLE_INPUT_BUFFER_SIZE, MaxTyped, MaxIO, Nobody

ASSUME ConAssumption ==
    /\ CONSOLE_INPUT_BUFFER_SIZE \in Nat \ {0}
    /\ MaxTyped \in Nat /\ MaxIO \in Nat
    /\ Nobody \notin ConThread

VARIABLES
    cs,         \* con_softc: the ring, cs_rsem and cs_wsem
    ls,         \* lser_softc and the port's registers
    ct,         \* con_io, putch and getch of each thread
    typed,      \* the characters typed so far (numbered)
    accepted,   \* those that con_input kept
    got         \* those that were read

convars == <<cs, ls, ct, typed, accepted, got>>

Ring == 0 .. CONSOLE_INPUT_BUFFER_SIZE - 1
NoCt == [pc |-> "out", left |-> 0, puts |-> 0, ch |-> 0, pending |-> FALSE]

ConInit ==
    /\ cs = [head |-> 0, tail |-> 0, gotchars |-> [i \in Ring |-> 0], rsem |-> 0, wsem |-> 1,
             rlock |-> Nobody, wlock |-> Nobody]
    /\ ls = [lock |-> Nobody, wbusy |-> FALSE, sending |-> FALSE, ready |-> FALSE, force |-> FALSE,
             enable |-> TRUE, ractive |-> FALSE, char |-> 0, start |-> FALSE, input |-> 0, notclear |-> FALSE]
    /\ ct = [t \in ConThread |-> NoCt]
    /\ typed = 0 /\ accepted = <<>> /\ got = <<>>

CAt(t, pc) == ct[t].pc = pc
Ct(t, r) == ct' = [ct EXCEPT ![t] = r]
history == <<typed, accepted, got>>

-----------------------------------------------------------------------------
(* Output *)

\* con_io writing takes con_userlock_write and fetches the characters one by
\* one; uiomove may fail.  A newline is two calls of putch.
con_io_write(t) ==
    /\ CAt(t, "out") /\ cs.wlock = Nobody
    /\ \E n \in 1 .. MaxIO : Ct(t, [NoCt EXCEPT !.pc = "char", !.left = n])
    /\ cs' = [cs EXCEPT !.wlock = t]
    /\ UNCHANGED <<ls, history>>

con_io_char(t) ==
    /\ CAt(t, "char") /\ ct[t].left > 0
    /\ \E n \in 1 .. 2 : Ct(t, [ct[t] EXCEPT !.pc = "putch", !.puts = n, !.left = @ - 1])
    /\ UNCHANGED <<cs, ls, history>>

con_io_written(t) ==
    /\ CAt(t, "char")
    /\ cs' = IF cs.wlock = t THEN [cs EXCEPT !.wlock = Nobody] ELSE cs
    /\ Ct(t, NoCt)
    /\ UNCHANGED <<ls, history>>

\* putch called by the kernel itself (kprintf) takes no such lock.
putch(t) ==
    /\ CAt(t, "out")
    /\ Ct(t, [NoCt EXCEPT !.pc = "putch", !.puts = 1])
    /\ UNCHANGED <<cs, ls, history>>

\* putch_intr: P(cs_wsem)
putch_intr(t) ==
    /\ CAt(t, "putch") /\ cs.wsem > 0
    /\ cs' = [cs EXCEPT !.wsem = @ - 1]
    /\ Ct(t, [ct[t] EXCEPT !.pc = "send"])
    /\ UNCHANGED <<ls, history>>

\* cs_send: the port must be clear to write, or the kernel panics.
lser_write(t) ==
    /\ CAt(t, "send") /\ ls.lock = Nobody
    /\ ls' = [ls EXCEPT !.notclear = @ \/ ls.wbusy \/ ls.sending, !.wbusy = TRUE, !.sending = TRUE]
    /\ Ct(t, [ct[t] EXCEPT !.pc = IF ct[t].puts > 1 THEN "putch" ELSE "char", !.puts = @ - 1])
    /\ UNCHANGED <<cs, history>>

\* The port: the character is out.
lser_sent ==
    /\ ls.sending
    /\ ls' = [ls EXCEPT !.sending = FALSE, !.ready = TRUE]
    /\ UNCHANGED <<cs, ct, history>>

\* lser_writepolled: with the port busy the condition is cleared but the line
\* is held with the force bit; otherwise interrupts are turned off.
lser_writepolled(t) ==
    /\ CAt(t, "out") /\ ls.lock = Nobody
    /\ ls' = [ls EXCEPT !.lock = t, !.enable = ls.wbusy]
    /\ Ct(t, [NoCt EXCEPT !.pc = IF ls.wbusy THEN "poll" ELSE "polled", !.pending = ls.wbusy])
    /\ UNCHANGED <<cs, history>>

\* Mutant: the line is not held.
lser_poll_until_write_unforced(t) ==
    /\ CAt(t, "poll") /\ ls.ready
    /\ ls' = [ls EXCEPT !.ready = FALSE, !.enable = FALSE]
    /\ Ct(t, [ct[t] EXCEPT !.pc = "polled", !.pending = FALSE])
    /\ UNCHANGED <<cs, history>>

lser_poll_until_write(t) ==
    /\ CAt(t, "poll") /\ ls.ready
    /\ ls' = [ls EXCEPT !.ready = FALSE, !.force = TRUE]
    /\ Ct(t, [ct[t] EXCEPT !.pc = "polled"])
    /\ UNCHANGED <<cs, history>>

lser_writepolled_send(t) ==
    /\ CAt(t, "polled")
    /\ ls' = [ls EXCEPT !.notclear = @ \/ ls.sending, !.sending = TRUE]
    /\ Ct(t, [ct[t] EXCEPT !.pc = "sent"])
    /\ UNCHANGED <<cs, history>>

\* The condition is left alone if an interrupt is owed, cleared otherwise.
lser_writepolled_done(t) ==
    /\ CAt(t, "sent") /\ ls.ready
    /\ ls' = IF ct[t].pending THEN [ls EXCEPT !.lock = Nobody]
             ELSE [ls EXCEPT !.lock = Nobody, !.ready = FALSE, !.enable = TRUE]
    /\ Ct(t, NoCt)
    /\ UNCHANGED <<cs, history>>

-----------------------------------------------------------------------------
(* Input *)

\* The keyboard: a character is in the port's register until it is read.
lser_key ==
    /\ typed < MaxTyped /\ ~ls.ractive
    /\ typed' = typed + 1
    /\ ls' = [ls EXCEPT !.ractive = TRUE, !.char = typed + 1]
    /\ UNCHANGED <<cs, ct, accepted, got>>

\* Mutant: con_userlock_read is not taken.
con_io_read_unlocked(t) ==
    /\ CAt(t, "out")
    /\ \E n \in 1 .. MaxIO : Ct(t, [NoCt EXCEPT !.pc = "getch", !.left = n])
    /\ UNCHANGED <<cs, ls, history>>

\* con_io reading holds con_userlock_read.
con_io_read(t) ==
    /\ CAt(t, "out") /\ cs.rlock = Nobody
    /\ \E n \in 1 .. MaxIO : Ct(t, [NoCt EXCEPT !.pc = "getch", !.left = n])
    /\ cs' = [cs EXCEPT !.rlock = t]
    /\ UNCHANGED <<ls, history>>

\* getch_intr: P(cs_rsem), the character, and the tail moves on.
getch_intr(t) ==
    /\ CAt(t, "getch") /\ cs.rsem > 0
    /\ cs' = [cs EXCEPT !.rsem = @ - 1]
    /\ Ct(t, [ct[t] EXCEPT !.pc = "take"])
    /\ UNCHANGED <<ls, history>>

getch_take(t) ==
    /\ CAt(t, "take")
    /\ Ct(t, [ct[t] EXCEPT !.pc = "tail", !.ch = cs.gotchars[cs.tail]])
    /\ UNCHANGED <<cs, ls, history>>

getch_tail(t) ==
    /\ CAt(t, "tail")
    /\ cs' = [cs EXCEPT !.tail = (@ + 1) % CONSOLE_INPUT_BUFFER_SIZE]
    /\ got' = Append(got, ct[t].ch)
    /\ Ct(t, [ct[t] EXCEPT !.pc = "read", !.left = @ - 1, !.ch = 0])
    /\ UNCHANGED <<ls, typed, accepted>>

\* con_io goes on to the next character, or ends: enough, a newline, an error.
con_io_more(t) ==
    /\ CAt(t, "read")
    /\ \/ ct[t].left > 0 /\ Ct(t, [ct[t] EXCEPT !.pc = "getch"]) /\ UNCHANGED cs
       \/ Ct(t, NoCt) /\ cs' = [cs EXCEPT !.rlock = Nobody]
    /\ UNCHANGED <<ls, history>>

-----------------------------------------------------------------------------
(* The interrupt handler *)

lser_asserts == (ls.enable /\ (ls.ready \/ ls.force)) \/ ls.ractive

\* lser_irq: both conditions are read and cleared under the port's lock.
lser_irq ==
    /\ ls.lock = Nobody
    /\ ls' = [ls EXCEPT !.start = ls.ready, !.wbusy = @ /\ ~ls.ready, !.ready = FALSE,
                        !.force = @ /\ ~ls.ready, !.enable = @ \/ ls.ready,
                        !.input = IF ls.ractive THEN ls.char ELSE 0, !.ractive = FALSE, !.char = 0]
    /\ UNCHANGED <<cs, ct, history>>

\* ls_start: con_start
con_start ==
    /\ cs' = IF ls.start THEN [cs EXCEPT !.wsem = @ + 1] ELSE cs
    /\ ls' = [ls EXCEPT !.start = FALSE]
    /\ UNCHANGED <<ct, history>>

\* ls_input: con_input.  The head is moved before V(cs_rsem), and a character
\* is dropped when the ring is full.
con_input ==
    LET nexthead == (cs.head + 1) % CONSOLE_INPUT_BUFFER_SIZE
        keep == ls.input # 0 /\ nexthead # cs.tail
    IN /\ cs' = IF keep THEN [cs EXCEPT !.gotchars[cs.head] = ls.input, !.head = nexthead] ELSE cs
       /\ accepted' = IF keep THEN Append(accepted, ls.input) ELSE accepted
       /\ ls' = [ls EXCEPT !.input = IF keep THEN @ ELSE 0]
       /\ UNCHANGED <<ct, typed, got>>

con_input_V ==
    /\ cs' = IF ls.input # 0 THEN [cs EXCEPT !.rsem = @ + 1] ELSE cs
    /\ ls' = [ls EXCEPT !.input = 0]
    /\ UNCHANGED <<ct, history>>

-----------------------------------------------------------------------------
\* putch_intr, lser_write, lser_irq, lser_writepolled: the permission to write
\* is in exactly one place (cs_wsem, a thread about to write, the busy port, or
\* the handler about to give it back), so "Not clear to write" never happens;
\* and while the port is busy a write-done interrupt is on its way, polled
\* writes in between or not.
WritePermission ==
    /\ ~ls.notclear
    /\ cs.wsem + Cardinality({t \in ConThread : CAt(t, "send")})
         + (IF ls.wbusy THEN 1 ELSE 0) + (IF ls.start THEN 1 ELSE 0) = 1
    /\ ls.wbusy /\ ls.lock = Nobody => ls.enable /\ (ls.sending \/ ls.ready)

\* con_input, getch_intr: what is read is what was typed and accepted, in that
\* order, nothing twice; and cs_rsem never counts a character that is not in
\* the ring.
InputFaithful ==
    /\ Len(got) <= Len(accepted) /\ got = SubSeq(accepted, 1, Len(got))
    /\ cs.rsem <= (cs.head - cs.tail + CONSOLE_INPUT_BUFFER_SIZE) % CONSOLE_INPUT_BUFFER_SIZE
=============================================================================
