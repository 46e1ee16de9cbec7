------------------------------ MODULE Devices ------------------------------
(***************************************************************************)
(* The LAMEbus, kern/dev/lamebus/lamebus.c, with the disk, the serial      *)
(* console and the emulator file system on it.  Threads run on any CPU;    *)
(* all interrupts of the bus go to the boot CPU, whose dispatcher calls    *)
(* the handlers one after the other.                                       *)
(***************************************************************************)
EXTENDS Lhd, Console, Emu

CONSTANTS Thread, Workloads

ASSUME DevicesAssumption == Thread \subseteq LhdThread /\ Thread \subseteq ConThread /\ Thread \subseteq EmuThread

VARIABLES
    bus,        \* lamebus_softc and the dispatcher on the boot CPU
    uses        \* the device each thread uses

vars == <<lhdvars, convars, emuvars, bus, uses>>

Device == {"lhd", "con", "emu"}
SlotDev == <<"lhd", "con", "emu">>
Slot == DOMAIN SlotDev

Init ==
    /\ LhdInit /\ ConInit /\ EmuInit
    /\ bus = [class |-> 1, inuse |-> {}, irqfuncs |-> {}, pc |-> "idle", slot |-> 1, irqs |-> {},
              duds |-> 0, dudsnow |-> FALSE]
    /\ uses \in Workloads

\* The slots that assert an interrupt condition (CTLREG_IRQS).
Asserting == {s \in Slot : \/ SlotDev[s] = "lhd" /\ lhd_asserts
                           \/ SlotDev[s] = "con" /\ lser_asserts
                           \/ SlotDev[s] = "emu" /\ emu_asserts}

-----------------------------------------------------------------------------
(* Autoconfiguration: a slot that is found is marked and gets its handler,  *)
(* and only then is the device told to interrupt.  The classes are tried in *)
(* turn, each until the bus has no more of it; those between emu and lhd    *)
(* are left out.                                                            *)

Classes == <<"emu", "lhd", "con">>

lamebus_probe(d) == {s \in Slot : SlotDev[s] = d} \ bus.inuse
lamebus_mark(b, s) == [b EXCEPT !.inuse = @ \cup {s}]
lamebus_attach_interrupt(b, s) == [b EXCEPT !.irqfuncs = @ \cup {s}]

Attach(d) == \E s \in lamebus_probe(d) : bus' = lamebus_attach_interrupt(lamebus_mark(bus, s), s)
attach_lhd_to_lamebus == Attach("lhd")
attach_lser_to_lamebus == Attach("con")
attach_emu_to_lamebus == Attach("emu")

NoMore(d) == lamebus_probe(d) = {} /\ bus' = [bus EXCEPT !.class = @ + 1]
tryattach_emu_to_lamebus == Classes[bus.class] = "emu" /\ (attach_emu_to_lamebus \/ NoMore("emu"))
tryattach_lhd_to_lamebus == Classes[bus.class] = "lhd" /\ (attach_lhd_to_lamebus \/ NoMore("lhd"))
tryattach_lser_to_lamebus == Classes[bus.class] = "con" /\ (attach_lser_to_lamebus \/ NoMore("con"))

autoconf_lamebus ==
    /\ bus.class \in DOMAIN Classes
    /\ tryattach_emu_to_lamebus \/ tryattach_lhd_to_lamebus \/ tryattach_lser_to_lamebus
    /\ UNCHANGED <<lhdvars, convars, emuvars, uses>>

Booted == bus.class \notin DOMAIN Classes

-----------------------------------------------------------------------------
(* Interrupts *)

\* The boot CPU takes the interrupt ...
mainbus_interrupt ==
    /\ bus.pc = "idle" /\ Asserting # {}
    /\ bus' = [bus EXCEPT !.pc = "irq"]
    /\ UNCHANGED <<lhdvars, convars, emuvars, uses>>

\* ... and reads which slots are asserting: perhaps none by now.
lamebus_interrupt ==
    /\ bus.pc = "irq"
    /\ bus' = [bus EXCEPT !.pc = "scan", !.slot = 1, !.irqs = Asserting,
                          !.duds = IF Asserting = {} THEN @ + 1 ELSE @, !.dudsnow = Asserting = {}]
    /\ UNCHANGED <<lhdvars, convars, emuvars, uses>>

Rest == {s \in bus.irqs : s >= bus.slot}
First == CHOOSE s \in Rest : \A r \in Rest : s <= r

\* The next slot; one without a handler is a dud.
lamebus_interrupt_call ==
    /\ bus.pc = "scan" /\ Rest # {}
    /\ bus' = IF First \in bus.irqfuncs
              THEN [bus EXCEPT !.pc = SlotDev[First], !.slot = First]
              ELSE [bus EXCEPT !.slot = First + 1, !.duds = @ + 1, !.dudsnow = TRUE]
    /\ UNCHANGED <<lhdvars, convars, emuvars, uses>>

lamebus_interrupt_end ==
    /\ bus.pc = "scan" /\ Rest = {}
    /\ bus' = [bus EXCEPT !.pc = "idle", !.slot = 1, !.irqs = {}, !.dudsnow = FALSE,
                          !.duds = IF bus.dudsnow THEN @ ELSE 0]
    /\ UNCHANGED <<lhdvars, convars, emuvars, uses>>

\* A handler returns: the pending slots are read again.
Reload == [bus EXCEPT !.pc = "scan", !.slot = @ + 1, !.irqs = Asserting']
Go(pc) == bus' = [bus EXCEPT !.pc = pc]

lhd_handler ==
    /\ UNCHANGED <<convars, emuvars, uses>>
    /\ \/ bus.pc = "lhd" /\ lhd_irq /\ Go("lhd_iodone")
       \/ bus.pc = "lhd_iodone" /\ lhd_iodone /\ bus' = Reload

lser_handler ==
    /\ UNCHANGED <<lhdvars, emuvars, uses>>
    /\ \/ bus.pc = "con" /\ lser_irq /\ Go("con_start")
       \/ bus.pc = "con_start" /\ con_start /\ Go("con_input")
       \/ bus.pc = "con_input" /\ con_input /\ Go("con_V")
       \/ bus.pc = "con_V" /\ con_input_V /\ bus' = Reload

emu_handler ==
    /\ UNCHANGED <<lhdvars, convars, uses>>
    /\ \/ bus.pc = "emu" /\ emu_irq /\ Go("emu_V")
       \/ bus.pc = "emu_V" /\ emu_irq_V /\ bus' = Reload

-----------------------------------------------------------------------------
OnLhd(t) == Booted /\ uses[t] = "lhd" /\ UNCHANGED <<convars, emuvars, bus, uses>>
OnCon(t) == Booted /\ uses[t] = "con" /\ UNCHANGED <<lhdvars, emuvars, bus, uses>>
OnEmu(t) == Booted /\ uses[t] = "emu" /\ UNCHANGED <<lhdvars, convars, bus, uses>>

LhdThreadStep(t) ==
    \/ OnLhd(t) /\ dev_read(t)
    \/ OnLhd(t) /\ dev_write(t)
    \/ OnLhd(t) /\ lhd_io_clear(t)
    \/ OnLhd(t) /\ lhd_io_start(t)
    \/ OnLhd(t) /\ lhd_io_fault(t)
    \/ OnLhd(t) /\ lhd_io_done(t)
    \/ OnLhd(t) /\ lhd_io_result(t)
    \/ OnLhd(t) /\ lhd_io_next(t)

ConThreadStep(t) ==
    \/ OnCon(t) /\ con_io_write(t)
    \/ OnCon(t) /\ con_io_char(t)
    \/ OnCon(t) /\ con_io_written(t)
    \/ OnCon(t) /\ putch(t)
    \/ OnCon(t) /\ putch_intr(t)
    \/ OnCon(t) /\ lser_write(t)
    \/ OnCon(t) /\ lser_writepolled(t)
    \/ OnCon(t) /\ lser_poll_until_write(t)
    \/ OnCon(t) /\ lser_writepolled_send(t)
    \/ OnCon(t) /\ lser_writepolled_done(t)
    \/ OnCon(t) /\ con_io_read(t)
    \/ OnCon(t) /\ getch_intr(t)
    \/ OnCon(t) /\ getch_take(t)
    \/ OnCon(t) /\ getch_tail(t)
    \/ OnCon(t) /\ con_io_more(t)

EmuThreadStep(t) ==
    \/ OnEmu(t) /\ emufs_lookup(t)
    \/ OnEmu(t) /\ emufs_creat(t)
    \/ OnEmu(t) /\ emu_open(t)
    \/ OnEmu(t) /\ emu_open_done(t)
    \/ OnEmu(t) /\ emufs_loadvnode_biglock(t)
    \/ OnEmu(t) /\ emufs_loadvnode(t)
    \/ OnEmu(t) /\ emufs_loadvnode_fail(t)
    \/ OnEmu(t) /\ emu_close(t)
    \/ OnEmu(t) /\ emu_close_retry(t)
    \/ OnEmu(t) /\ emu_close_done(t)
    \/ OnEmu(t) /\ emufs_io(t)
    \/ OnEmu(t) /\ emufs_io_done(t)
    \/ OnEmu(t) /\ VOP_INCREF(t)
    \/ OnEmu(t) /\ vnode_decref(t)
    \/ OnEmu(t) /\ emufs_reclaim_biglock(t)
    \/ OnEmu(t) /\ emufs_reclaim(t)
    \/ OnEmu(t) /\ emufs_reclaim_done(t)

\* What the cards, the port and the keyboard do by themselves.
Hardware ==
    \/ lhd_card /\ UNCHANGED <<convars, emuvars, bus, uses>>
    \/ emu_card /\ UNCHANGED <<lhdvars, convars, bus, uses>>
    \/ lser_sent /\ UNCHANGED <<lhdvars, emuvars, bus, uses>>
    \/ Booted /\ lser_key /\ UNCHANGED <<lhdvars, emuvars, bus, uses>>

Next ==
    \/ autoconf_lamebus
    \/ mainbus_interrupt
    \/ lamebus_interrupt \/ lamebus_interrupt_call \/ lamebus_interrupt_end
    \/ lhd_handler \/ lser_handler \/ emu_handler
    \/ \E t \in Thread : LhdThreadStep(t) \/ ConThreadStep(t) \/ EmuThreadStep(t)
    \/ Hardware

Spec == Init /\ [][Next]_vars
=============================================================================
