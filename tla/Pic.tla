--------------------------------- MODULE Pic ---------------------------------
(***************************************************************************)
(* The two interrupt controllers: what drivers/pic.c writes to them, and   *)
(* what an 8259A makes of it (external, as far as the code relies on it).  *)
(*                                                                         *)
(* A byte is the set of the bits that are 1, a mask therefore the set of   *)
(* the lines that it disables.  The state of both controllers is p; an     *)
(* operation of pic.c is a function of it.                                 *)
(***************************************************************************)
EXTENDS Integers, FiniteSetsExt

Lines == 0..7                       \* of one controller
Irqs  == 0..15                      \* of both

Value(byte) ==
    LET Weight(bit) == IF bit \in byte THEN 2 ^ bit ELSE 0
    IN  Weight(0) + Weight(1) + Weight(2) + Weight(3)
            + Weight(4) + Weight(5) + Weight(6) + Weight(7)

CMD_8086 == {0}
CMD_INIT == {0, 4}
CMD_EOI  == {5}

MASTER_OFFSET == {5}                \* 32
SLAVE_OFFSET  == {3, 5}             \* 40

Cascade == 2                        \* the line of the master that the slave is at

-----------------------------------------------------------------------------
(* The controller                                                          *)

(* A command: initialise and expect three more bytes, or end the service   *)
(* of the line that has the highest priority.                              *)
Command(chip, byte) ==
    IF byte = CMD_INIT
    THEN [chip EXCEPT !.imr = {}, !.irr = {}, !.isr = {}, !.expects = "offset"]
    ELSE [chip EXCEPT !.isr = IF @ = {} THEN {} ELSE @ \ {Min(@)}]

(* A byte for the data port: one that is expected, else the mask.          *)
Data(chip, byte) ==
    CASE chip.expects = "offset"  -> [chip EXCEPT !.offset = byte, !.expects = "cascade"]
      [] chip.expects = "cascade" -> [chip EXCEPT !.expects = "mode"]
      [] chip.expects = "mode"    -> [chip EXCEPT !.expects = "nothing"]
      [] OTHER                    -> [chip EXCEPT !.imr = byte]

(* The lines that may interrupt: requested, not masked, and of higher      *)
(* priority than all that are in service.                                  *)
Eligible(chip, requests) ==
    {line \in requests \ chip.imr :
        chip.expects = "nothing" /\ \A served \in chip.isr : line < served}

SlaveRequests(p) == Eligible(p.slave, p.slave.irr)

MasterRequests(p) ==
    Eligible(p.master,
             p.master.irr \cup (IF SlaveRequests(p) = {} THEN {} ELSE {Cascade}))

(* The line that the processor is interrupted by.                          *)
Interrupting(p) ==
    IF Min(MasterRequests(p)) = Cascade /\ SlaveRequests(p) # {}
    THEN 8 + Min(SlaveRequests(p))
    ELSE Min(MasterRequests(p))

Serve(chip, line) == [chip EXCEPT !.irr = @ \ {line}, !.isr = @ \cup {line}]

(* The processor acknowledges the interrupt of a line.                     *)
Acknowledged(p, irq) ==
    IF irq < 8 THEN [p EXCEPT !.master = Serve(@, irq)]
    ELSE [p EXCEPT !.master = Serve(@, Cascade), !.slave = Serve(@, irq - 8)]

Requested(p, irq) ==
    IF irq < 8 THEN [p EXCEPT !.master.irr = @ \cup {irq}]
    ELSE [p EXCEPT !.slave.irr = @ \cup {irq - 8}]

Vector(p, irq) ==
    IF irq < 8 THEN Value(p.master.offset) + irq ELSE Value(p.slave.offset) + irq - 8

-----------------------------------------------------------------------------
(* drivers/pic.c                                                           *)

SendCmds(p, master, slave) ==
    [master |-> Command(p.master, master), slave |-> Command(p.slave, slave)]

SetData(p, master, slave) ==
    [master |-> Data(p.master, master), slave |-> Data(p.slave, slave)]

(* The masks are saved, and restored after the initialisation.             *)
pic_remap(p, master_off, slave_off) ==
    LET offsets == SetData(SendCmds(p, CMD_INIT, CMD_INIT), master_off, slave_off)
        cascade == SetData(offsets, {2}, {1})
        mode    == SetData(cascade, CMD_8086, CMD_8086)
    IN  SetData(mode, p.master.imr, p.slave.imr)

pic_disable(p) == SetData(p, Lines, Lines)

pic_send_eoi(p, irq) ==
    [master |-> Command(p.master, CMD_EOI),
     slave  |-> IF irq >= 8 THEN Command(p.slave, CMD_EOI) ELSE p.slave]

(* Ended[n] is the state after n rounds of the loop.                       *)
pic_init(p) ==
    LET Ended[n \in 0..16] ==
            IF n = 0 THEN pic_remap(pic_disable(p), MASTER_OFFSET, SLAVE_OFFSET)
            ELSE pic_send_eoi(Ended[n - 1], n - 1)
    IN  Ended[16]

pic_enable_irq(p, irq) ==
    IF irq < 8 THEN [p EXCEPT !.master = Data(@, @.imr \ {irq})]
    ELSE [p EXCEPT !.slave = Data(@, @.imr \ {irq - 8})]

pic_disable_irq(p, irq) ==
    IF irq < 8 THEN [p EXCEPT !.master = Data(@, @.imr \cup {irq})]
    ELSE [p EXCEPT !.slave = Data(@, @.imr \cup {irq - 8})]
=============================================================================
