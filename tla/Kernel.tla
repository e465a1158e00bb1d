-------------------------------- MODULE Kernel --------------------------------
(***************************************************************************)
(* The processor, from kmain() on: kmain.c, x86/, drivers/pic.c and what   *)
(* drivers/keyboard.c and drivers/console.c do with interrupts.            *)
(*                                                                         *)
(* kmain() sets everything up, and then runs into the page fault that is   *)
(* written there.  The other way it may go is the one of the line that is  *)
(* commented out, intr_enable(): the kernel then serves, that is, it calls *)
(* console_get_line(), enables lines, and initialises the console again.   *)
(* Meanwhile keys are pressed and devices request interrupts.              *)
(*                                                                         *)
(* Functions that run with interrupts off from beginning to end are one    *)
(* step.  Module Console has the details of console_get_line(), Paging     *)
(* those of paging_init().                                                 *)
(***************************************************************************)
EXTENDS Descriptors, Pic

CONSTANTS
    Devices,        \* the lines, other than the keyboard's, that are requested
    Enabled,        \* the lines that the kernel enables
    MaxInits        \* bound on the calls of console_init()

ASSUME KernelAssumption ==
    /\ Devices \subseteq Irqs \ {1, 2}
    /\ Enabled \subseteq Irqs
    /\ MaxInits \in Nat

VARIABLES
    pc,             \* the place in kmain() or in console_get_line()
    iflag,          \* IF of EFLAGS
    running,        \* the handler that runs, and where it is
    gdt, gdtr,      \* _ of gdt.c; the limit that is loaded, 0 if another table is
    cs, ds,         \* selectors of code and data, 0 for the boot loader's
    idt, idtr,      \* _ of idt.c; whether it is loaded
    pic,            \* the controllers
    unread,         \* the keyboard has a scancode that has not been read
    input,          \* what the keys have done since: a line is completed, ...
    inits           \* how often console_init() has been called

memory == <<gdt, gdtr, cs, ds, idt, idtr>>
vars == <<pc, iflag, running, memory, pic, unread, input, inits>>

KEYBOARD_IRQ_NUM == 1

None == <<"none", 0>>

SetUp == {"intr_disable", "gdt_init", "idt_init", "pic_init", "console_init",
          "paging_init", "test", "end"}

At(here, there) == pc = here /\ running = None /\ pc' = there

-----------------------------------------------------------------------------
(* kmain()                                                                 *)

(* Interrupts are served by the boot loader up to here.                    *)
intr_disable ==
    /\ At("intr_disable", "gdt_init")
    /\ iflag' = FALSE
    /\ UNCHANGED <<running, memory, pic, unread, input, inits>>

(* Faulty variant of Entries: the data segment comes first.                *)
Entries_swapped(table) ==
    _add_entry(_add_entry(_add_entry(table, 0, NullEntry), 1, _gdt_entry_set_data(0)),
               2, _gdt_entry_set_code(0))

Entries(table) ==
    _add_entry(_add_entry(_add_entry(table, 0, NullEntry), 1, _gdt_entry_set_code(0)),
               2, _gdt_entry_set_data(0))

gdt_init ==
    /\ At("gdt_init", "idt_init")
    /\ gdt' = Entries(gdt)
    /\ gdtr' = _mgdtr_set_length(NUM_ENTRIES_MAX)
    /\ cs' = 8 * 1 /\ ds' = 8 * 2
    /\ UNCHANGED <<iflag, running, idt, idtr, pic, unread, input, inits>>

idt_init ==
    /\ At("idt_init", "pic_init")
    /\ idt' = Gates(idt)
    /\ idtr' = TRUE
    /\ UNCHANGED <<iflag, running, gdt, gdtr, cs, ds, pic, unread, input, inits>>

PicInit ==
    /\ At("pic_init", "console_init")
    /\ pic' = pic_init(pic)
    /\ UNCHANGED <<iflag, running, memory, unread, input, inits>>

(* keyboard_init(), called by console_init(); the flag is restored.        *)
keyboard_init ==
    /\ idt' = intr_register_irq(idt, KEYBOARD_IRQ_NUM, _keyboard_isr)
    /\ pic' = pic_enable_irq(pic_send_eoi(pic, KEYBOARD_IRQ_NUM), KEYBOARD_IRQ_NUM)
    /\ UNCHANGED iflag

(* The console starts without input, and with the screen just cleared.     *)
console_init(here, there) ==
    /\ At(here, there)
    /\ inits < MaxInits /\ inits' = inits + 1
    /\ keyboard_init
    /\ input' = "cleared"
    /\ UNCHANGED <<running, gdt, gdtr, cs, ds, idtr, unread>>

(* paging_init() succeeds or fails.                                        *)
paging_init ==
    /\ pc = "paging_init" /\ running = None
    /\ pc' \in {"test", "end"}
    /\ UNCHANGED <<iflag, running, memory, pic, unread, input, inits>>

(* A write to the text of the kernel, which is write-protected.            *)
PageFault ==
    /\ pc = "test" /\ running = None /\ idtr
    /\ running' = idt[14].isr
    /\ iflag' = FALSE
    /\ UNCHANGED <<pc, memory, pic, unread, input, inits>>

intr_enable ==
    /\ At("test", "serve")
    /\ iflag' = TRUE
    /\ UNCHANGED <<running, memory, pic, unread, input, inits>>

-----------------------------------------------------------------------------
(* The kernel at work                                                      *)

(* Another line is enabled, if it is not.                                  *)
EnableIrq(irq) ==
    /\ At("serve", "serve")
    /\ pic' = pic_enable_irq(pic, irq) /\ pic' # pic
    /\ UNCHANGED <<iflag, running, memory, unread, input, inits>>

(* console_get_line() redisplays the input if the screen has been cleared. *)
GetLine ==
    /\ At("serve", "loop")
    /\ input' = IF input = "cleared" THEN "nothing" ELSE input
    /\ UNCHANGED <<iflag, running, memory, pic, unread, inits>>

keyboard_disable_irq ==
    /\ At("loop", "line")
    /\ pic' = pic_disable_irq(pic, KEYBOARD_IRQ_NUM)
    /\ UNCHANGED <<iflag, running, memory, unread, input, inits>>

(* A line is completed and returned; the keyboard stays disabled.          *)
ReturnLine ==
    /\ At("line", "serve") /\ input = "completed"
    /\ input' = "nothing"
    /\ UNCHANGED <<iflag, running, memory, pic, unread, inits>>

(* Faulty variant of EnableKeyboard: the keyboard stays disabled.          *)
EnableKeyboard_not ==
    /\ pc = "line" /\ running = None /\ input # "completed"
    /\ pc' = IF input = "cleared" THEN "serve" ELSE "halt"
    /\ UNCHANGED <<iflag, running, memory, pic, unread, input, inits>>

(* Else the keyboard is enabled again, and the processor halts, or the     *)
(* screen has been cleared and console_get_line() returns.                 *)
EnableKeyboard ==
    /\ pc = "line" /\ running = None /\ input # "completed"
    /\ pic' = pic_enable_irq(pic, KEYBOARD_IRQ_NUM)
    /\ pc' = IF input = "cleared" THEN "serve" ELSE "halt"
    /\ UNCHANGED <<iflag, running, memory, unread, input, inits>>

halt ==
    /\ At("halt", "halted")
    /\ UNCHANGED <<iflag, running, memory, pic, unread, input, inits>>

-----------------------------------------------------------------------------
(* Interrupts                                                              *)

Interruptible ==
    /\ iflag /\ running = None /\ pc # "intr_disable"
    /\ MasterRequests(pic) # {}

(* The processor takes an interrupt, with IF off as at every interrupt     *)
(* gate, and goes on after halt() when it returns.  A gate without handler *)
(* leads to address 0, which is not mapped: a page fault.                  *)
Interrupt ==
    /\ Interruptible
    /\ LET irq     == Interrupting(pic)
           handler == idt[Vector(pic, irq)].isr
       IN  /\ pic' = Acknowledged(pic, irq)
           /\ running' = IF handler = NULL THEN idt[14].isr ELSE handler
    /\ iflag' = FALSE
    /\ pc' = IF pc = "halted" THEN "loop" ELSE pc
    /\ UNCHANGED <<memory, unread, input, inits>>

Iret == running' = None /\ iflag' = TRUE

(* The handlers of isr.S print a line.                                     *)
isr_num ==
    /\ \E num \in 32..47 : running = isr(num)
    /\ Iret
    /\ UNCHANGED <<pc, memory, pic, unread, input, inits>>

(* keyboard_isr() reads the scancode, ...                                  *)
_read_buf ==
    /\ running = _keyboard_isr
    /\ running' = <<"keyboard_isr", 1>>
    /\ unread' = FALSE
    /\ UNCHANGED <<pc, iflag, memory, pic, input, inits>>

(* Faulty variant of keyboard_isr: modifiers return at once.               *)
keyboard_isr_return ==
    /\ running = <<"keyboard_isr", 1>>
    /\ \/ UNCHANGED <<input, pic>>
       \/ input' \in {"completed", "cleared"} /\ pic' = pic_send_eoi(pic, KEYBOARD_IRQ_NUM)
    /\ Iret
    /\ UNCHANGED <<pc, memory, unread, inits>>

(* ... and changes the input, or does not, and ends the service.  What is  *)
(* completed stays so, whether the screen is cleared or not.               *)
keyboard_isr ==
    /\ running = <<"keyboard_isr", 1>>
    /\ input' \in IF input = "completed" THEN {input} ELSE {input, "completed", "cleared"}
    /\ pic' = pic_send_eoi(pic, KEYBOARD_IRQ_NUM)
    /\ Iret
    /\ UNCHANGED <<pc, memory, unread, inits>>

(* A device requests an interrupt.                                         *)
Request(irq) ==
    /\ pic' = Requested(pic, irq) /\ pic' # pic
    /\ UNCHANGED <<pc, iflag, running, memory, unread, input, inits>>

(* The keyboard does only when it has not got an unread scancode already.  *)
Key ==
    /\ ~unread /\ unread' = TRUE
    /\ pic' = Requested(pic, KEYBOARD_IRQ_NUM)
    /\ UNCHANGED <<pc, iflag, running, memory, input, inits>>

-----------------------------------------------------------------------------
(* What the BIOS and the boot loader leave.                                *)
Chip(imr, isrv, offset) ==
    [imr |-> imr, irr |-> {}, isr |-> isrv, offset |-> offset, expects |-> "nothing"]

Init ==
    /\ pc = "intr_disable"
    /\ iflag \in BOOLEAN
    /\ running = None
    /\ gdt = [idx \in 0..(NUM_ENTRIES_MAX - 1) |-> NullEntry]
    /\ gdtr = 0 /\ cs = 0 /\ ds = 0
    /\ idt = [v \in 0..(IDT_NUM_GATES_MAX - 1) |-> NoGate]
    /\ idtr = FALSE
    /\ \E imr \in {{}, Lines}, served \in {{}, {1}} :
        pic = [master |-> Chip(imr, served, {3}), slave |-> Chip(imr, {}, {4, 5, 6})]
    /\ unread = FALSE
    /\ input = "nothing"
    /\ inits = 0

Kmain ==
    \/ intr_disable \/ gdt_init \/ idt_init \/ PicInit
    \/ console_init("console_init", "paging_init")
    \/ paging_init \/ PageFault \/ intr_enable

Work ==
    \/ \E irq \in Enabled : EnableIrq(irq)
    \/ console_init("serve", "serve")
    \/ GetLine \/ keyboard_disable_irq \/ ReturnLine \/ EnableKeyboard \/ halt

Handler == isr_num \/ _read_buf \/ keyboard_isr

Next ==
    \/ Kmain \/ Work \/ Interrupt \/ Handler \/ Key
    \/ \E irq \in Devices : Request(irq)

Spec == Init /\ [][Next]_vars

(* The processor runs the program once it is set up, and the handlers, and  *)
(* takes interrupts.                                                       *)
FairSpec == Spec /\ WF_vars(Work) /\ WF_vars(Interrupt) /\ WF_vars(Handler)
-----------------------------------------------------------------------------
(* Properties                                                              *)

IsGate(v, handler) ==
    /\ idt[v].p /\ idt[v].isr = handler
    /\ IsSegment(gdt, gdtr, idt[v].selector, TRUE)

(* Of the handlers that isr.S defines for the lines, the tables have all   *)
(* but two: line 9 gets the one for 10, line 10 none (idt.c:201-203).      *)
HandlerOf(irq) ==
    CASE irq = KEYBOARD_IRQ_NUM -> _keyboard_isr
      [] irq = 9                -> isr(42)
      [] irq = 10               -> NULL
      [] OTHER                  -> isr(IRQ_OFFSET + irq)

(* Whenever an interrupt can be taken, everything is set up for it: the    *)
(* vector is none of the exceptions', the gate has the handler of the line *)
(* and a code segment, and the segments that the handler returns to are    *)
(* there (kmain.c:47-53).                                                  *)
ReadyForInterrupts ==
    iflag /\ running = None /\ pc # "intr_disable" =>
        /\ pc \notin SetUp
        /\ IsSegment(gdt, gdtr, cs, TRUE) /\ IsSegment(gdt, gdtr, ds, FALSE)
        /\ \A v \in 0..31 : IsGate(v, exception_handler)
        /\ \A irq \in Irqs :
            Vector(pic, irq) = IRQ_OFFSET + irq /\ IsGate(Vector(pic, irq), HandlerOf(irq))

(* When no handler runs, the lines still in service are those whose        *)
(* handler is one of isr.S, which does not end the service (isr.S:1-13);   *)
(* the keyboard's is ended, by whatever way keyboard_isr() returns         *)
(* (keyboard.c:123-125).                                                   *)
InServiceUnhandled ==
    running = None /\ pc \notin {"intr_disable", "gdt_init", "idt_init", "pic_init"} =>
        /\ pic.master.isr \subseteq (Devices \cap Enabled) \cup {Cascade}
        /\ {8 + line : line \in pic.slave.isr} \subseteq Devices \cap Enabled
        /\ Cascade \in pic.master.isr => pic.slave.isr # {}

(* The keyboard cannot be served any more.                                 *)
Dead ==
    \/ running = exception_handler
    \/ running = None /\ 0 \in pic.master.isr

(* A key that is pressed after the set-up is read, whatever the program    *)
(* does with the mask meanwhile, unless the kernel has died or the handler *)
(* of line 0 has run, which leaves it in service (keyboard.c:69-127,       *)
(* console.c:255-265).                                                     *)
KeyRead ==
    (unread /\ KEYBOARD_IRQ_NUM \in pic.master.irr /\ pc \notin SetUp) ~> (~unread \/ Dead)
=============================================================================
