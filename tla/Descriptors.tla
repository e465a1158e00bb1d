----------------------------- MODULE Descriptors -----------------------------
(***************************************************************************)
(* The entries of the two descriptor tables, as x86/gdt.c and x86/idt.c    *)
(* build them and as the processor takes them apart.  A table is a         *)
(* function of the index; an isr is a tuple of a name and a number.        *)
(***************************************************************************)
EXTENDS Integers, FiniteSetsExt

CONSTANT IDT_NUM_GATES_MAX          \* 256

ASSUME DescriptorsAssumption == IDT_NUM_GATES_MAX \in Nat /\ IDT_NUM_GATES_MAX >= 48

-----------------------------------------------------------------------------
(* x86/gdt.c                                                               *)

NUM_ENTRIES_MAX == 3

Bits(value, low, width) == (value \div 2 ^ low) % 2 ^ width

(* Base and limit are spread over the entry.                               *)
_gdt_entry_set(base, limit, executable, privilege) ==
    [base_00_15  |-> Bits(base, 0, 16),  base_16_23  |-> Bits(base, 16, 8),
     base_24_31  |-> Bits(base, 24, 8),
     limit_00_15 |-> Bits(limit, 0, 16), limit_16_19 |-> Bits(limit, 16, 4),
     ex |-> executable, privl |-> Bits(privilege, 0, 2), pr |-> TRUE, gr |-> TRUE]

NullEntry == [_gdt_entry_set(0, 0, FALSE, 0) EXCEPT !.pr = FALSE, !.gr = FALSE]

_gdt_entry_get_base(gdte) ==
    gdte.base_00_15 + gdte.base_16_23 * 2 ^ 16 + gdte.base_24_31 * 2 ^ 24

_gdt_entry_get_limit(gdte) == gdte.limit_00_15 + gdte.limit_16_19 * 2 ^ 16

_gdt_entry_set_code(privilege) == _gdt_entry_set(0, 2 ^ 20 - 1, TRUE, privilege)

_gdt_entry_set_data(privilege) == _gdt_entry_set(0, 2 ^ 20 - 1, FALSE, privilege)

_add_entry(table, idx, gdte) ==
    IF idx >= NUM_ENTRIES_MAX THEN table ELSE [table EXCEPT ![idx] = gdte]

(* The register is loaded with the size of the table less 1.               *)
_mgdtr_set_length(length) == 8 * length - 1

(* The processor finds a usable segment by a selector: within the table,   *)
(* present, for the kernel, and all of memory.                             *)
IsSegment(table, gdtr, selector, executable) ==
    /\ selector % 8 = 0 /\ selector > 0 /\ selector + 7 <= gdtr
    /\ LET gdte == table[selector \div 8]
       IN  /\ gdte.pr /\ gdte.gr /\ gdte.privl = 0 /\ gdte.ex = executable
           /\ _gdt_entry_get_base(gdte) = 0
           /\ _gdt_entry_get_limit(gdte) = 2 ^ 20 - 1

-----------------------------------------------------------------------------
(* x86/idt.c                                                               *)

IDT_CS == 8

NULL == <<"NULL", 0>>
exception_handler == <<"exception_handler", 0>>
_keyboard_isr == <<"keyboard_isr", 0>>
isr(num) == <<"isr", num>>

NoGate == [isr |-> NULL, selector |-> 0, type |-> "none", dpl |-> 0, p |-> FALSE]

_set_gate(table, index, handler, selector, privi_level, type) ==
    IF index >= IDT_NUM_GATES_MAX \/ privi_level >= 4 THEN table
    ELSE [table EXCEPT ![index] =
            [isr |-> handler, selector |-> selector, type |-> type,
             dpl |-> privi_level, p |-> TRUE]]

idt_set_intr_gate(table, index, handler) ==
    _set_gate(table, index, handler, IDT_CS, 0, "interrupt")

IRQ_OFFSET == 32

intr_register_irq(table, irq_num, handler) ==
    idt_set_intr_gate(table, IRQ_OFFSET + irq_num, handler)

(* The gate that idt_init() gives to isr32() ... isr47(): gate 41 is set   *)
(* twice, and gate 42 not at all.                                          *)
GateOf(num) == IF num = 42 THEN 41 ELSE num

(* The table that idt_init() sets up; the last write to a gate counts.     *)
Gates(table) ==
    [v \in DOMAIN table |->
        LET isrs    == {num \in 32..47 : GateOf(num) = v}
            handler == IF isrs # {} THEN isr(Max(isrs))
                       ELSE IF v < 32 THEN exception_handler ELSE NULL
        IN  idt_set_intr_gate(table, v, handler)[v]]
=============================================================================
