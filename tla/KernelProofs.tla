---------------------------- MODULE KernelProofs -----------------------------
(***************************************************************************)
(* Interrupts find everything set up, and end their service but for the    *)
(* handlers of isr.S, whatever devices there are, whatever lines are       *)
(* enabled, and however often console_init() is called.                    *)
(***************************************************************************)
EXTENDS Kernel, TLAPS

-----------------------------------------------------------------------------
(* The inductive invariant                                                 *)

Early == {"intr_disable", "gdt_init", "idt_init", "pic_init"}

Serving == {"serve", "loop", "line", "halt", "halted"}

InKeyboard == {_keyboard_isr, <<"keyboard_isr", 1>>}

Handlers == InKeyboard \cup {None, exception_handler} \cup {isr(num) : num \in 32..47}

ChipType ==
    [imr : SUBSET Lines, irr : SUBSET Lines, isr : SUBSET Lines,
     offset : SUBSET Lines, expects : {"nothing"}]

PicType == [master : ChipType, slave : ChipType]

Types ==
    /\ pc \in SetUp \cup Serving
    /\ iflag \in BOOLEAN
    /\ running \in Handlers
    /\ pic \in PicType

(* An interrupt is possible before the first step or after the last.       *)
FlagInv ==
    /\ iflag => pc = "intr_disable" \/ pc \in Serving
    /\ running # None => ~iflag
    /\ pc \in SetUp \ {"test"} => running = None
    /\ pc = "test" => running \in {None, exception_handler}

GdtInv ==
    IF pc \in {"intr_disable", "gdt_init"}
    THEN gdt = [idx \in 0..(NUM_ENTRIES_MAX - 1) |-> NullEntry]
    ELSE /\ gdt[1] = _gdt_entry_set_code(0) /\ gdt[2] = _gdt_entry_set_data(0)
         /\ gdtr = 23 /\ cs = 8 /\ ds = 16

Gate(handler) ==
    [isr |-> handler, selector |-> IDT_CS, type |-> "interrupt", dpl |-> 0, p |-> TRUE]

(* Before console_init() line 1 has the handler of isr.S too.              *)
HandlerAt(irq) ==
    IF irq = KEYBOARD_IRQ_NUM /\ pc \in {"pic_init", "console_init"}
    THEN isr(IRQ_OFFSET + irq) ELSE HandlerOf(irq)

IdtInv ==
    /\ DOMAIN idt = 0..(IDT_NUM_GATES_MAX - 1)
    /\ pc \notin {"intr_disable", "gdt_init", "idt_init"} =>
        /\ idtr
        /\ \A v \in 0..31 : idt[v] = Gate(exception_handler)
        /\ \A irq \in Irqs : idt[IRQ_OFFSET + irq] = Gate(HandlerAt(irq))

(* Devices that may be in service when no handler runs.                    *)
Allowed == Devices \cap Enabled

(* Only the lines of devices are requested, only those enabled unmasked.   *)
Bounded(p) ==
    /\ p.master.offset = MASTER_OFFSET /\ p.slave.offset = SLAVE_OFFSET
    /\ p.master.irr \subseteq Devices \cup {KEYBOARD_IRQ_NUM}
    /\ \A line \in p.slave.irr : 8 + line \in Devices
    /\ \A line \in Lines \ p.master.imr : line \in Enabled \cup {KEYBOARD_IRQ_NUM}
    /\ \A line \in Lines \ p.slave.imr : 8 + line \in Enabled

ServedOnly(p, more) ==
    /\ p.master.isr \subseteq Allowed \cup {Cascade} \cup more
    /\ \A line \in p.slave.isr : 8 + line \in Allowed
    /\ Cascade \in p.master.isr => p.slave.isr # {}

(* While the keyboard is served, its line has the highest priority of all  *)
(* that are in service: the end of service is for it.                      *)
ServedInv ==
    /\ running \in InKeyboard =>
        /\ ServedOnly(pic, {KEYBOARD_IRQ_NUM})
        /\ KEYBOARD_IRQ_NUM \in pic.master.isr /\ 0 \notin pic.master.isr
    /\ running \notin InKeyboard \cup {exception_handler} => ServedOnly(pic, {})

PicInv == pc \notin Early => Bounded(pic) /\ ServedInv

Inv == Types /\ FlagInv /\ GdtInv /\ IdtInv /\ PicInv
-----------------------------------------------------------------------------
(* Operators of Descriptors                                                *)

LEMMA Segments ==
    ASSUME gdt[1] = _gdt_entry_set_code(0), gdt[2] = _gdt_entry_set_data(0)
    PROVE  IsSegment(gdt, 23, 8, TRUE) /\ IsSegment(gdt, 23, 16, FALSE)
<1>1. Bits(0, 0, 16) = 0 /\ Bits(0, 16, 8) = 0 /\ Bits(0, 24, 8) = 0 /\ Bits(0, 0, 2) = 0
  BY DEF Bits
<1>2. Bits(2 ^ 20 - 1, 0, 16) = 65535 /\ Bits(2 ^ 20 - 1, 16, 4) = 15
  BY DEF Bits
<1>3. \A ex \in BOOLEAN :
        LET gdte == _gdt_entry_set(0, 2 ^ 20 - 1, ex, 0)
        IN  /\ gdte.pr = TRUE /\ gdte.gr = TRUE /\ gdte.privl = 0 /\ gdte.ex = ex
            /\ _gdt_entry_get_base(gdte) = 0
            /\ _gdt_entry_get_limit(gdte) = 2 ^ 20 - 1
  BY <1>1, <1>2 DEF _gdt_entry_set, _gdt_entry_get_base, _gdt_entry_get_limit
<1>4. 8 % 8 = 0 /\ 16 % 8 = 0 /\ 8 \div 8 = 1 /\ 16 \div 8 = 2
  OBVIOUS
<1> DEFINE code == gdt[1]
           data == gdt[2]
<1>5. /\ code.pr = TRUE /\ code.gr = TRUE /\ code.privl = 0 /\ code.ex = TRUE
      /\ _gdt_entry_get_base(code) = 0 /\ _gdt_entry_get_limit(code) = 2 ^ 20 - 1
  BY <1>3 DEF _gdt_entry_set_code
<1>6. /\ data.pr = TRUE /\ data.gr = TRUE /\ data.privl = 0 /\ data.ex = FALSE
      /\ _gdt_entry_get_base(data) = 0 /\ _gdt_entry_get_limit(data) = 2 ^ 20 - 1
  BY <1>3 DEF _gdt_entry_set_data
<1>7. IsSegment(gdt, 23, 8, TRUE)
  BY <1>4, <1>5 DEF IsSegment
<1>8. IsSegment(gdt, 23, 16, FALSE)
  BY <1>4, <1>6 DEF IsSegment
<1> QED BY <1>7, <1>8

(* The gate of a vector in a new table.                                    *)
GateFor(v) ==
    Gate(IF v < 32 THEN exception_handler
         ELSE IF v = 41 THEN isr(42)
         ELSE IF v \in (32..47) \ {41, 42} THEN isr(v)
         ELSE NULL)

LEMMA SetGate ==
    ASSUME NEW table, DOMAIN table = 0..(IDT_NUM_GATES_MAX - 1),
           NEW v \in 0..(IDT_NUM_GATES_MAX - 1), NEW handler
    PROVE  /\ DOMAIN idt_set_intr_gate(table, v, handler) = 0..(IDT_NUM_GATES_MAX - 1)
           /\ \A w \in 0..(IDT_NUM_GATES_MAX - 1) :
                idt_set_intr_gate(table, v, handler)[w] =
                    IF w = v THEN Gate(handler) ELSE table[w]
<1>1. ~(v >= IDT_NUM_GATES_MAX \/ 0 >= 4)
  BY DescriptorsAssumption
<1>2. idt_set_intr_gate(table, v, handler) = [table EXCEPT ![v] = Gate(handler)]
  BY <1>1 DEF idt_set_intr_gate, _set_gate, Gate
<1> QED BY <1>2

LEMMA MaxOf ==
    /\ \A n \in Int : Max({n}) = n
    /\ \A n \in Int : Max({n, n + 1}) = n + 1
<1>1. ASSUME NEW n \in Int PROVE Max({n}) = n
  BY DEF Max
<1>2. ASSUME NEW n \in Int PROVE Max({n, n + 1}) = n + 1
  <2>1. n + 1 \in {n, n + 1} /\ \A y \in {n, n + 1} : n + 1 >= y
    OBVIOUS
  <2>2. \A x \in {n, n + 1} : (\A y \in {n, n + 1} : x >= y) => x = n + 1
    OBVIOUS
  <2> QED BY <2>1, <2>2 DEF Max
<1> QED BY <1>1, <1>2

LEMMA NewGates ==
    ASSUME NEW table, DOMAIN table = 0..(IDT_NUM_GATES_MAX - 1)
    PROVE  /\ DOMAIN Gates(table) = 0..(IDT_NUM_GATES_MAX - 1)
           /\ \A v \in 0..47 : Gates(table)[v] = GateFor(v)
<1>1. DOMAIN Gates(table) = 0..(IDT_NUM_GATES_MAX - 1)
  BY DEF Gates
<1>2. ASSUME NEW v \in 0..47
      PROVE  Gates(table)[v] = GateFor(v)
  <2> DEFINE isrs == {num \in 32..47 : GateOf(num) = v}
             handler == IF isrs # {} THEN isr(Max(isrs))
                        ELSE IF v < 32 THEN exception_handler ELSE NULL
  <2>1. v \in 0..(IDT_NUM_GATES_MAX - 1)
    BY DescriptorsAssumption
  <2>2. Gates(table)[v] = idt_set_intr_gate(table, v, handler)[v]
    BY <2>1 DEF Gates
  <2>3. Gates(table)[v] = Gate(handler)
    <3> HIDE DEF handler
    <3> QED BY <2>1, <2>2, SetGate
  <2>4. CASE v < 32
    <3>1. isrs = {}
      BY <2>4 DEF GateOf
    <3>2. handler = exception_handler
      BY <2>4, <3>1
    <3> QED BY <2>3, <2>4, <3>2 DEF GateFor
  <2>5. CASE v = 41
    <3>1. isrs = {41, 41 + 1}
      BY <2>5 DEF GateOf
    <3>2. Max(isrs) = 42
      BY <3>1, MaxOf
    <3>3. handler = isr(42)
      BY <3>1, <3>2
    <3> QED BY <2>3, <2>5, <3>3 DEF GateFor
  <2>6. CASE v = 42
    <3>1. isrs = {}
      BY <2>6 DEF GateOf
    <3>2. handler = NULL
      BY <2>6, <3>1
    <3> QED BY <2>3, <2>6, <3>2 DEF GateFor
  <2>7. CASE v \in (32..47) \ {41, 42}
    <3>1. isrs = {v}
      BY <2>7 DEF GateOf
    <3>2. Max(isrs) = v
      BY <3>1, MaxOf
    <3>3. handler = isr(v)
      BY <3>1, <3>2
    <3> QED BY <2>3, <2>7, <3>3 DEF GateFor
  <2>8. v < 32 \/ v = 41 \/ v = 42 \/ v \in (32..47) \ {41, 42}
    OBVIOUS
  <2> QED BY <2>4, <2>5, <2>6, <2>7, <2>8
<1> QED BY <1>1, <1>2

-----------------------------------------------------------------------------
(* Operators of Pic                                                        *)

LEMMA Offsets ==
    Value(MASTER_OFFSET) = 32 /\ Value(SLAVE_OFFSET) = 40
BY DEF Value, MASTER_OFFSET, SLAVE_OFFSET

LEMMA MinOf ==
    ASSUME NEW T \in SUBSET Lines, T # {}
    PROVE  Min(T) \in T /\ \A y \in T : Min(T) <= y
<1>1. ASSUME \A x \in T : \E y \in T : y < x PROVE FALSE
  <2>1. 0 \notin T
    BY <1>1 DEF Lines
  <2>2. 1 \notin T /\ 2 \notin T
    BY <1>1, <2>1 DEF Lines
  <2>3. 3 \notin T /\ 4 \notin T
    BY <1>1, <2>1, <2>2 DEF Lines
  <2>4. 5 \notin T /\ 6 \notin T
    BY <1>1, <2>1, <2>2, <2>3 DEF Lines
  <2>5. 7 \notin T
    BY <1>1, <2>1, <2>2, <2>3, <2>4 DEF Lines
  <2>6. Lines = {0, 1, 2, 3, 4, 5, 6, 7}
    BY DEF Lines
  <2> QED BY <2>1, <2>2, <2>3, <2>4, <2>5, <2>6
<1>2. \E x \in T : \A y \in T : x <= y
  BY <1>1 DEF Lines
<1> QED BY <1>2 DEF Min

LEMMA Eoi ==
    ASSUME NEW chip \in ChipType
    PROVE  /\ Command(chip, CMD_EOI) \in ChipType
           /\ Command(chip, CMD_EOI) =
                [chip EXCEPT !.isr = IF @ = {} THEN {} ELSE @ \ {Min(@)}]
<1>1. CMD_EOI # CMD_INIT
  BY DEF CMD_EOI, CMD_INIT
<1>2. Command(chip, CMD_EOI) = [chip EXCEPT !.isr = IF @ = {} THEN {} ELSE @ \ {Min(@)}]
  BY <1>1 DEF Command
<1>3. (IF chip.isr = {} THEN {} ELSE chip.isr \ {Min(chip.isr)}) \in SUBSET Lines
  BY DEF ChipType
<1> QED BY <1>2, <1>3 DEF ChipType

LEMMA Mask ==
    ASSUME NEW chip \in ChipType, NEW byte \in SUBSET Lines
    PROVE  Data(chip, byte) = [chip EXCEPT !.imr = byte] /\ Data(chip, byte) \in ChipType
<1>1. chip.expects = "nothing"
  BY DEF ChipType
<1>2. Data(chip, byte) = [chip EXCEPT !.imr = byte]
  BY <1>1 DEF Data
<1> QED BY <1>2 DEF ChipType

Remapped(offset) ==
    [imr |-> Lines, irr |-> {}, isr |-> {}, offset |-> offset, expects |-> "nothing"]

(* A chip that gets the four bytes of an initialisation and then its mask. *)
LEMMA Remap ==
    ASSUME NEW chip \in ChipType, NEW offset \in SUBSET Lines, NEW a, NEW b
    PROVE  Data(Data(Data(Data(Command(chip, CMD_INIT), offset), a), b), Lines)
                = Remapped(offset)
<1> DEFINE one == Command(chip, CMD_INIT)
           two == Data(one, offset)
           three == Data(two, a)
           four == Data(three, b)
<1>1. one = [chip EXCEPT !.imr = {}, !.irr = {}, !.isr = {}, !.expects = "offset"]
  BY DEF Command
<1>2. one = [imr |-> {}, irr |-> {}, isr |-> {}, offset |-> chip.offset, expects |-> "offset"]
  BY <1>1 DEF ChipType
<1>3. two = [imr |-> {}, irr |-> {}, isr |-> {}, offset |-> offset, expects |-> "cascade"]
  <2> HIDE DEF one
  <2> QED BY <1>2 DEF Data
<1>4. three = [imr |-> {}, irr |-> {}, isr |-> {}, offset |-> offset, expects |-> "mode"]
  <2> HIDE DEF two
  <2> QED BY <1>3 DEF Data
<1>5. four = [imr |-> {}, irr |-> {}, isr |-> {}, offset |-> offset, expects |-> "nothing"]
  <2> HIDE DEF three
  <2> QED BY <1>4 DEF Data
<1>6. Data(four, Lines) = Remapped(offset)
  <2> HIDE DEF four
  <2> QED BY <1>5 DEF Data, Remapped
<1> QED BY <1>6

LEMMA RemappedType ==
    ASSUME NEW offset \in SUBSET Lines
    PROVE  Remapped(offset) \in ChipType /\ Command(Remapped(offset), CMD_EOI) = Remapped(offset)
<1>1. Remapped(offset) \in ChipType
  BY DEF Remapped, ChipType
<1>2. Command(Remapped(offset), CMD_EOI) = Remapped(offset)
  BY <1>1, Eoi DEF Remapped
<1> QED BY <1>1, <1>2

(* pic_init() leaves both masked, and nothing requested or in service.     *)
LEMMA PicIsInit ==
    ASSUME NEW p \in PicType
    PROVE  pic_init(p) = [master |-> Remapped(MASTER_OFFSET), slave |-> Remapped(SLAVE_OFFSET)]
<1> DEFINE r == [master |-> Remapped(MASTER_OFFSET), slave |-> Remapped(SLAVE_OFFSET)]
<1>1. MASTER_OFFSET \in SUBSET Lines /\ SLAVE_OFFSET \in SUBSET Lines
  BY DEF MASTER_OFFSET, SLAVE_OFFSET, Lines
<1>2. p.master \in ChipType /\ p.slave \in ChipType
  BY DEF PicType
<1> DEFINE m == Data(p.master, Lines)
           s == Data(p.slave, Lines)
<1>3. /\ m \in ChipType /\ m.imr = Lines /\ s \in ChipType /\ s.imr = Lines
  <2>1. m \in ChipType /\ m = [p.master EXCEPT !.imr = Lines]
    BY <1>2, Mask
  <2>2. s \in ChipType /\ s = [p.slave EXCEPT !.imr = Lines]
    BY <1>2, Mask
  <2> HIDE DEF m, s
  <2>3. m.imr = Lines
    BY <1>2, <2>1 DEF ChipType
  <2>4. s.imr = Lines
    BY <1>2, <2>2 DEF ChipType
  <2> QED BY <2>1, <2>2, <2>3, <2>4
<1>4. pic_disable(p) = [master |-> m, slave |-> s]
  BY DEF pic_disable, SetData
<1>5. pic_remap(pic_disable(p), MASTER_OFFSET, SLAVE_OFFSET) = r
  <2> HIDE DEF m, s
  <2>1. Data(Data(Data(Data(Command(m, CMD_INIT), MASTER_OFFSET), {2}), CMD_8086), Lines)
            = Remapped(MASTER_OFFSET)
    BY <1>1, <1>3, Remap
  <2>2. Data(Data(Data(Data(Command(s, CMD_INIT), SLAVE_OFFSET), {1}), CMD_8086), Lines)
            = Remapped(SLAVE_OFFSET)
    BY <1>1, <1>3, Remap
  <2> QED BY <1>3, <1>4, <2>1, <2>2 DEF pic_remap, SetData, SendCmds
<1>6. \A irq \in 0..15 : pic_send_eoi(r, irq) = r
  BY <1>1, RemappedType DEF pic_send_eoi
<1> HIDE DEF r
<1> DEFINE Ended[n \in 0..16] ==
        IF n = 0 THEN pic_remap(pic_disable(p), MASTER_OFFSET, SLAVE_OFFSET)
        ELSE pic_send_eoi(Ended[n - 1], n - 1)
<1>7. \A n \in 0..16 : Ended[n] = IF n = 0 THEN r ELSE pic_send_eoi(Ended[n - 1], n - 1)
  <2> DEFINE f == [n \in 0..16 |-> r]
  <2>1. ASSUME NEW n \in 0..16
        PROVE  f[n] = IF n = 0 THEN r ELSE pic_send_eoi(f[n - 1], n - 1)
    <3>1. CASE n = 0
      BY <3>1
    <3>2. CASE n # 0
      <4>1. n - 1 \in 0..15 /\ n - 1 \in 0..16
        BY <3>2
      <4> QED BY <1>6, <3>2, <4>1
    <3> QED BY <3>1, <3>2
  <2>2. f = [n \in 0..16 |-> IF n = 0 THEN r ELSE pic_send_eoi(f[n - 1], n - 1)]
    <3>1. f = [n \in 0..16 |-> f[n]]
      OBVIOUS
    <3> HIDE DEF f
    <3> QED BY <2>1, <3>1
  <2> HIDE DEF f
  <2>3. Ended = [n \in 0..16 |-> IF n = 0 THEN r ELSE pic_send_eoi(Ended[n - 1], n - 1)]
    BY <1>5, <2>2
  <2> HIDE DEF Ended
  <2> QED BY <2>3
<1>8. pic_init(p) = Ended[16]
  BY DEF pic_init
<1> HIDE DEF Ended
<1>9. \A n \in 0..15 : Ended[n] = r => Ended[n + 1] = r
  <2> TAKE n \in 0..15
  <2>1. n + 1 \in 0..16 /\ n + 1 # 0 /\ n + 1 - 1 = n
    OBVIOUS
  <2>2. Ended[n + 1] = pic_send_eoi(Ended[n], n)
    BY <1>7, <2>1
  <2> QED BY <1>6, <2>2
<1>10. Ended[0] = r
  BY <1>7
<1>11. Ended[4] = r
  BY <1>9, <1>10
<1>12. Ended[8] = r
  BY <1>9, <1>11
<1>13. Ended[12] = r
  BY <1>9, <1>12
<1>14. Ended[16] = r
  BY <1>9, <1>13
<1> QED BY <1>8, <1>14 DEF r

(* Lines are enabled and disabled, and nothing else of the chips changes.  *)
SameButMask(p, q) ==
    /\ q.master.irr = p.master.irr /\ q.slave.irr = p.slave.irr
    /\ q.master.isr = p.master.isr /\ q.slave.isr = p.slave.isr
    /\ q.master.offset = p.master.offset /\ q.slave.offset = p.slave.offset

LEMMA Masks ==
    ASSUME NEW p \in PicType, NEW irq \in Irqs, NEW q,
           \/ q = pic_enable_irq(p, irq) /\ irq \in Enabled \cup {KEYBOARD_IRQ_NUM}
           \/ q = pic_disable_irq(p, irq)
    PROVE  /\ q \in PicType
           /\ SameButMask(p, q)
           /\ Bounded(p) => Bounded(q)
<1>1. p.master \in ChipType /\ p.slave \in ChipType
  BY DEF PicType
<1>2. p.master.imr \in SUBSET Lines /\ p.slave.imr \in SUBSET Lines
  BY <1>1 DEF ChipType
<1>3. CASE irq < 8
  <2>1. irq \in Lines /\ 8 + irq \notin Lines
    BY <1>3 DEF Irqs, Lines
  <2>2. PICK byte \in SUBSET Lines :
          /\ q = [p EXCEPT !.master = Data(p.master, byte)]
          /\ \/ byte = p.master.imr \cup {irq}
             \/ byte = p.master.imr \ {irq} /\ irq \in Enabled \cup {KEYBOARD_IRQ_NUM}
    <3>1. CASE q = pic_enable_irq(p, irq) /\ irq \in Enabled \cup {KEYBOARD_IRQ_NUM}
      <4>1. p.master.imr \ {irq} \in SUBSET Lines
        BY <1>2
      <4>2. q = [p EXCEPT !.master = Data(p.master, p.master.imr \ {irq})]
        BY <1>3, <3>1 DEF pic_enable_irq
      <4> QED BY <3>1, <4>1, <4>2
    <3>2. CASE q = pic_disable_irq(p, irq)
      <4>1. p.master.imr \cup {irq} \in SUBSET Lines
        BY <1>2, <2>1
      <4>2. q = [p EXCEPT !.master = Data(p.master, p.master.imr \cup {irq})]
        BY <1>3, <3>2 DEF pic_disable_irq
      <4> QED BY <4>1, <4>2
    <3> QED BY <3>1, <3>2
  <2>3. /\ Data(p.master, byte) = [p.master EXCEPT !.imr = byte]
        /\ Data(p.master, byte) \in ChipType
    BY <1>1, Mask
  <2>4. q.master = [p.master EXCEPT !.imr = byte] /\ q.slave = p.slave /\ q \in PicType
    BY <1>1, <2>2, <2>3 DEF PicType
  <2>5. SameButMask(p, q) /\ q.master.imr = byte
    BY <1>1, <2>4 DEF SameButMask, ChipType
  <2>6. ASSUME Bounded(p) PROVE Bounded(q)
    <3>1. \A line \in Lines \ byte : line \in Enabled \cup {KEYBOARD_IRQ_NUM}
      BY <2>2, <2>6 DEF Bounded
    <3> QED BY <2>4, <2>5, <2>6, <3>1 DEF Bounded, SameButMask
  <2> QED BY <2>4, <2>5, <2>6
<1>4. CASE ~(irq < 8)
  <2>1. irq - 8 \in Lines /\ 8 + (irq - 8) = irq /\ irq # KEYBOARD_IRQ_NUM
    BY <1>4 DEF Irqs, Lines, KEYBOARD_IRQ_NUM
  <2>2. PICK byte \in SUBSET Lines :
          /\ q = [p EXCEPT !.slave = Data(p.slave, byte)]
          /\ \/ byte = p.slave.imr \cup {irq - 8}
             \/ byte = p.slave.imr \ {irq - 8} /\ irq \in Enabled
    <3>1. CASE q = pic_enable_irq(p, irq) /\ irq \in Enabled \cup {KEYBOARD_IRQ_NUM}
      <4>1. p.slave.imr \ {irq - 8} \in SUBSET Lines
        BY <1>2
      <4>2. q = [p EXCEPT !.slave = Data(p.slave, p.slave.imr \ {irq - 8})]
        BY <1>4, <3>1 DEF pic_enable_irq
      <4> QED BY <2>1, <3>1, <4>1, <4>2
    <3>2. CASE q = pic_disable_irq(p, irq)
      <4>1. p.slave.imr \cup {irq - 8} \in SUBSET Lines
        BY <1>2, <2>1
      <4>2. q = [p EXCEPT !.slave = Data(p.slave, p.slave.imr \cup {irq - 8})]
        BY <1>4, <3>2 DEF pic_disable_irq
      <4> QED BY <4>1, <4>2
    <3> QED BY <3>1, <3>2
  <2>3. /\ Data(p.slave, byte) = [p.slave EXCEPT !.imr = byte]
        /\ Data(p.slave, byte) \in ChipType
    BY <1>1, Mask
  <2>4. q.slave = [p.slave EXCEPT !.imr = byte] /\ q.master = p.master /\ q \in PicType
    BY <1>1, <2>2, <2>3 DEF PicType
  <2>5. SameButMask(p, q) /\ q.slave.imr = byte
    BY <1>1, <2>4 DEF SameButMask, ChipType
  <2>6. ASSUME Bounded(p) PROVE Bounded(q)
    <3>1. \A line \in Lines \ byte : 8 + line \in Enabled
      BY <2>1, <2>2, <2>6 DEF Bounded
    <3> QED BY <2>4, <2>5, <2>6, <3>1 DEF Bounded, SameButMask
  <2> QED BY <2>4, <2>5, <2>6
<1> QED BY <1>3, <1>4

(* The end of service of the keyboard's line.                              *)
LEMMA EndOfService ==
    ASSUME NEW p \in PicType
    PROVE  LET q == pic_send_eoi(p, KEYBOARD_IRQ_NUM)
           IN  /\ q \in PicType
               /\ q.slave = p.slave
               /\ q.master.imr = p.master.imr /\ q.master.irr = p.master.irr
               /\ q.master.offset = p.master.offset
               /\ q.master.isr \subseteq p.master.isr
               /\ KEYBOARD_IRQ_NUM \in p.master.isr /\ 0 \notin p.master.isr
                    => KEYBOARD_IRQ_NUM \notin q.master.isr
               /\ Bounded(p) => Bounded(q)
<1> DEFINE q == pic_send_eoi(p, KEYBOARD_IRQ_NUM)
           rest == IF p.master.isr = {} THEN {} ELSE p.master.isr \ {Min(p.master.isr)}
<1>1. p.master \in ChipType /\ p.slave \in ChipType
  BY DEF PicType
<1>2. /\ Command(p.master, CMD_EOI) \in ChipType
      /\ Command(p.master, CMD_EOI) = [p.master EXCEPT !.isr = rest]
  BY <1>1, Eoi
<1>3. q = [master |-> Command(p.master, CMD_EOI), slave |-> p.slave]
  BY DEF pic_send_eoi, KEYBOARD_IRQ_NUM
<1>4. rest \subseteq p.master.isr
  OBVIOUS
<1>5. ASSUME KEYBOARD_IRQ_NUM \in p.master.isr, 0 \notin p.master.isr
      PROVE  KEYBOARD_IRQ_NUM \notin rest
  <2>1. p.master.isr \in SUBSET Lines /\ p.master.isr # {}
    BY <1>1, <1>5 DEF ChipType
  <2>2. Min(p.master.isr) \in p.master.isr /\ \A y \in p.master.isr : Min(p.master.isr) <= y
    BY <2>1, MinOf
  <2>3. Min(p.master.isr) = KEYBOARD_IRQ_NUM
    BY <1>5, <2>1, <2>2 DEF Lines, KEYBOARD_IRQ_NUM
  <2> QED BY <2>3
<1>6. /\ q \in PicType /\ q.slave = p.slave
      /\ q.master = [p.master EXCEPT !.isr = rest]
  BY <1>1, <1>2, <1>3 DEF PicType
<1> HIDE DEF q, rest
<1>7. /\ q.master.imr = p.master.imr /\ q.master.irr = p.master.irr
      /\ q.master.offset = p.master.offset /\ q.master.isr = rest
  BY <1>1, <1>6 DEF ChipType
<1>8. Bounded(p) => Bounded(q)
  BY <1>6, <1>7 DEF Bounded
<1>9. /\ q \in PicType
      /\ q.slave = p.slave
      /\ q.master.imr = p.master.imr /\ q.master.irr = p.master.irr
      /\ q.master.offset = p.master.offset
      /\ q.master.isr \subseteq p.master.isr
      /\ KEYBOARD_IRQ_NUM \in p.master.isr /\ 0 \notin p.master.isr
            => KEYBOARD_IRQ_NUM \notin q.master.isr
      /\ Bounded(p) => Bounded(q)
  BY <1>4, <1>5, <1>6, <1>7, <1>8
<1> QED BY <1>9 DEF q


(* A request of a device or of the keyboard.                               *)
LEMMA Requests ==
    ASSUME NEW p \in PicType, NEW irq \in Devices \cup {KEYBOARD_IRQ_NUM}
    PROVE  LET q == Requested(p, irq)
           IN  /\ q \in PicType
               /\ q.master.isr = p.master.isr /\ q.slave.isr = p.slave.isr
               /\ Bounded(p) => Bounded(q)
<1> DEFINE q == Requested(p, irq)
<1>1. p.master \in ChipType /\ p.slave \in ChipType
  BY DEF PicType
<1>2. irq \in Irqs
  BY KernelAssumption DEF Irqs, KEYBOARD_IRQ_NUM
<1>3. /\ q \in PicType
      /\ q.master.isr = p.master.isr /\ q.slave.isr = p.slave.isr
      /\ Bounded(p) => Bounded(q)
  <2>1. CASE irq < 8
    <3>1. irq \in Lines
      BY <1>2, <2>1 DEF Irqs, Lines
    <3>2. q = [p EXCEPT !.master = [p.master EXCEPT !.irr = p.master.irr \cup {irq}]]
      BY <2>1 DEF Requested
    <3>3. [p.master EXCEPT !.irr = p.master.irr \cup {irq}] \in ChipType
      BY <1>1, <3>1 DEF ChipType
    <3> HIDE DEF q
    <3>4. /\ q \in PicType /\ q.slave = p.slave
          /\ q.master = [p.master EXCEPT !.irr = p.master.irr \cup {irq}]
      BY <1>1, <3>2, <3>3 DEF PicType
    <3>5. /\ q.master.irr = p.master.irr \cup {irq} /\ q.master.isr = p.master.isr
          /\ q.master.imr = p.master.imr /\ q.master.offset = p.master.offset
      BY <1>1, <3>4 DEF ChipType
    <3> QED BY <3>4, <3>5 DEF Bounded
  <2>2. CASE ~(irq < 8)
    <3>1. irq - 8 \in Lines /\ 8 + (irq - 8) \in Devices
      BY <1>2, <2>2 DEF Irqs, Lines, KEYBOARD_IRQ_NUM
    <3>2. q = [p EXCEPT !.slave = [p.slave EXCEPT !.irr = p.slave.irr \cup {irq - 8}]]
      BY <2>2 DEF Requested
    <3>3. [p.slave EXCEPT !.irr = p.slave.irr \cup {irq - 8}] \in ChipType
      BY <1>1, <3>1 DEF ChipType
    <3> HIDE DEF q
    <3>4. /\ q \in PicType /\ q.master = p.master
          /\ q.slave = [p.slave EXCEPT !.irr = p.slave.irr \cup {irq - 8}]
      BY <1>1, <3>2, <3>3 DEF PicType
    <3>5. /\ q.slave.irr = p.slave.irr \cup {irq - 8} /\ q.slave.isr = p.slave.isr
          /\ q.slave.imr = p.slave.imr /\ q.slave.offset = p.slave.offset
      BY <1>1, <3>4 DEF ChipType
    <3> QED BY <3>1, <3>4, <3>5 DEF Bounded
  <2> QED BY <2>1, <2>2
<1> QED BY <1>3 DEF q

-----------------------------------------------------------------------------
(* The interrupt of a line                                                 *)

LEMMA ServeType ==
    ASSUME NEW chip \in ChipType, NEW line \in Lines
    PROVE  LET new == Serve(chip, line)
           IN  /\ new \in ChipType
               /\ new.irr = chip.irr \ {line} /\ new.isr = chip.isr \cup {line}
               /\ new.imr = chip.imr /\ new.offset = chip.offset
<1>1. /\ chip.irr \ {line} \in SUBSET Lines /\ chip.isr \cup {line} \in SUBSET Lines
  BY DEF ChipType
<1> QED BY <1>1 DEF Serve, ChipType

(* It is the keyboard's, and then none of higher priority is in service, or *)
(* that of a device that is enabled.                                       *)
LEMMA Interrupts ==
    ASSUME NEW p \in PicType, Bounded(p), MasterRequests(p) # {}, ServedOnly(p, {})
    PROVE  LET irq == Interrupting(p)
               q   == Acknowledged(p, irq)
           IN  /\ irq \in Allowed \cup {KEYBOARD_IRQ_NUM} /\ irq \in Irqs
               /\ q \in PicType /\ Bounded(q)
               /\ irq # KEYBOARD_IRQ_NUM => ServedOnly(q, {})
               /\ irq = KEYBOARD_IRQ_NUM =>
                    /\ ServedOnly(q, {KEYBOARD_IRQ_NUM})
                    /\ KEYBOARD_IRQ_NUM \in q.master.isr /\ 0 \notin q.master.isr
<1> DEFINE irq == Interrupting(p)
           q == Acknowledged(p, irq)
           fromSlave == IF SlaveRequests(p) = {} THEN {} ELSE {Cascade}
           first == Min(MasterRequests(p))
<1>1. p.master \in ChipType /\ p.slave \in ChipType
  BY DEF PicType
<1>2. /\ p.master.irr \in SUBSET Lines /\ p.slave.irr \in SUBSET Lines
      /\ p.master.isr \in SUBSET Lines /\ p.slave.isr \in SUBSET Lines
  BY <1>1 DEF ChipType
<1>3. SlaveRequests(p) \subseteq p.slave.irr \ p.slave.imr
  BY DEF SlaveRequests, Eligible
<1>4. /\ MasterRequests(p) \subseteq (p.master.irr \cup fromSlave) \ p.master.imr
      /\ \A line \in MasterRequests(p) : \A served \in p.master.isr : line < served
  BY DEF MasterRequests, Eligible
<1>5. first \in MasterRequests(p)
  <2>1. MasterRequests(p) \in SUBSET Lines
    BY <1>2, <1>4 DEF Lines, Cascade
  <2> QED BY <2>1, MinOf
<1>6. first \in Lines /\ first \in p.master.irr \cup fromSlave
  BY <1>2, <1>4, <1>5 DEF Lines, Cascade
<1>7. first \in Enabled \cup {KEYBOARD_IRQ_NUM}
  BY <1>4, <1>5, <1>6 DEF Bounded
<1>8. Cascade \notin Devices /\ KEYBOARD_IRQ_NUM \notin Devices /\ Cascade # KEYBOARD_IRQ_NUM
  BY KernelAssumption DEF Cascade, KEYBOARD_IRQ_NUM
<1>9. CASE first = Cascade /\ SlaveRequests(p) # {}
  <2> DEFINE line == Min(SlaveRequests(p))
  <2>1. line \in SlaveRequests(p)
    <3>1. SlaveRequests(p) \in SUBSET Lines
      BY <1>2, <1>3
    <3> QED BY <1>9, <3>1, MinOf
  <2>2. line \in p.slave.irr /\ line \in Lines \ p.slave.imr
    BY <1>2, <1>3, <2>1
  <2>3. 8 + line \in Allowed
    BY <2>2 DEF Bounded, Allowed
  <2>4. irq = 8 + line
    BY <1>9 DEF Interrupting
  <2> HIDE DEF irq, line
  <2>5. irq - 8 = line /\ ~(irq < 8) /\ irq \in Irqs /\ irq # KEYBOARD_IRQ_NUM
    BY <2>2, <2>4 DEF Lines, Irqs, KEYBOARD_IRQ_NUM
  <2>6. /\ Cascade \in Lines
        /\ q = [p EXCEPT !.master = Serve(p.master, Cascade), !.slave = Serve(p.slave, line)]
    <3>1. Cascade \in Lines
      BY DEF Cascade, Lines
    <3>2. q = [[p EXCEPT !.master = Serve(p.master, Cascade)]
                    EXCEPT !.slave = Serve(p.slave, irq - 8)]
      BY <2>5 DEF Acknowledged, PicType
    <3> QED BY <2>5, <3>1, <3>2
  <2> HIDE DEF q
  <2>7. /\ q.master = Serve(p.master, Cascade) /\ q.slave = Serve(p.slave, line)
        /\ q = [master |-> Serve(p.master, Cascade), slave |-> Serve(p.slave, line)]
    BY <2>6 DEF PicType
  <2>8. /\ q.master \in ChipType /\ q.master.offset = p.master.offset
        /\ q.master.irr \subseteq p.master.irr /\ q.master.imr = p.master.imr
        /\ q.master.isr = p.master.isr \cup {Cascade}
    BY <1>1, <2>6, <2>7, ServeType
  <2>9. /\ q.slave \in ChipType /\ q.slave.offset = p.slave.offset
        /\ q.slave.irr \subseteq p.slave.irr /\ q.slave.imr = p.slave.imr
        /\ q.slave.isr = p.slave.isr \cup {line}
    BY <1>1, <2>2, <2>7, ServeType
  <2>10. q \in PicType
    BY <2>7, <2>8, <2>9 DEF PicType
  <2>11. Bounded(q)
    BY <2>8, <2>9 DEF Bounded
  <2>12. ServedOnly(q, {})
    BY <2>3, <2>8, <2>9 DEF ServedOnly
  <2> QED BY <2>3, <2>4, <2>5, <2>10, <2>11, <2>12 DEF irq, q
<1>10. CASE ~(first = Cascade /\ SlaveRequests(p) # {})
  <2>1. irq = first
    BY <1>10 DEF Interrupting
  <2>2. irq \in p.master.irr /\ irq # Cascade
    BY <1>6, <1>8, <1>10, <2>1 DEF Bounded
  <2> HIDE DEF first
  <2>3. irq \in Allowed \cup {KEYBOARD_IRQ_NUM}
    BY <1>7, <2>1, <2>2 DEF Bounded, Allowed
  <2> HIDE DEF irq
  <2>4. irq \in Lines /\ irq \in Irqs /\ irq < 8
    BY <1>6, <2>1 DEF Lines, Irqs
  <2>5. q = [p EXCEPT !.master = Serve(p.master, irq)]
    BY <2>4 DEF Acknowledged
  <2> HIDE DEF q
  <2>6. /\ q.master = Serve(p.master, irq) /\ q.slave = p.slave
        /\ q = [master |-> Serve(p.master, irq), slave |-> p.slave]
    BY <2>5 DEF PicType
  <2>7. /\ q.master \in ChipType /\ q.master.offset = p.master.offset
        /\ q.master.irr \subseteq p.master.irr /\ q.master.imr = p.master.imr
        /\ q.master.isr = p.master.isr \cup {irq}
    BY <1>1, <2>4, <2>6, ServeType
  <2>8. q \in PicType
    BY <1>1, <2>6, <2>7 DEF PicType
  <2>9. Bounded(q)
    BY <2>6, <2>7 DEF Bounded
  <2>10. ASSUME irq # KEYBOARD_IRQ_NUM PROVE ServedOnly(q, {})
    BY <2>2, <2>3, <2>6, <2>7, <2>10 DEF ServedOnly
  <2>11. ASSUME irq = KEYBOARD_IRQ_NUM
         PROVE  /\ ServedOnly(q, {KEYBOARD_IRQ_NUM})
                /\ KEYBOARD_IRQ_NUM \in q.master.isr /\ 0 \notin q.master.isr
    <3>1. ServedOnly(q, {KEYBOARD_IRQ_NUM})
      BY <1>8, <2>6, <2>7, <2>11 DEF ServedOnly
    <3>2. 0 \notin p.master.isr
      <4>1. 0 \in p.master.isr => irq < 0
        BY <1>4, <1>5, <2>1
      <4> QED BY <2>11, <4>1 DEF KEYBOARD_IRQ_NUM
    <3> QED BY <2>7, <2>11, <3>1, <3>2 DEF KEYBOARD_IRQ_NUM
  <2> QED BY <2>3, <2>4, <2>8, <2>9, <2>10, <2>11 DEF irq, q
<1> QED BY <1>9, <1>10

-----------------------------------------------------------------------------
(* Every action keeps the invariant                                        *)

LEMMA NumEntries == 0..(NUM_ENTRIES_MAX - 1) = 0..2
BY DEF NUM_ENTRIES_MAX

LEMMA InitInv == Init => Inv
<1> SUFFICES ASSUME Init PROVE Inv
  OBVIOUS
<1>1. pic \in PicType
  <2>1. {3} \in SUBSET Lines /\ {4, 5, 6} \in SUBSET Lines
    BY DEF Lines
  <2>2. PICK imr \in {{}, Lines}, served \in {{}, {1}} :
          pic = [master |-> Chip(imr, served, {3}), slave |-> Chip(imr, {}, {4, 5, 6})]
    BY DEF Init
  <2>3. imr \in SUBSET Lines /\ served \in SUBSET Lines
    BY DEF Lines
  <2> QED BY <2>1, <2>2, <2>3 DEF Chip, PicType, ChipType
<1>2. Types
  BY <1>1 DEF Init, Types, SetUp, Handlers
<1>3. FlagInv /\ GdtInv
  BY DEF Init, FlagInv, GdtInv
<1>4. IdtInv
  BY DEF Init, IdtInv
<1>5. PicInv
  BY DEF Init, PicInv, Early
<1> QED BY <1>2, <1>3, <1>4, <1>5 DEF Inv

(* Nothing of the set-up of the tables happens.                            *)
LEMMA TablesKept ==
    ASSUME Inv, UNCHANGED memory,
           \/ pc' = pc
           \/ {pc, pc'} \cap (Early \cup {"console_init"}) = {}
    PROVE  GdtInv' /\ IdtInv'
<1> USE DEF memory
<1>1. GdtInv'
  BY DEF Inv, GdtInv, Early
<1>2. \A irq : HandlerAt(irq)' = HandlerAt(irq)
  <2>1. (pc \in {"pic_init", "console_init"}) <=> (pc' \in {"pic_init", "console_init"})
    BY DEF Early
  <2> QED BY <2>1 DEF HandlerAt, HandlerOf
<1>3. IdtInv'
  BY <1>2 DEF Inv, IdtInv, Early
<1> QED BY <1>1, <1>3

LEMMA IntrDisableInv == Inv /\ intr_disable => Inv'
<1> SUFFICES ASSUME Inv, intr_disable PROVE Inv'
  OBVIOUS
<1> USE DEF intr_disable, At, memory
<1>1. Types' /\ FlagInv'
  BY DEF Inv, Types, FlagInv, SetUp
<1>2. GdtInv' /\ IdtInv'
  BY DEF Inv, GdtInv, IdtInv
<1>3. PicInv'
  BY DEF PicInv, Early
<1> QED BY <1>1, <1>2, <1>3 DEF Inv

LEMMA GdtInitInv == Inv /\ gdt_init => Inv'
<1> SUFFICES ASSUME Inv, gdt_init PROVE Inv'
  OBVIOUS
<1> USE DEF gdt_init, At
<1>1. Types' /\ FlagInv'
  BY DEF Inv, Types, FlagInv, SetUp, Serving
<1>2. GdtInv'
  <2>1. gdt = [idx \in 0..2 |-> NullEntry]
    BY NumEntries DEF Inv, GdtInv
  <2>2. \A table, gdte : \A idx \in 0..2 :
            _add_entry(table, idx, gdte) = [table EXCEPT ![idx] = gdte]
    BY DEF _add_entry, NUM_ENTRIES_MAX
  <2>3. gdt' = [[[gdt EXCEPT ![0] = NullEntry] EXCEPT ![1] = _gdt_entry_set_code(0)]
                    EXCEPT ![2] = _gdt_entry_set_data(0)]
    BY <2>2 DEF Entries
  <2>4. gdt'[1] = _gdt_entry_set_code(0) /\ gdt'[2] = _gdt_entry_set_data(0)
    BY <2>1, <2>3
  <2>5. gdtr' = 23 /\ cs' = 8 /\ ds' = 16
    BY DEF _mgdtr_set_length, NUM_ENTRIES_MAX
  <2> QED BY <2>4, <2>5 DEF GdtInv
<1>3. IdtInv'
  BY DEF Inv, IdtInv
<1>4. PicInv'
  BY DEF PicInv, Early
<1> QED BY <1>1, <1>2, <1>3, <1>4 DEF Inv

LEMMA IdtInitInv == Inv /\ idt_init => Inv'
<1> SUFFICES ASSUME Inv, idt_init PROVE Inv'
  OBVIOUS
<1> USE DEF idt_init, At
<1>1. Types' /\ FlagInv'
  BY DEF Inv, Types, FlagInv, SetUp, Serving
<1>2. GdtInv'
  BY DEF Inv, GdtInv
<1>3. IdtInv'
  <2>1. DOMAIN idt = 0..(IDT_NUM_GATES_MAX - 1)
    BY DEF Inv, IdtInv
  <2>2. DOMAIN idt' = 0..(IDT_NUM_GATES_MAX - 1) /\ \A v \in 0..47 : idt'[v] = GateFor(v)
    BY <2>1, NewGates
  <2>3. ASSUME NEW v \in 0..31
        PROVE  idt'[v] = Gate(exception_handler)
    <3>1. v \in 0..47 /\ v < 32
      OBVIOUS
    <3> QED BY <2>2, <3>1 DEF GateFor
  <2>4. ASSUME NEW irq \in Irqs
        PROVE  idt'[IRQ_OFFSET + irq] = Gate(HandlerAt(irq)')
    <3>1. 32 + irq \in 0..47 /\ ~(32 + irq < 32)
      BY DEF Irqs
    <3>2. idt'[32 + irq] = GateFor(32 + irq)
      BY <2>2, <3>1
    <3>3. pc' = "pic_init"
      OBVIOUS
    <3>4. CASE irq = 9
      BY <3>1, <3>2, <3>4 DEF GateFor, HandlerAt, HandlerOf, KEYBOARD_IRQ_NUM, IRQ_OFFSET
    <3>5. CASE irq = 10
      BY <3>1, <3>2, <3>5 DEF GateFor, HandlerAt, HandlerOf, KEYBOARD_IRQ_NUM, IRQ_OFFSET
    <3>6. CASE irq \notin {9, 10}
      <4>1. 32 + irq \in (32..47) \ {41, 42}
        BY <3>6 DEF Irqs
      <4>2. GateFor(32 + irq) = Gate(isr(32 + irq))
        BY <3>1, <4>1 DEF GateFor
      <4>3. HandlerAt(irq)' = isr(32 + irq)
        <5>1. CASE irq = KEYBOARD_IRQ_NUM
          BY <3>3, <5>1 DEF HandlerAt, IRQ_OFFSET
        <5>2. CASE irq # KEYBOARD_IRQ_NUM
          BY <3>6, <5>2 DEF HandlerAt, HandlerOf, IRQ_OFFSET
        <5> QED BY <5>1, <5>2
      <4> QED BY <3>2, <4>2, <4>3 DEF IRQ_OFFSET
    <3> QED BY <3>4, <3>5, <3>6
  <2> QED BY <2>2, <2>3, <2>4 DEF IdtInv
<1>4. PicInv'
  BY DEF PicInv, Early
<1> QED BY <1>1, <1>2, <1>3, <1>4 DEF Inv

LEMMA PicInitInv == Inv /\ PicInit => Inv'
<1> SUFFICES ASSUME Inv, PicInit PROVE Inv'
  OBVIOUS
<1> USE DEF PicInit, At, memory
<1>1. pic \in PicType
  BY DEF Inv, Types
<1>2. pic' = [master |-> Remapped(MASTER_OFFSET), slave |-> Remapped(SLAVE_OFFSET)]
  BY <1>1, PicIsInit
<1>3. pic' \in PicType
  <2>1. MASTER_OFFSET \in SUBSET Lines /\ SLAVE_OFFSET \in SUBSET Lines
    BY DEF MASTER_OFFSET, SLAVE_OFFSET, Lines
  <2> QED BY <1>2, <2>1, RemappedType DEF PicType
<1>4. Types'
  BY <1>3 DEF Inv, Types, SetUp
<1>5. FlagInv'
  BY DEF Inv, FlagInv, SetUp, Serving
<1>6. GdtInv'
  BY DEF Inv, GdtInv
<1>7. IdtInv'
  <2>1. \A irq : HandlerAt(irq)' = HandlerAt(irq)
    BY DEF HandlerAt, HandlerOf
  <2> QED BY <2>1 DEF Inv, IdtInv
<1>8. PicInv'
  <2>1. Bounded(pic')
    BY <1>2 DEF Bounded, Remapped
  <2>2. ServedOnly(pic', {})
    BY <1>2 DEF ServedOnly, Remapped
  <2>3. running' \notin InKeyboard
    BY DEF InKeyboard, None, _keyboard_isr
  <2> QED BY <2>1, <2>2, <2>3 DEF PicInv, ServedInv
<1> QED BY <1>4, <1>5, <1>6, <1>7, <1>8 DEF Inv

(* A step of the program after console_init(): the chips keep what is      *)
(* requested and in service.                                               *)
LEMMA StepOn ==
    ASSUME Inv, running = None, pc \in {"paging_init", "test"} \cup Serving,
           UNCHANGED memory, running' = None,
           pc' \in {"test", "end"} \cup Serving,
           iflag' \in BOOLEAN, iflag' => pc' \in Serving,
           pic' \in PicType, SameButMask(pic, pic'), Bounded(pic) => Bounded(pic')
    PROVE  Inv'
<1>1. Types'
  BY DEF Inv, Types, SetUp
<1>2. FlagInv'
  BY DEF FlagInv
<1>3. GdtInv' /\ IdtInv'
  <2>1. {pc, pc'} \cap (Early \cup {"console_init"}) = {}
    BY DEF Early, Serving
  <2> QED BY <2>1, TablesKept
<1>4. PicInv'
  <2>1. running \notin InKeyboard \cup {exception_handler}
    BY DEF InKeyboard, None, _keyboard_isr, exception_handler
  <2>2. pc \notin Early
    BY DEF Early, Serving
  <2>3. Bounded(pic) /\ ServedOnly(pic, {})
    BY <2>1, <2>2 DEF Inv, PicInv, ServedInv
  <2>4. Bounded(pic') /\ ServedOnly(pic', {})
    BY <2>3 DEF SameButMask, ServedOnly
  <2> QED BY <2>1, <2>4 DEF PicInv, ServedInv
<1> QED BY <1>1, <1>2, <1>3, <1>4 DEF Inv

LEMMA PicKept ==
    ASSUME Inv, pic' = pic
    PROVE  pic' \in PicType /\ SameButMask(pic, pic') /\ (Bounded(pic) => Bounded(pic'))
BY DEF Inv, Types, SameButMask

LEMMA WorkInv ==
    ASSUME Inv,
           \/ paging_init \/ intr_enable
           \/ GetLine \/ ReturnLine \/ halt
    PROVE  Inv'
<1>1. pic' = pic
  BY DEF paging_init, intr_enable, GetLine, ReturnLine, halt
<1>2. pic' \in PicType /\ SameButMask(pic, pic') /\ (Bounded(pic) => Bounded(pic'))
  BY <1>1, PicKept
<1>3. /\ running = None /\ running' = None /\ UNCHANGED memory
      /\ pc \in {"paging_init", "test"} \cup Serving
      /\ pc' \in {"test", "end"} \cup Serving
  BY DEF paging_init, intr_enable, GetLine, ReturnLine, halt, At, Serving
<1>4. iflag' \in BOOLEAN /\ (iflag' => pc' \in Serving)
  <2>1. CASE paging_init
    BY <2>1 DEF paging_init, Inv, Types, FlagInv, Serving
  <2>2. CASE intr_enable
    BY <2>2 DEF intr_enable, At, Serving
  <2>3. CASE GetLine \/ ReturnLine \/ halt
    BY <2>3 DEF GetLine, ReturnLine, halt, At, Serving, Inv, Types
  <2> QED BY <2>1, <2>2, <2>3
<1> QED BY <1>2, <1>3, <1>4, StepOn

LEMMA MaskInv ==
    ASSUME Inv,
           \/ \E irq \in Enabled : EnableIrq(irq)
           \/ keyboard_disable_irq \/ EnableKeyboard
    PROVE  Inv'
<1>1. PICK irq \in Irqs :
        \/ pic' = pic_enable_irq(pic, irq) /\ irq \in Enabled \cup {KEYBOARD_IRQ_NUM}
        \/ pic' = pic_disable_irq(pic, irq)
  <2>1. KEYBOARD_IRQ_NUM \in Irqs
    BY DEF KEYBOARD_IRQ_NUM, Irqs
  <2>2. CASE \E irq \in Enabled : EnableIrq(irq)
    BY <2>2, KernelAssumption DEF EnableIrq
  <2>3. CASE keyboard_disable_irq
    BY <2>1, <2>3 DEF keyboard_disable_irq
  <2>4. CASE EnableKeyboard
    BY <2>1, <2>4 DEF EnableKeyboard
  <2> QED BY <2>2, <2>3, <2>4
<1>2. pic \in PicType
  BY DEF Inv, Types
<1>3. pic' \in PicType /\ SameButMask(pic, pic') /\ (Bounded(pic) => Bounded(pic'))
  BY <1>1, <1>2, Masks
<1>4. /\ running = None /\ running' = None /\ UNCHANGED memory
      /\ pc \in {"paging_init", "test"} \cup Serving
      /\ pc' \in {"test", "end"} \cup Serving
      /\ iflag' = iflag
  BY DEF EnableIrq, keyboard_disable_irq, EnableKeyboard, At, Serving
<1>5. iflag' \in BOOLEAN /\ (iflag' => pc' \in Serving)
  BY <1>4 DEF EnableIrq, keyboard_disable_irq, EnableKeyboard, At, Serving, Inv, Types
<1> QED BY <1>3, <1>4, <1>5, StepOn

LEMMA ConsoleInitInv ==
    ASSUME Inv,
           \/ console_init("console_init", "paging_init")
           \/ console_init("serve", "serve")
    PROVE  Inv'
<1> USE DEF console_init, keyboard_init, At
<1> DEFINE ended == pic_send_eoi(pic, KEYBOARD_IRQ_NUM)
<1>1. /\ running = None /\ running' = None
      /\ \/ pc = "console_init" /\ pc' = "paging_init"
         \/ pc = "serve" /\ pc' = "serve"
      /\ iflag' = iflag /\ UNCHANGED <<gdt, gdtr, cs, ds, idtr>>
      /\ idt' = intr_register_irq(idt, KEYBOARD_IRQ_NUM, _keyboard_isr)
      /\ pic' = pic_enable_irq(ended, KEYBOARD_IRQ_NUM)
  OBVIOUS
<1>2. pic \in PicType
  BY DEF Inv, Types
<1>3. /\ ended \in PicType /\ ended.slave = pic.slave
      /\ ended.master.isr \subseteq pic.master.isr
      /\ Bounded(pic) => Bounded(ended)
  BY <1>2, EndOfService
<1> HIDE DEF ended, console_init, keyboard_init
<1>4. /\ pic' \in PicType /\ SameButMask(ended, pic')
      /\ Bounded(ended) => Bounded(pic')
  <2>1. KEYBOARD_IRQ_NUM \in Irqs /\ KEYBOARD_IRQ_NUM \in Enabled \cup {KEYBOARD_IRQ_NUM}
    BY DEF KEYBOARD_IRQ_NUM, Irqs
  <2> QED BY <1>1, <1>3, <2>1, Masks
<1>5. Types'
  BY <1>1, <1>4 DEF Inv, Types, SetUp
<1>6. FlagInv'
  BY <1>1 DEF Inv, FlagInv, SetUp, Serving
<1>7. GdtInv'
  BY <1>1 DEF Inv, GdtInv
<1>8. IdtInv'
  <2>1. /\ DOMAIN idt = 0..(IDT_NUM_GATES_MAX - 1) /\ idtr
        /\ \A v \in 0..31 : idt[v] = Gate(exception_handler)
        /\ \A irq \in Irqs : idt[IRQ_OFFSET + irq] = Gate(HandlerAt(irq))
    BY <1>1 DEF Inv, IdtInv
  <2>2. 33 \in 0..(IDT_NUM_GATES_MAX - 1) /\ IRQ_OFFSET + KEYBOARD_IRQ_NUM = 33
    BY DescriptorsAssumption DEF IRQ_OFFSET, KEYBOARD_IRQ_NUM
  <2>3. /\ DOMAIN idt' = 0..(IDT_NUM_GATES_MAX - 1)
        /\ \A w \in 0..(IDT_NUM_GATES_MAX - 1) :
            idt'[w] = IF w = 33 THEN Gate(_keyboard_isr) ELSE idt[w]
    <3>1. idt' = idt_set_intr_gate(idt, 33, _keyboard_isr)
      BY <1>1, <2>2 DEF intr_register_irq
    <3>2. ~(33 >= IDT_NUM_GATES_MAX \/ 0 >= 4)
      BY DescriptorsAssumption
    <3>3. idt' = [idt EXCEPT ![33] = Gate(_keyboard_isr)]
      BY <3>1, <3>2 DEF idt_set_intr_gate, _set_gate, Gate
    <3> HIDE DEF _keyboard_isr, Gate
    <3> QED BY <2>1, <2>2, <3>3
  <2>4. ASSUME NEW v \in 0..31 PROVE idt'[v] = Gate(exception_handler)
    <3>1. v \in 0..(IDT_NUM_GATES_MAX - 1) /\ v # 33
      BY DescriptorsAssumption
    <3> QED BY <2>1, <2>3, <3>1
  <2>5. ASSUME NEW irq \in Irqs PROVE idt'[IRQ_OFFSET + irq] = Gate(HandlerAt(irq)')
    <3>1. CASE irq = KEYBOARD_IRQ_NUM
      <4>1. HandlerAt(irq)' = _keyboard_isr
        <5>1. pc' \notin {"pic_init", "console_init"}
          BY <1>1
        <5>2. HandlerOf(irq) = _keyboard_isr
          BY <3>1 DEF HandlerOf, KEYBOARD_IRQ_NUM
        <5> QED BY <5>1, <5>2 DEF HandlerAt, HandlerOf
      <4>2. idt'[33] = Gate(_keyboard_isr)
        BY <2>2, <2>3
      <4> QED BY <2>2, <3>1, <4>1, <4>2
    <3>2. CASE irq # KEYBOARD_IRQ_NUM
      <4>1. IRQ_OFFSET + irq \in 0..(IDT_NUM_GATES_MAX - 1) /\ IRQ_OFFSET + irq # 33
        BY <3>2, DescriptorsAssumption DEF IRQ_OFFSET, Irqs, KEYBOARD_IRQ_NUM
      <4>2. HandlerAt(irq)' = HandlerAt(irq)
        BY <3>2 DEF HandlerAt, HandlerOf
      <4> QED BY <2>1, <2>3, <4>1, <4>2
    <3> QED BY <3>1, <3>2
  <2> QED BY <1>1, <2>1, <2>3, <2>4, <2>5 DEF IdtInv
<1>9. PicInv'
  <2>1. running \notin InKeyboard \cup {exception_handler} /\ pc \notin Early
    BY <1>1 DEF InKeyboard, None, _keyboard_isr, exception_handler, Early
  <2>2. Bounded(pic) /\ ServedOnly(pic, {})
    BY <2>1 DEF Inv, PicInv, ServedInv
  <2>3. ServedOnly(pic', {})
    BY <1>3, <1>4, <2>2 DEF SameButMask, ServedOnly
  <2> QED BY <1>1, <1>3, <1>4, <2>1, <2>2, <2>3 DEF PicInv, ServedInv
<1> QED BY <1>5, <1>6, <1>7, <1>8, <1>9 DEF Inv

(* The handlers are told apart.                                            *)
LEMMA Different ==
    /\ None \notin InKeyboard \cup {exception_handler}
    /\ exception_handler \notin InKeyboard \cup {None}
    /\ \A num \in 32..47 : isr(num) \notin InKeyboard \cup {None, exception_handler}
    /\ _keyboard_isr # <<"keyboard_isr", 1>>
    /\ NULL \notin InKeyboard \cup {None, exception_handler}
    /\ \A num \in 32..47 : isr(num) # NULL
BY DEF InKeyboard, None, _keyboard_isr, exception_handler, isr, NULL

LEMMA PageFaultInv == Inv /\ PageFault => Inv'
<1> SUFFICES ASSUME Inv, PageFault PROVE Inv'
  OBVIOUS
<1> USE DEF PageFault
<1>1. running' = exception_handler
  <2>1. idt[14] = Gate(exception_handler)
    BY DEF Inv, IdtInv
  <2> QED BY <2>1 DEF Gate
<1>2. Types'
  BY <1>1 DEF Inv, Types, Handlers
<1>3. FlagInv'
  BY <1>1 DEF FlagInv, SetUp
<1>4. GdtInv' /\ IdtInv'
  BY TablesKept
<1>5. PicInv'
  <2>1. Bounded(pic)
    BY DEF Inv, PicInv, Early
  <2> QED BY <1>1, <2>1, Different DEF PicInv, ServedInv
<1> QED BY <1>2, <1>3, <1>4, <1>5 DEF Inv

LEMMA InterruptInv == Inv /\ Interrupt => Inv'
<1> SUFFICES ASSUME Inv, Interrupt PROVE Inv'
  OBVIOUS
<1> DEFINE irq == Interrupting(pic)
           handler == idt[Vector(pic, irq)].isr
<1>1. /\ running = None /\ iflag /\ pc # "intr_disable" /\ MasterRequests(pic) # {}
      /\ pic' = Acknowledged(pic, irq)
      /\ running' = IF handler = NULL THEN idt[14].isr ELSE handler
      /\ iflag' = FALSE
      /\ pc' = IF pc = "halted" THEN "loop" ELSE pc
      /\ UNCHANGED memory
  BY DEF Interrupt, Interruptible
<1>2. pc \in Serving /\ pc' \in Serving /\ pc \notin Early /\ pc' \notin Early
  BY <1>1 DEF Inv, FlagInv, Serving, Early
<1>3. pic \in PicType /\ Bounded(pic) /\ ServedOnly(pic, {})
  BY <1>1, <1>2, Different DEF Inv, Types, PicInv, ServedInv
<1>4. /\ irq \in Allowed \cup {KEYBOARD_IRQ_NUM} /\ irq \in Irqs
      /\ pic' \in PicType /\ Bounded(pic')
      /\ irq # KEYBOARD_IRQ_NUM => ServedOnly(pic', {})
      /\ irq = KEYBOARD_IRQ_NUM =>
            /\ ServedOnly(pic', {KEYBOARD_IRQ_NUM})
            /\ KEYBOARD_IRQ_NUM \in pic'.master.isr /\ 0 \notin pic'.master.isr
  BY <1>1, <1>3, Interrupts
<1>5. handler = HandlerOf(irq)
  <2>1. Vector(pic, irq) = IRQ_OFFSET + irq
    <3> HIDE DEF irq
    <3>1. pic.master.offset = MASTER_OFFSET /\ pic.slave.offset = SLAVE_OFFSET
      BY <1>3 DEF Bounded
    <3> QED BY <1>4, <3>1, Offsets DEF Vector, IRQ_OFFSET, Irqs
  <2>2. idt[IRQ_OFFSET + irq] = Gate(HandlerAt(irq))
    BY <1>2, <1>4 DEF Inv, IdtInv, Early
  <2>3. HandlerAt(irq) = HandlerOf(irq)
    BY <1>2 DEF HandlerAt, Serving
  <2> QED BY <2>1, <2>2, <2>3 DEF Gate
<1> HIDE DEF irq, handler
<1>6. idt[14].isr = exception_handler
  <2>1. idt[14] = Gate(exception_handler)
    BY <1>2 DEF Inv, IdtInv, Early
  <2> QED BY <2>1 DEF Gate
<1>7. /\ running' \in Handlers /\ running' # None
      /\ running' \in InKeyboard => irq = KEYBOARD_IRQ_NUM
      /\ irq = KEYBOARD_IRQ_NUM => running' \in InKeyboard
  <2>1. CASE irq = KEYBOARD_IRQ_NUM
    <3>1. handler = _keyboard_isr /\ handler # NULL
      BY <1>5, <2>1 DEF HandlerOf, KEYBOARD_IRQ_NUM, _keyboard_isr, NULL
    <3>2. running' = _keyboard_isr
      BY <1>1, <3>1
    <3> QED BY <2>1, <3>2, Different DEF Handlers, InKeyboard
  <2>2. CASE irq = 10
    <3>1. irq # KEYBOARD_IRQ_NUM /\ handler = NULL
      BY <1>5, <2>2 DEF HandlerOf, KEYBOARD_IRQ_NUM
    <3>2. running' = exception_handler
      BY <1>1, <1>6, <3>1
    <3> QED BY <3>1, <3>2, Different DEF Handlers
  <2>3. CASE irq \notin {KEYBOARD_IRQ_NUM, 10}
    <3>1. PICK num \in 32..47 : handler = isr(num)
      <4>1. CASE irq = 9
        <5>1. HandlerOf(irq) = isr(42)
          BY <2>3, <4>1 DEF HandlerOf
        <5> QED BY <1>5, <5>1
      <4>2. CASE irq # 9
        <5>1. HandlerOf(irq) = isr(IRQ_OFFSET + irq)
          BY <2>3, <4>2 DEF HandlerOf
        <5>2. IRQ_OFFSET + irq \in 32..47
          BY <1>4 DEF IRQ_OFFSET, Irqs
        <5> QED BY <1>5, <5>1, <5>2
      <4> QED BY <4>1, <4>2
    <3>2. running' = isr(num)
      BY <1>1, <3>1, Different
    <3> QED BY <2>3, <3>2, Different DEF Handlers
  <2> QED BY <2>1, <2>2, <2>3
<1>8. Types'
  BY <1>1, <1>2, <1>4, <1>7 DEF Types
<1>9. FlagInv'
  <2>1. pc' \notin SetUp
    BY <1>2 DEF Serving, SetUp
  <2> QED BY <1>1, <2>1 DEF FlagInv, SetUp
<1>10. GdtInv' /\ IdtInv'
  <2>1. {pc, pc'} \cap (Early \cup {"console_init"}) = {}
    BY <1>2 DEF Early, Serving
  <2> QED BY <1>1, <2>1, TablesKept
<1>11. PicInv'
  BY <1>4, <1>7 DEF PicInv, ServedInv
<1> QED BY <1>8, <1>9, <1>10, <1>11 DEF Inv

(* Handlers run only in the last part of the program.                      *)
LEMMA HandlerPlace ==
    ASSUME Inv, running \notin {None, exception_handler}
    PROVE  pc \in Serving /\ pc \notin Early /\ Bounded(pic) /\ ServedInv
<1>1. pc \in Serving
  BY DEF Inv, Types, FlagInv, SetUp
<1>2. pc \notin Early
  BY <1>1 DEF Serving, Early
<1> QED BY <1>1, <1>2 DEF Inv, PicInv

LEMMA IsrNumInv == Inv /\ isr_num => Inv'
<1> SUFFICES ASSUME Inv, isr_num PROVE Inv'
  OBVIOUS
<1> USE DEF isr_num, Iret
<1>1. running \notin InKeyboard \cup {None, exception_handler}
  BY Different
<1>2. pc \in Serving /\ pc \notin Early /\ Bounded(pic) /\ ServedOnly(pic, {})
  BY <1>1, HandlerPlace DEF ServedInv
<1>3. Types' /\ FlagInv'
  BY <1>2 DEF Inv, Types, FlagInv, Handlers, Serving, SetUp
<1>4. GdtInv' /\ IdtInv'
  BY TablesKept
<1>5. PicInv'
  BY <1>2, Different DEF PicInv, ServedInv
<1> QED BY <1>3, <1>4, <1>5 DEF Inv

LEMMA ReadBufInv == Inv /\ _read_buf => Inv'
<1> SUFFICES ASSUME Inv, _read_buf PROVE Inv'
  OBVIOUS
<1> USE DEF _read_buf
<1>1. running \in InKeyboard /\ running' \in InKeyboard
  BY DEF InKeyboard
<1>2. pc \in Serving /\ pc \notin Early /\ Bounded(pic) /\ ServedInv
  BY <1>1, Different, HandlerPlace
<1>3. Types' /\ FlagInv'
  BY <1>1, <1>2, Different DEF Inv, Types, FlagInv, Handlers, Serving, SetUp
<1>4. GdtInv' /\ IdtInv'
  BY TablesKept
<1>5. PicInv'
  BY <1>1, <1>2 DEF PicInv, ServedInv
<1> QED BY <1>3, <1>4, <1>5 DEF Inv

LEMMA KeyboardIsrInv == Inv /\ keyboard_isr => Inv'
<1> SUFFICES ASSUME Inv, keyboard_isr PROVE Inv'
  OBVIOUS
<1> USE DEF keyboard_isr, Iret
<1>1. running \in InKeyboard
  BY DEF InKeyboard
<1>2. pc \in Serving /\ pc \notin Early /\ Bounded(pic) /\ ServedInv
  BY <1>1, Different, HandlerPlace
<1>3. pic \in PicType
  BY DEF Inv, Types
<1>4. /\ ServedOnly(pic, {KEYBOARD_IRQ_NUM})
      /\ KEYBOARD_IRQ_NUM \in pic.master.isr /\ 0 \notin pic.master.isr
  BY <1>1, <1>2 DEF ServedInv
<1>5. /\ pic' \in PicType /\ pic'.slave = pic.slave /\ Bounded(pic')
      /\ pic'.master.isr \subseteq pic.master.isr /\ KEYBOARD_IRQ_NUM \notin pic'.master.isr
  BY <1>2, <1>3, <1>4, EndOfService
<1>6. ServedOnly(pic', {})
  BY <1>4, <1>5 DEF ServedOnly
<1>7. Types' /\ FlagInv'
  BY <1>2, <1>5 DEF Inv, Types, FlagInv, Handlers, Serving, SetUp
<1>8. GdtInv' /\ IdtInv'
  BY TablesKept
<1>9. PicInv'
  BY <1>5, <1>6, Different DEF PicInv, ServedInv
<1> QED BY <1>7, <1>8, <1>9 DEF Inv

LEMMA RequestInv ==
    ASSUME Inv, Key \/ \E irq \in Devices : Request(irq)
    PROVE  Inv'
<1>1. PICK irq \in Devices \cup {KEYBOARD_IRQ_NUM} : pic' = Requested(pic, irq)
  BY DEF Key, Request
<1>2. UNCHANGED <<pc, iflag, running, memory>>
  BY DEF Key, Request
<1>3. pic \in PicType
  BY DEF Inv, Types
<1>4. /\ pic' \in PicType
      /\ pic'.master.isr = pic.master.isr /\ pic'.slave.isr = pic.slave.isr
      /\ Bounded(pic) => Bounded(pic')
  BY <1>1, <1>3, Requests
<1>5. Types' /\ FlagInv'
  BY <1>2, <1>4 DEF Inv, Types, FlagInv
<1>6. GdtInv' /\ IdtInv'
  BY <1>2, TablesKept
<1>7. PicInv'
  <2>1. ServedInv => ServedInv'
    BY <1>2, <1>4 DEF ServedInv, ServedOnly
  <2> QED BY <1>2, <1>4, <2>1 DEF Inv, PicInv
<1> QED BY <1>5, <1>6, <1>7 DEF Inv

LEMMA NextInv == Inv /\ [Next]_vars => Inv'
<1> SUFFICES ASSUME Inv, [Next]_vars PROVE Inv'
  OBVIOUS
<1>1. CASE Kmain
  <2>1. CASE intr_disable
    BY <2>1, IntrDisableInv
  <2>2. CASE gdt_init
    BY <2>2, GdtInitInv
  <2>3. CASE idt_init
    BY <2>3, IdtInitInv
  <2>4. CASE PicInit
    BY <2>4, PicInitInv
  <2>5. CASE console_init("console_init", "paging_init")
    BY <2>5, ConsoleInitInv
  <2>6. CASE PageFault
    BY <2>6, PageFaultInv
  <2>7. CASE paging_init \/ intr_enable
    BY <2>7, WorkInv
  <2> QED BY <1>1, <2>1, <2>2, <2>3, <2>4, <2>5, <2>6, <2>7 DEF Kmain
<1>2. CASE Work
  <2>1. CASE console_init("serve", "serve")
    BY <2>1, ConsoleInitInv
  <2>2. CASE GetLine \/ ReturnLine \/ halt
    BY <2>2, WorkInv
  <2>3. CASE (\E irq \in Enabled : EnableIrq(irq)) \/ keyboard_disable_irq \/ EnableKeyboard
    BY <2>3, MaskInv
  <2> QED BY <1>2, <2>1, <2>2, <2>3 DEF Work
<1>3. CASE Interrupt
  BY <1>3, InterruptInv
<1>4. CASE Handler
  <2>1. CASE isr_num
    BY <2>1, IsrNumInv
  <2>2. CASE _read_buf
    BY <2>2, ReadBufInv
  <2>3. CASE keyboard_isr
    BY <2>3, KeyboardIsrInv
  <2> QED BY <1>4, <2>1, <2>2, <2>3 DEF Handler
<1>5. CASE Key \/ \E irq \in Devices : Request(irq)
  BY <1>5, RequestInv
<1>6. CASE UNCHANGED vars
  <2>1. UNCHANGED <<pc, iflag, running, memory, pic>>
    BY <1>6 DEF vars
  <2>2. Types' /\ FlagInv'
    BY <2>1 DEF Inv, Types, FlagInv
  <2>3. GdtInv' /\ IdtInv'
    BY <2>1, TablesKept
  <2>4. PicInv'
    BY <2>1 DEF Inv, PicInv, ServedInv
  <2> QED BY <2>2, <2>3, <2>4 DEF Inv
<1> QED BY <1>1, <1>2, <1>3, <1>4, <1>5, <1>6 DEF Next

(* At every step: whatever lines are enabled and requested, tables, gates  *)
(* and controllers are as kmain() has set them up so far, and the lines in *)
(* service are those that the running handler accounts for.                *)
THEOREM KernelInductive == Spec => []Inv
<1>1. Init => Inv
  BY InitInv
<1>2. Inv /\ [Next]_vars => Inv'
  BY NextInv
<1> QED BY <1>1, <1>2, PTL DEF Spec

(* When an interrupt can be taken, everything is set up for it: no line is  *)
(* at a vector of the exceptions, and every gate has its handler and a     *)
(* code segment (kmain.c:47-53).                                           *)
THEOREM KernelReadyForInterrupts == Spec => []ReadyForInterrupts
<1>1. Inv => ReadyForInterrupts
  <2> SUFFICES ASSUME Inv, iflag, running = None, pc # "intr_disable"
               PROVE  /\ pc \notin SetUp
                      /\ IsSegment(gdt, gdtr, cs, TRUE) /\ IsSegment(gdt, gdtr, ds, FALSE)
                      /\ \A v \in 0..31 : IsGate(v, exception_handler)
                      /\ \A irq \in Irqs :
                            /\ Vector(pic, irq) = IRQ_OFFSET + irq
                            /\ IsGate(Vector(pic, irq), HandlerOf(irq))
    BY DEF ReadyForInterrupts
  <2>1. pc \in Serving /\ pc \notin SetUp /\ pc \notin Early
    BY DEF Inv, FlagInv, Serving, SetUp, Early
  <2>2. /\ gdt[1] = _gdt_entry_set_code(0) /\ gdt[2] = _gdt_entry_set_data(0)
        /\ gdtr = 23 /\ cs = 8 /\ ds = 16
    BY <2>1 DEF Inv, GdtInv, Early
  <2>3. IsSegment(gdt, gdtr, cs, TRUE) /\ IsSegment(gdt, gdtr, ds, FALSE)
    BY <2>2, Segments
  <2>4. /\ \A v \in 0..31 : idt[v] = Gate(exception_handler)
        /\ \A irq \in Irqs : idt[IRQ_OFFSET + irq] = Gate(HandlerOf(irq))
    <3>1. pc \notin {"pic_init", "console_init"}
      BY <2>1 DEF Serving
    <3> QED BY <2>1, <3>1 DEF Inv, IdtInv, Early, HandlerAt
  <2>5. ASSUME NEW v, NEW handler, idt[v] = Gate(handler)
        PROVE  IsGate(v, handler)
    <3>1. idt[v].p = TRUE /\ idt[v].isr = handler /\ idt[v].selector = cs
      BY <2>2, <2>5 DEF Gate, IDT_CS
    <3> QED BY <2>3, <3>1 DEF IsGate
  <2>6. ASSUME NEW irq \in Irqs PROVE Vector(pic, irq) = IRQ_OFFSET + irq
    <3>1. pic.master.offset = MASTER_OFFSET /\ pic.slave.offset = SLAVE_OFFSET
      BY <2>1 DEF Inv, PicInv, Bounded
    <3> QED BY <3>1, Offsets DEF Vector, IRQ_OFFSET, Irqs
  <2>7. \A irq \in Irqs : IsGate(Vector(pic, irq), HandlerOf(irq))
    BY <2>4, <2>5, <2>6
  <2>8. \A v \in 0..31 : IsGate(v, exception_handler)
    BY <2>4, <2>5
  <2> QED BY <2>1, <2>3, <2>6, <2>7, <2>8
<1> QED BY <1>1, KernelInductive, PTL

(* When no handler runs, only lines whose handler is one of isr.S are in   *)
(* service; the keyboard's service is always ended (keyboard.c:123-125).   *)
THEOREM KernelInServiceUnhandled == Spec => []InServiceUnhandled
<1>1. Inv => InServiceUnhandled
  <2> SUFFICES ASSUME Inv, running = None, pc \notin Early
               PROVE  /\ pic.master.isr \subseteq (Devices \cap Enabled) \cup {Cascade}
                      /\ {8 + line : line \in pic.slave.isr} \subseteq Devices \cap Enabled
                      /\ Cascade \in pic.master.isr => pic.slave.isr # {}
    BY DEF InServiceUnhandled, Early
  <2>1. ServedOnly(pic, {})
    BY Different DEF Inv, PicInv, ServedInv
  <2> QED BY <2>1 DEF ServedOnly, Allowed
<1> QED BY <1>1, KernelInductive, PTL
=============================================================================
