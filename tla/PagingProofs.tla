---------------------------- MODULE PagingProofs ----------------------------
(***************************************************************************)
(* The invariants of paging, for tables of any size, any place of the      *)
(* kernel and of its tables, and any addresses that are mapped later.      *)
(***************************************************************************)
EXTENDS Paging, TLAPS

-----------------------------------------------------------------------------
(* Arithmetic                                                              *)

LEMMA DivMod ==
    ASSUME NEW v \in Nat, NEW k \in Nat \ {0}
    PROVE  /\ v \div k \in Nat /\ v % k \in 0..(k - 1)
           /\ v = (v \div k) * k + (v % k)
OBVIOUS

LEMMA OneQuotient ==
    ASSUME NEW k \in Nat \ {0}, NEW v \in Nat, NEW q \in Nat, NEW r \in 0..(k - 1),
           v = q * k + r
    PROVE  v \div k = q /\ v % k = r
<1> DEFINE p == v \div k
           s == v % k
<1>1. p \in Nat /\ s \in 0..(k - 1) /\ v = p * k + s
  BY DivMod
<1> HIDE DEF p, s
<1>2. ASSUME q < p PROVE FALSE
  <2>1. (p - q) * k >= k
    BY <1>1, <1>2
  <2> QED BY <1>1, <2>1
<1>3. ASSUME p < q PROVE FALSE
  <2>1. (q - p) * k >= k
    BY <1>1, <1>3
  <2> QED BY <1>1, <2>1
<1>4. p = q /\ s = r
  <2>1. p = q
    BY <1>1, <1>2, <1>3
  <2> QED BY <1>1, <2>1
<1> QED BY <1>4 DEF p, s

(* The quotient of a number below a product.                               *)
LEMMA QuotientBound ==
    ASSUME NEW k \in Nat \ {0}, NEW c \in Nat, NEW v \in 0..(k * c - 1)
    PROVE  v \div k \in 0..(c - 1)
<1> DEFINE p == v \div k
           s == v % k
<1>1. v \in Nat /\ v < k * c
  <2> DEFINE z == k * c
  <2>1. z \in Nat /\ v \in 0..(z - 1)
    OBVIOUS
  <2> HIDE DEF z
  <2>2. v \in Nat /\ v < z
    BY <2>1
  <2> QED BY <2>2 DEF z
<1>2. p \in Nat /\ s \in 0..(k - 1) /\ v = p * k + s
  BY <1>1, DivMod
<1> HIDE DEF p, s
<1>3. ASSUME c <= p PROVE FALSE
  <2>1. k * c <= k * p
    <3>1. k * (p - c) >= 0
      BY <1>2, <1>3
    <3> QED BY <1>2, <3>1
  <2>2. k * p = p * k /\ k * p \in Nat /\ k * c \in Nat
    BY <1>2
  <2> QED BY <1>1, <1>2, <2>1, <2>2
<1>4. p \in 0..(c - 1)
  BY <1>2, <1>3
<1> QED BY <1>4 DEF p

(* A number put together from a quotient and a remainder.                  *)
LEMMA Together ==
    ASSUME NEW k \in Nat \ {0}, NEW c \in Nat, NEW q \in 0..(c - 1), NEW r \in 0..(k - 1)
    PROVE  /\ k * q + r \in 0..(k * c - 1)
           /\ (k * q + r) \div k = q /\ (k * q + r) % k = r
<1>1. q \in Nat /\ q + 1 <= c /\ r \in Nat /\ r < k /\ k \in Nat
  OBVIOUS
<1>2. k * (c - (q + 1)) >= 0
  BY <1>1
<1>3. k * (c - (q + 1)) = k * c - k * q - k /\ k * q \in Nat /\ k * c \in Nat
  BY <1>1
<1>4. k * q + r \in Nat /\ k * q + r < k * c
  BY <1>1, <1>2, <1>3
<1>5. k * q + r = q * k + r
  BY <1>1
<1>6. (k * q + r) \div k = q /\ (k * q + r) % k = r
  <2> DEFINE w == k * q + r
  <2>1. w \in Nat /\ w = q * k + r
    BY <1>4, <1>5
  <2> HIDE DEF w
  <2>2. w \div k = q /\ w % k = r
    BY <1>1, <2>1, OneQuotient
  <2> QED BY <2>2 DEF w
<1>7. k * q + r \in 0..(k * c - 1)
  <2> DEFINE w == k * q + r
             z == k * c
  <2>1. w \in Nat /\ z \in Nat /\ w < z
    BY <1>3, <1>4
  <2> HIDE DEF w, z
  <2>2. w \in 0..(z - 1)
    BY <2>1
  <2> QED BY <2>2 DEF w, z
<1> QED BY <1>6, <1>7

-----------------------------------------------------------------------------
(* Addresses and pages                                                     *)

Addrs == 0..(ADDRS - 1)

LEMMA Sizes ==
    /\ PAGE_SIZE \in Nat \ {0} /\ ENTRIES \in Nat \ {0} /\ NUM_PAGE_TABLES \in Nat \ {0}
    /\ PAGE_SIZE >= 2 /\ UNIT \in Nat \ {0} /\ UNIT >= 2 /\ UNIT <= PAGE_SIZE
    /\ PAGE_SIZE % UNIT = 0 /\ PADDR_MAX \in Nat
    /\ KERNEL_TABLE \in Nat /\ NUM_PAGE_TABLES <= KERNEL_TABLE /\ KERNEL_TABLE < Last
    /\ Last \in Indices /\ KERNEL_TABLE \in Indices /\ Last = ENTRIES - 1
    /\ ENTRIES * ENTRIES \in Nat
    /\ ADDRS = PAGE_SIZE * (ENTRIES * ENTRIES)
    /\ PAGE_SIZE * ENTRIES \in Nat \ {0}
<1>1. /\ PAGE_SIZE \in Nat \ {0} /\ ENTRIES \in Nat \ {0} /\ NUM_PAGE_TABLES \in Nat \ {0}
      /\ UNIT \in 2..PAGE_SIZE /\ PAGE_SIZE % UNIT = 0 /\ PADDR_MAX \in Nat
      /\ KERNEL_TABLE \in NUM_PAGE_TABLES..(Last - 1)
  BY PagingAssumption
<1>2. Last = ENTRIES - 1 /\ Last \in Nat
  BY <1>1 DEF Last
<1>3. /\ Last \in Indices /\ KERNEL_TABLE \in Indices /\ KERNEL_TABLE \in Nat
      /\ KERNEL_TABLE < Last /\ NUM_PAGE_TABLES <= KERNEL_TABLE
  BY <1>1, <1>2 DEF Indices
<1>4. ENTRIES * ENTRIES \in Nat /\ PAGE_SIZE * ENTRIES \in Nat \ {0}
  <2>1. ENTRIES * ENTRIES \in Nat /\ PAGE_SIZE * ENTRIES \in Nat
    BY <1>1
  <2>2. PAGE_SIZE * ENTRIES >= PAGE_SIZE
    <3>1. PAGE_SIZE * (ENTRIES - 1) >= 0
      BY <1>1
    <3> QED BY <1>1, <3>1
  <2> QED BY <1>1, <2>1, <2>2
<1>5. ADDRS = PAGE_SIZE * (ENTRIES * ENTRIES)
  BY <1>1 DEF ADDRS
<1>6. PAGE_SIZE >= 2 /\ UNIT \in Nat \ {0} /\ UNIT >= 2 /\ UNIT <= PAGE_SIZE
  BY <1>1
<1> QED BY <1>1, <1>2, <1>3, <1>4, <1>5, <1>6

LEMMA PagesOfAddrs ==
    ASSUME NEW v \in Addrs
    PROVE  /\ Page(v) \in Frames
           /\ v % PAGE_SIZE \in 0..(PAGE_SIZE - 1)
           /\ v = PAGE_SIZE * Page(v) + (v % PAGE_SIZE)
           /\ _vaddr2pd_idx(v) = Page(v) \div ENTRIES
           /\ _vaddr2pt_idx(v) = Page(v) % ENTRIES
<1> DEFINE q == v \div PAGE_SIZE
           r == v % PAGE_SIZE
           a == q \div ENTRIES
           b == q % ENTRIES
<1>1. v \in 0..(PAGE_SIZE * (ENTRIES * ENTRIES) - 1) /\ v \in Nat
  BY Sizes DEF Addrs
<1>2. q \in 0..(ENTRIES * ENTRIES - 1)
  BY <1>1, Sizes, QuotientBound
<1>3. q \in Nat /\ r \in 0..(PAGE_SIZE - 1) /\ v = q * PAGE_SIZE + r
  BY <1>1, Sizes, DivMod
<1>4. a \in Nat /\ b \in 0..(ENTRIES - 1) /\ q = a * ENTRIES + b
  <2> HIDE DEF q
  <2> QED BY <1>3, Sizes, DivMod
<1>5. Page(v) = q
  BY DEF Page
<1> HIDE DEF q, r, a, b
<1>6. v \div (PAGE_SIZE * ENTRIES) = a
  <2> DEFINE k == PAGE_SIZE * ENTRIES
             s == PAGE_SIZE * b + r
  <2>1. s \in 0..(k - 1)
    BY <1>3, <1>4, Sizes, Together
  <2>2. v = a * k + s
    <3>1. q * PAGE_SIZE = a * (PAGE_SIZE * ENTRIES) + PAGE_SIZE * b
      BY <1>4, Sizes
    <3>2. a * (PAGE_SIZE * ENTRIES) \in Int /\ PAGE_SIZE * b \in Int
      BY <1>4, Sizes
    <3> QED BY <1>3, <3>1, <3>2
  <2>3. k \in Nat \ {0}
    BY Sizes
  <2> HIDE DEF k, s
  <2>4. v \div k = a
    BY <1>1, <1>4, <2>1, <2>2, <2>3, OneQuotient
  <2> QED BY <2>4 DEF k
<1>7. PAGE_SIZE * q = q * PAGE_SIZE
  BY <1>3, Sizes
<1> QED BY <1>2, <1>3, <1>5, <1>6, <1>7
        DEF Frames, _vaddr2pd_idx, _vaddr2pt_idx, q, r, a

LEMMA FrameSplits ==
    ASSUME NEW p \in Frames
    PROVE  /\ p \div ENTRIES \in Indices /\ p % ENTRIES \in Indices
           /\ p = ENTRIES * (p \div ENTRIES) + (p % ENTRIES)
<1>1. p \in Nat /\ p \in 0..(ENTRIES * ENTRIES - 1)
  BY Sizes DEF Frames
<1>2. p \div ENTRIES \in 0..(ENTRIES - 1)
  BY <1>1, Sizes, QuotientBound
<1> DEFINE a == p \div ENTRIES
           b == p % ENTRIES
<1>3. a \in Nat /\ b \in 0..(ENTRIES - 1) /\ p = a * ENTRIES + b
  BY <1>1, Sizes, DivMod
<1> HIDE DEF a, b
<1>4. p = ENTRIES * a + b
  BY <1>3, Sizes
<1> QED BY <1>2, <1>3, <1>4 DEF a, b, Indices

(* The address at an offset in a page.                                     *)
LEMMA AddrsOfPages ==
    ASSUME NEW p \in Frames, NEW r \in 0..(PAGE_SIZE - 1)
    PROVE  /\ PAGE_SIZE * p + r \in Addrs
           /\ Page(PAGE_SIZE * p + r) = p
           /\ (PAGE_SIZE * p + r) % PAGE_SIZE = r
           /\ (PAGE_SIZE * p + r) % UNIT = r % UNIT
<1>1. /\ PAGE_SIZE * p + r \in 0..(PAGE_SIZE * (ENTRIES * ENTRIES) - 1)
      /\ (PAGE_SIZE * p + r) \div PAGE_SIZE = p
      /\ (PAGE_SIZE * p + r) % PAGE_SIZE = r
  BY Sizes, Together DEF Frames
<1>2. PAGE_SIZE * p + r \in Addrs
  BY <1>1, Sizes DEF Addrs
<1>3. (PAGE_SIZE * p + r) % UNIT = r % UNIT
  <2> DEFINE u == PAGE_SIZE \div UNIT
             d == r \div UNIT
             e == r % UNIT
             w == PAGE_SIZE * p + r
  <2>1. u \in Nat /\ PAGE_SIZE = u * UNIT + (PAGE_SIZE % UNIT)
    BY Sizes, DivMod
  <2>2. r \in Nat /\ p \in Nat /\ w \in Nat
    BY Sizes DEF Frames
  <2>3. d \in Nat /\ e \in 0..(UNIT - 1) /\ r = d * UNIT + e
    BY <2>2, Sizes, DivMod
  <2> HIDE DEF u, d, e
  <2>4. PAGE_SIZE = u * UNIT
    BY <2>1, Sizes
  <2>5. u * UNIT * p + (d * UNIT + e) = (u * p + d) * UNIT + e /\ u * p + d \in Nat
    BY <2>1, <2>2, <2>3, Sizes
  <2>6. w = (u * p + d) * UNIT + e
    BY <2>3, <2>4, <2>5
  <2> HIDE DEF w
  <2>7. w % UNIT = e
    BY <2>2, <2>3, <2>5, <2>6, Sizes, OneQuotient
  <2> QED BY <2>7 DEF w, e
<1> QED BY <1>1, <1>2, <1>3 DEF Page

LEMMA PageAddrs ==
    ASSUME NEW p \in Frames
    PROVE  /\ PAGE_SIZE * p \in Addrs /\ Page(PAGE_SIZE * p) = p
           /\ (PAGE_SIZE * p) % PAGE_SIZE = 0 /\ (PAGE_SIZE * p) % UNIT = 0
<1>1. 0 \in 0..(PAGE_SIZE - 1) /\ p \in Nat
  BY Sizes DEF Frames
<1>2. PAGE_SIZE * p + 0 = PAGE_SIZE * p
  BY <1>1, Sizes
<1>3. 0 % UNIT = 0
  BY Sizes
<1> QED BY <1>1, <1>2, <1>3, AddrsOfPages

(* The address of the table k is in the page of that number of the last    *)
(* 4 MiB.                                                                  *)
LEMMA SelfPage ==
    ASSUME NEW k \in Indices
    PROVE  /\ Self(k) \in Addrs
           /\ _vaddr2pd_idx(Self(k)) = Last /\ _vaddr2pt_idx(Self(k)) = k
<1> DEFINE p == ENTRIES * Last + k
<1>1. /\ p \in 0..(ENTRIES * ENTRIES - 1) /\ p \div ENTRIES = Last /\ p % ENTRIES = k
  BY Sizes, Together DEF Indices
<1>2. Self(k) = PAGE_SIZE * p
  BY DEF Self
<1> HIDE DEF p
<1>3. p \in Frames
  BY <1>1 DEF Frames
<1>4. Self(k) \in Addrs /\ Page(Self(k)) = p
  BY <1>2, <1>3, PageAddrs
<1> QED BY <1>1, <1>4, PagesOfAddrs
-----------------------------------------------------------------------------
(* Entries, frames and pages of the tables                                 *)

(* The frames of the code's directory and of its tables; the last table is *)
(* the kernel's.                                                           *)
Dir == FrameOfBoot(Page(PageDir))
Tab(a) == FrameOfBoot(Page(PageTables) + a)
Arrays == 0..(NUM_PAGE_TABLES - 1)
KernelTab == Tab(NUM_PAGE_TABLES - 1)

TableOf(idx) == Tab(_table_idx2array_idx(idx))

LEMMA EntryFacts ==
    /\ Absent \in Entry /\ ~Absent.present /\ Absent.frame = 0
    /\ 0 \in Frames
    /\ \A f \in Frames, w \in BOOLEAN : Present(f, w) \in Entry
    /\ \A f, w : Present(f, w).present /\ Present(f, w).frame = f /\ Present(f, w).write = w
    /\ \A e \in Entry :
        /\ e.present \in BOOLEAN /\ e.frame \in Frames /\ e.write \in BOOLEAN
        /\ ~e.present => e = Absent
        /\ e.present => e = Present(e.frame, e.write)
<1>1. 0 \in Frames
  <2>1. ENTRIES * ENTRIES - 1 >= 0
    <3>1. ENTRIES * (ENTRIES - 1) >= 0
      BY Sizes
    <3> QED BY <3>1, Sizes
  <2> QED BY <2>1, Sizes DEF Frames
<1>2. /\ Absent \in Entry /\ ~Absent.present /\ Absent.frame = 0
  BY DEF Entry, Absent
<1>3. \A f, w : Present(f, w).present /\ Present(f, w).frame = f /\ Present(f, w).write = w
  BY DEF Present
<1>4. \A f \in Frames, w \in BOOLEAN : Present(f, w) \in Entry
  BY DEF Entry
<1>5. ASSUME NEW e \in Entry
      PROVE  /\ e.present \in BOOLEAN /\ e.frame \in Frames /\ e.write \in BOOLEAN
             /\ ~e.present => e = Absent
             /\ e.present => e = Present(e.frame, e.write)
  <2>1. CASE e = Absent
    BY <1>1, <2>1 DEF Absent
  <2>2. CASE \E f \in Frames, w \in BOOLEAN : e = Present(f, w)
    <3>1. PICK f \in Frames, w \in BOOLEAN : e = Present(f, w)
      BY <2>2
    <3>2. e.present = TRUE /\ e.frame = f /\ e.write = w
      BY <3>1 DEF Present
    <3> QED BY <3>1, <3>2
  <2> QED BY <2>1, <2>2 DEF Entry
<1> QED BY <1>1, <1>2, <1>3, <1>4, <1>5

LEMMA LinkFields ==
    ASSUME NEW f
    PROVE  Present(f, TRUE).present /\ Present(f, TRUE).frame = f /\ Present(f, TRUE).write = TRUE
BY DEF Present

LEMMA Numbers ==
    /\ Frames \subseteq Nat /\ Indices \subseteq Nat /\ Addrs \subseteq Nat
    /\ PageDir \in Addrs /\ PageTables \in Addrs /\ VGA \in Addrs
    /\ Vaddrs \subseteq Addrs /\ Paddrs \subseteq Addrs
    /\ BootFrame \in Nat /\ Page(KERNEL_START) \in Frames /\ Page(KERNEL_END) \in Frames
<1>1. {VGA, KERNEL_START, KERNEL_END, PageDir, PageTables} \cup Vaddrs \cup Paddrs
          \subseteq Addrs
  BY PagingAssumption DEF Addrs
<1>2. Frames \subseteq Nat /\ Indices \subseteq Nat /\ Addrs \subseteq Nat
  BY Sizes DEF Frames, Indices, Addrs
<1>3. Page(KERNEL_START) \in Frames /\ Page(KERNEL_END) \in Frames
  BY <1>1, PagesOfAddrs
<1> QED BY <1>1, <1>2, <1>3, PagingAssumption

LEMMA KernelRange ==
    /\ Page(KERNEL_START) \in Nat /\ Page(KERNEL_END) \in Nat
    /\ Page(KERNEL_START) <= Page(KERNEL_END)
    /\ \A p \in KernelPages : p \in Nat /\ Page(KERNEL_START) <= p /\ p <= Page(KERNEL_END)
<1> DEFINE a == Page(KERNEL_START)
           b == Page(KERNEL_END)
<1>1. a \in Nat /\ b \in Nat /\ KernelPages = a..b
  BY Numbers DEF KernelPages
<1>2. Page(PageDir) \in KernelPages
  BY PagingAssumption DEF OwnPages
<1> HIDE DEF a, b
<1>3. a <= b /\ \A p \in KernelPages : p \in Nat /\ a <= p /\ p <= b
  BY <1>1, <1>2
<1> QED BY <1>1, <1>3 DEF a, b

LEMMA KernelPagesFacts ==
    ASSUME NEW p \in KernelPages
    PROVE  /\ p \in Frames /\ p \div ENTRIES = KERNEL_TABLE
           /\ p % ENTRIES \in Indices
           /\ p = ENTRIES * KERNEL_TABLE + (p % ENTRIES)
           /\ FrameOfBoot(p) \in Frames /\ FrameOfBoot(p) \in TableFrames \cup Frames
           /\ FrameOfBoot(p) \notin {0, BootDir, BootTable}
<1>1. p \in Frames
  <2>1. p \in Page(KERNEL_START)..Page(KERNEL_END)
    BY DEF KernelPages
  <2> QED BY <2>1, Numbers, Sizes DEF Frames
<1>2. p \div ENTRIES = KERNEL_TABLE
  BY PagingAssumption
<1>3. p % ENTRIES \in Indices /\ p = ENTRIES * (p \div ENTRIES) + (p % ENTRIES)
  BY <1>1, FrameSplits
<1>4. FrameOfBoot(p) \in 1..(ENTRIES * ENTRIES - 1) /\ FrameOfBoot(p) \notin {BootDir, BootTable}
  BY PagingAssumption
<1>5. FrameOfBoot(p) \in Frames /\ FrameOfBoot(p) # 0
  BY <1>4, Sizes DEF Frames
<1> QED BY <1>1, <1>2, <1>3, <1>4, <1>5

LEMMA OneFrame ==
    ASSUME NEW p \in KernelPages, NEW q \in KernelPages, p # q
    PROVE  FrameOfBoot(p) # FrameOfBoot(q) /\ p % ENTRIES # q % ENTRIES
<1>1. p \in Nat /\ q \in Nat /\ BootFrame \in Nat /\ Page(KERNEL_START) \in Nat
  BY KernelPagesFacts, Numbers
<1>2. FrameOfBoot(p) # FrameOfBoot(q)
  BY <1>1 DEF FrameOfBoot
<1>3. p = ENTRIES * KERNEL_TABLE + (p % ENTRIES) /\ q = ENTRIES * KERNEL_TABLE + (q % ENTRIES)
  BY KernelPagesFacts
<1> QED BY <1>2, <1>3

(* Directory and tables are different frames, and none of the boot loader's.*)
LEMMA TableFramesFacts ==
    /\ TableFrames \subseteq Frames
    /\ 0 \in TableFrames /\ BootDir \in TableFrames /\ BootTable \in TableFrames
    /\ BootDir # 0 /\ BootTable # 0 /\ BootDir # BootTable
    /\ Page(PageDir) \in OwnPages /\ OwnPages \subseteq KernelPages
    /\ Dir \in TableFrames /\ Dir \notin {0, BootDir, BootTable}
    /\ \A a \in Arrays :
        /\ Page(PageTables) + a \in OwnPages
        /\ Tab(a) \in TableFrames /\ Tab(a) \notin {0, BootDir, BootTable}
        /\ Tab(a) # Dir
    /\ \A a \in Arrays, b \in Arrays : Tab(a) = Tab(b) => a = b
<1>1. Page(PageDir) \in OwnPages /\ OwnPages \subseteq KernelPages
  BY PagingAssumption DEF OwnPages
<1>2. \A a \in Arrays : Page(PageTables) + a \in OwnPages
  BY DEF Arrays, OwnPages
<1>3. \A p \in OwnPages : /\ FrameOfBoot(p) \in TableFrames /\ FrameOfBoot(p) \in Frames
                          /\ FrameOfBoot(p) \notin {0, BootDir, BootTable}
  BY <1>1, KernelPagesFacts DEF TableFrames
<1>4. /\ BootDir \in Frames /\ BootTable \in Frames /\ 0 \in Frames
      /\ BootDir # 0 /\ BootTable # 0 /\ BootDir # BootTable
  <2>1. BootDir \in 1..(ENTRIES * ENTRIES - 1) /\ BootTable \in 1..(ENTRIES * ENTRIES - 1)
        /\ BootDir # BootTable
    BY PagingAssumption
  <2> QED BY <2>1, Sizes, EntryFacts DEF Frames
<1>5. TableFrames \subseteq Frames
  BY <1>3, <1>4 DEF TableFrames
<1>6. \A a \in Arrays : Tab(a) # Dir
  <2> SUFFICES ASSUME NEW a \in Arrays PROVE Tab(a) # Dir
    OBVIOUS
  <2>1. Page(PageDir) # Page(PageTables) + a
    BY PagingAssumption DEF Arrays
  <2> QED BY <1>1, <1>2, <2>1, OneFrame DEF Tab, Dir
<1>7. \A a \in Arrays, b \in Arrays : Tab(a) = Tab(b) => a = b
  <2> SUFFICES ASSUME NEW a \in Arrays, NEW b \in Arrays, a # b PROVE Tab(a) # Tab(b)
    OBVIOUS
  <2>1. Page(PageTables) + a # Page(PageTables) + b
    <3>1. a \in Nat /\ b \in Nat
      BY Sizes DEF Arrays
    <3>2. Page(PageTables) \in Frames
      BY PagesOfAddrs, Numbers
    <3>3. Page(PageTables) \in Nat
      BY <3>2, Numbers
    <3> QED BY <3>1, <3>3
  <2> QED BY <1>1, <1>2, <2>1, OneFrame DEF Tab
<1> QED BY <1>1, <1>2, <1>3, <1>4, <1>5, <1>6, <1>7 DEF Dir, Tab, TableFrames

(* Every index that has a table has one of its own.                        *)
LEMMA TableIndex ==
    /\ KernelTab \in TableFrames /\ NUM_PAGE_TABLES - 1 \in Arrays
    /\ _is_table_idx_implemented(KERNEL_TABLE) /\ TableOf(KERNEL_TABLE) = KernelTab
    /\ \A k \in Indices : _is_table_idx_implemented(k) =>
        /\ k # Last /\ _table_idx2array_idx(k) \in Arrays
        /\ TableOf(k) \in TableFrames /\ TableOf(k) \notin {0, BootDir, BootTable, Dir}
        /\ Page(TableVaddr(k)) \in OwnPages /\ TableVaddr(k) \in Addrs
        /\ TableVaddr(k) % PAGE_SIZE = 0
        /\ FrameOfBoot(Page(TableVaddr(k))) = TableOf(k)
    /\ \A k, l \in Indices :
        _is_table_idx_implemented(k) /\ _is_table_idx_implemented(l) =>
            (TableOf(k) = TableOf(l) => k = l)
<1>1. NUM_PAGE_TABLES - 1 \in Arrays
  BY Sizes DEF Arrays
<1>2. _is_table_idx_implemented(KERNEL_TABLE)
      /\ _table_idx2array_idx(KERNEL_TABLE) = NUM_PAGE_TABLES - 1
  BY Sizes DEF _is_table_idx_implemented, _table_idx2array_idx
<1>3. \A k \in Indices : _is_table_idx_implemented(k) =>
        k # Last /\ _table_idx2array_idx(k) \in Arrays
  BY Sizes, Numbers DEF _is_table_idx_implemented, _table_idx2array_idx, Arrays
<1>4. \A k, l \in Indices :
        _is_table_idx_implemented(k) /\ _is_table_idx_implemented(l) =>
            (_table_idx2array_idx(k) = _table_idx2array_idx(l) => k = l)
  BY Sizes, Numbers DEF _is_table_idx_implemented, _table_idx2array_idx
<1>5. \A a \in Arrays : /\ PageTables + PAGE_SIZE * a \in Addrs
                        /\ Page(PageTables + PAGE_SIZE * a) = Page(PageTables) + a
                        /\ (PageTables + PAGE_SIZE * a) % PAGE_SIZE = 0
  <2> SUFFICES ASSUME NEW a \in Arrays
               PROVE  /\ PageTables + PAGE_SIZE * a \in Addrs
                      /\ Page(PageTables + PAGE_SIZE * a) = Page(PageTables) + a
                      /\ (PageTables + PAGE_SIZE * a) % PAGE_SIZE = 0
    OBVIOUS
  <2> DEFINE q == Page(PageTables)
  <2>1. q \in Frames /\ PageTables = PAGE_SIZE * q + (PageTables % PAGE_SIZE)
    BY Numbers, PagesOfAddrs
  <2>2. PageTables % PAGE_SIZE = 0
    BY PagingAssumption
  <2>3. q + a \in Frames
    BY TableFramesFacts, KernelPagesFacts
  <2> HIDE DEF q
  <2>4. q \in Nat /\ a \in Nat
    BY <2>1, Numbers, Sizes DEF Arrays
  <2>5. PageTables = PAGE_SIZE * q
    BY <2>1, <2>2, <2>4, Sizes
  <2>6. PageTables + PAGE_SIZE * a = PAGE_SIZE * (q + a)
    BY <2>4, <2>5, Sizes
  <2>7. PAGE_SIZE * (q + a) \in Addrs /\ Page(PAGE_SIZE * (q + a)) = q + a
        /\ (PAGE_SIZE * (q + a)) % PAGE_SIZE = 0
    BY <2>3, PageAddrs
  <2>8. PageTables + PAGE_SIZE * a \in Addrs /\ Page(PageTables + PAGE_SIZE * a) = q + a
        /\ (PageTables + PAGE_SIZE * a) % PAGE_SIZE = 0
    BY <2>6, <2>7
  <2> QED BY <2>8 DEF q
<1>6. KernelTab \in TableFrames /\ TableOf(KERNEL_TABLE) = KernelTab
  BY <1>1, <1>2, TableFramesFacts DEF KernelTab, TableOf
<1>7. ASSUME NEW k \in Indices, _is_table_idx_implemented(k)
      PROVE  /\ TableOf(k) \in TableFrames /\ TableOf(k) \notin {0, BootDir, BootTable, Dir}
             /\ Page(TableVaddr(k)) \in OwnPages /\ TableVaddr(k) \in Addrs
             /\ TableVaddr(k) % PAGE_SIZE = 0
             /\ FrameOfBoot(Page(TableVaddr(k))) = TableOf(k)
  <2>1. _table_idx2array_idx(k) \in Arrays
    BY <1>3, <1>7
  <2>2. TableOf(k) \in TableFrames /\ TableOf(k) \notin {0, BootDir, BootTable, Dir}
    BY <2>1, TableFramesFacts DEF TableOf
  <2>3. /\ TableVaddr(k) \in Addrs /\ TableVaddr(k) % PAGE_SIZE = 0
        /\ Page(TableVaddr(k)) = Page(PageTables) + _table_idx2array_idx(k)
    BY <1>5, <2>1 DEF TableVaddr
  <2> QED BY <2>1, <2>2, <2>3, TableFramesFacts DEF TableOf, Tab
<1>8. \A k, l \in Indices :
        _is_table_idx_implemented(k) /\ _is_table_idx_implemented(l) =>
            (TableOf(k) = TableOf(l) => k = l)
  BY <1>3, <1>4, TableFramesFacts DEF TableOf
<1> QED BY <1>1, <1>2, <1>3, <1>6, <1>7, <1>8
-----------------------------------------------------------------------------
(* What the processor and the code find in the tables                      *)

MemType == mem \in [TableFrames -> [Indices -> Entry]] /\ cr3 \in TableFrames

(* Walk, for a page.                                                       *)
WalkPage(p) ==
    IF mem[cr3][p \div ENTRIES].present
    THEN mem[mem[cr3][p \div ENTRIES].frame][p % ENTRIES]
    ELSE Absent

LEMMA WalkOf ==
    \A v \in Addrs : Walk(v) = WalkPage(Page(v)) /\ Walk(v)' = WalkPage(Page(v))'
<1> SUFFICES ASSUME NEW v \in Addrs
             PROVE  Walk(v) = WalkPage(Page(v)) /\ Walk(v)' = WalkPage(Page(v))'
  OBVIOUS
<1>1. _vaddr2pd_idx(v) = Page(v) \div ENTRIES /\ _vaddr2pt_idx(v) = Page(v) % ENTRIES
  BY PagesOfAddrs
<1> QED BY <1>1 DEF Walk, WalkPage

LEMMA WalkOfPage ==
    \A p \in Frames : Walk(PAGE_SIZE * p) = WalkPage(p) /\ Walk(PAGE_SIZE * p)' = WalkPage(p)'
<1> SUFFICES ASSUME NEW p \in Frames
             PROVE  Walk(PAGE_SIZE * p) = WalkPage(p) /\ Walk(PAGE_SIZE * p)' = WalkPage(p)'
  OBVIOUS
<1>1. PAGE_SIZE * p \in Addrs /\ Page(PAGE_SIZE * p) = p
  BY PageAddrs
<1> DEFINE v == PAGE_SIZE * p
<1>2. v \in Addrs /\ Page(v) = p
  BY <1>1
<1> HIDE DEF v
<1>3. Walk(v) = WalkPage(p) /\ Walk(v)' = WalkPage(p)'
  <2>1. Walk(v) = WalkPage(Page(v)) /\ Walk(v)' = WalkPage(Page(v))'
    BY <1>2, WalkOf
  <2> QED BY <1>2, <2>1 DEF WalkPage
<1> QED BY <1>3 DEF v

(* The last entry of the directory in use is the directory itself.         *)
SelfMapped == mem[cr3][Last] = Present(cr3, TRUE)

(* The pages that the code writes to are where the boot loader put them.   *)
OwnMapped == \A p \in OwnPages : WalkPage(p) = Present(FrameOfBoot(p), TRUE)

WalkTyped == \A p \in Frames : WalkPage(p) \in Entry

LEMMA OwnAt ==
    ASSUME OwnMapped
    PROVE  /\ At(PageDir) = Dir
           /\ \A k \in Indices : _is_table_idx_implemented(k) => At(TableVaddr(k)) = TableOf(k)
<1>1. \A v \in Addrs : Page(v) \in OwnPages => At(v) = FrameOfBoot(Page(v))
  <2> SUFFICES ASSUME NEW v \in Addrs, Page(v) \in OwnPages
               PROVE  At(v) = FrameOfBoot(Page(v))
    OBVIOUS
  <2>1. Walk(v) = Present(FrameOfBoot(Page(v)), TRUE)
    BY WalkOf DEF OwnMapped
  <2> QED BY <2>1, LinkFields DEF At
<1>2. At(PageDir) = Dir
  BY <1>1, Numbers, TableFramesFacts DEF Dir
<1> QED BY <1>1, <1>2, TableIndex

LEMMA SelfAt ==
    ASSUME MemType, SelfMapped
    PROVE  /\ \A k \in Indices : At(Self(k)) = mem[cr3][k].frame
           /\ At(Self(Last)) = cr3
<1>1. ASSUME NEW k \in Indices PROVE At(Self(k)) = mem[cr3][k].frame
  <2>1. _vaddr2pd_idx(Self(k)) = Last /\ _vaddr2pt_idx(Self(k)) = k
    BY SelfPage
  <2>2. mem[cr3][Last].present /\ mem[cr3][Last].frame = cr3
    BY LinkFields DEF SelfMapped
  <2> QED BY <2>1, <2>2 DEF At, Walk
<1>2. mem[cr3][Last].frame = cr3 /\ Last \in Indices
  BY LinkFields, Sizes DEF SelfMapped
<1> QED BY <1>1, <1>2

(* paging_vaddr2paddr() and _is_page_writable() agree with the processor.  *)
LEMMA Vaddr2Paddr ==
    ASSUME MemType, SelfMapped, NEW v \in Addrs
    PROVE  paging_vaddr2paddr(v) =
                IF WalkPage(Page(v)).present
                THEN PAGE_SIZE * WalkPage(Page(v)).frame + (v % PAGE_SIZE) ELSE 0
<1> DEFINE d == Page(v) \div ENTRIES
           t == Page(v) % ENTRIES
<1>1. _vaddr2pd_idx(v) = d /\ _vaddr2pt_idx(v) = t /\ d \in Indices
  BY PagesOfAddrs, FrameSplits
<1>2. At(Self(d)) = mem[cr3][d].frame /\ At(Self(Last)) = cr3
  BY <1>1, SelfAt
<1>3. WalkPage(Page(v)) = IF mem[cr3][d].present THEN mem[mem[cr3][d].frame][t] ELSE Absent
  BY DEF WalkPage
<1> HIDE DEF d, t
<1>4. paging_vaddr2paddr(v) =
        IF mem[cr3][d].present /\ mem[mem[cr3][d].frame][t].present
        THEN PAGE_SIZE * mem[mem[cr3][d].frame][t].frame + (v % PAGE_SIZE) ELSE 0
  BY <1>1, <1>2 DEF paging_vaddr2paddr
<1>5. CASE mem[cr3][d].present
  BY <1>3, <1>4, <1>5
<1>6. CASE ~mem[cr3][d].present
  BY <1>3, <1>4, <1>6, EntryFacts
<1> QED BY <1>5, <1>6

LEMMA PageWritable ==
    ASSUME MemType, SelfMapped, NEW p \in Frames, WalkPage(p).present
    PROVE  _is_page_writable(p) = WalkPage(p).write
<1>1. p \div ENTRIES \in Indices
  BY FrameSplits
<1>2. At(Self(p \div ENTRIES)) = mem[cr3][p \div ENTRIES].frame
  BY <1>1, SelfAt
<1>3. mem[cr3][p \div ENTRIES].present
  BY EntryFacts DEF WalkPage
<1> QED BY <1>2, <1>3 DEF _is_page_writable, WalkPage

(* What paging_map() finds for the address of a table: its frame, or, for  *)
(* the address 1, nothing, or an address that is not aligned.              *)
LEMMA TablePaddr ==
    ASSUME MemType, SelfMapped, OwnMapped, WalkTyped, NEW idx \in Indices,
           NEW p, p = paging_vaddr2paddr(page_tables_get_vaddr(idx))
    PROVE  IF _is_table_idx_implemented(idx)
           THEN p \div PAGE_SIZE = TableOf(idx) /\ p % UNIT = 0
           ELSE p % UNIT # 0 \/ (p \div PAGE_SIZE = 0 /\ p % UNIT = 0)
<1>1. CASE _is_table_idx_implemented(idx)
  <2> DEFINE v == TableVaddr(idx)
  <2>1. page_tables_get_vaddr(idx) = v
    BY <1>1 DEF page_tables_get_vaddr
  <2>2. v \in Addrs /\ Page(v) \in OwnPages /\ v % PAGE_SIZE = 0
        /\ FrameOfBoot(Page(v)) = TableOf(idx) /\ TableOf(idx) \in Frames
    BY <1>1, TableIndex, TableFramesFacts
  <2> HIDE DEF v
  <2>3. WalkPage(Page(v)).present /\ WalkPage(Page(v)).frame = TableOf(idx)
    <3>1. WalkPage(Page(v)) = Present(TableOf(idx), TRUE)
      BY <2>2 DEF OwnMapped
    <3> QED BY <3>1, LinkFields
  <2>4. p = PAGE_SIZE * TableOf(idx)
    <3>1. p = PAGE_SIZE * TableOf(idx) + 0
      BY <2>1, <2>2, <2>3, Vaddr2Paddr
    <3>2. TableOf(idx) \in Nat
      BY <2>2, Numbers
    <3>3. PAGE_SIZE * TableOf(idx) \in Nat
      BY <3>2, Sizes
    <3> QED BY <3>1, <3>3
  <2>5. Page(p) = TableOf(idx) /\ p % UNIT = 0
    BY <2>2, <2>4, PageAddrs
  <2> QED BY <1>1, <2>5 DEF Page
<1>2. CASE ~_is_table_idx_implemented(idx)
  <2>1. page_tables_get_vaddr(idx) = 1
    BY <1>2 DEF page_tables_get_vaddr
  <2>2. 0 \in Frames /\ 1 \in 0..(PAGE_SIZE - 1)
    BY EntryFacts, Sizes
  <2>3. PAGE_SIZE * 0 + 1 = 1
    BY Sizes
  <2>4. 1 \in Addrs /\ Page(1) = 0 /\ 1 % PAGE_SIZE = 1
    BY <2>2, <2>3, AddrsOfPages
  <2>5. p = IF WalkPage(0).present THEN PAGE_SIZE * WalkPage(0).frame + 1 ELSE 0
    BY <2>1, <2>4, Vaddr2Paddr
  <2>6. CASE ~WalkPage(0).present
    <3>1. p = 0
      BY <2>5, <2>6
    <3>2. 0 \div PAGE_SIZE = 0 /\ 0 % UNIT = 0
      BY Sizes
    <3> QED BY <1>2, <3>1, <3>2
  <2>7. CASE WalkPage(0).present
    <3> DEFINE f == WalkPage(0).frame
    <3>1. f \in Frames
      BY <2>2, EntryFacts DEF WalkTyped
    <3> HIDE DEF f
    <3>2. p = PAGE_SIZE * f + 1
      BY <2>5, <2>7 DEF f
    <3>3. (PAGE_SIZE * f + 1) % UNIT = 1 % UNIT
      BY <2>2, <3>1, AddrsOfPages
    <3>4. 1 % UNIT = 1
      <4>1. 1 = 0 * UNIT + 1 /\ 1 \in 0..(UNIT - 1)
        BY Sizes
      <4> QED BY <4>1, Sizes, OneQuotient
    <3> QED BY <1>2, <3>2, <3>3, <3>4
  <2> QED BY <2>6, <2>7
<1> QED BY <1>1, <1>2
-----------------------------------------------------------------------------
(* What a call does to the tables                                          *)

Ready == MemType /\ SelfMapped /\ OwnMapped /\ WalkTyped

Link(idx) == Present(TableOf(idx), TRUE)

(* m is mem after the entry for v is written, and its table linked.        *)
Written(m, v, pte) ==
    LET idx == Page(v) \div ENTRIES
    IN  /\ m \in [TableFrames -> [Indices -> Entry]]
        /\ m[Dir][idx] = IF mem[Dir][idx].present THEN mem[Dir][idx] ELSE Link(idx)
        /\ \A k \in Indices \ {idx} : m[Dir][k] = mem[Dir][k]
        /\ m[TableOf(idx)] = [mem[TableOf(idx)] EXCEPT ![Page(v) % ENTRIES] = pte]
        /\ \A f \in TableFrames \ {Dir, TableOf(idx)} : m[f] = mem[f]

LEMMA SetEntry ==
    ASSUME MemType, OwnMapped, NEW v \in Addrs, NEW pte \in Entry,
           NEW idx, idx = Page(v) \div ENTRIES, _is_table_idx_implemented(idx)
    PROVE  /\ mem[Dir][idx].present => Written(SetTableEntry(mem, v, pte), v, pte)
           /\ ~mem[Dir][idx].present =>
                Written(SetTableEntry([mem EXCEPT ![Dir][idx] = Link(idx)], v, pte), v, pte)
<1> DEFINE t == Page(v) % ENTRIES
           tab == TableOf(idx)
<1>1. /\ Page(v) \in Frames /\ _vaddr2pd_idx(v) = idx /\ _vaddr2pt_idx(v) = t
  BY PagesOfAddrs
<1>2. idx \in Indices /\ t \in Indices
  BY <1>1, FrameSplits
<1>3. /\ tab \in TableFrames /\ tab # Dir /\ Dir \in TableFrames
      /\ At(TableVaddr(idx)) = tab
  BY <1>2, TableIndex, TableFramesFacts, OwnAt
<1>4. Link(idx) \in Entry
  BY <1>3, TableFramesFacts, EntryFacts DEF Link
<1>5. \A m : SetTableEntry(m, v, pte) = [m EXCEPT ![tab][t] = pte]
  BY <1>1, <1>3 DEF SetTableEntry
<1>6. mem \in [TableFrames -> [Indices -> Entry]]
  BY DEF MemType
<1> HIDE DEF t, tab
<1>7. ASSUME mem[Dir][idx].present
      PROVE  Written(SetTableEntry(mem, v, pte), v, pte)
  <2> DEFINE m == [mem EXCEPT ![tab][t] = pte]
  <2>1. m \in [TableFrames -> [Indices -> Entry]]
    BY <1>2, <1>3, <1>6
  <2>2. m[tab] = [mem[tab] EXCEPT ![t] = pte] /\ \A f \in TableFrames \ {tab} : m[f] = mem[f]
    BY <1>3, <1>6
  <2>3. SetTableEntry(mem, v, pte) = m
    BY <1>5
  <2> HIDE DEF m
  <2>4. Written(m, v, pte)
    BY <1>3, <1>7, <2>1, <2>2 DEF Written, tab, t
  <2> QED BY <2>3, <2>4
<1>8. ASSUME ~mem[Dir][idx].present
      PROVE  Written(SetTableEntry([mem EXCEPT ![Dir][idx] = Link(idx)], v, pte), v, pte)
  <2> DEFINE l == [mem EXCEPT ![Dir][idx] = Link(idx)]
             m == [l EXCEPT ![tab][t] = pte]
  <2>1. l \in [TableFrames -> [Indices -> Entry]]
    BY <1>2, <1>3, <1>4, <1>6
  <2>2. /\ l[Dir][idx] = Link(idx) /\ \A k \in Indices \ {idx} : l[Dir][k] = mem[Dir][k]
        /\ \A f \in TableFrames \ {Dir} : l[f] = mem[f]
    BY <1>2, <1>3, <1>6
  <2>3. SetTableEntry(l, v, pte) = m
    BY <1>5
  <2> HIDE DEF l
  <2>4. m \in [TableFrames -> [Indices -> Entry]]
    BY <1>2, <1>3, <2>1
  <2>5. m[tab] = [l[tab] EXCEPT ![t] = pte] /\ \A f \in TableFrames \ {tab} : m[f] = l[f]
    BY <1>3, <2>1
  <2> HIDE DEF m
  <2>6. Written(m, v, pte)
    BY <1>3, <1>8, <2>2, <2>4, <2>5 DEF Written, tab, t
  <2> QED BY <2>3, <2>6 DEF l
<1> QED BY <1>7, <1>8

(* paging_map() fails and changes nothing, or fails after it has linked a  *)
(* table that is not there, or writes the entry.                           *)
LEMMA MappedIs ==
    ASSUME Ready, NEW v \in Addrs, NEW paddr \in Addrs, NEW w \in BOOLEAN,
           NEW idx, idx = Page(v) \div ENTRIES
    PROVE  \/ /\ Mapped(v, paddr, w).failed = TRUE
              /\ Mapped(v, paddr, w).mem = mem
           \/ /\ Mapped(v, paddr, w).failed = TRUE
              /\ ~_is_table_idx_implemented(idx) /\ ~mem[Dir][idx].present
              /\ Mapped(v, paddr, w).mem = [mem EXCEPT ![Dir][idx] = Present(0, TRUE)]
           \/ /\ Mapped(v, paddr, w).failed = FALSE
              /\ _is_table_idx_implemented(idx) /\ ~OutOfRange(paddr)
              /\ Written(Mapped(v, paddr, w).mem, v, Present(Page(paddr), w))
<1> DEFINE new == ~mem[Dir][idx].present
           pt == paging_vaddr2paddr(page_tables_get_vaddr(idx))
           m == IF new THEN [mem EXCEPT ![Dir][idx] = Present(pt \div PAGE_SIZE, TRUE)] ELSE mem
           refused == \/ ~_is_addr_page_aligned(v) \/ ~_is_addr_page_aligned(paddr)
                      \/ OutOfRange(paddr)
                      \/ new /\ ~_is_addr_page_aligned(pt)
           r == Mapped(v, paddr, w)
<1>1. idx \in Indices /\ _vaddr2pd_idx(v) = idx
  BY PagesOfAddrs, FrameSplits
<1>2. At(PageDir) = Dir
  BY OwnAt DEF Ready
<1>3. page_dir_entry_is_present(idx) <=> ~new
  BY <1>2 DEF page_dir_entry_is_present
<1>4. page_dir_set_entry(idx, pt) = [mem EXCEPT ![Dir][idx] = Present(pt \div PAGE_SIZE, TRUE)]
  BY <1>2 DEF page_dir_set_entry
<1>5. IF _is_table_idx_implemented(idx)
      THEN pt \div PAGE_SIZE = TableOf(idx) /\ pt % UNIT = 0
      ELSE pt % UNIT # 0 \/ (pt \div PAGE_SIZE = 0 /\ pt % UNIT = 0)
  BY <1>1, TablePaddr DEF Ready
<1>6. r = IF refused THEN [failed |-> TRUE, mem |-> mem]
          ELSE IF ~_is_table_idx_implemented(idx) THEN [failed |-> TRUE, mem |-> m]
          ELSE [failed |-> FALSE,
                mem |-> SetTableEntry(m, v, Present(paddr \div PAGE_SIZE, w))]
  BY <1>1, <1>3, <1>4 DEF Mapped
<1> HIDE DEF pt, r
<1>7. CASE refused
  <2> HIDE DEF refused, m
  <2>1. r.failed = TRUE /\ r.mem = mem
    BY <1>6, <1>7
  <2> QED BY <2>1 DEF r
<1>8. CASE ~refused /\ ~_is_table_idx_implemented(idx)
  <2>1. r.failed = TRUE /\ r.mem = m
    BY <1>6, <1>8
  <2>2. new => pt \div PAGE_SIZE = 0
    BY <1>5, <1>8 DEF _is_addr_page_aligned
  <2> QED BY <1>8, <2>1, <2>2 DEF r
<1>9. CASE ~refused /\ _is_table_idx_implemented(idx)
  <2>1. /\ r.failed = FALSE /\ r.mem = SetTableEntry(m, v, Present(Page(paddr), w))
        /\ ~OutOfRange(paddr)
    BY <1>6, <1>9 DEF Page
  <2>2. m = IF new THEN [mem EXCEPT ![Dir][idx] = Link(idx)] ELSE mem
    BY <1>5, <1>9 DEF Link
  <2>3. Present(Page(paddr), w) \in Entry
    BY PagesOfAddrs, EntryFacts
  <2>4. Written(r.mem, v, Present(Page(paddr), w))
    BY <1>9, <2>1, <2>2, <2>3, SetEntry DEF Ready
  <2> QED BY <1>9, <2>1, <2>4 DEF r
<1> QED BY <1>7, <1>8, <1>9
-----------------------------------------------------------------------------
(* The inductive invariant                                                 *)

(* The boot loader's directory has the kernel's table and itself, and the  *)
(* table maps the kernel, that is, the code's directory and tables too.    *)
BootSound ==
    /\ \A k \in Indices :
        mem[BootDir][k] = IF k = KERNEL_TABLE THEN Present(BootTable, TRUE)
                          ELSE IF k = Last THEN Present(BootDir, TRUE) ELSE Absent
    /\ \A p \in KernelPages :
        mem[BootTable][p % ENTRIES] \in
            {Absent, Present(FrameOfBoot(p), TRUE), Present(FrameOfBoot(p), FALSE)}
    /\ \A p \in OwnPages : mem[BootTable][p % ENTRIES] = Present(FrameOfBoot(p), TRUE)

(* A table that is not linked yet has nothing in it, so that linking it    *)
(* maps no page but the one that is written.                               *)
EmptyIfAbsent ==
    \A k \in Indices : _is_table_idx_implemented(k) /\ ~mem[Dir][k].present =>
        \A j \in Indices : mem[TableOf(k)][j] = Absent

DirSound == PointsAtTables /\ MapsAvailable /\ EmptyIfAbsent

InUse == cr3 = IF pc = "running" THEN Dir ELSE BootDir

(* How far the code's own directory and the kernel's table are.            *)
Linked == pc \in {"load", "running"} => mem[Dir][Last] = Present(Dir, TRUE)

Kept ==
    /\ pc \in {"init", "vga"} => \A j \in Indices : mem[KernelTab][j] = Absent
    /\ pc = "keep" =>
        /\ n \in Page(KERNEL_START)..(Page(KERNEL_END) + 1)
        /\ \A p \in KernelPages :
            mem[KernelTab][p % ENTRIES] = IF p < n THEN mem[BootTable][p % ENTRIES] ELSE Absent
    /\ pc \in {"automap", "load"} => \A p \in KernelPages :
            mem[KernelTab][p % ENTRIES] = mem[BootTable][p % ENTRIES]
    /\ pc = "running" => \A p \in OwnPages :
            mem[KernelTab][p % ENTRIES] = Present(FrameOfBoot(p), TRUE)

(* The processor caches what is present, and no more.                      *)
Cached == \A p \in DOMAIN tlb : p \in Frames /\ tlb[p].present /\ tlb[p] = WalkPage(p)

Place ==
    /\ pc \in {"init", "vga", "keep", "automap", "load", "running", "failed"}
    /\ n \in Frames \cup {ENTRIES * ENTRIES}
    /\ ret.call # "none" => pc = "running"

Inv ==
    /\ MemType /\ BootSound /\ DirSound /\ InUse /\ Linked /\ Kept /\ Cached /\ Place

(* For an index that has a table.                                          *)
LEMMA Points ==
    ASSUME PointsAtTables, NEW k \in Indices, mem[Dir][k].present, k # Last
    PROVE  mem[Dir][k].frame = IF _is_table_idx_implemented(k) THEN TableOf(k) ELSE 0
<1>1. mem[Dir][k].frame = IF _is_table_idx_implemented(k)
                          THEN FrameOfBoot(Page(TableVaddr(k))) ELSE 0
  BY DEF PointsAtTables, Dir
<1> QED BY <1>1, TableIndex

(* Before page_dir_load(), a page of the kernel is where the boot loader   *)
(* says; after it, where the kernel's table says.                          *)
LEMMA BootPage ==
    ASSUME BootSound, cr3 = BootDir, NEW p \in KernelPages
    PROVE  WalkPage(p) = mem[BootTable][p % ENTRIES]
<1>1. p \div ENTRIES = KERNEL_TABLE /\ KERNEL_TABLE \in Indices
  BY KernelPagesFacts, Sizes
<1>2. mem[BootDir][KERNEL_TABLE] = Present(BootTable, TRUE)
  BY <1>1 DEF BootSound
<1> QED BY <1>1, <1>2, LinkFields DEF WalkPage

LEMMA TablePage ==
    ASSUME MemType, DirSound, cr3 = Dir, NEW p \in Frames,
           NEW k, k = p \div ENTRIES, _is_table_idx_implemented(k)
    PROVE  WalkPage(p) = mem[TableOf(k)][p % ENTRIES]
<1>1. k \in Indices /\ p % ENTRIES \in Indices /\ k # Last
  BY FrameSplits, TableIndex
<1>2. CASE mem[Dir][k].present
  <2>1. mem[Dir][k].frame = TableOf(k)
    BY <1>1, <1>2, Points DEF DirSound
  <2> QED BY <1>2, <2>1 DEF WalkPage
<1>3. CASE ~mem[Dir][k].present
  <2>1. mem[TableOf(k)][p % ENTRIES] = Absent
    BY <1>1, <1>3 DEF DirSound, EmptyIfAbsent
  <2> QED BY <1>3, <2>1 DEF WalkPage
<1> QED BY <1>2, <1>3

LEMMA InvReady ==
    ASSUME Inv
    PROVE  Ready
<1>1. SelfMapped
  <2>1. CASE pc = "running"
    BY <2>1 DEF Inv, InUse, Linked, SelfMapped
  <2>2. CASE pc # "running"
    <3>1. cr3 = BootDir
      BY <2>2 DEF Inv, InUse
    <3>2. Last \in Indices /\ Last # KERNEL_TABLE
      BY Sizes
    <3>3. mem[BootDir][Last] = Present(BootDir, TRUE)
      BY <3>2 DEF Inv, BootSound
    <3> QED BY <3>1, <3>3 DEF SelfMapped
  <2> QED BY <2>1, <2>2
<1>2. OwnMapped
  <2> SUFFICES ASSUME NEW p \in OwnPages PROVE WalkPage(p) = Present(FrameOfBoot(p), TRUE)
    BY DEF OwnMapped
  <2>1. p \in KernelPages /\ p \in Frames /\ p \div ENTRIES = KERNEL_TABLE
    BY TableFramesFacts, KernelPagesFacts
  <2>2. CASE pc = "running"
    <3>1. cr3 = Dir /\ mem[KernelTab][p % ENTRIES] = Present(FrameOfBoot(p), TRUE)
      BY <2>2 DEF Inv, InUse, Kept
    <3>2. WalkPage(p) = mem[TableOf(KERNEL_TABLE)][p % ENTRIES]
      BY <2>1, <3>1, TableIndex, TablePage DEF Inv
    <3> QED BY <3>1, <3>2, TableIndex
  <2>3. CASE pc # "running"
    <3>1. cr3 = BootDir /\ mem[BootTable][p % ENTRIES] = Present(FrameOfBoot(p), TRUE)
      BY <2>3 DEF Inv, InUse, BootSound
    <3>2. WalkPage(p) = mem[BootTable][p % ENTRIES]
      BY <2>1, <3>1, BootPage DEF Inv
    <3> QED BY <3>1, <3>2
  <2> QED BY <2>2, <2>3
<1>3. WalkTyped
  <2> SUFFICES ASSUME NEW p \in Frames PROVE WalkPage(p) \in Entry
    BY DEF WalkTyped
  <2> DEFINE k == p \div ENTRIES
  <2>1. k \in Indices /\ p % ENTRIES \in Indices
    BY FrameSplits
  <2> HIDE DEF k
  <2>2. ASSUME mem[cr3][k].present PROVE mem[cr3][k].frame \in TableFrames
    <3>1. CASE cr3 = BootDir
      <4>1. \/ mem[BootDir][k] = Present(BootTable, TRUE)
            \/ mem[BootDir][k] = Present(BootDir, TRUE)
            \/ mem[BootDir][k] = Absent
        BY <2>1 DEF Inv, BootSound
      <4>2. mem[BootDir][k] # Absent
        BY <2>2, <3>1, EntryFacts
      <4> QED BY <3>1, <4>1, <4>2, LinkFields, TableFramesFacts
    <3>2. CASE cr3 # BootDir
      <4>1. cr3 = Dir /\ pc = "running"
        BY <3>2 DEF Inv, InUse
      <4>2. CASE k = Last
        <5>1. mem[Dir][k] = Present(Dir, TRUE)
          BY <4>1, <4>2 DEF Inv, Linked
        <5> QED BY <4>1, <5>1, LinkFields, TableFramesFacts
      <4>3. CASE k # Last
        <5>1. mem[Dir][k].frame = IF _is_table_idx_implemented(k) THEN TableOf(k) ELSE 0
          BY <2>1, <2>2, <4>1, <4>3, Points DEF Inv, DirSound
        <5> QED BY <2>1, <4>1, <5>1, TableIndex, TableFramesFacts
      <4> QED BY <4>2, <4>3
    <3> QED BY <3>1, <3>2
  <2>3. WalkPage(p) = IF mem[cr3][k].present THEN mem[mem[cr3][k].frame][p % ENTRIES] ELSE Absent
    BY DEF WalkPage, k
  <2>4. mem \in [TableFrames -> [Indices -> Entry]]
    BY DEF Inv, MemType
  <2>5. CASE mem[cr3][k].present
    BY <2>1, <2>2, <2>3, <2>4, <2>5
  <2>6. CASE ~mem[cr3][k].present
    BY <2>3, <2>6, EntryFacts
  <2> QED BY <2>5, <2>6
<1> QED BY <1>1, <1>2, <1>3 DEF Inv, Ready
-----------------------------------------------------------------------------
(* What a change of the tables keeps                                       *)

(* What paging_map() lets through: all of the page is available, or the    *)
(* sum that is compared has wrapped.                                       *)
Available(f) == PAGE_SIZE * (f + 1) - 1 <= PADDR_MAX \/ f = ENTRIES * ENTRIES - 1

LEMMA AvailableFrame ==
    ASSUME NEW paddr \in Addrs, ~OutOfRange(paddr)
    PROVE  Available(Page(paddr))
<1> DEFINE f == Page(paddr)
           r == paddr % PAGE_SIZE
           ee == ENTRIES * ENTRIES
           s == PAGE_SIZE * (f + 1)
           a == PAGE_SIZE * ee
<1>1. /\ f \in Frames /\ r \in 0..(PAGE_SIZE - 1) /\ paddr = PAGE_SIZE * f + r
  BY PagesOfAddrs
<1>2. ee \in Nat /\ ADDRS = a /\ PAGE_SIZE \in Nat /\ PAGE_SIZE >= 2 /\ PADDR_MAX \in Nat
  BY Sizes
<1>3. f \in 0..(ee - 1)
  BY <1>1 DEF Frames
<1> HIDE DEF f, r, ee
<1>4. CASE f = ee - 1
  BY <1>4 DEF Available, f, ee
<1>5. CASE f # ee - 1
  <2>1. f + 2 <= ee /\ f \in Nat
    BY <1>2, <1>3, <1>5
  <2>2. PAGE_SIZE * (ee - (f + 2)) >= 0
    BY <1>2, <2>1
  <2>3. PAGE_SIZE * (ee - (f + 2)) = a - s - PAGE_SIZE /\ a \in Nat /\ s \in Nat
    BY <1>2, <2>1
  <2>4. paddr + PAGE_SIZE - 1 = s + r - 1 /\ s >= PAGE_SIZE
    <3>1. s = PAGE_SIZE * f + PAGE_SIZE /\ PAGE_SIZE * f \in Nat
      BY <1>2, <2>1
    <3> HIDE DEF s
    <3> QED BY <1>1, <1>2, <2>3, <3>1
  <2> HIDE DEF s, a
  <2>5. s + r - 1 \in Nat /\ s + r - 1 < a /\ s - 1 <= s + r - 1
    BY <1>1, <1>2, <2>2, <2>3, <2>4
  <2>6. (s + r - 1) % a = s + r - 1
    BY <2>3, <2>5
  <2>7. s - 1 <= PADDR_MAX
    <3>1. ~((s + r - 1) % a > PADDR_MAX)
      BY <1>2, <2>4 DEF OutOfRange
    <3> QED BY <1>1, <1>2, <2>3, <2>5, <2>6, <3>1
  <2> QED BY <2>7 DEF Available, s, f
<1> QED BY <1>4, <1>5

LEMMA Maps ==
    /\ MapsAvailable <=>
        \A a \in Arrays, i \in Indices :
            mem[Tab(a)][i].present => Available(mem[Tab(a)][i].frame)
    /\ MapsAvailable' <=>
        \A a \in Arrays, i \in Indices :
            mem'[Tab(a)][i].present => Available(mem'[Tab(a)][i].frame)
BY DEF MapsAvailable, Available, Arrays, Tab

(* A change of nothing but the entries of the code's directory and tables. *)
LEMMA BootKept ==
    ASSUME BootSound, mem'[BootDir] = mem[BootDir], mem'[BootTable] = mem[BootTable]
    PROVE  BootSound'
BY DEF BootSound

LEMMA BootWalk ==
    ASSUME BootSound, cr3 = BootDir, cr3' = cr3,
           mem'[BootDir] = mem[BootDir], mem'[BootTable] = mem[BootTable]
    PROVE  \A p \in Frames : WalkPage(p)' = WalkPage(p)
<1> SUFFICES ASSUME NEW p \in Frames PROVE WalkPage(p)' = WalkPage(p)
  OBVIOUS
<1> DEFINE k == p \div ENTRIES
           j == p % ENTRIES
<1>1. k \in Indices
  BY FrameSplits
<1>2. /\ WalkPage(p) = IF mem[cr3][k].present THEN mem[mem[cr3][k].frame][j] ELSE Absent
      /\ WalkPage(p)' = IF mem'[cr3'][k].present THEN mem'[mem'[cr3'][k].frame][j] ELSE Absent
  BY DEF WalkPage
<1> HIDE DEF k, j
<1>3. mem[cr3][k].present => mem[cr3][k].frame \in {BootDir, BootTable}
  <2>1. \/ mem[BootDir][k] = Present(BootTable, TRUE)
        \/ mem[BootDir][k] = Present(BootDir, TRUE)
        \/ mem[BootDir][k] = Absent
    BY <1>1 DEF BootSound
  <2>2. CASE mem[BootDir][k] = Absent
    BY <2>2, EntryFacts
  <2>3. CASE mem[BootDir][k] # Absent
    <3>1. mem[BootDir][k].frame = BootTable \/ mem[BootDir][k].frame = BootDir
      BY <2>1, <2>3, LinkFields
    <3> QED BY <3>1
  <2> QED BY <2>2, <2>3
<1>4. mem'[cr3'][k] = mem[cr3][k]
  OBVIOUS
<1> QED BY <1>2, <1>3, <1>4

(* What is written with its table linked.                                  *)
LEMMA WrittenSound ==
    ASSUME MemType, DirSound, NEW v \in Addrs, NEW pte \in Entry,
           _is_table_idx_implemented(Page(v) \div ENTRIES),
           pte.present => Available(pte.frame),
           Written(mem', v, pte)
    PROVE  /\ mem' \in [TableFrames -> [Indices -> Entry]] /\ DirSound'
           /\ mem'[BootDir] = mem[BootDir] /\ mem'[BootTable] = mem[BootTable]
           /\ mem'[Dir][Last] = mem[Dir][Last]
           /\ \A p \in KernelPages : p # Page(v) =>
                mem'[KernelTab][p % ENTRIES] = mem[KernelTab][p % ENTRIES]
           /\ Page(v) \div ENTRIES = KERNEL_TABLE =>
                mem'[KernelTab][Page(v) % ENTRIES] = pte
           /\ Page(v) \div ENTRIES # KERNEL_TABLE => mem'[KernelTab] = mem[KernelTab]
<1> DEFINE k == Page(v) \div ENTRIES
           t == Page(v) % ENTRIES
           tab == TableOf(k)
<1>1. k \in Indices /\ t \in Indices
  BY PagesOfAddrs, FrameSplits
<1>2. /\ tab \in TableFrames /\ tab \notin {0, BootDir, BootTable, Dir} /\ k # Last
      /\ Dir \in TableFrames /\ Dir \notin {0, BootDir, BootTable}
      /\ BootDir \in TableFrames /\ BootTable \in TableFrames
  BY <1>1, TableIndex, TableFramesFacts
<1>3. /\ mem' \in [TableFrames -> [Indices -> Entry]]
      /\ mem'[Dir][k] = IF mem[Dir][k].present THEN mem[Dir][k] ELSE Link(k)
      /\ \A i \in Indices \ {k} : mem'[Dir][i] = mem[Dir][i]
      /\ mem'[tab] = [mem[tab] EXCEPT ![t] = pte]
      /\ \A f \in TableFrames \ {Dir, tab} : mem'[f] = mem[f]
  BY DEF Written
<1>4. mem[tab] \in [Indices -> Entry]
  BY <1>2 DEF MemType
<1>5. mem'[tab][t] = pte /\ \A i \in Indices \ {t} : mem'[tab][i] = mem[tab][i]
  BY <1>1, <1>3, <1>4
<1>6. mem'[Dir][k].present /\ mem'[Dir][k].frame = tab
  BY <1>1, <1>2, <1>3, LinkFields, Points DEF Link, DirSound
<1> HIDE DEF k, t, tab
<1>7. PointsAtTables'
  <2>1. ASSUME NEW i \in Indices \ {Last}, mem'[Dir][i].present
        PROVE  mem'[Dir][i].frame = IF _is_table_idx_implemented(i)
                                    THEN FrameOfBoot(Page(TableVaddr(i))) ELSE 0
    <3>1. CASE i = k
      BY <1>1, <1>6, <3>1, TableIndex DEF k, tab
    <3>2. CASE i # k
      BY <1>3, <2>1, <3>2 DEF DirSound, PointsAtTables, Dir
    <3> QED BY <3>1, <3>2
  <2> QED BY <2>1 DEF PointsAtTables, Dir
<1>8. MapsAvailable'
  <2>1. ASSUME NEW a \in Arrays, NEW i \in Indices, mem'[Tab(a)][i].present
        PROVE  Available(mem'[Tab(a)][i].frame)
    <3>1. Tab(a) \in TableFrames /\ Tab(a) # Dir
      BY TableFramesFacts
    <3>2. mem[Tab(a)][i].present => Available(mem[Tab(a)][i].frame)
      BY Maps DEF DirSound
    <3>3. CASE Tab(a) = tab
      BY <1>5, <2>1, <3>2, <3>3
    <3>4. CASE Tab(a) # tab
      BY <1>3, <2>1, <3>1, <3>2, <3>4
    <3> QED BY <3>3, <3>4
  <2> QED BY <2>1, Maps
<1>9. EmptyIfAbsent'
  <2>1. ASSUME NEW i \in Indices, _is_table_idx_implemented(i), ~mem'[Dir][i].present,
               NEW j \in Indices
        PROVE  mem'[TableOf(i)][j] = Absent
    <3>1. i # k
      BY <1>6, <2>1
    <3>2. mem'[Dir][i] = mem[Dir][i]
      BY <1>3, <3>1
    <3>3. TableOf(i) \in TableFrames \ {Dir, tab}
      BY <1>1, <2>1, <3>1, TableIndex DEF tab, k
    <3>4. mem[TableOf(i)][j] = Absent
      BY <2>1, <3>2 DEF DirSound, EmptyIfAbsent
    <3> QED BY <1>3, <3>3, <3>4
  <2> QED BY <2>1 DEF EmptyIfAbsent
<1>10. mem'[BootDir] = mem[BootDir] /\ mem'[BootTable] = mem[BootTable]
  BY <1>2, <1>3
<1>11. mem'[Dir][Last] = mem[Dir][Last]
  BY <1>2, <1>3, Sizes
<1>12. CASE k = KERNEL_TABLE
  <2>1. tab = KernelTab
    BY <1>12, TableIndex DEF tab
  <2>2. ASSUME NEW p \in KernelPages, p # Page(v)
        PROVE  p % ENTRIES \in Indices \ {t}
    <3>1. p % ENTRIES \in Indices /\ p = ENTRIES * KERNEL_TABLE + (p % ENTRIES)
      BY KernelPagesFacts
    <3>2. Page(v) = ENTRIES * KERNEL_TABLE + t
      BY <1>12, PagesOfAddrs, FrameSplits DEF k, t
    <3> QED BY <2>2, <3>1, <3>2
  <2> QED BY <1>3, <1>5, <1>7, <1>8, <1>9, <1>10, <1>11, <1>12, <2>1, <2>2 DEF DirSound, k, t
<1>13. CASE k # KERNEL_TABLE
  <2>1. KernelTab \in TableFrames \ {Dir, tab}
    BY <1>1, <1>13, TableIndex, Sizes DEF tab, k
  <2>2. mem'[KernelTab] = mem[KernelTab]
    BY <1>3, <2>1
  <2> QED BY <1>3, <1>7, <1>8, <1>9, <1>10, <1>11, <1>13, <2>2 DEF DirSound, k, t
<1> QED BY <1>12, <1>13

(* A translation of a page that has a table changes if it is its own.      *)
LEMMA WrittenWalk ==
    ASSUME MemType, DirSound, cr3 = Dir, cr3' = cr3, NEW v \in Addrs, NEW pte \in Entry,
           _is_table_idx_implemented(Page(v) \div ENTRIES),
           pte.present => Available(pte.frame),
           Written(mem', v, pte),
           NEW p \in Frames, _is_table_idx_implemented(p \div ENTRIES)
    PROVE  WalkPage(p)' = IF p = Page(v) THEN pte ELSE WalkPage(p)
<1> DEFINE k == Page(v) \div ENTRIES
           t == Page(v) % ENTRIES
           d == p \div ENTRIES
           j == p % ENTRIES
           tab == TableOf(k)
<1>1. /\ k \in Indices /\ t \in Indices /\ Page(v) = ENTRIES * k + t
      /\ d \in Indices /\ j \in Indices /\ p = ENTRIES * d + j
  BY PagesOfAddrs, FrameSplits
<1>2. /\ mem' \in [TableFrames -> [Indices -> Entry]] /\ DirSound'
  BY WrittenSound
<1>3. WalkPage(p) = mem[TableOf(d)][j]
  BY TablePage
<1>4. WalkPage(p)' = mem'[TableOf(d)][j]
  <2>1. MemType'
    BY <1>2 DEF MemType
  <2>2. d # Last
    BY <1>1, TableIndex
  <2>3. WalkPage(p)' = IF mem'[Dir][d].present THEN mem'[mem'[Dir][d].frame][j] ELSE Absent
    BY DEF WalkPage
  <2>4. mem'[Dir][d].present => mem'[Dir][d].frame = TableOf(d)
    <3>1. mem'[Dir][d].present => mem'[Dir][d].frame = FrameOfBoot(Page(TableVaddr(d)))
      BY <1>1, <1>2, <2>2 DEF DirSound, PointsAtTables, Dir
    <3> QED BY <1>1, <3>1, TableIndex
  <2>5. ~mem'[Dir][d].present => mem'[TableOf(d)][j] = Absent
    BY <1>1, <1>2 DEF DirSound, EmptyIfAbsent
  <2> HIDE DEF d, j
  <2>6. CASE mem'[Dir][d].present
    BY <2>3, <2>4, <2>6
  <2>7. CASE ~mem'[Dir][d].present
    BY <2>3, <2>5, <2>7
  <2> QED BY <2>6, <2>7
<1>5. /\ mem'[tab] = [mem[tab] EXCEPT ![t] = pte]
      /\ \A f \in TableFrames \ {Dir, tab} : mem'[f] = mem[f]
  BY DEF Written
<1>6. tab \in TableFrames /\ mem[tab] \in [Indices -> Entry]
  BY <1>1, TableIndex DEF MemType
<1>7. CASE d = k
  <2>1. mem'[tab][j] = IF j = t THEN pte ELSE mem[tab][j]
    BY <1>1, <1>5, <1>6
  <2>2. j = t <=> p = Page(v)
    <3> HIDE DEF j, t, k, d
    <3> QED BY <1>1, <1>7, Numbers, Sizes
  <2>3. TableOf(d) = tab
    BY <1>7
  <2> HIDE DEF d, j, t, tab
  <2> QED BY <1>3, <1>4, <2>1, <2>2, <2>3
<1>8. CASE d # k
  <2>1. TableOf(d) \in TableFrames \ {Dir, tab}
    BY <1>1, <1>8, TableIndex
  <2>2. p # Page(v)
    BY <1>8
  <2> QED BY <1>3, <1>4, <1>5, <2>1, <2>2
<1> QED BY <1>7, <1>8

(* What a failed paging_map() leaves behind: an entry for frame 0 where    *)
(* there is no table.                                                      *)
LEMMA LinkedSound ==
    ASSUME MemType, DirSound, NEW k \in Indices,
           ~_is_table_idx_implemented(k), ~mem[Dir][k].present,
           mem' = [mem EXCEPT ![Dir][k] = Present(0, TRUE)]
    PROVE  /\ mem' \in [TableFrames -> [Indices -> Entry]] /\ DirSound'
           /\ \A f \in TableFrames \ {Dir} : mem'[f] = mem[f]
           /\ \A i \in Indices \ {k} : mem'[Dir][i] = mem[Dir][i]
<1>1. Present(0, TRUE) \in Entry
  BY EntryFacts
<1>2. mem \in [TableFrames -> [Indices -> Entry]] /\ Dir \in TableFrames
  BY TableFramesFacts DEF MemType
<1>3. /\ mem' \in [TableFrames -> [Indices -> Entry]]
      /\ mem'[Dir][k] = Present(0, TRUE)
      /\ \A f \in TableFrames \ {Dir} : mem'[f] = mem[f]
      /\ \A i \in Indices \ {k} : mem'[Dir][i] = mem[Dir][i]
  BY <1>1, <1>2
<1>4. PointsAtTables'
  <2>1. ASSUME NEW i \in Indices \ {Last}, mem'[Dir][i].present
        PROVE  mem'[Dir][i].frame = IF _is_table_idx_implemented(i)
                                    THEN FrameOfBoot(Page(TableVaddr(i))) ELSE 0
    <3>1. CASE i = k
      <4>1. mem'[Dir][i].frame = 0
        <5>1. mem'[Dir][i] = Present(0, TRUE)
          BY <1>3, <3>1
        <5> QED BY <5>1, LinkFields
      <4>2. ~_is_table_idx_implemented(i)
        BY <3>1
      <4> QED BY <4>1, <4>2
    <3>2. CASE i # k
      BY <1>3, <2>1, <3>2 DEF DirSound, PointsAtTables, Dir
    <3> QED BY <3>1, <3>2
  <2> QED BY <2>1 DEF PointsAtTables, Dir
<1>5. MapsAvailable'
  <2>1. ASSUME NEW a \in Arrays, NEW i \in Indices, mem'[Tab(a)][i].present
        PROVE  Available(mem'[Tab(a)][i].frame)
    <3>1. Tab(a) \in TableFrames \ {Dir}
      BY TableFramesFacts
    <3> QED BY <1>3, <2>1, <3>1, Maps DEF DirSound
  <2> QED BY <2>1, Maps
<1>6. EmptyIfAbsent'
  <2>1. ASSUME NEW i \in Indices, _is_table_idx_implemented(i), ~mem'[Dir][i].present,
               NEW j \in Indices
        PROVE  mem'[TableOf(i)][j] = Absent
    <3>1. mem'[Dir][i] = mem[Dir][i]
      BY <1>3, <2>1
    <3>2. TableOf(i) \in TableFrames \ {Dir}
      BY <2>1, TableIndex
    <3>3. mem[TableOf(i)][j] = Absent
      BY <2>1, <3>1 DEF DirSound, EmptyIfAbsent
    <3> QED BY <1>3, <3>2, <3>3
  <2> QED BY <2>1 DEF EmptyIfAbsent
<1> QED BY <1>3, <1>4, <1>5, <1>6 DEF DirSound

(* Of the pages that the processor finds, none is of such an entry.        *)
LEMMA LinkedWalk ==
    ASSUME MemType, DirSound, mem[Dir][Last] = Present(Dir, TRUE), cr3 = Dir, cr3' = cr3,
           NEW k \in Indices,
           ~_is_table_idx_implemented(k), ~mem[Dir][k].present,
           mem' = [mem EXCEPT ![Dir][k] = Present(0, TRUE)],
           NEW p \in Frames,
           WalkPage(p).present \/ _is_table_idx_implemented(p \div ENTRIES)
    PROVE  WalkPage(p)' = WalkPage(p)
<1> DEFINE d == p \div ENTRIES
           j == p % ENTRIES
<1>1. d \in Indices /\ j \in Indices
  BY FrameSplits
<1>2. /\ \A f \in TableFrames \ {Dir} : mem'[f] = mem[f]
      /\ \A i \in Indices \ {k} : mem'[Dir][i] = mem[Dir][i]
  BY LinkedSound
<1>3. WalkPage(p) = IF mem[Dir][d].present THEN mem[mem[Dir][d].frame][j] ELSE Absent
  BY DEF WalkPage
<1>4. WalkPage(p)' = IF mem'[Dir][d].present THEN mem'[mem'[Dir][d].frame][j] ELSE Absent
  <2>1. WalkPage(p)' =
            IF mem'[cr3'][d].present THEN mem'[mem'[cr3'][d].frame][j] ELSE Absent
    BY DEF WalkPage
  <2>2. cr3' = Dir
    OBVIOUS
  <2> HIDE DEF d, j
  <2> QED BY <2>1, <2>2
<1>5. d # k
  <2>1. CASE WalkPage(p).present
    <3>1. mem[Dir][d].present
      BY <1>3, <2>1, EntryFacts
    <3> QED BY <3>1
  <2>2. CASE _is_table_idx_implemented(p \div ENTRIES)
    BY <2>2
  <2> QED BY <2>1, <2>2
<1>6. mem'[Dir][d] = mem[Dir][d]
  BY <1>1, <1>2, <1>5
<1>7. CASE d # Last
  <2>1. mem[Dir][d].present => mem[Dir][d].frame \in TableFrames \ {Dir}
    BY <1>1, <1>7, Points, TableIndex, TableFramesFacts DEF DirSound
  <2> HIDE DEF d, j
  <2>2. CASE mem[Dir][d].present
    <3>1. mem'[mem[Dir][d].frame] = mem[mem[Dir][d].frame]
      BY <1>2, <2>1, <2>2
    <3> QED BY <1>3, <1>4, <1>6, <2>2, <3>1
  <2>3. CASE ~mem[Dir][d].present
    BY <1>3, <1>4, <1>6, <2>3
  <2> QED BY <2>2, <2>3
<1>8. CASE d = Last
  <2>1. WalkPage(p).present
    BY <1>1, <1>8, TableIndex
  <2> HIDE DEF d, j
  <2>2. mem[Dir][d].present /\ mem[Dir][d].frame = Dir
    BY <1>8, LinkFields
  <2>3. mem[Dir][j].present
    BY <1>3, <2>1, <2>2
  <2>4. mem'[Dir][j] = mem[Dir][j]
    BY <1>1, <1>2, <2>3
  <2> QED BY <1>3, <1>4, <1>6, <2>2, <2>4
<1> QED BY <1>7, <1>8

(* What paging_map() does, wherever it is called from.                     *)
LEMMA MapCall ==
    ASSUME Inv, NEW v \in Addrs, NEW paddr \in Addrs, NEW w \in BOOLEAN,
           NEW failed, failed = Mapped(v, paddr, w).failed,
           mem' = Mapped(v, paddr, w).mem, cr3' = cr3
    PROVE  /\ failed \in BOOLEAN
           /\ MemType' /\ DirSound' /\ BootSound'
           /\ mem'[BootTable] = mem[BootTable]
           /\ pc \in {"load", "running"} => mem'[Dir][Last] = mem[Dir][Last]
           /\ failed => mem'[KernelTab] = mem[KernelTab]
           /\ failed => \A p \in Frames :
                WalkPage(p).present \/ _is_table_idx_implemented(p \div ENTRIES) =>
                    WalkPage(p)' = WalkPage(p)
           /\ ~failed => /\ _is_table_idx_implemented(Page(v) \div ENTRIES)
                         /\ Present(Page(paddr), w) \in Entry
                         /\ Available(Page(paddr))
                         /\ Written(mem', v, Present(Page(paddr), w))
           /\ _is_table_idx_implemented(Page(v) \div ENTRIES) /\ failed => mem' = mem
<1> DEFINE k == Page(v) \div ENTRIES
           pte == Present(Page(paddr), w)
<1>1. k \in Indices /\ pte \in Entry /\ pte.frame = Page(paddr)
  <2>1. pte \in Entry
    BY PagesOfAddrs, EntryFacts
  <2>2. pte.frame = Page(paddr)
    BY DEF Present
  <2> QED BY <2>1, <2>2, PagesOfAddrs, FrameSplits
<1>2. Ready
  BY InvReady
<1>3. cr3' \in TableFrames
  BY DEF Inv, MemType
<1>4. /\ \/ /\ failed = TRUE
            /\ mem' = mem
         \/ /\ failed = TRUE
            /\ ~_is_table_idx_implemented(k) /\ ~mem[Dir][k].present
            /\ mem' = [mem EXCEPT ![Dir][k] = Present(0, TRUE)]
         \/ /\ failed = FALSE
            /\ _is_table_idx_implemented(k) /\ ~OutOfRange(paddr)
            /\ Written(mem', v, pte)
  BY <1>2, MappedIs
<1> HIDE DEF k
<1>5. CASE failed = TRUE /\ mem' = mem
  <2>1. MemType' /\ DirSound' /\ BootSound'
    <3>1. MemType'
      BY <1>3, <1>5 DEF Inv, MemType
    <3>2. PointsAtTables' /\ MapsAvailable' /\ EmptyIfAbsent'
      BY <1>5 DEF Inv, DirSound, PointsAtTables, MapsAvailable, EmptyIfAbsent
    <3>3. BootSound'
      BY <1>5, BootKept DEF Inv
    <3> QED BY <3>1, <3>2, <3>3 DEF DirSound
  <2>2. \A p \in Frames : WalkPage(p)' = WalkPage(p)
    BY <1>5 DEF WalkPage
  <2> QED BY <1>5, <2>1, <2>2
<1>6. CASE /\ failed = TRUE
           /\ ~_is_table_idx_implemented(k) /\ ~mem[Dir][k].present
           /\ mem' = [mem EXCEPT ![Dir][k] = Present(0, TRUE)]
  <2>1. /\ mem' \in [TableFrames -> [Indices -> Entry]] /\ DirSound'
        /\ \A f \in TableFrames \ {Dir} : mem'[f] = mem[f]
        /\ \A i \in Indices \ {k} : mem'[Dir][i] = mem[Dir][i]
    BY <1>1, <1>6, LinkedSound DEF Inv
  <2>2. {BootDir, BootTable, KernelTab} \subseteq TableFrames \ {Dir}
    <3>1. KernelTab # Dir
      BY TableIndex, Sizes
    <3> QED BY <3>1, TableFramesFacts, TableIndex
  <2>3. BootSound' /\ mem'[BootTable] = mem[BootTable] /\ mem'[KernelTab] = mem[KernelTab]
        /\ mem'[BootDir] = mem[BootDir]
    BY <2>1, <2>2, BootKept DEF Inv
  <2>4. MemType'
    BY <1>3, <2>1 DEF MemType
  <2>5. pc \in {"load", "running"} =>
            mem[Dir][Last] = Present(Dir, TRUE) /\ k # Last
    BY <1>6, LinkFields DEF Inv, Linked
  <2>6. pc \in {"load", "running"} => mem'[Dir][Last] = mem[Dir][Last]
    BY <2>1, <2>5, Sizes
  <2>7. ASSUME NEW p \in Frames,
               WalkPage(p).present \/ _is_table_idx_implemented(p \div ENTRIES)
        PROVE  WalkPage(p)' = WalkPage(p)
    <3>1. CASE pc = "running"
      BY <1>1, <1>6, <2>5, <2>7, <3>1, LinkedWalk DEF Inv, InUse
    <3>2. CASE pc # "running"
      <4>1. cr3 = BootDir
        BY <3>2 DEF Inv, InUse
      <4> QED BY <2>3, <4>1, BootWalk DEF Inv
    <3> QED BY <3>1, <3>2
  <2> QED BY <1>6, <2>1, <2>3, <2>4, <2>6, <2>7 DEF k
<1>7. CASE /\ failed = FALSE
           /\ _is_table_idx_implemented(k) /\ ~OutOfRange(paddr)
           /\ Written(mem', v, pte)
  <2>1. Available(Page(paddr))
    BY <1>7, AvailableFrame
  <2> HIDE DEF pte
  <2>2. _is_table_idx_implemented(Page(v) \div ENTRIES) /\ (pte.present => Available(pte.frame))
    BY <1>1, <1>7, <2>1 DEF k
  <2>3. /\ mem' \in [TableFrames -> [Indices -> Entry]] /\ DirSound'
        /\ mem'[BootDir] = mem[BootDir] /\ mem'[BootTable] = mem[BootTable]
        /\ mem'[Dir][Last] = mem[Dir][Last]
    BY <1>1, <1>7, <2>2, WrittenSound DEF Inv
  <2>4. BootSound'
    BY <2>3, BootKept DEF Inv
  <2>5. MemType'
    BY <1>3, <2>3 DEF MemType
  <2> QED BY <1>1, <1>7, <2>1, <2>2, <2>3, <2>4, <2>5 DEF k, pte
<1> QED BY <1>4, <1>5, <1>6, <1>7

-----------------------------------------------------------------------------
(* The steps                                                               *)

LEMMA InitInv == Init => Inv
<1> SUFFICES ASSUME Init PROVE Inv
  OBVIOUS
<1>1. PICK m \in BootMaps, low \in {Absent, Present(0, TRUE)} :
        mem = [f \in TableFrames |-> [k \in Indices |->
                  CASE f = 0 -> low
                    [] f = BootDir /\ k = KERNEL_TABLE -> Present(BootTable, TRUE)
                    [] f = BootDir /\ k = Last -> Present(BootDir, TRUE)
                    [] f = BootTable -> BootEntry(m, ENTRIES * KERNEL_TABLE + k)
                    [] OTHER -> Absent]]
  BY DEF Init
<1>2. cr3 = BootDir /\ tlb = NoTranslations /\ pc = "init" /\ n = 0 /\ ret = [call |-> "none"]
  BY DEF Init
<1> DEFINE Low == mem[0]
<1>3. /\ BootDir \in TableFrames /\ BootTable \in TableFrames /\ BootDir # 0 /\ BootTable # 0
      /\ BootDir # BootTable /\ 0 \in TableFrames
  BY TableFramesFacts
<1>4. KERNEL_TABLE # Last /\ KERNEL_TABLE \in Indices /\ Last \in Indices
  BY Sizes
<1>5. \A k \in Indices : mem[0][k] = low
  BY <1>1, <1>3
<1>6. \A k \in Indices :
        mem[BootDir][k] = IF k = KERNEL_TABLE THEN Present(BootTable, TRUE)
                          ELSE IF k = Last THEN Present(BootDir, TRUE) ELSE Absent
  BY <1>1, <1>3, <1>4
<1>7. \A k \in Indices : mem[BootTable][k] = BootEntry(m, ENTRIES * KERNEL_TABLE + k)
  BY <1>1, <1>3
<1>8. \A f \in TableFrames \ {0, BootDir, BootTable}, k \in Indices : mem[f][k] = Absent
  BY <1>1
<1>9. /\ DOMAIN mem = TableFrames
      /\ \A f \in TableFrames : DOMAIN mem[f] = Indices
      /\ mem = [f \in TableFrames |-> mem[f]]
      /\ \A f \in TableFrames : mem[f] = [k \in Indices |-> mem[f][k]]
  BY <1>1
<1>10. ASSUME NEW p \in KernelPages
       PROVE  mem[BootTable][p % ENTRIES] =
                 IF m[p] = "none" THEN Absent ELSE Present(FrameOfBoot(p), m[p] = "write")
  <2>1. p % ENTRIES \in Indices /\ p = ENTRIES * KERNEL_TABLE + (p % ENTRIES)
    BY KernelPagesFacts
  <2>2. mem[BootTable][p % ENTRIES] = BootEntry(m, p)
    BY <1>7, <2>1
  <2> QED BY <2>2 DEF BootEntry
<1>11. \A p : BootEntry(m, p) \in Entry
  <2> SUFFICES ASSUME NEW p PROVE BootEntry(m, p) \in Entry
    OBVIOUS
  <2>1. CASE p \notin KernelPages \/ m[p] = "none"
    BY <2>1, EntryFacts DEF BootEntry
  <2>2. CASE p \in KernelPages /\ m[p] # "none"
    <3>1. BootEntry(m, p) = Present(FrameOfBoot(p), m[p] = "write")
      BY <2>2 DEF BootEntry
    <3>2. FrameOfBoot(p) \in Frames
      BY <2>2, KernelPagesFacts
    <3>3. \A b \in BOOLEAN : Present(FrameOfBoot(p), b) \in Entry
      BY <3>2, EntryFacts
    <3>4. (m[p] = "write") \in BOOLEAN
      OBVIOUS
    <3> QED BY <3>1, <3>3, <3>4
  <2> QED BY <2>1, <2>2
<1>12. \A f \in TableFrames, k \in Indices : mem[f][k] \in Entry
  <2> SUFFICES ASSUME NEW f \in TableFrames, NEW k \in Indices PROVE mem[f][k] \in Entry
    OBVIOUS
  <2>0. \A e \in Frames : Present(e, TRUE) \in Entry
    BY EntryFacts
  <2>1. CASE f = 0
    <3>1. Present(0, TRUE) \in Entry /\ Absent \in Entry
      BY <2>0, EntryFacts
    <3> QED BY <1>5, <2>1, <3>1
  <2>2. CASE f = BootDir
    <3>1. Present(BootTable, TRUE) \in Entry /\ Present(BootDir, TRUE) \in Entry
      BY <1>3, <2>0, TableFramesFacts
    <3>2. Absent \in Entry
      BY EntryFacts
    <3> HIDE DEF Low
    <3> QED BY <1>6, <2>2, <3>1, <3>2
  <2>3. CASE f = BootTable
    BY <1>7, <1>11, <2>3
  <2>4. CASE f \notin {0, BootDir, BootTable}
    BY <1>8, <2>4, EntryFacts
  <2> QED BY <2>1, <2>2, <2>3, <2>4
<1>13. MemType
  <2>1. \A f \in TableFrames : mem[f] \in [Indices -> Entry]
    BY <1>9, <1>12
  <2> QED BY <1>2, <1>3, <1>9, <2>1 DEF MemType
<1>14. BootSound
  <2>1. \A p \in OwnPages : p \in KernelPages /\ m[p] = "write"
    BY TableFramesFacts DEF BootMaps
  <2>2. ASSUME NEW p \in KernelPages
        PROVE  mem[BootTable][p % ENTRIES] \in
                  {Absent, Present(FrameOfBoot(p), TRUE), Present(FrameOfBoot(p), FALSE)}
    <3>1. CASE m[p] = "none"
      BY <1>10, <3>1
    <3>2. CASE m[p] = "write"
      BY <1>10, <3>2
    <3>3. CASE m[p] # "write" /\ m[p] # "none"
      <4>1. (m[p] = "write") = FALSE
        BY <3>3
      <4> QED BY <1>10, <3>3, <4>1
    <3> QED BY <3>1, <3>2, <3>3
  <2>3. ASSUME NEW p \in OwnPages
        PROVE  mem[BootTable][p % ENTRIES] = Present(FrameOfBoot(p), TRUE)
    <3>1. (m[p] = "write") = TRUE /\ m[p] # "none"
      BY <2>1
    <3> QED BY <1>10, <2>1, <3>1
  <2> QED BY <1>6, <2>2, <2>3 DEF BootSound
<1>15. /\ \A k \in Indices : mem[Dir][k] = Absent
       /\ \A a \in Arrays, k \in Indices : mem[Tab(a)][k] = Absent
  BY <1>8, TableFramesFacts
<1>16. DirSound
  <2>1. PointsAtTables
    BY <1>15, EntryFacts DEF PointsAtTables, Dir
  <2>2. MapsAvailable
    BY <1>15, EntryFacts, Maps
  <2>3. EmptyIfAbsent
    BY <1>15, TableIndex DEF EmptyIfAbsent, TableOf
  <2> QED BY <2>1, <2>2, <2>3 DEF DirSound
<1>17. InUse /\ Linked /\ Place
  BY <1>2, EntryFacts DEF InUse, Linked, Place
<1>18. Kept
  BY <1>2, <1>15, TableIndex DEF Kept, KernelTab
<1>19. Cached
  BY <1>2 DEF Cached, NoTranslations
<1> QED BY <1>13, <1>14, <1>16, <1>17, <1>18, <1>19 DEF Inv

LEMMA CachedKept ==
    ASSUME Cached, tlb' = tlb, \A p \in Frames : WalkPage(p).present => WalkPage(p)' = WalkPage(p)
    PROVE  Cached'
BY DEF Cached

LEMMA CachedNone ==
    ASSUME tlb' = NoTranslations
    PROVE  Cached'
BY DEF Cached, NoTranslations

LEMMA ClearInv ==
    ASSUME Inv, Clear
    PROVE  Inv'
<1>1. /\ pc = "init" /\ pc' = "vga" /\ cr3' = cr3 /\ tlb' = tlb /\ n' = n /\ ret' = ret
      /\ mem' = [f \in DOMAIN mem |->
                    IF f \in {At(PAGE_SIZE * p) : p \in OwnPages}
                    THEN [k \in Indices |-> Absent] ELSE mem[f]]
  BY DEF Clear
<1>2. OwnMapped /\ mem \in [TableFrames -> [Indices -> Entry]] /\ cr3 = BootDir
  BY <1>1, InvReady DEF Ready, Inv, MemType, InUse
<1>3. ASSUME NEW p \in OwnPages PROVE At(PAGE_SIZE * p) = FrameOfBoot(p)
  <2>1. p \in Frames
    BY TableFramesFacts, KernelPagesFacts
  <2>2. Walk(PAGE_SIZE * p) = Present(FrameOfBoot(p), TRUE)
    BY <1>2, <2>1, WalkOfPage DEF OwnMapped
  <2> QED BY <2>2, LinkFields DEF At
<1> DEFINE Own == {FrameOfBoot(p) : p \in OwnPages}
<1>4. mem' = [f \in TableFrames |-> IF f \in Own THEN [k \in Indices |-> Absent] ELSE mem[f]]
  <2>1. {At(PAGE_SIZE * p) : p \in OwnPages} = Own
    BY <1>3
  <2> QED BY <1>1, <1>2, <2>1
<1>5. /\ Dir \in Own /\ \A a \in Arrays : Tab(a) \in Own
      /\ BootDir \notin Own /\ BootTable \notin Own
      /\ Own \subseteq TableFrames
  <2>1. BootDir \notin Own /\ BootTable \notin Own
    BY TableFramesFacts, KernelPagesFacts
  <2>2. Own \subseteq TableFrames
    BY DEF TableFrames
  <2> QED BY <2>1, <2>2, TableFramesFacts DEF Dir, Tab
<1> HIDE DEF Own
<1>6. /\ mem'[BootDir] = mem[BootDir] /\ mem'[BootTable] = mem[BootTable]
      /\ \A f \in Own : mem'[f] = [k \in Indices |-> Absent]
  BY <1>4, <1>5, TableFramesFacts
<1>7. MemType'
  <2>1. \A f \in TableFrames : mem'[f] \in [Indices -> Entry]
    BY <1>2, <1>4, EntryFacts
  <2>2. mem' = [f \in TableFrames |-> mem'[f]]
    BY <1>4
  <2>3. mem' \in [TableFrames -> [Indices -> Entry]]
    BY <2>1, <2>2
  <2> QED BY <1>1, <2>3 DEF Inv, MemType
<1>8. /\ \A k \in Indices : mem'[Dir][k] = Absent
      /\ \A a \in Arrays, k \in Indices : mem'[Tab(a)][k] = Absent
  BY <1>5, <1>6
<1>9. DirSound'
  <2>1. PointsAtTables'
    BY <1>8, EntryFacts DEF PointsAtTables, Dir
  <2>2. MapsAvailable'
    BY <1>8, EntryFacts, Maps
  <2>3. EmptyIfAbsent'
    BY <1>8, TableIndex DEF EmptyIfAbsent, TableOf
  <2> QED BY <2>1, <2>2, <2>3 DEF DirSound
<1>10. BootSound'
  BY <1>6, BootKept DEF Inv
<1>11. InUse' /\ Linked' /\ Place'
  BY <1>1, <1>2 DEF InUse, Linked, Place, Inv
<1>12. Kept'
  BY <1>1, <1>8, TableIndex DEF Kept, KernelTab
<1>13. Cached'
  <2>1. \A p \in Frames : WalkPage(p)' = WalkPage(p)
    BY <1>1, <1>2, <1>6, BootWalk DEF Inv
  <2> QED BY <1>1, <2>1, CachedKept DEF Inv
<1> QED BY <1>7, <1>9, <1>10, <1>11, <1>12, <1>13 DEF Inv

LEMMA KeepVgaInv ==
    ASSUME Inv, KeepVga
    PROVE  Inv'
<1> DEFINE failed == Mapped(VGA, VGA, TRUE).failed
<1>1. /\ pc = "vga" /\ pc' = "keep" /\ cr3' = cr3 /\ n' = Page(KERNEL_START) /\ ret' = ret
      /\ mem' = Mapped(VGA, VGA, TRUE).mem
      /\ tlb' = IF failed THEN tlb ELSE NoTranslations
  BY DEF KeepVga, Map
<1>2. VGA \in Addrs /\ Page(VGA) \div ENTRIES # KERNEL_TABLE
  <2>1. VGA \in Addrs
    BY Numbers
  <2>2. VGA \div (PAGE_SIZE * ENTRIES) = Page(VGA) \div ENTRIES
    BY <2>1, PagesOfAddrs DEF _vaddr2pd_idx
  <2> QED BY <2>1, <2>2, PagingAssumption
<1> HIDE DEF failed
<1>3. /\ failed \in BOOLEAN
      /\ MemType' /\ DirSound' /\ BootSound'
      /\ failed => mem'[KernelTab] = mem[KernelTab]
      /\ failed => \A p \in Frames : WalkPage(p).present => WalkPage(p)' = WalkPage(p)
      /\ ~failed => /\ _is_table_idx_implemented(Page(VGA) \div ENTRIES)
                    /\ Present(Page(VGA), TRUE) \in Entry
                    /\ Available(Page(VGA))
                    /\ Written(mem', VGA, Present(Page(VGA), TRUE))
  <2> DEFINE w == TRUE
  <2>1. /\ failed = Mapped(VGA, VGA, w).failed /\ mem' = Mapped(VGA, VGA, w).mem
        /\ cr3' = cr3 /\ w \in BOOLEAN
    BY <1>1 DEF failed
  <2> HIDE DEF w
  <2>2. /\ failed \in BOOLEAN
        /\ MemType' /\ DirSound' /\ BootSound'
        /\ failed => mem'[KernelTab] = mem[KernelTab]
        /\ failed => \A p \in Frames : WalkPage(p).present => WalkPage(p)' = WalkPage(p)
        /\ ~failed => /\ _is_table_idx_implemented(Page(VGA) \div ENTRIES)
                      /\ Present(Page(VGA), w) \in Entry
                      /\ Available(Page(VGA))
                      /\ Written(mem', VGA, Present(Page(VGA), w))
    BY <1>2, <2>1, MapCall
  <2> QED BY <2>2 DEF w
<1>4. mem'[KernelTab] = mem[KernelTab]
  <2>1. CASE ~failed
    <3>1. Present(Page(VGA), TRUE).frame = Page(VGA)
      BY LinkFields
    <3> QED BY <1>2, <1>3, <2>1, <3>1, WrittenSound DEF Inv
  <2> QED BY <1>3, <2>1
<1>5. InUse' /\ Linked'
  BY <1>1 DEF InUse, Linked, Inv
<1>6. Place'
  BY <1>1, Numbers DEF Place, Inv
<1>7. Kept'
  <2>1. \A j \in Indices : mem'[KernelTab][j] = Absent
    BY <1>1, <1>4 DEF Inv, Kept
  <2>2. n' \in Page(KERNEL_START)..(Page(KERNEL_END) + 1)
    <3> DEFINE a == Page(KERNEL_START)
               b == Page(KERNEL_END)
    <3>1. a \in Nat /\ b \in Nat /\ a <= b /\ n' = a
      BY <1>1, KernelRange
    <3> HIDE DEF a, b
    <3>2. n' \in a..(b + 1)
      BY <3>1
    <3> QED BY <3>2 DEF a, b
  <2>3. ASSUME NEW p \in KernelPages
        PROVE  mem'[KernelTab][p % ENTRIES] =
                  IF p < n' THEN mem'[BootTable][p % ENTRIES] ELSE Absent
    <3>1. ~(p < n')
      BY <1>1, KernelRange
    <3> QED BY <2>1, <3>1, KernelPagesFacts
  <2> QED BY <1>1, <2>2, <2>3 DEF Kept
<1>8. Cached'
  BY <1>1, <1>3, CachedKept, CachedNone DEF Inv
<1> QED BY <1>3, <1>5, <1>6, <1>7, <1>8 DEF Inv

(* In the loop of _keep_config(): the page is left out, or mapped as the   *)
(* boot loader did.                                                        *)
LEMMA KeepPageInv ==
    ASSUME Inv, KeepPage
    PROVE  Inv'
<1> DEFINE paddr == paging_vaddr2paddr(PAGE_SIZE * n)
           w == _is_page_writable(n)
           failed == Mapped(PAGE_SIZE * n, paddr, w).failed
           e == mem[BootTable][n % ENTRIES]
<1>1. pc = "keep" /\ cr3' = cr3 /\ ret' = ret /\ cr3 = BootDir
  BY DEF KeepPage, Inv, InUse
<1>2. /\ n \in Page(KERNEL_START)..(Page(KERNEL_END) + 1)
      /\ \A p \in KernelPages :
          mem[KernelTab][p % ENTRIES] = IF p < n THEN mem[BootTable][p % ENTRIES] ELSE Absent
  BY <1>1 DEF Inv, Kept
<1>3. Page(KERNEL_START) \in Nat /\ Page(KERNEL_END) \in Nat /\ n \in Nat
  BY <1>2, KernelRange
<1>4. Ready
  BY InvReady
<1>5. CASE n > Page(KERNEL_END)
  <2>1. pc' = "automap" /\ mem' = mem /\ tlb' = tlb /\ n' = n
    BY <1>5 DEF KeepPage
  <2>2. MemType' /\ BootSound'
    BY <1>1, <2>1, BootKept DEF Inv, MemType
  <2>3. PointsAtTables' /\ MapsAvailable' /\ EmptyIfAbsent'
    BY <2>1 DEF Inv, DirSound, PointsAtTables, MapsAvailable, EmptyIfAbsent
  <2>4. InUse' /\ Linked' /\ Place'
    BY <1>1, <2>1 DEF Inv, InUse, Linked, Place
  <2>5. Kept'
    <3>1. \A p \in KernelPages : p < n
      BY <1>3, <1>5 DEF KernelPages
    <3>2. \A p \in KernelPages : mem'[KernelTab][p % ENTRIES] = mem'[BootTable][p % ENTRIES]
      BY <1>2, <2>1, <3>1
    <3> QED BY <2>1, <3>2 DEF Kept
  <2>6. \A p \in Frames : WalkPage(p)' = WalkPage(p)
    BY <1>1, <2>1 DEF WalkPage
  <2>7. Cached'
    BY <2>1, <2>6, CachedKept DEF Inv
  <2> QED BY <2>2, <2>3, <2>4, <2>5, <2>7 DEF Inv, DirSound
<1>6. CASE n <= Page(KERNEL_END)
  <2>1. n \in KernelPages
    BY <1>2, <1>3, <1>6 DEF KernelPages
  <2>2. /\ n \in Frames /\ PAGE_SIZE * n \in Addrs /\ Page(PAGE_SIZE * n) = n
        /\ n \div ENTRIES = KERNEL_TABLE /\ n % ENTRIES \in Indices
        /\ (PAGE_SIZE * n) % PAGE_SIZE = 0
        /\ FrameOfBoot(n) \in Frames /\ FrameOfBoot(n) # 0
    BY <2>1, KernelPagesFacts, PageAddrs
  <2>3. WalkPage(n) = e
    BY <1>1, <2>1, BootPage DEF Inv
  <2>4. paddr = IF e.present THEN PAGE_SIZE * e.frame + 0 ELSE 0
    <3> DEFINE v == PAGE_SIZE * n
    <3>1. v \in Addrs /\ Page(v) = n /\ v % PAGE_SIZE = 0
      BY <2>2
    <3> HIDE DEF v
    <3>2. paging_vaddr2paddr(v) = IF WalkPage(Page(v)).present
              THEN PAGE_SIZE * WalkPage(Page(v)).frame + (v % PAGE_SIZE) ELSE 0
      BY <1>4, <3>1, Vaddr2Paddr DEF Ready
    <3>3. WalkPage(Page(v)) = e
      BY <2>3, <3>1 DEF WalkPage
    <3> HIDE DEF e
    <3> QED BY <3>1, <3>2, <3>3 DEF v
  <2>5. e \in {Absent, Present(FrameOfBoot(n), TRUE), Present(FrameOfBoot(n), FALSE)}
    BY <2>1 DEF Inv, BootSound
  <2>6. ~(n > Page(KERNEL_END))
    BY <1>3, <1>6
  <2>7. e.present => PAGE_SIZE * e.frame \in Nat \ {0} /\ e = Present(FrameOfBoot(n), e.write)
                     /\ e.frame = FrameOfBoot(n) /\ e.write \in BOOLEAN
    <3>1. e \in Entry
      BY <2>2, <2>5, EntryFacts
    <3>2. ASSUME e.present PROVE e.frame = FrameOfBoot(n)
      <4>1. e # Absent
        BY <3>2, EntryFacts
      <4> HIDE DEF e
      <4>2. e = Present(FrameOfBoot(n), TRUE) \/ e = Present(FrameOfBoot(n), FALSE)
        BY <2>5, <4>1
      <4>3. Present(FrameOfBoot(n), FALSE).frame = FrameOfBoot(n)
        BY DEF Present
      <4> QED BY <4>2, <4>3, LinkFields
    <3>3. FrameOfBoot(n) \in Nat \ {0}
      BY <2>2, Numbers
    <3>4. PAGE_SIZE * FrameOfBoot(n) \in Nat \ {0}
      <4> DEFINE f == FrameOfBoot(n)
      <4>1. f \in Nat \ {0}
        BY <3>3
      <4> HIDE DEF f
      <4> DEFINE z == PAGE_SIZE * (f - 1)
      <4>2. PAGE_SIZE * f \in Nat /\ PAGE_SIZE * f = z + PAGE_SIZE /\ z \in Int /\ z >= 0
        BY <4>1, Sizes
      <4> HIDE DEF z
      <4>5. PAGE_SIZE * f # 0
        <5>1. z + PAGE_SIZE # 0
          BY <4>2, Sizes
        <5> QED BY <4>2, <5>1
      <4> QED BY <4>2, <4>5 DEF f
    <3> QED BY <3>1, <3>2, <3>4, EntryFacts
  <2>8. CASE ~e.present
    <3>1. paddr = 0
      BY <2>4, <2>8
    <3>2. n' = n + 1 /\ mem' = mem /\ tlb' = tlb /\ pc' = pc
      BY <2>6, <3>1 DEF KeepPage
    <3>3. e = Absent
      <4>1. e \in Entry
        BY <2>2, <2>5, EntryFacts
      <4> HIDE DEF e
      <4> QED BY <2>8, <4>1, EntryFacts
    <3>4. MemType' /\ BootSound'
      BY <1>1, <3>2, BootKept DEF Inv, MemType
    <3>5. PointsAtTables' /\ MapsAvailable' /\ EmptyIfAbsent'
      BY <3>2 DEF Inv, DirSound, PointsAtTables, MapsAvailable, EmptyIfAbsent
    <3>6. InUse' /\ Linked' /\ Place'
      <4>1. n' \in Frames \cup {ENTRIES * ENTRIES}
        BY <2>2, <3>2, Sizes DEF Frames
      <4> QED BY <1>1, <3>2, <4>1 DEF Inv, InUse, Linked, Place
    <3>7. Kept'
      <4>1. n' \in Page(KERNEL_START)..(Page(KERNEL_END) + 1)
        BY <1>2, <1>3, <1>6, <3>2
      <4>2. ASSUME NEW p \in KernelPages
            PROVE  mem'[KernelTab][p % ENTRIES] =
                      IF p < n' THEN mem'[BootTable][p % ENTRIES] ELSE Absent
        <5>1. p \in Nat /\ (p < n' <=> p < n \/ p = n)
          BY <1>3, <3>2, Numbers DEF KernelPages
        <5>2. CASE p = n
          <6>1. ~(n < n)
            BY <1>3
          <6> QED BY <1>2, <3>2, <3>3, <5>1, <5>2, <6>1
        <5>3. CASE p # n
          BY <1>2, <3>2, <5>1, <5>3
        <5> QED BY <5>2, <5>3
      <4> QED BY <1>1, <3>2, <4>1, <4>2 DEF Kept
    <3>8. \A p \in Frames : WalkPage(p)' = WalkPage(p)
      BY <1>1, <3>2 DEF WalkPage
    <3>9. Cached'
      BY <3>2, <3>8, CachedKept DEF Inv
    <3> QED BY <3>4, <3>5, <3>6, <3>7, <3>9 DEF Inv, DirSound
  <2>9. CASE e.present
    <3>1. paddr = PAGE_SIZE * FrameOfBoot(n) /\ paddr # 0 /\ paddr \in Addrs
          /\ Page(paddr) = FrameOfBoot(n)
      <4>1. paddr = PAGE_SIZE * FrameOfBoot(n) /\ paddr # 0
        <5> HIDE DEF e, paddr
        <5> QED BY <2>4, <2>7, <2>9
      <4> HIDE DEF paddr
      <4> QED BY <2>2, <4>1, PageAddrs
    <3>2. w = e.write /\ w \in BOOLEAN /\ Present(Page(paddr), w) = e
      <4>1. w = e.write
        BY <1>4, <2>2, <2>3, <2>9, PageWritable DEF Ready
      <4> QED BY <2>7, <2>9, <3>1, <4>1
    <3>3. /\ mem' = Mapped(PAGE_SIZE * n, paddr, w).mem
          /\ tlb' = IF failed THEN tlb ELSE NoTranslations
          /\ pc' = IF failed THEN "failed" ELSE "keep"
          /\ n' = IF failed THEN n ELSE n + 1
      BY <2>6, <3>1 DEF KeepPage, Map
    <3> HIDE DEF paddr, w, failed, e
    <3>4. /\ failed \in BOOLEAN
          /\ MemType' /\ DirSound' /\ BootSound'
          /\ mem'[BootTable] = mem[BootTable]
          /\ _is_table_idx_implemented(n \div ENTRIES) /\ failed => mem' = mem
          /\ ~failed => /\ _is_table_idx_implemented(n \div ENTRIES)
                        /\ e \in Entry
                        /\ Available(Page(paddr))
                        /\ Written(mem', PAGE_SIZE * n, e)
      <4> DEFINE v == PAGE_SIZE * n
      <4>1. v \in Addrs /\ Page(v) = n
        BY <2>2
      <4>2. failed = Mapped(v, paddr, w).failed /\ mem' = Mapped(v, paddr, w).mem
        BY <3>3 DEF failed
      <4> HIDE DEF v
      <4>3. /\ failed \in BOOLEAN
            /\ MemType' /\ DirSound' /\ BootSound'
            /\ mem'[BootTable] = mem[BootTable]
            /\ _is_table_idx_implemented(Page(v) \div ENTRIES) /\ failed => mem' = mem
            /\ ~failed => /\ _is_table_idx_implemented(Page(v) \div ENTRIES)
                          /\ Present(Page(paddr), w) \in Entry
                          /\ Available(Page(paddr))
                          /\ Written(mem', v, Present(Page(paddr), w))
        BY <1>1, <3>1, <3>2, <4>1, <4>2, MapCall
      <4> QED BY <3>2, <4>1, <4>3 DEF v
    <3>5. _is_table_idx_implemented(n \div ENTRIES)
      BY <2>2, TableIndex
    <3>6. CASE failed
      <4>1. mem' = mem /\ tlb' = tlb /\ pc' = "failed" /\ n' = n
        BY <3>3, <3>4, <3>5, <3>6
      <4>2. InUse' /\ Linked' /\ Place' /\ Kept'
        BY <1>1, <4>1 DEF Inv, InUse, Linked, Place, Kept
      <4>3. \A p \in Frames : WalkPage(p)' = WalkPage(p)
        BY <1>1, <4>1 DEF WalkPage
      <4>4. Cached'
        BY <4>1, <4>3, CachedKept DEF Inv
      <4> QED BY <3>4, <4>2, <4>4 DEF Inv
    <3>7. CASE ~failed
      <4>1. tlb' = NoTranslations /\ pc' = "keep" /\ n' = n + 1
        BY <3>3, <3>7
      <4>2. InUse' /\ Linked' /\ Place'
        <5>1. n' \in Frames \cup {ENTRIES * ENTRIES}
          BY <2>2, <4>1, Sizes DEF Frames
        <5> QED BY <1>1, <4>1, <5>1 DEF Inv, InUse, Linked, Place
      <4>3. /\ \A p \in KernelPages : p # n =>
                mem'[KernelTab][p % ENTRIES] = mem[KernelTab][p % ENTRIES]
            /\ mem'[KernelTab][n % ENTRIES] = e
        <5> DEFINE v == PAGE_SIZE * n
        <5>1. v \in Addrs /\ Page(v) = n /\ Written(mem', v, e)
          BY <2>2, <3>4, <3>7
        <5> HIDE DEF v
        <5>2. _is_table_idx_implemented(Page(v) \div ENTRIES) /\ Page(v) \div ENTRIES = KERNEL_TABLE
          BY <2>2, <3>5, <5>1
        <5>3. e \in Entry /\ (e.present => Available(e.frame))
          BY <2>7, <2>9, <3>1, <3>4, <3>7
        <5>4. /\ \A p \in KernelPages : p # Page(v) =>
                    mem'[KernelTab][p % ENTRIES] = mem[KernelTab][p % ENTRIES]
              /\ mem'[KernelTab][Page(v) % ENTRIES] = e
          BY <5>1, <5>2, <5>3, WrittenSound DEF Inv
        <5> QED BY <5>1, <5>4
      <4>4. Kept'
        <5>1. n' \in Page(KERNEL_START)..(Page(KERNEL_END) + 1)
          BY <1>2, <1>3, <1>6, <4>1
        <5>2. ASSUME NEW p \in KernelPages
              PROVE  mem'[KernelTab][p % ENTRIES] =
                        IF p < n' THEN mem'[BootTable][p % ENTRIES] ELSE Absent
          <6>1. p \in Nat /\ (p < n' <=> p < n \/ p = n)
            BY <1>3, <4>1, Numbers DEF KernelPages
          <6>2. CASE p = n
            BY <3>4, <4>3, <6>1, <6>2 DEF e
          <6>3. CASE p # n
            BY <1>2, <3>4, <4>3, <6>1, <6>3
          <6> QED BY <6>2, <6>3
        <5> QED BY <4>1, <5>1, <5>2 DEF Kept
      <4>5. Cached'
        BY <4>1, CachedNone
      <4> QED BY <3>4, <4>2, <4>4, <4>5 DEF Inv
    <3> QED BY <3>4, <3>6, <3>7
  <2> QED BY <2>8, <2>9
<1> QED BY <1>3, <1>5, <1>6

LEMMA DirPaddr ==
    ASSUME Ready
    PROVE  Page(paging_vaddr2paddr(PageDir)) = Dir
<1>1. /\ PageDir \in Addrs /\ PageDir % PAGE_SIZE = 0 /\ Page(PageDir) \in OwnPages
      /\ Dir \in Frames
  BY Numbers, PagingAssumption, TableFramesFacts
<1>2. WalkPage(Page(PageDir)) = Present(Dir, TRUE)
  BY <1>1 DEF Ready, OwnMapped, Dir
<1>3. WalkPage(Page(PageDir)).present /\ WalkPage(Page(PageDir)).frame = Dir
  BY <1>2, LinkFields
<1>4. paging_vaddr2paddr(PageDir) = PAGE_SIZE * Dir + 0
  BY <1>1, <1>3, Vaddr2Paddr DEF Ready
<1>5. PAGE_SIZE * Dir + 0 = PAGE_SIZE * Dir
  <2> DEFINE f == Dir
  <2>1. f \in Nat
    BY <1>1, Numbers
  <2> HIDE DEF f
  <2>2. PAGE_SIZE * f + 0 = PAGE_SIZE * f
    BY <2>1, Sizes
  <2> QED BY <2>2 DEF f
<1> QED BY <1>1, <1>4, <1>5, PageAddrs

LEMMA AutomapInv ==
    ASSUME Inv, page_dir_automap
    PROVE  Inv'
<1>1. Ready
  BY InvReady
<1>2. /\ pc = "automap" /\ pc' = "load" /\ cr3' = cr3 /\ tlb' = tlb /\ n' = n /\ ret' = ret
      /\ mem' = [mem EXCEPT ![Dir][Last] = Present(Dir, TRUE)]
      /\ cr3 = BootDir
  <2>1. mem' = page_dir_set_entry(Last, paging_vaddr2paddr(PageDir))
    BY DEF page_dir_automap
  <2>2. mem' = [mem EXCEPT ![At(PageDir)][Last] =
                    Present(Page(paging_vaddr2paddr(PageDir)), TRUE)]
    BY <2>1 DEF page_dir_set_entry, Page
  <2>3. At(PageDir) = Dir
    BY <1>1, OwnAt DEF Ready
  <2>4. Page(paging_vaddr2paddr(PageDir)) = Dir
    BY <1>1, DirPaddr
  <2> QED BY <2>2, <2>3, <2>4 DEF page_dir_automap, Inv, InUse
<1>3. Present(Dir, TRUE) \in Entry /\ Last \in Indices /\ Dir \in TableFrames
  BY EntryFacts, TableFramesFacts, Sizes
<1>4. mem \in [TableFrames -> [Indices -> Entry]]
  BY DEF Inv, MemType
<1>5. /\ mem' \in [TableFrames -> [Indices -> Entry]]
      /\ mem'[Dir][Last] = Present(Dir, TRUE)
      /\ \A k \in Indices \ {Last} : mem'[Dir][k] = mem[Dir][k]
      /\ \A f \in TableFrames \ {Dir} : mem'[f] = mem[f]
  BY <1>2, <1>3, <1>4
<1>6. /\ {BootDir, BootTable, KernelTab} \subseteq TableFrames \ {Dir}
      /\ \A a \in Arrays : Tab(a) \in TableFrames \ {Dir}
  <2>1. KernelTab # Dir
    BY TableIndex, Sizes
  <2> QED BY <2>1, TableFramesFacts, TableIndex
<1>7. DirSound'
  <2>1. PointsAtTables'
    BY <1>5 DEF Inv, DirSound, PointsAtTables, Dir
  <2>2. MapsAvailable'
    <3>1. \A a \in Arrays : mem'[Tab(a)] = mem[Tab(a)]
      BY <1>5, <1>6
    <3> QED BY <3>1, Maps DEF Inv, DirSound
  <2>3. EmptyIfAbsent'
    <3> SUFFICES ASSUME NEW i \in Indices, _is_table_idx_implemented(i), ~mem'[Dir][i].present,
                        NEW j \in Indices
                 PROVE  mem'[TableOf(i)][j] = Absent
      BY DEF EmptyIfAbsent
    <3>1. i # Last /\ TableOf(i) \in TableFrames \ {Dir}
      BY TableIndex
    <3>2. mem'[Dir][i] = mem[Dir][i] /\ mem'[TableOf(i)] = mem[TableOf(i)]
      BY <1>5, <3>1
    <3> QED BY <3>2 DEF Inv, DirSound, EmptyIfAbsent
  <2> QED BY <2>1, <2>2, <2>3 DEF DirSound
<1>8. /\ mem'[BootDir] = mem[BootDir] /\ mem'[BootTable] = mem[BootTable]
      /\ mem'[KernelTab] = mem[KernelTab]
  BY <1>5, <1>6
<1>9. BootSound' /\ MemType'
  BY <1>2, <1>5, <1>8, BootKept DEF Inv, MemType
<1>10. InUse' /\ Linked' /\ Place'
  BY <1>2, <1>5 DEF Inv, InUse, Linked, Place
<1>11. Kept'
  BY <1>2, <1>8 DEF Inv, Kept
<1>12. Cached'
  <2>1. \A p \in Frames : WalkPage(p)' = WalkPage(p)
    BY <1>2, <1>8, BootWalk DEF Inv
  <2> QED BY <1>2, <2>1, CachedKept DEF Inv
<1> QED BY <1>7, <1>9, <1>10, <1>11, <1>12 DEF Inv

LEMMA LoadInv ==
    ASSUME Inv, page_dir_load
    PROVE  Inv'
<1>1. /\ pc = "load" /\ pc' = "running" /\ mem' = mem /\ tlb' = NoTranslations
      /\ n' = n /\ ret' = ret /\ cr3' = Dir
  <2>1. Page(paging_vaddr2paddr(PageDir)) = Dir
    BY InvReady, DirPaddr
  <2> QED BY <2>1 DEF page_dir_load
<1>2. MemType'
  BY <1>1, TableFramesFacts DEF Inv, MemType
<1>3. DirSound'
  <2>1. PointsAtTables' /\ MapsAvailable' /\ EmptyIfAbsent'
    BY <1>1 DEF Inv, DirSound, PointsAtTables, MapsAvailable, EmptyIfAbsent
  <2> QED BY <2>1 DEF DirSound
<1>4. BootSound'
  BY <1>1, BootKept DEF Inv
<1>5. InUse' /\ Linked' /\ Place'
  BY <1>1 DEF Inv, InUse, Linked, Place
<1>6. Kept'
  <2>1. \A p \in KernelPages : mem[KernelTab][p % ENTRIES] = mem[BootTable][p % ENTRIES]
    BY <1>1 DEF Inv, Kept
  <2>2. \A p \in OwnPages : mem[KernelTab][p % ENTRIES] = Present(FrameOfBoot(p), TRUE)
    BY <2>1, TableFramesFacts DEF Inv, BootSound
  <2> QED BY <1>1, <2>2 DEF Kept
<1>7. Cached'
  BY <1>1, CachedNone
<1> QED BY <1>2, <1>3, <1>4, <1>5, <1>6, <1>7 DEF Inv

LEMMA CallAddrs ==
    ASSUME NEW v \in Vaddrs
    PROVE  v \in Addrs /\ Page(v) \notin OwnPages
BY Numbers, PagingAssumption

LEMMA MapInv ==
    ASSUME Inv, NEW v \in Vaddrs, NEW paddr \in Paddrs, NEW w \in BOOLEAN,
           paging_map(v, paddr, w)
    PROVE  Inv'
<1> DEFINE failed == Mapped(v, paddr, w).failed
           pte == Present(Page(paddr), w)
<1>1. /\ pc = "running" /\ pc' = pc /\ cr3' = cr3 /\ n' = n
      /\ mem' = Mapped(v, paddr, w).mem
      /\ tlb' = IF failed THEN tlb ELSE NoTranslations
  BY DEF paging_map, Map
<1>2. v \in Addrs /\ paddr \in Addrs /\ Page(v) \notin OwnPages
  BY CallAddrs, Numbers
<1> HIDE DEF failed
<1>3. /\ failed \in BOOLEAN
      /\ MemType' /\ DirSound' /\ BootSound'
      /\ mem'[Dir][Last] = mem[Dir][Last]
      /\ failed => mem'[KernelTab] = mem[KernelTab]
      /\ failed => \A p \in Frames : WalkPage(p).present => WalkPage(p)' = WalkPage(p)
      /\ ~failed => /\ _is_table_idx_implemented(Page(v) \div ENTRIES)
                    /\ pte \in Entry
                    /\ Available(Page(paddr))
                    /\ Written(mem', v, pte)
  <2>1. failed = Mapped(v, paddr, w).failed
    BY DEF failed
  <2> QED BY <1>1, <1>2, <2>1, MapCall
<1>4. \A p \in OwnPages : mem'[KernelTab][p % ENTRIES] = mem[KernelTab][p % ENTRIES]
  <2>1. CASE failed
    BY <1>3, <2>1
  <2>2. CASE ~failed
    <3>1. pte.frame = Page(paddr)
      BY DEF Present
    <3> HIDE DEF pte
    <3>2. \A p \in KernelPages : p # Page(v) =>
                mem'[KernelTab][p % ENTRIES] = mem[KernelTab][p % ENTRIES]
      BY <1>2, <1>3, <2>2, <3>1, WrittenSound DEF Inv
    <3> QED BY <1>2, <3>2, TableFramesFacts
  <2> QED BY <2>1, <2>2
<1>5. InUse' /\ Linked' /\ Place'
  BY <1>1, <1>3 DEF Inv, InUse, Linked, Place
<1>6. Kept'
  BY <1>1, <1>4 DEF Inv, Kept
<1>7. Cached'
  <2>1. CASE failed
    BY <1>1, <1>3, <2>1, CachedKept DEF Inv
  <2>2. CASE ~failed
    BY <1>1, <2>2, CachedNone
  <2> QED BY <2>1, <2>2
<1> QED BY <1>3, <1>5, <1>6, <1>7 DEF Inv

(* What paging_unmap() does.                                               *)
LEMMA UnmapCall ==
    ASSUME Inv, NEW v \in Vaddrs, paging_unmap(v)
    PROVE  /\ pc = "running" /\ pc' = pc /\ cr3' = cr3 /\ cr3 = Dir /\ n' = n
           /\ ret'.call = "unmap" /\ ret'.vaddr = v /\ ret'.failed \in BOOLEAN /\ ret'.pte = Absent
           /\ \/ /\ mem' = mem /\ tlb' = tlb
                 /\ ~ret'.failed => ~mem[Dir][Page(v) \div ENTRIES].present
              \/ /\ ~ret'.failed /\ tlb' = NoTranslations
                 /\ _is_table_idx_implemented(Page(v) \div ENTRIES)
                 /\ Written(mem', v, Absent)
<1> DEFINE idx == Page(v) \div ENTRIES
           refused == ~_is_addr_page_aligned(v)
           present == mem[Dir][idx].present
           failed == refused \/ (present /\ ~_is_table_idx_implemented(idx))
           clears == present /\ ~failed
<1>1. Ready /\ v \in Addrs
  BY InvReady, CallAddrs
<1>2. _vaddr2pd_idx(v) = idx
  BY <1>1, PagesOfAddrs
<1>3. page_dir_entry_is_present(idx) <=> present
  <2>1. At(PageDir) = Dir
    BY <1>1, OwnAt DEF Ready
  <2> QED BY <2>1 DEF page_dir_entry_is_present
<1> HIDE DEF idx
<1>4. /\ pc = "running" /\ pc' = pc /\ cr3' = cr3 /\ n' = n
      /\ mem' = IF clears THEN SetTableEntry(mem, v, Absent) ELSE mem
      /\ tlb' = IF clears THEN NoTranslations ELSE tlb
      /\ ret' = [call |-> "unmap", vaddr |-> v, failed |-> failed, pte |-> Absent]
  BY <1>2, <1>3 DEF paging_unmap
<1>5. cr3 = Dir
  BY <1>4 DEF Inv, InUse
<1>6. /\ ret'.call = "unmap" /\ ret'.vaddr = v /\ ret'.pte = Absent
      /\ ret'.failed = failed /\ failed \in BOOLEAN
  <2> HIDE DEF failed
  <2>1. /\ ret'.call = "unmap" /\ ret'.vaddr = v /\ ret'.pte = Absent
        /\ ret'.failed = failed
    BY <1>4
  <2> QED BY <2>1 DEF failed
<1>7. CASE clears
  <2>1. present /\ ~failed /\ _is_table_idx_implemented(idx)
    BY <1>7
  <2>2. mem' = SetTableEntry(mem, v, Absent) /\ tlb' = NoTranslations
    BY <1>4, <1>7
  <2>3. Written(mem', v, Absent)
    BY <1>1, <2>1, <2>2, SetEntry, EntryFacts DEF idx, Ready
  <2> QED BY <1>4, <1>5, <1>6, <2>1, <2>2, <2>3 DEF idx
<1>8. CASE ~clears
  <2>1. mem' = mem /\ tlb' = tlb
    BY <1>4, <1>8
  <2>2. ~failed => ~mem[Dir][idx].present
    BY <1>8
  <2> HIDE DEF failed
  <2> QED BY <1>4, <1>5, <1>6, <2>1, <2>2 DEF idx
<1> QED BY <1>7, <1>8

LEMMA UnmapInv ==
    ASSUME Inv, NEW v \in Vaddrs, paging_unmap(v)
    PROVE  Inv'
<1>1. /\ pc = "running" /\ pc' = pc /\ cr3' = cr3 /\ n' = n
      /\ \/ mem' = mem /\ tlb' = tlb
         \/ /\ tlb' = NoTranslations
            /\ _is_table_idx_implemented(Page(v) \div ENTRIES)
            /\ Written(mem', v, Absent)
  BY UnmapCall
<1>2. v \in Addrs /\ Page(v) \notin OwnPages
  BY CallAddrs
<1>3. CASE mem' = mem /\ tlb' = tlb
  <2>1. MemType' /\ BootSound'
    BY <1>1, <1>3, BootKept DEF Inv, MemType
  <2>2. PointsAtTables' /\ MapsAvailable' /\ EmptyIfAbsent'
    BY <1>3 DEF Inv, DirSound, PointsAtTables, MapsAvailable, EmptyIfAbsent
  <2>3. InUse' /\ Linked' /\ Place' /\ Kept'
    BY <1>1, <1>3 DEF Inv, InUse, Linked, Place, Kept
  <2>4. \A p \in Frames : WalkPage(p)' = WalkPage(p)
    BY <1>1, <1>3 DEF WalkPage
  <2>5. Cached'
    BY <1>3, <2>4, CachedKept DEF Inv
  <2> QED BY <2>1, <2>2, <2>3, <2>5 DEF Inv, DirSound
<1>4. CASE /\ tlb' = NoTranslations
           /\ _is_table_idx_implemented(Page(v) \div ENTRIES)
           /\ Written(mem', v, Absent)
  <2>1. /\ mem' \in [TableFrames -> [Indices -> Entry]] /\ DirSound'
        /\ mem'[BootDir] = mem[BootDir] /\ mem'[BootTable] = mem[BootTable]
        /\ mem'[Dir][Last] = mem[Dir][Last]
        /\ \A p \in KernelPages : p # Page(v) =>
                mem'[KernelTab][p % ENTRIES] = mem[KernelTab][p % ENTRIES]
    BY <1>2, <1>4, EntryFacts, WrittenSound DEF Inv
  <2>2. BootSound' /\ MemType'
    BY <1>1, <2>1, BootKept DEF Inv, MemType
  <2>3. InUse' /\ Linked' /\ Place'
    BY <1>1, <2>1 DEF Inv, InUse, Linked, Place
  <2>4. Kept'
    BY <1>1, <1>2, <2>1, TableFramesFacts DEF Inv, Kept
  <2>5. Cached'
    BY <1>4, CachedNone
  <2> QED BY <2>1, <2>2, <2>3, <2>4, <2>5 DEF Inv
<1> QED BY <1>1, <1>3, <1>4

LEMMA AccessInv ==
    ASSUME Inv, NEW v \in Vaddrs, Access(v)
    PROVE  Inv'
<1>1. /\ mem' = mem /\ cr3' = cr3 /\ pc' = pc /\ n' = n /\ ret' = ret
      /\ Walk(v).present
      /\ tlb' = [p \in DOMAIN tlb \cup {Page(v)} |-> IF p \in DOMAIN tlb THEN tlb[p] ELSE Walk(v)]
  BY DEF Access
<1>2. v \in Addrs /\ Page(v) \in Frames /\ Walk(v) = WalkPage(Page(v))
  BY CallAddrs, PagesOfAddrs, WalkOf
<1>3. MemType' /\ BootSound'
  BY <1>1, BootKept DEF Inv, MemType
<1>4. PointsAtTables' /\ MapsAvailable' /\ EmptyIfAbsent'
  BY <1>1 DEF Inv, DirSound, PointsAtTables, MapsAvailable, EmptyIfAbsent
<1>5. InUse' /\ Linked' /\ Place' /\ Kept'
  BY <1>1 DEF Inv, InUse, Linked, Place, Kept
<1>6. Cached'
  <2>1. \A p \in Frames : WalkPage(p)' = WalkPage(p)
    BY <1>1 DEF WalkPage
  <2> SUFFICES ASSUME NEW p \in DOMAIN tlb'
               PROVE  p \in Frames /\ tlb'[p].present /\ tlb'[p] = WalkPage(p)'
    BY DEF Cached
  <2>2. CASE p \in DOMAIN tlb
    <3>1. tlb'[p] = tlb[p] /\ p \in Frames /\ tlb[p].present /\ tlb[p] = WalkPage(p)
      BY <1>1, <2>2 DEF Inv, Cached
    <3> QED BY <2>1, <3>1
  <2>3. CASE p \notin DOMAIN tlb
    <3>1. p = Page(v) /\ tlb'[p] = Walk(v)
      BY <1>1, <2>3
    <3> QED BY <1>1, <1>2, <2>1, <3>1
  <2> QED BY <2>2, <2>3
<1> QED BY <1>3, <1>4, <1>5, <1>6 DEF Inv, DirSound

LEMMA StutterInv ==
    ASSUME Inv, UNCHANGED vars
    PROVE  Inv'
<1>1. mem' = mem /\ cr3' = cr3 /\ tlb' = tlb /\ pc' = pc /\ n' = n /\ ret' = ret
  BY DEF vars
<1>2. MemType' /\ BootSound'
  BY <1>1, BootKept DEF Inv, MemType
<1>3. PointsAtTables' /\ MapsAvailable' /\ EmptyIfAbsent'
  BY <1>1 DEF Inv, DirSound, PointsAtTables, MapsAvailable, EmptyIfAbsent
<1>4. InUse' /\ Linked' /\ Place' /\ Kept'
  BY <1>1 DEF Inv, InUse, Linked, Place, Kept
<1>5. \A p \in Frames : WalkPage(p)' = WalkPage(p)
  BY <1>1 DEF WalkPage
<1>6. Cached'
  BY <1>1, <1>5, CachedKept DEF Inv
<1> QED BY <1>2, <1>3, <1>4, <1>6 DEF Inv, DirSound

-----------------------------------------------------------------------------
(* The theorems                                                            *)

(* The invariant, from paging_init() to any later sequence of calls.       *)
THEOREM PagingInductive == Spec => []Inv
<1>1. Init => Inv
  BY InitInv
<1>2. Inv /\ [Next]_vars => Inv'
  <2> SUFFICES ASSUME Inv, [Next]_vars PROVE Inv'
    OBVIOUS
  <2>1. CASE Clear
    BY <2>1, ClearInv
  <2>2. CASE KeepVga
    BY <2>2, KeepVgaInv
  <2>3. CASE KeepPage
    BY <2>3, KeepPageInv
  <2>4. CASE page_dir_automap
    BY <2>4, AutomapInv
  <2>5. CASE page_dir_load
    BY <2>5, LoadInv
  <2>6. ASSUME NEW v \in Vaddrs, NEW paddr \in Paddrs, NEW w \in BOOLEAN,
               paging_map(v, paddr, w)
        PROVE  Inv'
    BY <2>6, MapInv
  <2>7. ASSUME NEW v \in Vaddrs, paging_unmap(v) PROVE Inv'
    BY <2>7, UnmapInv
  <2>8. ASSUME NEW v \in Vaddrs, Access(v) PROVE Inv'
    BY <2>8, AccessInv
  <2>9. CASE UNCHANGED vars
    BY <2>9, StutterInv
  <2> QED BY <2>1, <2>2, <2>3, <2>4, <2>5, <2>6, <2>7, <2>8, <2>9 DEF Next
<1> QED BY <1>1, <1>2, PTL DEF Spec

LEMMA InvTypes == Inv => TypeOK
<1> SUFFICES ASSUME Inv PROVE TypeOK
  OBVIOUS
<1>1. /\ cr3 \in TableFrames /\ DOMAIN mem = TableFrames
      /\ \A f \in TableFrames : mem[f] \in [Indices -> Entry]
  BY DEF Inv, MemType
<1>2. \A p \in DOMAIN tlb : tlb[p] \in Entry
  <2>1. WalkTyped
    BY InvReady DEF Ready
  <2> QED BY <2>1 DEF Inv, Cached, WalkTyped
<1> QED BY <1>1, <1>2 DEF TypeOK, Inv, Place

(* The types: directory and tables hold entries for frames that there are, *)
(* and the processor's directory is one of them.                           *)
THEOREM PagingTypeOK == Spec => []TypeOK
BY PagingInductive, InvTypes, PTL

LEMMA InvFresh == Inv => TlbFresh
<1> SUFFICES ASSUME Inv, NEW p \in DOMAIN tlb PROVE tlb[p] = Walk(PAGE_SIZE * p)
  BY DEF TlbFresh
<1>1. p \in Frames /\ tlb[p] = WalkPage(p)
  BY DEF Inv, Cached
<1> QED BY <1>1, WalkOfPage

(* The processor has no translation that the tables no longer have: every  *)
(* change of a present one is followed by _reset_mmu_cache().              *)
THEOREM PagingTlbFresh == Spec => []TlbFresh
BY PagingInductive, InvFresh, PTL

LEMMA InvAgrees == Inv => Vaddr2PaddrAgrees
<1> SUFFICES ASSUME Inv, NEW f \in Frames, NEW k \in {0, 1}
             PROVE  LET v == PAGE_SIZE * f + k
                    IN  paging_vaddr2paddr(v) =
                            IF Walk(v).present THEN PAGE_SIZE * Walk(v).frame + (v % PAGE_SIZE)
                            ELSE 0
  BY DEF Vaddr2PaddrAgrees
<1> DEFINE v == PAGE_SIZE * f + k
<1>1. k \in 0..(PAGE_SIZE - 1)
  BY Sizes
<1>2. v \in Addrs
  BY <1>1, AddrsOfPages
<1> HIDE DEF v
<1>3. Walk(v) = WalkPage(Page(v))
  BY <1>2, WalkOf
<1>4. MemType /\ SelfMapped
  BY InvReady DEF Ready
<1>5. paging_vaddr2paddr(v) =
          IF WalkPage(Page(v)).present
          THEN PAGE_SIZE * WalkPage(Page(v)).frame + (v % PAGE_SIZE) ELSE 0
  BY <1>2, <1>4, Vaddr2Paddr
<1>6. paging_vaddr2paddr(v) =
          IF Walk(v).present THEN PAGE_SIZE * Walk(v).frame + (v % PAGE_SIZE) ELSE 0
  BY <1>3, <1>5
<1> QED BY <1>6 DEF v

(* paging_vaddr2paddr() says what the processor would, under the boot      *)
(* loader's directory and under the code's own.                            *)
THEOREM PagingVaddr2PaddrAgrees == Spec => []Vaddr2PaddrAgrees
BY PagingInductive, InvAgrees, PTL

LEMMA InvSound == Inv => SoundEntries
BY DEF Inv, DirSound, SoundEntries

(* The directory points at the code's tables, and the tables at memory     *)
(* that is available.                                                      *)
THEOREM PagingSoundEntries == Spec => []SoundEntries
BY PagingInductive, InvSound, PTL

LEMMA StepKeepsKernel ==
    ASSUME Inv, [Next]_vars, cr3' # cr3
    PROVE  \A p \in KernelPages : Walk(PAGE_SIZE * p)' = Walk(PAGE_SIZE * p)
<1>1. page_dir_load
  <2>1. ASSUME NEW v \in Vaddrs, paging_unmap(v) PROVE FALSE
    BY <2>1 DEF paging_unmap
  <2> QED BY <2>1 DEF Next, vars, Clear, KeepVga, KeepPage, page_dir_automap, paging_map, Access
<1>2. pc = "load" /\ pc' = "running" /\ mem' = mem /\ cr3 = BootDir
  BY <1>1 DEF page_dir_load, Inv, InUse
<1>3. Inv'
  BY <1>1, LoadInv
<1>4. cr3' = Dir
  BY <1>2, <1>3 DEF Inv, InUse
<1> SUFFICES ASSUME NEW p \in KernelPages
             PROVE  Walk(PAGE_SIZE * p)' = Walk(PAGE_SIZE * p)
  OBVIOUS
<1>5. p \in Frames /\ p \div ENTRIES = KERNEL_TABLE /\ p % ENTRIES \in Indices
  BY KernelPagesFacts
<1>6. WalkPage(p) = mem[BootTable][p % ENTRIES]
  BY <1>2, BootPage DEF Inv
<1>7. mem[KernelTab][p % ENTRIES] = mem[BootTable][p % ENTRIES]
  BY <1>2 DEF Inv, Kept
<1>8. WalkPage(p)' = mem[KernelTab][p % ENTRIES]
  <2>1. WalkPage(p)' = IF mem[Dir][KERNEL_TABLE].present
                       THEN mem[mem[Dir][KERNEL_TABLE].frame][p % ENTRIES] ELSE Absent
    BY <1>2, <1>4, <1>5 DEF WalkPage
  <2>2. /\ KERNEL_TABLE \in Indices /\ KERNEL_TABLE # Last
        /\ _is_table_idx_implemented(KERNEL_TABLE) /\ TableOf(KERNEL_TABLE) = KernelTab
    BY Sizes, TableIndex
  <2>3. CASE mem[Dir][KERNEL_TABLE].present
    <3>1. mem[Dir][KERNEL_TABLE].frame = KernelTab
      BY <2>2, <2>3, Points DEF Inv, DirSound
    <3> QED BY <2>1, <2>3, <3>1
  <2>4. CASE ~mem[Dir][KERNEL_TABLE].present
    <3>1. mem[KernelTab][p % ENTRIES] = Absent
      BY <1>5, <2>2, <2>4 DEF Inv, DirSound, EmptyIfAbsent
    <3> QED BY <2>1, <2>4, <3>1
  <2> QED BY <2>3, <2>4
<1> QED BY <1>5, <1>6, <1>7, <1>8, WalkOfPage

(* The load of the new directory changes no translation of the kernel.     *)
THEOREM PagingKernelKept == Spec => KernelKept
<1>1. Inv /\ [Next]_vars =>
        [cr3' # cr3 => \A p \in KernelPages : Walk(PAGE_SIZE * p)' = Walk(PAGE_SIZE * p)]_vars
  BY StepKeepsKernel
<1> QED BY <1>1, PagingInductive, PTL DEF Spec, KernelKept

LEMMA StepChangesItsPage ==
    ASSUME Inv, [Next]_vars, ret'.call # "none", ret' # ret \/ mem' # mem,
           NEW p \in 0..(ENTRIES * Last - 1), _is_table_idx_implemented(p \div ENTRIES)
    PROVE  Walk(PAGE_SIZE * p)' =
              IF p = Page(ret'.vaddr) /\ ~ret'.failed THEN ret'.pte ELSE Walk(PAGE_SIZE * p)
<1>1. p \in Frames
  <2>1. ENTRIES * Last <= ENTRIES * ENTRIES /\ ENTRIES * Last \in Nat
    <3>1. ENTRIES * Last = ENTRIES * ENTRIES - ENTRIES /\ ENTRIES * Last \in Nat
      BY Sizes, Numbers
    <3> QED BY <3>1, Sizes
  <2> QED BY <2>1, Sizes DEF Frames
<1>2. Walk(PAGE_SIZE * p) = WalkPage(p) /\ Walk(PAGE_SIZE * p)' = WalkPage(p)'
  BY <1>1, WalkOfPage
<1>3. pc = "running" \/ ret.call = "none"
  BY DEF Inv, Place
<1>4. \/ \E v \in Vaddrs, paddr \in Paddrs, w \in BOOLEAN : paging_map(v, paddr, w)
      \/ \E v \in Vaddrs : paging_unmap(v)
  <2>1. ASSUME Clear \/ KeepVga \/ KeepPage \/ page_dir_automap \/ page_dir_load PROVE FALSE
    <3>1. pc # "running" /\ ret' = ret
      BY <2>1 DEF Clear, KeepVga, KeepPage, page_dir_automap, page_dir_load
    <3> QED BY <1>3, <3>1
  <2>2. ASSUME NEW v \in Vaddrs, Access(v) PROVE FALSE
    BY <2>2 DEF Access
  <2>3. ASSUME UNCHANGED vars PROVE FALSE
    BY <2>3 DEF vars
  <2> QED BY <2>1, <2>2, <2>3 DEF Next
<1>5. ASSUME NEW v \in Vaddrs, NEW paddr \in Paddrs, NEW w \in BOOLEAN,
             paging_map(v, paddr, w)
      PROVE  WalkPage(p)' = IF p = Page(ret'.vaddr) /\ ~ret'.failed THEN ret'.pte ELSE WalkPage(p)
  <2> DEFINE failed == Mapped(v, paddr, w).failed
             pte == Present(Page(paddr), w)
  <2>1. /\ pc = "running" /\ cr3' = cr3
        /\ mem' = Mapped(v, paddr, w).mem
        /\ ret'.vaddr = v /\ ret'.failed = failed /\ ret'.pte = pte
    BY <1>5 DEF paging_map, Map, Page
  <2>2. v \in Addrs /\ paddr \in Addrs /\ cr3 = Dir
    BY <2>1, CallAddrs, Numbers DEF Inv, InUse
  <2> HIDE DEF failed
  <2>3. /\ failed \in BOOLEAN
        /\ failed => \A q \in Frames :
                WalkPage(q).present \/ _is_table_idx_implemented(q \div ENTRIES) =>
                    WalkPage(q)' = WalkPage(q)
        /\ ~failed => /\ _is_table_idx_implemented(Page(v) \div ENTRIES)
                      /\ pte \in Entry
                      /\ Available(Page(paddr))
                      /\ Written(mem', v, pte)
    <3>1. failed = Mapped(v, paddr, w).failed
      BY DEF failed
    <3> QED BY <2>1, <2>2, <3>1, MapCall
  <2>4. pte.frame = Page(paddr)
    BY DEF Present
  <2> HIDE DEF pte
  <2>5. CASE failed
    <3>1. WalkPage(p)' = WalkPage(p)
      BY <1>1, <2>3, <2>5
    <3> QED BY <2>1, <2>5, <3>1
  <2>6. CASE ~failed
    <3>1. WalkPage(p)' = IF p = Page(v) THEN pte ELSE WalkPage(p)
      BY <1>1, <2>1, <2>2, <2>3, <2>4, <2>6, WrittenWalk DEF Inv
    <3> QED BY <2>1, <2>6, <3>1
  <2> QED BY <2>3, <2>5, <2>6
<1>6. ASSUME NEW v \in Vaddrs, paging_unmap(v)
      PROVE  WalkPage(p)' = IF p = Page(ret'.vaddr) /\ ~ret'.failed THEN ret'.pte ELSE WalkPage(p)
  <2>1. /\ cr3' = cr3 /\ cr3 = Dir
        /\ ret'.vaddr = v /\ ret'.failed \in BOOLEAN /\ ret'.pte = Absent
        /\ \/ /\ mem' = mem
              /\ ~ret'.failed => ~mem[Dir][Page(v) \div ENTRIES].present
           \/ /\ ~ret'.failed
              /\ _is_table_idx_implemented(Page(v) \div ENTRIES)
              /\ Written(mem', v, Absent)
    BY <1>6, UnmapCall
  <2>2. CASE /\ mem' = mem
             /\ ~ret'.failed => ~mem[Dir][Page(v) \div ENTRIES].present
    <3>1. WalkPage(p)' = WalkPage(p)
      BY <2>1, <2>2 DEF WalkPage
    <3>2. p = Page(v) /\ ~ret'.failed => WalkPage(p) = Absent
      BY <2>1, <2>2 DEF WalkPage
    <3> QED BY <2>1, <3>1, <3>2
  <2>3. CASE /\ ~ret'.failed
             /\ _is_table_idx_implemented(Page(v) \div ENTRIES)
             /\ Written(mem', v, Absent)
    <3>1. WalkPage(p)' = IF p = Page(v) THEN Absent ELSE WalkPage(p)
      <4>1. /\ v \in Addrs /\ Absent \in Entry
            /\ Absent.present => Available(Absent.frame)
        BY CallAddrs, EntryFacts
      <4>2. MemType /\ DirSound
        BY DEF Inv
      <4> QED BY <1>1, <2>1, <2>3, <4>1, <4>2, WrittenWalk
    <3> QED BY <2>1, <2>3, <3>1
  <2> QED BY <2>1, <2>2, <2>3
<1> QED BY <1>2, <1>4, <1>5, <1>6

(* A call changes the translation of its page and of no other.             *)
THEOREM PagingChangesOnlyItsPage == Spec => ChangesOnlyItsPage
<1> DEFINE Only ==
        ret'.call # "none" /\ (ret' # ret \/ mem' # mem) =>
            \A p \in {q \in 0..(ENTRIES * Last - 1) : _is_table_idx_implemented(q \div ENTRIES)} :
                Walk(PAGE_SIZE * p)' =
                    IF p = Page(ret'.vaddr) /\ ~ret'.failed THEN ret'.pte
                    ELSE Walk(PAGE_SIZE * p)
<1>1. Inv /\ [Next]_vars => [Only]_vars
  BY StepChangesItsPage
<1>2. [][Only]_vars <=> ChangesOnlyItsPage
  BY DEF ChangesOnlyItsPage
<1> HIDE DEF Only
<1> QED BY <1>1, <1>2, PagingInductive, PTL DEF Spec
=============================================================================
