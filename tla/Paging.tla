------------------------------- MODULE Paging -------------------------------
(***************************************************************************)
(* The page directory and the page tables of the kernel: mm/paging.c,      *)
(* mm/page_dir.c and mm/page_tables.c, from paging_init(), which takes     *)
(* over the mapping of the boot loader, to later calls of paging_map() and *)
(* paging_unmap().                                                         *)
(*                                                                         *)
(* mem has the frames that serve as directory or table, those of the boot  *)
(* loader included, and frame 0, which a directory entry for a table that  *)
(* is not implemented points at.  The code writes to its own through the   *)
(* mapping that the processor uses, and so does the model.  Addresses are  *)
(* numbers that wrap at ADDRS.  Access is the processor, which fills its   *)
(* TLB.                                                                    *)
(***************************************************************************)
EXTENDS Integers, Functions

CONSTANTS
    PAGE_SIZE,      \* 4096 in the code
    UNIT,           \* what _is_addr_page_aligned() takes for a page, 1024
    ENTRIES,        \* of a directory or table, 1024
    KERNEL_TABLE,   \* the directory entry of the kernel, 768
    NUM_PAGE_TABLES,
    PADDR_MAX,      \* the last usable physical address
    VGA,            \* address of the video memory
    KERNEL_START, KERNEL_END,
    PageDir,        \* virtual address of the directory (_ of page_dir.c)
    PageTables,     \* virtual address of the tables (_ of page_tables.c)
    BootDir, BootTable,     \* frames of the boot loader's directory and table
    BootFrame,      \* the frame that the boot loader gives the first page
    Vaddrs, Paddrs  \* the addresses of later calls

VARIABLES
    mem,            \* the frames that are directories or tables
    cr3,            \* the frame of the directory in use
    tlb,            \* translations that the processor has cached
    pc,             \* the place in paging_init(), then "running"
    n,              \* page_num of _keep_config()
    ret             \* the last call and whether it failed

vars == <<mem, cr3, tlb, pc, n, ret>>

ADDRS == PAGE_SIZE * ENTRIES * ENTRIES
Indices == 0..(ENTRIES - 1)
Last == ENTRIES - 1

Absent == [present |-> FALSE, write |-> FALSE, frame |-> 0]
Present(frame, write) == [present |-> TRUE, write |-> write, frame |-> frame]

Page(vaddr) == vaddr \div PAGE_SIZE

KernelPages == Page(KERNEL_START)..Page(KERNEL_END)

(* The pages that hold the directory and the tables.                       *)
OwnPages == {Page(PageDir)} \cup
            {Page(PageTables) + k : k \in 0..(NUM_PAGE_TABLES - 1)}

FrameOfBoot(page) == BootFrame + page - Page(KERNEL_START)

TableFrames == {0, BootDir, BootTable} \cup {FrameOfBoot(p) : p \in OwnPages}

(* The kernel lies within its table, and the video memory does not; callers *)
(* leave alone the pages in which directory and tables are.                *)
ASSUME PagingAssumption ==
    /\ {PAGE_SIZE, ENTRIES, NUM_PAGE_TABLES} \subseteq Nat \ {0}
    /\ UNIT \in 2..PAGE_SIZE /\ PAGE_SIZE % UNIT = 0
    /\ PADDR_MAX \in Nat
    /\ KERNEL_TABLE \in NUM_PAGE_TABLES..(Last - 1)
    /\ {VGA, KERNEL_START, KERNEL_END, PageDir, PageTables} \cup Vaddrs \cup Paddrs
            \subseteq 0..(ADDRS - 1)
    /\ \A p \in KernelPages : p \div ENTRIES = KERNEL_TABLE
    /\ VGA \div (PAGE_SIZE * ENTRIES) # KERNEL_TABLE
    /\ OwnPages \subseteq KernelPages
    /\ Page(PageDir) \notin {Page(PageTables) + k : k \in 0..(NUM_PAGE_TABLES - 1)}
    /\ {Page(v) : v \in Vaddrs} \cap OwnPages = {}
    /\ PageDir % PAGE_SIZE = 0 /\ PageTables % PAGE_SIZE = 0
    /\ BootFrame \in Nat /\ BootDir # BootTable
    /\ {BootDir, BootTable} \cup {FrameOfBoot(p) : p \in KernelPages}
            \subseteq 1..(ENTRIES * ENTRIES - 1)
    /\ {BootDir, BootTable} \cap {FrameOfBoot(p) : p \in KernelPages} = {}

-----------------------------------------------------------------------------
(* Addresses                                                               *)

_is_addr_page_aligned(addr) == addr % UNIT = 0

_vaddr2pd_idx(vaddr) == vaddr \div (PAGE_SIZE * ENTRIES)

_vaddr2pt_idx(vaddr) == Page(vaddr) % ENTRIES

(* What the processor finds for an address.                                *)
Walk(vaddr) ==
    LET pde == mem[cr3][_vaddr2pd_idx(vaddr)]
    IN  IF pde.present THEN mem[pde.frame][_vaddr2pt_idx(vaddr)] ELSE Absent

(* The frame in which the code reads or writes at an address.              *)
At(vaddr) == Walk(vaddr).frame

(* The address of a page table, by its index, in the last 4 MiB: the last  *)
(* entry of the directory makes the directory serve as a table.            *)
Self(pd_idx) == PAGE_SIZE * (ENTRIES * Last + pd_idx)

(* Faulty variant of paging_vaddr2paddr: the code's own directory is read  *)
(* and not the one in use.                                                 *)
paging_vaddr2paddr_own(vaddr) ==
    LET pde == mem[At(PageDir)][_vaddr2pd_idx(vaddr)]
        pte == mem[At(Self(_vaddr2pd_idx(vaddr)))][_vaddr2pt_idx(vaddr)]
    IN  IF pde.present /\ pte.present
        THEN PAGE_SIZE * pte.frame + (vaddr % PAGE_SIZE)
        ELSE 0

paging_vaddr2paddr(vaddr) ==
    LET pd_idx == _vaddr2pd_idx(vaddr)
        pte == mem[At(Self(pd_idx))][_vaddr2pt_idx(vaddr)]
    IN  IF mem[At(Self(Last))][pd_idx].present /\ pte.present
        THEN PAGE_SIZE * pte.frame + (vaddr % PAGE_SIZE)
        ELSE 0

-----------------------------------------------------------------------------
(* mm/page_tables.c and mm/page_dir.c                                      *)

_is_table_idx_implemented(idx) == idx < NUM_PAGE_TABLES - 1 \/ idx = KERNEL_TABLE

(* Faulty variant of _table_idx2array_idx: all tables are one.             *)
_table_idx2array_idx_one(idx) == NUM_PAGE_TABLES - 1

_table_idx2array_idx(idx) ==
    IF idx < NUM_PAGE_TABLES - 1 THEN idx ELSE NUM_PAGE_TABLES - 1

TableVaddr(idx) == PageTables + PAGE_SIZE * _table_idx2array_idx(idx)

(* Faulty variant of page_tables_get_vaddr: the kernel's table serves for  *)
(* every index that has none.                                              *)
page_tables_get_vaddr_shared(idx) == TableVaddr(idx)

(* 1, and never 0, if there is no such table.                              *)
page_tables_get_vaddr(idx) == IF _is_table_idx_implemented(idx) THEN TableVaddr(idx) ELSE 1

(* The memory after page_tables_set_entry() or page_tables_clear_entry().  *)
SetTableEntry(m, vaddr, pte) ==
    [m EXCEPT ![At(TableVaddr(_vaddr2pd_idx(vaddr)))][_vaddr2pt_idx(vaddr)] = pte]

(* The memory after page_dir_set_entry().                                  *)
page_dir_set_entry(idx, paddr) ==
    [mem EXCEPT ![At(PageDir)][idx] = Present(paddr \div PAGE_SIZE, TRUE)]

page_dir_entry_is_present(idx) == mem[At(PageDir)][idx].present

-----------------------------------------------------------------------------
(* mm/paging.c                                                             *)

OutOfRange(paddr) == (paddr + PAGE_SIZE - 1) % ADDRS > PADDR_MAX

(* What paging_map() does: whether it fails, and the memory after it.      *)
Mapped(vaddr, paddr, writable) ==
    LET idx      == _vaddr2pd_idx(vaddr)
        new      == ~page_dir_entry_is_present(idx)
        pt_paddr == paging_vaddr2paddr(page_tables_get_vaddr(idx))
        m        == IF new THEN page_dir_set_entry(idx, pt_paddr) ELSE mem
    IN  IF \/ ~_is_addr_page_aligned(vaddr) \/ ~_is_addr_page_aligned(paddr)
           \/ OutOfRange(paddr)
           \/ new /\ ~_is_addr_page_aligned(pt_paddr)
        THEN [failed |-> TRUE, mem |-> mem]
        ELSE IF ~_is_table_idx_implemented(idx)
        THEN [failed |-> TRUE, mem |-> m]
        ELSE [failed |-> FALSE,
              mem |-> SetTableEntry(m, vaddr, Present(paddr \div PAGE_SIZE, writable))]

NoTranslations == [p \in {} |-> Absent]

(* A call of paging_map(); a call that succeeds empties the TLB.           *)
Map(vaddr, paddr, writable) ==
    /\ mem' = Mapped(vaddr, paddr, writable).mem
    /\ tlb' = IF Mapped(vaddr, paddr, writable).failed THEN tlb ELSE NoTranslations

paging_map(vaddr, paddr, writable) ==
    /\ pc = "running"
    /\ Map(vaddr, paddr, writable)
    /\ ret' = [call |-> "map", vaddr |-> vaddr, failed |-> Mapped(vaddr, paddr, writable).failed,
               pte |-> Present(paddr \div PAGE_SIZE, writable)]
    /\ UNCHANGED <<cr3, pc, n>>

(* Faulty variant of paging_unmap: the TLB is kept.                        *)
paging_unmap_cached(vaddr) ==
    /\ pc = "running" /\ _is_table_idx_implemented(_vaddr2pd_idx(vaddr))
    /\ mem' = SetTableEntry(mem, vaddr, Absent)
    /\ ret' = [call |-> "unmap", vaddr |-> vaddr, failed |-> FALSE, pte |-> Absent]
    /\ UNCHANGED <<cr3, pc, n, tlb>>

paging_unmap(vaddr) ==
    LET idx     == _vaddr2pd_idx(vaddr)
        refused == ~_is_addr_page_aligned(vaddr)
        present == page_dir_entry_is_present(idx)
        failed  == refused \/ (present /\ ~_is_table_idx_implemented(idx))
        clears  == present /\ ~failed
    IN  /\ pc = "running"
        /\ mem' = IF clears THEN SetTableEntry(mem, vaddr, Absent) ELSE mem
        /\ tlb' = IF clears THEN NoTranslations ELSE tlb
        /\ ret' = [call |-> "unmap", vaddr |-> vaddr, failed |-> failed, pte |-> Absent]
        /\ UNCHANGED <<cr3, pc, n>>

(* paging_init() begins: directory and tables are cleared.                 *)
Clear ==
    /\ pc = "init" /\ pc' = "vga"
    /\ mem' = [f \in DOMAIN mem |->
                  IF f \in {At(PAGE_SIZE * p) : p \in OwnPages}
                  THEN [k \in Indices |-> Absent] ELSE mem[f]]
    /\ UNCHANGED <<cr3, tlb, n, ret>>

(* _keep_config() maps the video memory, whether it can or not.            *)
KeepVga ==
    /\ pc = "vga" /\ pc' = "keep"
    /\ Map(VGA, VGA, TRUE)
    /\ n' = Page(KERNEL_START)
    /\ UNCHANGED <<cr3, ret>>

(* Faulty variant of _is_page_writable: it looks at the directory.         *)
_is_page_writable_dir(page) == mem[At(Self(Last))][page \div ENTRIES].write

_is_page_writable(page) == mem[At(Self(page \div ENTRIES))][page % ENTRIES].write

(* A turn of the loop of _keep_config(), and its end.                      *)
KeepPage ==
    LET paddr == paging_vaddr2paddr(PAGE_SIZE * n)
        writable == _is_page_writable(n)
        kept == Mapped(PAGE_SIZE * n, paddr, writable)
    IN  /\ pc = "keep"
        /\ IF n > Page(KERNEL_END)
           THEN pc' = "automap" /\ UNCHANGED <<mem, tlb, n>>
           ELSE IF paddr = 0
           THEN n' = n + 1 /\ UNCHANGED <<mem, tlb, pc>>
           ELSE /\ Map(PAGE_SIZE * n, paddr, writable)
                /\ pc' = IF kept.failed THEN "failed" ELSE "keep"
                /\ n' = IF kept.failed THEN n ELSE n + 1
        /\ UNCHANGED <<cr3, ret>>

page_dir_automap ==
    /\ pc = "automap" /\ pc' = "load"
    /\ mem' = page_dir_set_entry(Last, paging_vaddr2paddr(PageDir))
    /\ UNCHANGED <<cr3, tlb, n, ret>>

(* Faulty variant of page_dir_load: the virtual address is loaded.         *)
page_dir_load_virtual ==
    /\ pc = "load" /\ pc' = "running"
    /\ cr3' = Page(PageDir)
    /\ tlb' = NoTranslations
    /\ UNCHANGED <<mem, n, ret>>

page_dir_load ==
    /\ pc = "load" /\ pc' = "running"
    /\ cr3' = Page(paging_vaddr2paddr(PageDir))
    /\ tlb' = NoTranslations
    /\ UNCHANGED <<mem, n, ret>>

(* The processor translates an address and keeps the result.               *)
Access(vaddr) ==
    /\ Walk(vaddr).present
    /\ Page(vaddr) \notin DOMAIN tlb
    /\ tlb' = [p \in DOMAIN tlb \cup {Page(vaddr)} |->
                  IF p \in DOMAIN tlb THEN tlb[p] ELSE Walk(vaddr)]
    /\ UNCHANGED <<mem, cr3, pc, n, ret>>

-----------------------------------------------------------------------------
(* The boot loader has mapped the pages of the kernel one after the other, *)
(* writable or not, those of directory and tables writable; it may have    *)
(* left others out; the last entry of its directory is the directory.      *)
(* What the BIOS left in frame 0 may look like entries that are present.   *)
BootMaps ==
    {m \in [KernelPages -> {"none", "read", "write"}] : \A p \in OwnPages : m[p] = "write"}

BootEntry(m, page) ==
    IF page \notin KernelPages \/ m[page] = "none" THEN Absent
    ELSE Present(FrameOfBoot(page), m[page] = "write")

Init ==
    /\ \E m \in BootMaps, low \in {Absent, Present(0, TRUE)} :
        mem = [f \in TableFrames |-> [k \in Indices |->
                  CASE f = 0 -> low
                    [] f = BootDir /\ k = KERNEL_TABLE -> Present(BootTable, TRUE)
                    [] f = BootDir /\ k = Last -> Present(BootDir, TRUE)
                    [] f = BootTable -> BootEntry(m, ENTRIES * KERNEL_TABLE + k)
                    [] OTHER -> Absent]]
    /\ cr3 = BootDir
    /\ tlb = NoTranslations
    /\ pc = "init"
    /\ n = 0
    /\ ret = [call |-> "none"]

Next ==
    \/ Clear \/ KeepVga \/ KeepPage \/ page_dir_automap \/ page_dir_load
    \/ \E vaddr \in Vaddrs :
        \/ \E paddr \in Paddrs, writable \in BOOLEAN : paging_map(vaddr, paddr, writable)
        \/ paging_unmap(vaddr)
        \/ Access(vaddr)

Spec == Init /\ [][Next]_vars
-----------------------------------------------------------------------------
(* Properties                                                              *)

Frames == 0..(ENTRIES * ENTRIES - 1)
Entry == {Absent} \cup {Present(f, w) : f \in Frames, w \in BOOLEAN}

(* The types of the variables; the processor's directory is one.           *)
TypeOK ==
    /\ cr3 \in TableFrames
    /\ DOMAIN mem = TableFrames
    /\ \A f \in TableFrames : mem[f] \in [Indices -> Entry]
    /\ \A p \in DOMAIN tlb : tlb[p] \in Entry
    /\ pc \in {"init", "vga", "keep", "automap", "load", "running", "failed"}
    /\ n \in Frames \cup {ENTRIES * ENTRIES}

(* What the processor has cached is what the tables say: every change that *)
(* takes something away is followed by _reset_mmu_cache() (paging.c:206,   *)
(* :248) or by the load of the new directory.                              *)
TlbFresh == \A p \in DOMAIN tlb : tlb[p] = Walk(PAGE_SIZE * p)

(* The switch of the directory changes nothing for the running kernel: a   *)
(* page that the boot loader mapped has the same frame, and is writable if *)
(* it was (paging.c:111-129).                                              *)
KernelKept ==
    [][cr3' # cr3 =>
        \A p \in KernelPages : Walk(PAGE_SIZE * p)' = Walk(PAGE_SIZE * p)]_vars

(* paging_vaddr2paddr() returns what the processor would use, for every    *)
(* address, those of the tables included (paging.c:256-277).               *)
Vaddr2PaddrAgrees ==
    \A vaddr \in {PAGE_SIZE * f + k : f \in Frames, k \in {0, 1}} :
        paging_vaddr2paddr(vaddr) =
            IF Walk(vaddr).present THEN PAGE_SIZE * Walk(vaddr).frame + (vaddr % PAGE_SIZE)
            ELSE 0

(* paging_map() and paging_unmap() change the translation of the page they *)
(* are given and of no other, and change none if they fail, whatever other *)
(* tables share the array (paging.c:186-251, page_tables.c:48-55).  This   *)
(* is for the pages that have a table; of the others see SoundEntries.     *)
ChangesOnlyItsPage ==
    [][ret'.call # "none" /\ (ret' # ret \/ mem' # mem) =>
        \A p \in {q \in 0..(ENTRIES * Last - 1) : _is_table_idx_implemented(q \div ENTRIES)} :
            Walk(PAGE_SIZE * p)' =
                IF p = Page(ret'.vaddr) /\ ~ret'.failed THEN ret'.pte ELSE Walk(PAGE_SIZE * p)]_vars

(* A present entry of the code's directory points at the table of its      *)
(* index.  If none is implemented, paging_vaddr2paddr() of the address 1   *)
(* is 0 (paging.c:234-241), so that the entry points at frame 0: that is   *)
(* all a failed paging_map() may leave behind, and it leaves nothing if    *)
(* page 0 is mapped.                                                       *)
PointsAtTables ==
    \A k \in Indices \ {Last} :
        LET pde == mem[FrameOfBoot(Page(PageDir))][k]
        IN  pde.present =>
                pde.frame = IF _is_table_idx_implemented(k)
                            THEN FrameOfBoot(Page(TableVaddr(k))) ELSE 0

(* paging.c:218, "out of for-use-available physical memory": the code's    *)
(* tables map only what is available, except the last frame of all: for an *)
(* address within it that _is_addr_page_aligned() lets through, the sum    *)
(* that is compared with PADDR_MAX has wrapped.                            *)
MapsAvailable ==
    \A k \in 0..(NUM_PAGE_TABLES - 1), i \in Indices :
        LET pte == mem[FrameOfBoot(Page(PageTables) + k)][i]
        IN  pte.present =>
                \/ PAGE_SIZE * (pte.frame + 1) - 1 <= PADDR_MAX
                \/ pte.frame = ENTRIES * ENTRIES - 1

(* The entries that the code sets in its directory and tables, from        *)
(* paging_init() on, point at what they may (paging.c:211-251).            *)
SoundEntries == PointsAtTables /\ MapsAvailable
=============================================================================
