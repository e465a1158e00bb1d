\* Five entries to a table: the low table has index 0, the kernel's 3.  The
\* kernel is text, directory, two tables and a last page; the callers map
\* the first page, a page of a table that is not implemented (by an address that
\* is not aligned, too) and the last page of the kernel.
CONSTANTS
    PAGE_SIZE = 8
    UNIT = 2
    ENTRIES = 5
    KERNEL_TABLE = 3
    NUM_PAGE_TABLES = 2
    PADDR_MAX = 119
    VGA = 16
    KERNEL_START = 120
    KERNEL_END = 152
    PageDir = 128
    PageTables = 136
    BootDir = 8
    BootTable = 9
    BootFrame = 3
    Vaddrs = {0, 40, 41, 152}
    Paddrs = {112, 120, 194}
SPECIFICATION Spec
INVARIANTS
    TypeOK
    TlbFresh
    Vaddr2PaddrAgrees
    SoundEntries
PROPERTIES
    KernelKept
    ChangesOnlyItsPage
