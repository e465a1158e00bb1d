\* Frees of any page, of the frames and around them.
CONSTANTS
    ADDRS = 128
    PAGE_SIZE = 8
    PADDR_MIN = 16
    LEN = 3
    WORD = 3
    UNIT = 2
    Freed <- Pages
SPECIFICATION Spec
INVARIANT
    UsedIffOwned
PROPERTIES
    AllocFresh
    DeallocOwned
