\* fs_open() and fs_close() when any read may fail and inodes run out.
CONSTANTS
    NULL = NULL
    IPOOL_SIZE = 3
    NUM_ENTRIES = 2
    FD_TABLE_NUM_ENTRIES = 2
    InoNums = {1, 2, 3, 4, 5, 6}
    NumInodes = 6
    s_imap_blocks = 1
    s_zmap_blocks = 1
    BLOCK_SIZE = 2
    BYTE = 2
    INODES_PER_BLOCK = 4
    UINT_MOD = 16
    FaultyReads = TRUE
    ROOT = 1
    Tree <- SmallTree
    Paths <- FaultPaths
    Calls = {"open", "close"}
    MaxCount = 4
    Capacity = 0
SPECIFICATION FairSpec
INVARIANTS
    TypeOK
    RefCount
    FreeIffCountZero
    EntryCount
    UnlockedWhenIdle
    ValidIsActual
PROPERTY
    EveryCallReturns
