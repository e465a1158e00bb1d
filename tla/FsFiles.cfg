\* Calls on every kind of path, without faults: fs_creat() of files that exist
\* and of new ones.
CONSTANTS
    NULL = NULL
    IPOOL_SIZE = 4
    NUM_ENTRIES = 2
    FD_TABLE_NUM_ENTRIES = 2
    InoNums = {1, 2, 3, 4, 5, 6}
    NumInodes = 6
    s_imap_blocks = 1
    s_zmap_blocks = 1
    BLOCK_SIZE = 2
    BYTE = 2
    INODES_PER_BLOCK = 4
    UINT_MOD = 16
    FaultyReads = FALSE
    ROOT = 1
    Tree <- SmallTree
    Paths <- MixedPaths
    Calls = {"open", "creat", "close"}
    MaxCount = 1
    Capacity = 2
SPECIFICATION Spec
INVARIANT
    AssertHolds
PROPERTY
    ImplementsOpenFiles
