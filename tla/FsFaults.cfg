\* All calls when any read may fail, with descriptors that share an entry.
CONSTANTS
    NULL = NULL
    IPOOL_SIZE = 3
    NUM_ENTRIES = 2
    FD_TABLE_NUM_ENTRIES = 2
    InoNums = {1, 2, 3, 4, 5}
    NumInodes = 5
    s_imap_blocks = 1
    s_zmap_blocks = 1
    BLOCK_SIZE = 2
    BYTE = 2
    INODES_PER_BLOCK = 4
    UINT_MOD = 16
    FaultyReads = TRUE
    ROOT = 1
    Tree <- TinyTree
    Paths <- FewCreatPaths
    Calls = {"open", "creat", "close", "write", "dup"}
    MaxCount = 1
    Capacity = 0
SPECIFICATION Spec
INVARIANTS
    RefCount
    EntryCount
