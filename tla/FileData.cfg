\* Reads and writes through all levels of tables, holes and bad blocks.
CONSTANTS
    BLOCK_SIZE = 2
    BLKADDRS_PER_BLOCK = 2
    NUM_DIR_BLKS = 1
    NumBlocks = 15
    FirstContents <- Disk
    Bad = {5, 7}
    Files <- LongShort
    Fds = {1, 2}
    Opened <- TwoOrOne
    Counts = {3}
    Data <- Letters
    Garbage <- Other
    TooMany = 2
    MaxByte = 40
    MaxOffset = 14
SPECIFICATION FairSpec
INVARIANT TypeOK
PROPERTIES
    ImplementsByteFile
    OnlyOwnData
    CallsReturn
