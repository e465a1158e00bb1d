\* Two buffers, which may all be held, and four blocks, one of them the boot
\* block, one on a bad sector.
CONSTANTS
    NULL = NULL
    ANY = ANY
    POOL_SIZE = 2
    Blocks = {0, 1, 2, 3}
    Data = {0, 1}
    Zero = 0
    BadBlocks = {3}
    MaxHeld = 3
SPECIFICATION Spec
INVARIANTS
    TypeOK
    FreeIffUnlocked
    HandlesExclusive
    OneBufferPerBlock
    CacheCoherent
    WaitsOnlyForHolders
PROPERTY
    ImplementsBlockStore
