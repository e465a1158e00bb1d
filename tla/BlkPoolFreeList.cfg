\* The free list after a read of a file hole.
CONSTANTS
    NULL = NULL
    ANY = ANY
    POOL_SIZE = 3
    Blocks = {0, 1, 2, 3}
    Data = {0, 1}
    Zero = 0
    BadBlocks = {3}
    MaxHeld = 1
SPECIFICATION SpecAny
INVARIANT
    FreeIffUnlocked
