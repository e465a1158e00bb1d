\* Printing, erasing, killing and clearing, with a line that does not fit.
CONSTANTS
    Keys = {"u", "l", "enter", "backspace", "lctrl"}
    IBUF_SIZE = 2
    BUF_LEN = 1
    VGA_NUM_COLS = 2
    VGA_NUM_ROWS = 2
    UINT8_MOD = 5
SPECIFICATION FairSpec
INVARIANTS
    TypeOK
    CursorOnScreen
PROPERTIES
    NothingLost
    LineKept
    LineReturned
    ClearReturns
