\* What the screen shows while the program waits.
CONSTANTS
    Keys = {"a", "l", "enter", "backspace", "lctrl"}
    IBUF_SIZE = 2
    BUF_LEN = 2
    VGA_NUM_COLS = 2
    VGA_NUM_ROWS = 2
    UINT8_MOD = 5
SPECIFICATION Spec
INVARIANT
    ScreenShowsInput
