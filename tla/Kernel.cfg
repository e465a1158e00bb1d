\* A device of higher priority than the keyboard, three at the slave, of which
\* one is never enabled and one has no handler; the slave is at line 2.
CONSTANTS
    IDT_NUM_GATES_MAX = 48
    Devices = {0, 9, 10, 12}
    Enabled = {0, 2, 9, 10}
    MaxInits = 2
SPECIFICATION FairSpec
CHECK_DEADLOCK FALSE
INVARIANTS
    ReadyForInterrupts
    InServiceUnhandled
PROPERTY
    KeyRead
