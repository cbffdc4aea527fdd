CONSTANTS
    Page = {p1, p2}
    Unmapped = {p2}
    LEVELS = 3
    TLB_ENTRIES = 1
    FLUSH_GAP = 4
    FlushInWait = TRUE
SPECIFICATION Spec
INVARIANTS IdleWalkerOwesNothing
