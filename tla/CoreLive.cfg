CONSTANTS
    p1 = p1
    p2 = p2
    p3 = p3
    o1 = o1
    d1 = d1
    d2 = d2
    DEPTH_SPEC = 2
    DEPTH_COMMIT = 2
    NR_SB_ENTRIES = 4
    NR_COMMIT_PORTS = 2
    LEVELS = 1
    TLB_ENTRIES = 1
    Page = {p1, p2}
    Offset = {o1}
    Data = {d1}
    Cacheable = {p1}
    NonIdempotent = {p2}
    Unmapped = {}
    Forbidden = {}
    Translate = TRUE
    FetchMisses = FALSE
    SingleStep = FALSE
    Instr <- LiveInstr
SPECIFICATION LiveSpec
PROPERTY EveryInstructionLeaves
