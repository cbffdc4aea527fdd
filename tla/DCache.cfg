CONSTANTS
    Line = {l1, l2}
    Byte = {0, 1}
    Way = {0, 1}
    DEPTH = 2
    MAX_TX = 2
    Uncached = {}
    StoreBytes = {{0}, {1}}
    MAX_OPS = 3
SPECIFICATION Spec
SYMMETRY Symmetry
INVARIANTS DCacheTypeOK ReadsReturnLastStore CheckedEntryKnowsItsWays LineInOneWay
INVARIANTS LastStoreSurvives AtomicSeesAllStores
