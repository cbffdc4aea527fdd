CONSTANTS
    DEPTH_SPEC = 2
    DEPTH_COMMIT = 2
    Page = {p1}
    Offset = {o1, o2}
    Data = {d1}
SPECIFICATION SUSpec
INVARIANTS TypeOK RingsConsistent SecondStageHasRoom
PROPERTY ImplementsStoreQueue
