SPECIFICATION Spec
CONSTANTS
    Event = {e1, e2, e3}
    Worker = {w1, w2}
    Handler = {h1, h2}
    QueueCap = 2
    MaxBatch = 2
    MaxStats = 1
SYMMETRY PoolSymmetry
INVARIANTS
    TypeOK
    NothingStranded
    NothingDuplicated
    ShutdownDrains
    AnswerIsTruth
    CountersAddUp
CHECK_DEADLOCK FALSE
