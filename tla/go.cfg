SPECIFICATION Spec
CONSTANTS
    Event = {e1, e2, e3}
    Valid = {e1, e2, e3}
    Worker = {w1, w2}
    Handler = {h1}
    QueueCap = 2
    Threshold = 2
    MaxBatch = 2
SYMMETRY EngineSymmetry
INVARIANTS
    TypeOK
    PanicOnlyAfterTimeout
    ReplyIsTrue
    ExitLosesOnlyOverflow
PROPERTIES
    ImplementsLedger
CHECK_DEADLOCK FALSE
