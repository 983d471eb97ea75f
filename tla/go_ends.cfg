SPECIFICATION FairSpec
CONSTANTS
    Event = {e1, e2}
    Valid = {e1}
    Worker = {w1}
    Handler = {h1}
    QueueCap = 2
    Threshold = 2
    MaxBatch = 2
PROPERTIES
    SignalEnds
    QueuedIsForwarded
CHECK_DEADLOCK FALSE
