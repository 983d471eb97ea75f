SPECIFICATION FairStorageSpec
CONSTANTS
    Event = {e1, e2}
    Threshold <- MCThreshold
    BufferSize <- MCBufferSize
    MaxEvents <- MCMaxEvents
PROPERTIES
    StopReturns
CHECK_DEADLOCK FALSE
