SPECIFICATION FairStorageSpec
CONSTANTS
    Event = {e1, e2}
    Threshold <- MCThreshold
    BufferSize <- MCBufferSize
    MaxEvents <- MCMaxEvents
INVARIANTS
    TypeOK
    OrderPreserved
    BatchBound
    CountersSettle
    LoopEndLeavesNothing
    CountedIsStored
PROPERTIES
    ImplementsConveyor
    EventuallyDispatched
    StopEndsOrWedges
CHECK_DEADLOCK FALSE
