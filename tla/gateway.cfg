SPECIFICATION FairSpec
CONSTANTS
    WorkerCounts <- MCWorkerCounts
    Capacities <- MCCapacities
    Thresholds <- MCThresholds
    Bursts <- MCBursts
    Chunk = 1
    Share = 1
    PerToken = 1
    Sample = 1
    Keep = 2
    SpreadLimit = 2
    MaxEvents = 3
    MaxBatch = 2
    MaxRefused = 1
    MaxTimers = 2
INVARIANTS
    TypeOK
    NothingLostOrReordered
    MetricsAddUp
    ShutdownIsTimed
PROPERTIES
    BufferedIsFlushed
    ProcessedUnlessStalled
