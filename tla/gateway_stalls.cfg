SPECIFICATION FairSpec
CONSTANTS
    WorkerCounts <- Two
    Capacities <- Five
    Thresholds <- Two
    Bursts <- Five
    Chunk = 1
    Share = 2
    PerToken = 5
    Sample = 1
    Keep = 1
    SpreadLimit = 5
    MaxEvents = 5
    MaxBatch = 5
    MaxRefused = 1
    MaxTimers = 1
PROPERTIES
    QueueIsProcessed
