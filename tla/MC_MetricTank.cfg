CONSTANTS
    k1 = k1
    k2 = k2
    Keys = {k1}
    KeyHash <- MCKeyHash
    Ingesters = {i1}
    Ts = {2, 3, 4, 6}
    ChunkSpan = 2
    NumChunks = 2
    ChunkMaxStale = 1
    MetricMaxStale = 2
    WriteConcurrency = 1
    WriteQueueSize = 2
    StartTime = 4
    MaxTime = 8
    MaxMetrics = 3
    MaxFailures = 1
    StoreTTLs = {3600, 86400}
    KeyTTL <- MCKeyTTL
    Readers = {q1}

SPECIFICATION Spec
INVARIANT TypeOK
INVARIANT SaveWatermarkSound
PROPERTY PersistenceRefined
 
