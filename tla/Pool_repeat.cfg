SPECIFICATION PoolSpec
CONSTANTS
    a1 = a1
    a2 = a2
    t1 = t1
    t2 = t2
    x1 = x1
    Nobody = Nobody
    Agent <- OneAgent
    Thread <- OneThread
    Text <- OneText
    MaxLayers <- One
    Quiet <- NoAgent
    LeasesEnd = FALSE
    MaxRevision = 0
    MaxBatches = 1
    MaxResident = 1
    Durable = TRUE
    FlushEvery = 0
    StoreFails = TRUE
    PoolInBatch = FALSE
INVARIANTS ToldIsDurable
