SPECIFICATION PoolSpec
CONSTANTS
    a1 = a1
    a2 = a2
    t1 = t1
    t2 = t2
    x1 = x1
    Nobody = Nobody
    Agent <- TwoAgents
    Thread <- TwoThreads
    Text <- OneText
    MaxLayers <- TwoForOne
    Quiet <- OneAgent
    LeasesEnd = TRUE
    MaxRevision = 0
    MaxBatches = 1
    MaxResident = 1
    Durable = FALSE
    FlushEvery = 1
    StoreFails = TRUE
    PoolInBatch = FALSE
INVARIANTS PoolTypeOK ClaimsAreResident
PROPERTIES StagedReachesLane CallsReturn
