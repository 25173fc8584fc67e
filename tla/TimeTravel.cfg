SPECIFICATION TravelSpec
CONSTANTS
    f = f  g = g  t1 = t1
    Agent <- TwoAgents
    Fragment <- TwoFragments
    Name <- OneName
    Me = 1
    KeepEpochs = 1
    GcFails = TRUE
    MaxTime = 1
    MaxEpoch = 2
    MaxSeq = 2
    MaxFlushes = 3
    MaxCompactions = 1
SYMMETRY FragmentSymmetry
INVARIANTS  ChainIsGreedy MergeIsUnion PastIsReal  
CHECK_DEADLOCK FALSE
