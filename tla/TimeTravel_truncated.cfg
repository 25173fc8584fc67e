SPECIFICATION TravelSpec
CONSTANTS
    f = f  g = g  t1 = t1
    Agent <- OneAgent
    Fragment <- TwoFragments
    Name <- OneName
    Me = 1
    KeepEpochs = 1
    GcFails = FALSE
    MaxTime = 0
    MaxEpoch = 1
    MaxSeq = 3
    MaxFlushes = 4
    MaxCompactions = 2
SYMMETRY FragmentSymmetry
INVARIANTS CheckpointReplays
CHECK_DEADLOCK FALSE
