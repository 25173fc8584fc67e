SPECIFICATION Spec
CONSTANTS
    h1 = h1  h2 = h2
    a = a  x = x
    NoHandle = NoHandle
    Handle <- TwoHandles
    Record <- PutsAndForget
    Kills <- MCKills
    CompactAt = 2
    KeepEpochs = 1
    EarlyWakes = TRUE
    OverlappingGc = FALSE
    MaxEpoch = 2
    MaxSeq = 1
SYMMETRY HandleSymmetry
INVARIANTS AckedSurvives
CHECK_DEADLOCK FALSE
