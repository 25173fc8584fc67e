SPECIFICATION Spec
CONSTANTS
    h1 = h1  h2 = h2
    a = a  x = x
    NoHandle = NoHandle
    Handle <- TwoHandles
    Record <- PutsAndForget
    Kills <- MCKills
    CompactAt = 2
    KeepEpochs = 1
    EarlyWakes = FALSE
    OverlappingGc = TRUE
    MaxEpoch = 2
    MaxSeq = 1
SYMMETRY HandleSymmetry
PROPERTIES HolesAreUnacked
CHECK_DEADLOCK FALSE
