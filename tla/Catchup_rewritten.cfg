SPECIFICATION CatchupSpec
CONSTANTS
    h1 = h1  r1 = r1
    a = a  b = b
    NoHandle = NoHandle
    Handle <- OneHandle
    Reader <- OneReader
    Record <- TwoPuts
    Kills <- NoKills
    CompactAt = 2
    KeepEpochs = 1
    EarlyWakes = FALSE
    OverlappingGc = FALSE
    Rewrites = TRUE
    MaxEpoch = 1
    MaxSeq = 1
PROPERTIES Converges
CHECK_DEADLOCK FALSE
