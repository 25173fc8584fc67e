SPECIFICATION CatchupSpec
CONSTANTS
    h1 = h1  r1 = r1
    a = a  b = b
    NoHandle = NoHandle
    Handle <- OneHandle
    Reader <- OneReader
    Record <- TwoPuts
    Kills <- NoKills
    CompactAt = 2
    KeepEpochs = 1
    EarlyWakes = FALSE
    OverlappingGc = FALSE
    Rewrites = FALSE
    MaxEpoch = 2
    MaxSeq = 1
INVARIANTS ReaderTypeOK
PROPERTIES VisibleAtNextRefresh Converges
CHECK_DEADLOCK FALSE
