SPECIFICATION Spec
CONSTANTS
    h1 = h1  h2 = h2  h3 = h3
    s1 = s1  s2 = s2
    NoSession = NoSession
    Handle <- MCHandle
    Session <- MCSession
    SessionOf <- LaneSessionOf
    TTL = 2
    MaxTries = 2
    MaxTime = 4
    MaxEpoch = 3
INVARIANTS TypeOK OneWriterPerEpoch Exclusive
PROPERTIES EpochsOnlyAdvance IssuesFencingTokens
CHECK_DEADLOCK FALSE
