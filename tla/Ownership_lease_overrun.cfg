SPECIFICATION Spec
CONSTANTS
    h1 = h1  h2 = h2  h3 = h3
    s1 = s1  s2 = s2
    NoSession = NoSession
    Handle <- MCHandle3
    Session <- MCSession
    SessionOf <- TwoAgentSessionOf
    TTL = 1
    MaxTries = 1
    MaxTime = 2
    MaxEpoch = 3
INVARIANTS ExclusiveAgent
CHECK_DEADLOCK FALSE
