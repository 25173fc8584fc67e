SPECIFICATION ConfigSpec
CONSTANTS
    p1 = p1  p2 = p2
    settings = settings  tag = tag  blob = blob
    v1 = v1  v2 = v2
    Process <- MCProcess
    Key <- MCKey
    Value <- MCValue
    Calls <- MCCalls
    Absent = Absent
    NoCall = NoCall
    NoReply = NoReply
    Nobody = Nobody
    Torn = Torn
    Plain <- MCPlain
    ConfigKey = settings
    Mine <- MCMine
INVARIANTS FileTypeOK ConfigAgreement
PROPERTIES ActsAtomically LocksAreReleased StoreOpens
CHECK_DEADLOCK FALSE
