SPECIFICATION FairSpec
CONSTANTS
    long = long
    short = short
    RegKeys = {long, short}
    Requests = {q1, q2}
    q1 = q1
    q2 = q2
    Calls <- AllCalls
    Configs <- AllConfigs
INVARIANTS
    RunOnce
    RefusedNeverCarries
    RightCredential
PROPERTIES
    AbortedEnds
    RequestsEnd
