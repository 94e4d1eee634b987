SPECIFICATION FairSpec
CONSTANTS
    Processes = {p1, p2}
    Keys = {k1, k2}
    MaxLogins = 2
    MaxRefreshes = 3
    MaxRequests = 3
INVARIANTS
    RemovedStaysRemoved
    TokensRecorded
    StoredLoginGood
PROPERTIES
    RequestsEnd
