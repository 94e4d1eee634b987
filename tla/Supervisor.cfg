SPECIFICATION FairSpec
CONSTANTS
    MaxRequests = 3
    MaxStray = 2
    FailedSessionsBeforeNoRestart = 2
INVARIANTS
    TypeOK
    AnswersMatch
    FailedAnswersLost
    FailuresAccounted
    FailedBounded
PROPERTIES
    ImplementsRestarts
    RequestsEnd
