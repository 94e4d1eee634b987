SPECIFICATION Spec
CONSTANTS
    MaxRequests = 2
    MaxStray = 1
    FailedSessionsBeforeNoRestart = 2
INVARIANT
    StrayLineFailsNothing
