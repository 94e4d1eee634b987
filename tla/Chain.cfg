SPECIFICATION FairSpec
CONSTANTS
    q1 = q1
    q2 = q2
    p1 = p1
    p2 = p2
    Requests = {q1, q2}
    Providers = {p1, p2}
    Questions <- AllQuestions
    Setups <- AllSetups
    Commands <- AllCommands
INVARIANTS
    TypeOK
    MemoryFaithful
    NoDowngrade
    LoginEndsAsGet
PROPERTIES
    NotAskedAgain
    RequestsEnd
