SPECIFICATION FairSpec
CONSTANTS
    a1 = a1
    b1 = b1
    h1 = h1
    pa = pa
    pb = pb
    tokenA = tokenA
    tokenB = tokenB
    Requests = {a1, b1, h1, pa, pb}
    Tokens = {tokenA, tokenB}
    Contexts <- AllContexts
    ContextOf <- Contextual
    Commands <- AllCommands
    Answers <- AllAnswers
    MaxIssued = 3
INVARIANTS
    NoDroppedValueCached
    RetiredNotServed
    EraseOnce
    AtMostOneRetry
    CarriedCovers
PROPERTY
    RequestsEnd
