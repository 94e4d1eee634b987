SPECIFICATION Spec
CONSTANTS
    Processes = {p1, p2}
    Providers = {"google", "corporate", "jfrog", "azure", "github", "npmjs", "verdaccio", "aws"}
    MaxRequests = 3
    MaxIssued = 4
SYMMETRY Symmetry
INVARIANTS
    NotGivenAgain
    WriteWasAsked
    
    RemovedStaysRemoved
    StoredIsGood
