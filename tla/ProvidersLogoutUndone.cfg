SPECIFICATION Spec
CONSTANTS
    Processes = {p1, p2}
    Providers = {"corporate", "jfrog", "aws"}
    MaxRequests = 3
    MaxIssued = 4
SYMMETRY Symmetry
INVARIANT
    LogoutNotUndone
