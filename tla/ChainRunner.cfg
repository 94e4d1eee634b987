SPECIFICATION RunnerSpec
CONSTANTS
    p1 = p1
    p2 = p2
    p3 = p3
    ListedProviders = {p1, p2, p3}
    Lists <- AllLists
    Hellos <- AllHellos
    Registry <- httpForm
INVARIANT
    RunnerAgrees
