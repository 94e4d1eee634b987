SPECIFICATION Spec
CONSTANTS
    Processes = {p1, p2}
    Keys = {k1}
    MaxLogins = 2
    MaxRefreshes = 3
    MaxRequests = 2
PROPERTIES
    DeadLoginIsDead
