SPECIFICATION Spec
CONSTANTS
    home = home
    etc = etc
    other = other
    p1 = p1
    p2 = p2
    proxy = proxy
    ca = ca
    Unset = Unset
    Files = {home, etc, other, p1, p2}
    RouteKeys = {proxy, ca}
    Projects = {home, p1, p2}
    Worlds <- Trees
    Starts <- UserStarts
    Scripts <- ScriptLines
    Manifests = {{}, {ca}}
    MaxLevel = 3
INVARIANTS
    HelperFileIsUsers
    RouteIsKnown
PROPERTY
    TrustIsKept
