SPECIFICATION Spec
CONSTANTS
    Clients = {c1}
    Workspaces = {w1}
    Requests = {r1}
    Keys = {k1}
    Kinds = {"patch", "test"}
    p1 = p1
    p2 = p2
    Policies = {p1, p2}
    Permits <- MCPermits
    Heads = {h1, h2}
    Proposers = {s1}
    Operators = {o1}
    TTL = 1
    Window = 4
    Rate = 2
    MaxPendingClient = 2
    MaxPendingGlobal = 2
    MaxTotalClient = 2
    MaxTotal = 2
    MaxTime = 1
    None = None
PROPERTIES
    UnexpiredAtClaim
