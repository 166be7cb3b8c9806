SPECIFICATION FairSpec
CONSTANTS
    Clients = {c1}
    Workspaces = {w1}
    Requests = {r1}
    Keys = {k1}
    Kinds = {"patch", "test"}
    p1 = p1
    p2 = p2
    Policies = {p1}
    Permits <- MCPermits
    Heads = {h1}
    Proposers = {s1}
    Operators = {o1, o2}
    TTL = 1
    Window = 1
    Rate = 2
    MaxPendingClient = 1
    MaxPendingGlobal = 2
    MaxTotalClient = 2
    MaxTotal = 3
    MaxTime = 2
    None = None
PROPERTIES
    PendingIsDecided
    InterruptedIsReported
    CommandsEnd
