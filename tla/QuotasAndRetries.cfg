SPECIFICATION ProposalsSpec
CONSTANTS
    Clients = {c1, c2, c3}
    Workspaces = {w1}
    Requests = {1, 2, 3, 4}
    Keys = {1, 2, 3}
    Kinds = {"patch"}
    p1 = p1
    p2 = p2
    Policies = {p1}
    Permits <- MCPermits
    Heads = {h1}
    Proposers = {s1, s2}
    Operators = {}
    TTL = 1
    Window = 1
    Rate = 1
    MaxPendingClient = 1
    MaxPendingGlobal = 2
    MaxTotalClient = 2
    MaxTotal = 3
    MaxTime = 5
    None = None
SYMMETRY ProposalsSymmetry
INVARIANTS
    OneRequestPerKey
    QuotasHold
    RateHolds
