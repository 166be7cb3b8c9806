SPECIFICATION FairSpec
CONSTANTS
    Processes = {p1, p2}
    Clients = {c1}
    Keys = {k1, k2}
    MaxReceipts = 5
    None = None
INVARIANTS
    TypeOK
    LedgerVerifiable
    PinnedKeyIsKept
    LedgerTellsClients
    RegisteredHasCredential
PROPERTIES
    CommandsEnd
