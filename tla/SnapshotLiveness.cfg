SPECIFICATION FairSpec
CONSTANTS
    Requests = {r1, r2}
    Builders = {b1, b2}
    Deleters = {d1}
    Listers = {l1}
    MaxRetained = 1
    MaxTombstones = 1
    MaxInterrupts = 1
    None = None
INVARIANTS
    ListingHidesDeleted
    DeletedOnce
PROPERTIES
    CommandsEnd
