SPECIFICATION Spec
CONSTANTS
    Requests = {r1, r2, r3}
    Builders = {b1, b2}
    Deleters = {d1, d2}
    Listers = {}
    MaxRetained = 2
    MaxTombstones = 1
    MaxInterrupts = 0
    None = None
SYMMETRY Symmetry
INVARIANTS
    TypeOK
    RetentionHolds
    TombstonesHold
    HiddenMeansDeleted
    DeletedMeansGone
    DeletionIsAnnounced
    DeletedOnce
