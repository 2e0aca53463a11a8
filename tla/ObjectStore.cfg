\* Two calls at a time over three keys, with pages of one and batches of two.
CONSTANTS
    c1 = c1
    c2 = c2
    Clients = {c1, c2}
    LastKey = 3
    PageSize = 1
    BatchSize = 2
    MaxSaves = 3
    Backends = {"aws", "gcp"}
SPECIFICATION Spec
SYMMETRY Symmetry
INVARIANTS
    TypeOK
    LoadsAreOrdered
    DeletedIsGone
    CleanupIsComplete
