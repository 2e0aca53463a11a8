\* A writer and a reader, on two processes that share a store.
CONSTANTS
    p1 = p1
    p2 = p2
    A = A
    B = B
    i1 = i1
    i2 = i2
    Nil = Nil
    Requests = {w1}
    Readers = {q1}
    Processes = {p1, p2}
    Ids = {i1, i2}
    Blobs = {A, B}
    Values = {}
    MaxStarts = 2
    MaxIssued = 2
    Options <- MCOptions
SPECIFICATION SpecRetrieval
SYMMETRY Symmetry
INVARIANT
    TypeOK
PROPERTIES
    ReadsAreCurrent
    VerifiedIsOurs
    ConfiguredReceiptsVerify
    OnlyForTheAuthorised
