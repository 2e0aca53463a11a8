\* The store routes over each SQL plugin, which implements the relaxed repository.
CONSTANTS
    r1 = r1
    r2 = r2
    v1 = v1
    label = label
    uuid = uuid
    A = A
    B = B
    C = C
    bad = bad
    Nil = Nil
    Unparsable = Unparsable
    Requests = {r1, r2}
    Ids = {label, uuid}
    MintedIds = {uuid}
    Blobs = {A, B, C, bad}
    Values = {v1}
    Dialects = {"sqlite", "mysql", "postgres"}
    ParsedId <- MCParsedId
SPECIFICATION FairSpec
INVARIANTS
    TypeOK
    ReferentialIntegrity
PROPERTIES
    BytesNeverReplaced
    BindingsLeaveOnlyOnRequest
    ImplementsRelaxed
    EveryRequestAnswered
