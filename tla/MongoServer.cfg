\* The store routes over MongoDB: two ids and one binding value, or one id and two values.
CONSTANTS
    r1 = r1
    r2 = r2
    v1 = v1
    v2 = v2
    label = label
    uuid = uuid
    A = A
    B = B
    C = C
    bad = bad
    Nil = Nil
    Unparsable = Unparsable
    Requests = {r1, r2}
    Ids = {label, uuid}
    MintedIds = {uuid}
    Blobs = {A, B, C, bad}
    Values = {v1, v2}
    ParsedId <- MCParsedId
SPECIFICATION Spec
SYMMETRY Symmetry
CONSTRAINT Bounded
INVARIANTS
    TypeOK
    DanglingOnlyByOverlap
    HiddenOnlyByRace
PROPERTIES
    ServedUntilDeletedUnlessRaced
    BindingsLeaveOnlyOnRequest
