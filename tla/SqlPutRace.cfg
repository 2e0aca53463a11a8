\* Postgres: two racing PUTs of one value both keep their binding.
CONSTANTS
    r1 = r1
    r2 = r2
    v1 = v1
    label = label
    uuid = uuid
    A = A
    B = B
    C = C
    bad = bad
    Nil = Nil
    Unparsable = Unparsable
    Requests = {r1, r2}
    Ids = {label, uuid}
    MintedIds = {uuid}
    Blobs = {A, B, C, bad}
    Values = {v1}
    Dialects = {"postgres"}
    ParsedId <- MCParsedId
SPECIFICATION Spec
SYMMETRY Symmetry
INVARIANT LastPutWins
