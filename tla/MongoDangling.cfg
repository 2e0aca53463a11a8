\* MongoDB: a DELETE may leave bindings to the manifest it removed.
CONSTANTS
    r1 = r1
    r2 = r2
    v1 = v1
    v2 = v2
    label = label
    uuid = uuid
    A = A
    B = B
    C = C
    bad = bad
    Nil = Nil
    Unparsable = Unparsable
    Requests = {r1, r2}
    Ids = {label, uuid}
    MintedIds = {uuid}
    Blobs = {A, B, C, bad}
    Values = {v1}
    ParsedId <- MCParsedId
SPECIFICATION Spec
SYMMETRY Symmetry
INVARIANT
    NoBindingLeftBehind
