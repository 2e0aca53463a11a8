--------------------------- MODULE MCMongoServer ---------------------------
(* TLC instances of MongoServer.                                           *)
EXTENDS MongoServer, TLC

CONSTANTS r1, r2, v1, v2, label, uuid, A, B, C, bad

\* Two blobs carry the same label, one has none, one does not parse.
MCParsedId ==
    [b \in Blobs |-> CASE b \in {A, B} -> label [] b = C -> Nil [] OTHER -> Unparsable]

InUse(v) ==
    \/ bindings[v] # <<>>
    \/ \E r \in Requests : req[r].value = v
    \/ \E i \in Ids : <<v, i>> \in late \cup cut

\* Two ids with one value in use, or two values with one id.
OneId(i) ==
    /\ manifests[i] = <<>> /\ i \notin minted
    /\ \A r \in Requests : req[r].id # i
    /\ \A v \in Values : ~Names(bindings[v], i) /\ <<v, i>> \notin late \cup cut

Bounded == OneId(uuid) \/ \A v, w \in Values : InUse(v) /\ InUse(w) => v = w

Symmetry == Permutations(Requests) \cup Permutations(Values) \cup Permutations({A, B})
=============================================================================
