---------------------------- MODULE MCRetrieval ----------------------------
(* TLC instance of Retrieval: every kind of `auth`, with or without        *)
(* isManifestAuthRequired, on a configured secret; and a secret drawn by   *)
(* each process.                                                           *)
EXTENDS Retrieval, TLC

CONSTANTS p1, p2, A, B, i1, i2

Option(auth, gated, configured) ==
    [auth |-> auth, gated |-> gated, private |-> {i1}, secret |-> configured]

MCOptions == {Option("none", FALSE, TRUE), Option("custom", TRUE, TRUE),
              Option("google", TRUE, TRUE), Option("jwt", FALSE, TRUE),
              Option("jwt", TRUE, TRUE), Option("none", FALSE, FALSE)}

Symmetry == Permutations(Processes) \cup Permutations(Blobs)
=============================================================================
