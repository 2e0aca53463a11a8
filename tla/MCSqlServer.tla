---------------------------- MODULE MCSqlServer ----------------------------
(* TLC instance of SqlServer.                                              *)
EXTENDS SqlServer, TLC

CONSTANTS r1, r2, v1, label, uuid, A, B, C, bad

\* Two blobs carry the same label, one has none, one does not parse.
MCParsedId == (A :> label) @@ (B :> label) @@ (C :> Nil) @@ (bad :> Unparsable)

Symmetry == Permutations(Requests)
=============================================================================
