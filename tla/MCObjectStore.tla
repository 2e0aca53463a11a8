--------------------------- MODULE MCObjectStore ---------------------------
(* TLC instance of ObjectStore.                                            *)
EXTENDS ObjectStore, TLC

CONSTANTS c1, c2

Symmetry == Permutations(Clients)
=============================================================================
