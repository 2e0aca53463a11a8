------------------------------- MODULE MCQuery -------------------------------
(* TLC instances of Query.                                                 *)
EXTENDS Query

CONSTANTS mark, print, none

Region(kind, items) == [kind |-> kind, items |-> items]

\* No region, something that is no array, and arrays of good and bad items.
MCRegions ==
    LET frame == [type |-> "frame", fields |-> {"start", "end"}]
        open == [type |-> "frame", fields |-> {"start"}]
        shape == [type |-> "spatial", fields |-> {"kind", "unit", "origin.x", "origin.y"}]
        bogus == [type |-> "bogus", fields |-> {"start", "end"}]
    IN {Region("absent", {}), Region("other", {}), Region("array", {}),
        Region("array", {frame, shape}), Region("array", {frame, open}), Region("array", {bogus})}
=============================================================================
