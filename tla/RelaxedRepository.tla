------------------------- MODULE RelaxedRepository -------------------------
(***************************************************************************)
(* What the store routes still promise where the replacement of a PUT may  *)
(* itself take two steps (PostgreSQL): at one moment it aims at the rows   *)
(* its value has then, and at a later one it replaces those of them that   *)
(* are left.  Rows that others bind in between stay.  Everything else is   *)
(* as in Repository.                                                       *)
(***************************************************************************)
EXTENDS Repository

VARIABLES
    aimed,      \* the PUTs under way that have aimed
    target      \* [Requests -> SUBSET (Values \X Ids)]: what each of them will replace

relaxedVars == <<manifests, bindings, call, aimed, target>>

InitRelaxed ==
    /\ Init
    /\ aimed = {}
    /\ target = [r \in Requests |-> {}]

\* A request aims no more, and what it removed is nobody's target: a row that
\* is bound again later is another row.
Removing(r, rows) ==
    /\ aimed' = aimed \ {r}
    /\ target' = [s \in Requests |-> IF s = r THEN {} ELSE target[s] \ rows]

Aim(r) ==
    /\ call[r].op = "replace"
    /\ r \notin aimed
    /\ aimed' = aimed \cup {r}
    /\ target' = [target EXCEPT ![r] = BoundTo(call[r].value)]
    /\ UNCHANGED <<manifests, bindings, call>>

Replace(r) ==
    LET c == call[r] IN
    /\ r \in aimed
    /\ manifests[c.id] # Nil
    /\ bindings' = (bindings \ target[r]) \cup {<<c.value, c.id>>}
    /\ Acknowledge(r, 204)
    /\ Removing(r, target[r])
    /\ UNCHANGED manifests

\* All that a request can do in one step; a PUT that has aimed can only fail.
AtOnce(r) ==
    /\ \/ Ask(r) \/ Ingest(r) \/ Sign(r) \/ Remove(r) \/ Bind(r) \/ Confirm(r) \/ Fail(r)
       \/ r \notin aimed /\ Rebind(r)
    /\ Removing(r, bindings \ bindings')

RestartRelaxed ==
    /\ \E lost \in SUBSET Requests :
         /\ call' = [r \in Requests |-> IF r \in lost THEN Answered(0) ELSE call[r]]
         /\ aimed' = aimed \ lost
         /\ target' = [r \in Requests |-> IF r \in lost THEN {} ELSE target[r]]
    /\ UNCHANGED <<manifests, bindings>>

NextRelaxed ==
    \/ \E r \in Requests : Aim(r) \/ Replace(r) \/ AtOnce(r)
    \/ RestartRelaxed

SpecRelaxed == InitRelaxed /\ [][NextRelaxed]_relaxedVars
=============================================================================
