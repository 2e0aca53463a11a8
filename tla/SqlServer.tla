------------------------------ MODULE SqlServer ------------------------------
(***************************************************************************)
(* The store routes (src/src/routes/store.ts) over a SQL data store plugin *)
(* (src/plugins/{sqlite,postgres,mysql}/src/index.ts).  A request is a     *)
(* process whose steps are the database statements its handler awaits, so  *)
(* requests interleave between any two statements, but for the two SELECTs *)
(* of a PUT in SQLite (one synchronous turn) and MySQL (one snapshot).     *)
(* The tables and their constraints are the database's: a primary key on   *)
(* manifests.id, a unique (binding_value, manifest_id), and a foreign key  *)
(* that cascades.  The dialect is the plugin the server was configured     *)
(* with.  A statement takes all of its locks at once or waits, so the      *)
(* deadlocks that a database breaks by failing one statement, and a pool   *)
(* whose connections all wait, are not represented but as a Fail.          *)
(*                                                                         *)
(* A Postgres or MySQL PUT runs in a transaction: seen[r] holds the rows   *)
(* its DELETE takes away and added[r] the row its INSERT puts in, and the  *)
(* table changes when it commits.  Postgres runs it at READ COMMITTED: a   *)
(* statement sees the rows committed when it began, waits for rows another *)
(* transaction has changed, and then goes on without looking again.  MySQL *)
(* (InnoDB, REPEATABLE READ) locks every row and gap of the value.         *)
(***************************************************************************)
EXTENDS FiniteSets

CONSTANTS
    Requests,   \* request slots: one HTTP request at a time in each
    Ids,        \* manifest ids
    MintedIds,  \* the ids among them that the server's uuid generator returns
    Blobs,      \* C2PA Manifest Stores, as byte strings told apart
    Values,     \* soft binding values
    Nil,        \* no id, no bytes, no row
    Unparsable, \* what the operator's parseManifestId answers by throwing
    ParsedId,   \* what parseManifestId makes of each blob (Nil: no id, or not configured)
    Dialects    \* the plugins to consider

ASSUME ConstantsAssumption ==
    /\ MintedIds \subseteq Ids
    /\ Nil \notin Ids \cup Blobs \cup Values \cup [data : Blobs, signed : BOOLEAN]
    /\ Unparsable \notin Ids \cup {Nil}
    /\ ParsedId \in [Blobs -> (Ids \ MintedIds) \cup {Nil, Unparsable}]
    /\ Dialects \subseteq {"sqlite", "postgres", "mysql"}

VARIABLES
    dialect,    \* the configured plugin
    manifests,  \* the manifests table, by id
    bindings,   \* the bindings table: a set of <<binding_value, manifest_id>>
    minted,     \* the ids the uuid generator has returned
    req,        \* what each request's handler is doing and holds
    seen,       \* rows an open PUT transaction deletes
    added,      \* the row an open PUT transaction has inserted
    putRows     \* history: the rows a committed PUT put in and no POST asked for since

vars == <<dialect, manifests, bindings, minted, req, seen, added, putRows>>
tables == <<manifests, bindings, putRows>>

Stored == [data : Blobs, signed : BOOLEAN]
Row == Values \X Ids

Places == {"done", "lookup", "add", "sign", "delete", "bindCheck", "bindInsert",
           "putCheck", "putManifest", "putDelete", "putLocks", "putInsert",
           "putCommit", "putReplace"}

Request == [pc : Places, id : Ids \cup {Nil}, blob : Blobs \cup {Nil},
            value : Values \cup {Nil}, receipt : BOOLEAN,
            status : {0, 200, 204, 400, 404, 500}]

Answered(s) == [pc |-> "done", id |-> Nil, blob |-> Nil, value |-> Nil,
                receipt |-> FALSE, status |-> s]

Handling(place, i, b, v, receipt) ==
    [pc |-> place, id |-> i, blob |-> b, value |-> v, receipt |-> receipt, status |-> 0]

Init ==
    /\ dialect \in Dialects
    /\ manifests = [i \in Ids |-> Nil]
    /\ bindings = {}
    /\ minted = {}
    /\ req = [r \in Requests |-> Answered(0)]
    /\ seen = [r \in Requests |-> {}]
    /\ added = [r \in Requests |-> {}]
    /\ putRows = {}

-----------------------------------------------------------------------------
(* Helpers. *)

Working(r) == req[r].pc # "done"
Reply(r, s) == req' = [req EXCEPT ![r] = Answered(s)]
GoTo(r, place) == req' = [req EXCEPT ![r].pc = place]

\* The statement was done.  Its handler learns so, or the connection broke before
\* the reply: the call then rejects, and the route answers 500.  SQLite runs in
\* the process and cannot lose a reply.
Acknowledge(r, s) == Reply(r, s) \/ (dialect # "sqlite" /\ Reply(r, 500))
NoTransaction == UNCHANGED <<seen, added>>

Exists(i) == manifests[i] # Nil
BoundTo(v) == {row \in bindings : row[1] = v}
RowsOf(i) == {row \in bindings : row[2] = i}

\* Mutant: the DELETE locks the rows it targets before it has waited for them.
LockingFromStart(r) == req[r].pc \in {"putLocks", "putInsert", "putCommit"}

\* The transactions whose DELETE has run: they hold locks until they end.
Locking(r) == req[r].pc \in {"putInsert", "putCommit"}

\* A statement on these rows waits for the transactions that changed them.
Unlocked(r, rows) ==
    \A s \in Requests \ {r} : Locking(s) => (seen[s] \cup added[s]) \cap rows = {}

\* In MySQL the lock is on the value: its rows and the gaps between them.
ValueUnlocked(r, v) ==
    \A s \in Requests \ {r} : Locking(s) => req[s].value # v

\* Rows removed from the table are gone from what a waiting DELETE still targets.
ForgetRemoved(r, rows) ==
    seen' = [s \in Requests |-> IF s = r THEN {} ELSE seen[s] \ rows]

-----------------------------------------------------------------------------
(* POST /manifests *)

\* A body that is empty or does not parse is refused before any statement; an
\* id comes from the parser or, at the call of addManifest, from the generator.
PostManifest(r, b, wantReceipt) ==
    /\ ~Working(r)
    /\ \/ /\ b = Nil \/ (b # Nil /\ ParsedId[b] = Unparsable)
          /\ Reply(r, 400)
          /\ UNCHANGED minted
       \/ /\ b # Nil /\ ParsedId[b] \in Ids
          /\ req' = [req EXCEPT ![r] = Handling("lookup", ParsedId[b], b, Nil, wantReceipt)]
          /\ UNCHANGED minted
       \/ /\ b # Nil /\ ParsedId[b] = Nil
          /\ \E i \in MintedIds \ minted :
               /\ req' = [req EXCEPT ![r] = Handling("add", i, b, Nil, wantReceipt)]
               /\ minted' = minted \cup {i}
    /\ UNCHANGED <<dialect, tables>> /\ NoTransaction

\* The bytes are in the table: sign them if asked to, else answer.
Kept(r) == IF req[r].receipt THEN GoTo(r, "sign") ELSE Acknowledge(r, 200)

\* getManifest, and the comparison of what it found with what was uploaded.
Lookup(r) ==
    LET q == req[r] IN
    /\ q.pc = "lookup"
    /\ \/ ~Exists(q.id) /\ GoTo(r, "add")
       \/ Exists(q.id) /\ manifests[q.id].data = q.blob /\ Kept(r)
       \/ Exists(q.id) /\ manifests[q.id].data # q.blob /\ Reply(r, 400)
    /\ UNCHANGED <<dialect, tables, minted>> /\ NoTransaction

\* Mutant: the INSERT is an upsert.
UpsertManifest(i, b) ==
    manifests' = [manifests EXCEPT ![i] = [data |-> b, signed |-> FALSE]]

\* addManifest: an INSERT that the primary key refuses when the id is taken.
InsertManifest(i, b) ==
    /\ ~Exists(i)
    /\ manifests' = [manifests EXCEPT ![i] = [data |-> b, signed |-> FALSE]]

Add(r) ==
    LET q == req[r] IN
    /\ q.pc = "add"
    /\ \/ InsertManifest(q.id, q.blob) /\ Kept(r)
       \/ Exists(q.id) /\ Reply(r, 500) /\ UNCHANGED manifests
    /\ UNCHANGED <<dialect, bindings, putRows, minted>> /\ NoTransaction

\* Mutant: the UPDATE is an upsert, and makes a row without bytes.
UpsertReceipt(i) ==
    manifests' = IF Exists(i) THEN [manifests EXCEPT ![i].signed = TRUE]
                 ELSE [manifests EXCEPT ![i] = [data |-> Nil, signed |-> TRUE]]

\* setReceipt: an UPDATE whose row may be gone.
SetReceipt(i) ==
    manifests' = IF Exists(i) THEN [manifests EXCEPT ![i].signed = TRUE] ELSE manifests

\* The handler ignores what setReceipt says and answers with the receipt.
Sign(r) ==
    /\ req[r].pc = "sign"
    /\ SetReceipt(req[r].id)
    /\ Acknowledge(r, 200)
    /\ UNCHANGED <<dialect, bindings, putRows, minted>> /\ NoTransaction

-----------------------------------------------------------------------------
(* DELETE /manifests/:manifestId *)

DeleteManifest(r, i) ==
    /\ ~Working(r)
    /\ req' = [req EXCEPT ![r] = Handling("delete", i, Nil, Nil, FALSE)]
    /\ UNCHANGED <<dialect, tables, minted>> /\ NoTransaction

\* One DELETE; the foreign key cascades to the bindings, and waits for the
\* transactions that hold one of them or have inserted one.
Delete(r) ==
    LET i == req[r].id IN
    /\ req[r].pc = "delete"
    /\ \/ ~Exists(i) /\ Reply(r, 404) /\ UNCHANGED tables /\ NoTransaction
       \/ /\ Exists(i)
          /\ Unlocked(r, {row \in Row : row[2] = i})
          /\ manifests' = [manifests EXCEPT ![i] = Nil]
          /\ bindings' = bindings \ RowsOf(i)
          /\ putRows' = putRows \ RowsOf(i)
          /\ ForgetRemoved(r, RowsOf(i))
          /\ Acknowledge(r, 204)
          /\ UNCHANGED added
    /\ UNCHANGED <<dialect, minted>>

-----------------------------------------------------------------------------
(* POST /bindings *)

\* A request with a field missing is refused before any statement.
AskBinding(r, place, v, i) ==
    /\ ~Working(r)
    /\ IF v = Nil \/ i = Nil
         THEN Reply(r, 400)
         ELSE req' = [req EXCEPT ![r] = Handling(place, i, Nil, v, FALSE)]
    /\ UNCHANGED <<dialect, tables, minted>> /\ NoTransaction

PostBinding(r, v, i) == AskBinding(r, "bindCheck", v, i)

BindCheck(r) ==
    /\ req[r].pc = "bindCheck"
    /\ IF Exists(req[r].id) THEN GoTo(r, "bindInsert") ELSE Reply(r, 404)
    /\ UNCHANGED <<dialect, tables, minted>> /\ NoTransaction

AddRow(r) ==
    /\ Exists(req[r].id)
    /\ bindings' = bindings \cup {<<req[r].value, req[r].id>>}
    /\ putRows' = putRows \ {<<req[r].value, req[r].id>>}
    /\ Acknowledge(r, 204)

\* Mutant: the foreign_keys pragma is off.
SqliteInsertUnchecked(r) ==
    /\ dialect = "sqlite"
    /\ bindings' = bindings \cup {<<req[r].value, req[r].id>>}
    /\ putRows' = putRows \ {<<req[r].value, req[r].id>>}
    /\ Reply(r, 204)

\* OR IGNORE passes over a duplicate, not over the foreign key.
SqliteInsertBinding(r) ==
    /\ dialect = "sqlite"
    /\ \/ AddRow(r)
       \/ ~Exists(req[r].id) /\ Reply(r, 500) /\ UNCHANGED <<bindings, putRows>>

\* ON CONFLICT waits to learn whether the row it would duplicate stays.
PostgresInsertBinding(r) ==
    /\ dialect = "postgres"
    /\ Unlocked(r, {<<req[r].value, req[r].id>>})
    /\ \/ AddRow(r)
       \/ ~Exists(req[r].id) /\ Reply(r, 500) /\ UNCHANGED <<bindings, putRows>>

\* IGNORE turns the foreign key's refusal into a warning nobody reads.
MysqlInsertBinding(r) ==
    /\ dialect = "mysql"
    /\ ValueUnlocked(r, req[r].value)
    /\ \/ AddRow(r)
       \/ ~Exists(req[r].id) /\ Reply(r, 204) /\ UNCHANGED <<bindings, putRows>>

BindInsert(r) ==
    /\ req[r].pc = "bindInsert"
    /\ SqliteInsertBinding(r) \/ PostgresInsertBinding(r) \/ MysqlInsertBinding(r)
    /\ UNCHANGED <<dialect, manifests, minted>> /\ NoTransaction

-----------------------------------------------------------------------------
(* PUT /bindings *)

PutBinding(r, v, i) == AskBinding(r, "putCheck", v, i)

\* Postgres: SELECT the value's bindings, then SELECT the manifest.
PostgresPutCheck(r) ==
    LET q == req[r] IN
    /\ dialect = "postgres"
    /\ \/ /\ q.pc = "putCheck"
          /\ IF BoundTo(q.value) # {} THEN GoTo(r, "putManifest") ELSE Reply(r, 404)
       \/ /\ q.pc = "putManifest"
          /\ IF Exists(q.id) THEN GoTo(r, "putDelete") ELSE Reply(r, 404)

\* Mutant: the existence check of the value is gone.
OneLookPutCheckOfManifest(r) ==
    LET q == req[r] IN
    /\ dialect # "postgres"
    /\ q.pc = "putCheck"
    /\ IF Exists(q.id)
         THEN GoTo(r, IF dialect = "sqlite" THEN "putReplace" ELSE "putDelete")
         ELSE Reply(r, 404)

\* SQLite runs both SELECTs in one turn; MySQL answers both from one snapshot.
OneLookPutCheck(r) ==
    LET q == req[r] IN
    /\ dialect # "postgres"
    /\ q.pc = "putCheck"
    /\ IF BoundTo(q.value) # {} /\ Exists(q.id)
         THEN GoTo(r, IF dialect = "sqlite" THEN "putReplace" ELSE "putDelete")
         ELSE Reply(r, 404)

PutCheck(r) ==
    /\ PostgresPutCheck(r) \/ OneLookPutCheck(r)
    /\ UNCHANGED <<dialect, tables, minted>> /\ NoTransaction

\* SQLite deletes and inserts in one synchronous transaction.
SqlitePutReplace(r) ==
    LET q == req[r] IN
    /\ q.pc = "putReplace"
    /\ \/ /\ Exists(q.id)
          /\ bindings' = (bindings \ BoundTo(q.value)) \cup {<<q.value, q.id>>}
          /\ putRows' = (putRows \ BoundTo(q.value)) \cup {<<q.value, q.id>>}
          /\ Reply(r, 204)
       \/ ~Exists(q.id) /\ Reply(r, 500) /\ UNCHANGED <<bindings, putRows>>
    /\ UNCHANGED <<dialect, manifests, minted>> /\ NoTransaction

\* Mutant: the DELETE names the manifest too, and so spares the older bindings.
PostgresPutDeleteOwnRow(r) ==
    /\ dialect = "postgres"
    /\ req[r].pc = "putDelete"
    /\ seen' = [seen EXCEPT ![r] = BoundTo(req[r].value) \cap RowsOf(req[r].id)]
    /\ GoTo(r, "putLocks")

\* Postgres: the DELETE fixes the rows it will take when it starts ...
PostgresPutDelete(r) ==
    /\ dialect = "postgres"
    /\ req[r].pc = "putDelete"
    /\ seen' = [seen EXCEPT ![r] = BoundTo(req[r].value)]
    /\ GoTo(r, "putLocks")

\* ... and takes those still there once nobody else holds them.
PostgresPutLocks(r) ==
    /\ req[r].pc = "putLocks"
    /\ Unlocked(r, seen[r])
    /\ GoTo(r, "putInsert")
    /\ UNCHANGED seen

\* Mutant: the DELETE runs outside the transaction and locks nothing.
MysqlPutDeleteUnlocked(r) ==
    /\ dialect = "mysql"
    /\ req[r].pc = "putDelete"
    /\ seen' = [seen EXCEPT ![r] = BoundTo(req[r].value)]
    /\ GoTo(r, "putInsert")

\* MySQL: the DELETE waits for the value, then takes the rows it finds.
MysqlPutDelete(r) ==
    /\ dialect = "mysql"
    /\ req[r].pc = "putDelete"
    /\ ValueUnlocked(r, req[r].value)
    /\ seen' = [seen EXCEPT ![r] = BoundTo(req[r].value)]
    /\ GoTo(r, "putInsert")

PutDelete(r) ==
    /\ PostgresPutDelete(r) \/ PostgresPutLocks(r) \/ MysqlPutDelete(r)
    /\ UNCHANGED <<dialect, tables, minted, added>>

\* The INSERT: refused when the manifest is gone or the row is there already;
\* a row another transaction has inserted decides only when that one ends.
PutInsert(r) ==
    LET row == <<req[r].value, req[r].id>> IN
    /\ req[r].pc = "putInsert"
    /\ Unlocked(r, {row})
    /\ \/ /\ Exists(req[r].id) /\ row \notin bindings \ seen[r]
          /\ added' = [added EXCEPT ![r] = {row}]
          /\ GoTo(r, "putCommit")
          /\ UNCHANGED seen
       \/ /\ ~Exists(req[r].id) \/ row \in bindings \ seen[r]
          /\ Reply(r, 500)
          /\ seen' = [seen EXCEPT ![r] = {}]
          /\ UNCHANGED added
    /\ UNCHANGED <<dialect, tables, minted>>

PutCommit(r) ==
    /\ req[r].pc = "putCommit"
    /\ bindings' = (bindings \ seen[r]) \cup added[r]
    /\ putRows' = (putRows \ seen[r]) \cup added[r]
    /\ ForgetRemoved(r, seen[r])
    /\ added' = [added EXCEPT ![r] = {}]
    /\ Acknowledge(r, 204)
    /\ UNCHANGED <<dialect, manifests, minted>>

-----------------------------------------------------------------------------
(* Failures *)

\* Mutant: without a transaction, a PUT that fails has already deleted.
FailWithoutRollback(r) ==
    /\ Working(r)
    /\ Reply(r, 500)
    /\ bindings' = IF Locking(r) THEN bindings \ seen[r] ELSE bindings
    /\ seen' = [seen EXCEPT ![r] = {}]
    /\ added' = [added EXCEPT ![r] = {}]
    /\ UNCHANGED <<dialect, manifests, putRows, minted>>

\* A statement rejects undone (the connection, a deadlock victim, a schema that
\* never became ready): an open transaction rolls back, the route answers 500.
Fail(r) ==
    /\ Working(r)
    /\ Reply(r, 500)
    /\ seen' = [seen EXCEPT ![r] = {}]
    /\ added' = [added EXCEPT ![r] = {}]
    /\ UNCHANGED <<dialect, tables, minted>>

\* A server process, of one or several on the database, stops and starts again:
\* its handlers and their open transactions are gone, committed rows stay.
Restart ==
    /\ \E lost \in SUBSET Requests :
         /\ req' = [r \in Requests |-> IF r \in lost THEN Answered(0) ELSE req[r]]
         /\ seen' = [r \in Requests |-> IF r \in lost THEN {} ELSE seen[r]]
         /\ added' = [r \in Requests |-> IF r \in lost THEN {} ELSE added[r]]
    /\ UNCHANGED <<dialect, tables, minted>>

Arrive(r) ==
    \/ \E b \in Blobs \cup {Nil}, w \in BOOLEAN : PostManifest(r, b, w)
    \/ \E i \in Ids : DeleteManifest(r, i)
    \/ \E v \in Values \cup {Nil}, i \in Ids \cup {Nil} :
         PostBinding(r, v, i) \/ PutBinding(r, v, i)

Statement(r) ==
    \/ Lookup(r) \/ Add(r) \/ Sign(r) \/ Delete(r)
    \/ BindCheck(r) \/ BindInsert(r)
    \/ PutCheck(r) \/ SqlitePutReplace(r) \/ PutDelete(r) \/ PutInsert(r) \/ PutCommit(r)

Next ==
    \/ \E r \in Requests : Arrive(r) \/ Statement(r) \/ Fail(r)
    \/ Restart

\* A statement whose locks are free again and again is run: the databases
\* queue lock requests in order.
Fairness == \A r \in Requests : SF_vars(Statement(r))

Spec == Init /\ [][Next]_vars
FairSpec == Spec /\ Fairness

-----------------------------------------------------------------------------
(* Properties *)

TypeOK ==
    /\ dialect \in Dialects
    /\ manifests \in [Ids -> Stored \cup {Nil}]
    /\ bindings \subseteq Row
    /\ minted \subseteq MintedIds
    /\ req \in [Requests -> Request]
    /\ seen \in [Requests -> SUBSET Row]
    /\ added \in [Requests -> SUBSET Row]
    /\ putRows \subseteq Row

\* Every binding points to a manifest that is in the table, whatever requests
\* race: a query never answers with an id that cannot be fetched at that moment.
ReferentialIntegrity == \A row \in bindings : Exists(row[2])

\* Bytes stored under an id are never overwritten, by uploads racing for a new
\* id either: other bytes appear there only after a DELETE emptied it.
BytesNeverReplaced ==
    [][\A i \in Ids : Exists(i) /\ Exists(i)' => manifests'[i].data = manifests[i].data]_vars

\* PUTs replace each other: a value never keeps the bindings of two committed
\* PUTs, unless a POST asked for the older one again (the comment "replace all
\* existing associations for this binding value").
LastPutWins ==
    \A row1, row2 \in putRows : row1[1] = row2[1] => row1 = row2

\* A binding leaves the table only in a step that removes its manifest or that
\* puts the row of a PUT of its value in its place: no failure and no race loses
\* one, whether or not the client of that PUT learns how it ended.
BindingsLeaveOnlyOnRequest ==
    [][\A row \in bindings \ bindings' :
         \/ ~Exists(row[2])'
         \/ \E r \in Requests :
              /\ req[r].pc \in {"putReplace", "putCommit"} /\ req[r].value = row[1]
              /\ <<row[1], req[r].id>> \in bindings']_vars

\* Every request is answered, its slot free again: no wait for another
\* transaction's rows is forever.
EveryRequestAnswered == \A r \in Requests : []<>~Working(r)

-----------------------------------------------------------------------------
(* What clients see of it: a request whose handler is past its last look at  *)
(* the table has taken effect, and a PUT that has found its value bound is   *)
(* a replacement.                                                            *)

OperationAt(place) ==
    CASE place = "done" -> "free"
      [] place \in {"lookup", "add"} -> "ingest"
      [] place = "sign" -> "sign"
      [] place = "delete" -> "remove"
      [] place \in {"bindCheck", "bindInsert"} -> "bind"
      [] place = "putCheck" -> "rebind"
      [] OTHER -> "replace"

Outstanding ==
    [r \in Requests |->
       [op |-> OperationAt(req[r].pc), id |-> req[r].id, blob |-> req[r].blob,
        value |-> req[r].value, receipt |-> req[r].receipt, status |-> req[r].status]]

Repo == INSTANCE Repository WITH call <- Outstanding

\* The server over this store is the abstract repository: every answer and
\* every change of the tables is that of one indivisible operation.
ImplementsRepository == Repo!Spec

\* A PUT in a transaction aims at what its DELETE finds when that starts.
Aiming == {r \in Requests : req[r].pc \in {"putLocks", "putInsert", "putCommit"}}

Relaxed == INSTANCE RelaxedRepository
             WITH call <- Outstanding, aimed <- Aiming, target <- seen

\* In every dialect, PostgreSQL too, the server is the relaxed repository: what a
\* PUT may do in two steps is to replace the rows its value had at one moment of
\* the request.  It takes none that came later; if it is answered 204 its value
\* was bound when looked up, its own row is in place and theirs are gone; if 404
\* nothing changed; if 500, nothing or all of that.
ImplementsRelaxed == Relaxed!SpecRelaxed
=============================================================================
