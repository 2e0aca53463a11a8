--------------------------- MODULE SqlServerProofs ---------------------------
(***************************************************************************)
(* Proofs about SqlServer, for any number of requests, ids, blobs and      *)
(* values and for the three dialects: its types, the integrity of its      *)
(* tables, the transactions and locks, what becomes of a value's bindings  *)
(* when PUTs race, and that it implements the abstract Repository.         *)
(***************************************************************************)
EXTENDS SqlServer, TLAPS

BindingPlaces == {"bindCheck", "bindInsert", "putCheck", "putManifest", "putDelete",
                  "putLocks", "putInsert", "putCommit", "putReplace"}

\* A handler holds the arguments that the statements still ahead of it use.
ArgumentsOK ==
    \A r \in Requests :
        /\ Working(r) => req[r].id \in Ids
        /\ req[r].pc \in {"lookup", "add"} => req[r].blob \in Blobs
        /\ req[r].pc \in BindingPlaces => req[r].value \in Values

TypeInv == TypeOK /\ ArgumentsOK

LEMMA InitType == Init => TypeInv
  BY ConstantsAssumption
  DEF Init, TypeInv, TypeOK, ArgumentsOK, Working, Answered, Request, Places, BindingPlaces

\* Answering a request leaves a well-typed record behind.
LEMMA ReplyType ==
  ASSUME TypeInv, NEW r \in Requests, NEW s \in {0, 200, 204, 400, 404, 500}, Reply(r, s)
  PROVE  req' \in [Requests -> Request] /\ ArgumentsOK'
  BY DEF Reply, TypeInv, TypeOK, ArgumentsOK, Working, Answered, Request, Places, BindingPlaces

\* So does a step to a place that needs no argument the last one did not.
LEMMA GoToType ==
  ASSUME TypeInv, NEW r \in Requests, NEW place \in Places \ {"done"}, GoTo(r, place),
         Working(r),
         place \in {"lookup", "add"} => req[r].pc \in {"lookup", "add"},
         place \in BindingPlaces => req[r].pc \in BindingPlaces
  PROVE  req' \in [Requests -> Request] /\ ArgumentsOK'
  BY DEF GoTo, TypeInv, TypeOK, ArgumentsOK, Working, Request, Places, BindingPlaces

LEMMA HandlingType ==
  ASSUME TypeInv, NEW r \in Requests, NEW place \in Places \ {"done"},
         NEW i \in Ids, NEW b \in Blobs \cup {Nil}, NEW v \in Values \cup {Nil},
         NEW w \in BOOLEAN,
         req' = [req EXCEPT ![r] = Handling(place, i, b, v, w)],
         place \in {"lookup", "add"} => b \in Blobs,
         place \in BindingPlaces => v \in Values
  PROVE  req' \in [Requests -> Request] /\ ArgumentsOK'
  BY DEF Handling, TypeInv, TypeOK, ArgumentsOK, Working, Request, Places, BindingPlaces

\* Every action keeps the types: the request record by one of the three lemmas
\* above, the tables and transaction sets by what the action assigns to them.
LEMMA StepType == TypeInv /\ [Next]_vars => TypeInv'
<1> SUFFICES ASSUME TypeInv, [Next]_vars PROVE TypeInv'
  OBVIOUS
<1> USE DEF NoTransaction
<1>1. ASSUME NEW r \in Requests, NEW b \in Blobs \cup {Nil}, NEW w \in BOOLEAN,
             PostManifest(r, b, w)
      PROVE  TypeInv'
  <2>1. req' \in [Requests -> Request] /\ ArgumentsOK'
    <3>1. CASE Reply(r, 400)
      BY <3>1, ReplyType
    <3>2. CASE /\ b # Nil /\ ParsedId[b] \in Ids
               /\ req' = [req EXCEPT ![r] = Handling("lookup", ParsedId[b], b, Nil, w)]
      BY <3>2, HandlingType DEF Places, BindingPlaces
    <3>3. CASE b # Nil /\ \E i \in MintedIds :
                 req' = [req EXCEPT ![r] = Handling("add", i, b, Nil, w)]
      BY <3>3, HandlingType, ConstantsAssumption DEF Places, BindingPlaces
    <3> QED  BY <1>1, <3>1, <3>2, <3>3 DEF PostManifest
  <2>2. minted' \subseteq MintedIds
    BY <1>1 DEF PostManifest, TypeInv, TypeOK
  <2> QED  BY <1>1, <2>1, <2>2 DEF PostManifest, TypeInv, TypeOK, tables
<1>2. ASSUME NEW r \in Requests, NEW i \in Ids, DeleteManifest(r, i)
      PROVE  TypeInv'
  <2>1. "delete" \in Places \ {"done"} /\ "delete" \notin {"lookup", "add"} \cup BindingPlaces
    BY DEF Places, BindingPlaces
  <2>2. req' \in [Requests -> Request] /\ ArgumentsOK'
    BY <1>2, <2>1, HandlingType DEF DeleteManifest
  <2> QED  BY <1>2, <2>2 DEF DeleteManifest, TypeInv, TypeOK, tables
<1>3. ASSUME NEW r \in Requests, NEW place \in {"bindCheck", "putCheck"},
             NEW v \in Values \cup {Nil}, NEW i \in Ids \cup {Nil},
             AskBinding(r, place, v, i)
      PROVE  TypeInv'
  <2>1. req' \in [Requests -> Request] /\ ArgumentsOK'
    <3>1. place \in Places \ {"done"} /\ place \notin {"lookup", "add"}
      BY DEF Places
    <3>2. CASE Reply(r, 400)
      BY <3>2, ReplyType
    <3>3. CASE /\ v # Nil /\ i # Nil
               /\ req' = [req EXCEPT ![r] = Handling(place, i, Nil, v, FALSE)]
      BY <3>1, <3>3, HandlingType
    <3> QED  BY <1>3, <3>2, <3>3 DEF AskBinding
  <2> QED  BY <1>3, <2>1 DEF AskBinding, TypeInv, TypeOK, tables
<1>4. ASSUME NEW r \in Requests, Lookup(r)
      PROVE  TypeInv'
  <2>1. req' \in [Requests -> Request] /\ ArgumentsOK'
    BY <1>4, ReplyType, GoToType DEF Lookup, Kept, Acknowledge, Working, Places, BindingPlaces
  <2> QED  BY <1>4, <2>1 DEF Lookup, TypeInv, TypeOK, tables
<1>5. ASSUME NEW r \in Requests, Add(r)
      PROVE  TypeInv'
  <2>1. req' \in [Requests -> Request] /\ ArgumentsOK'
    <3>1. req[r].pc = "add" /\ (GoTo(r, "sign") \/ Reply(r, 200) \/ Reply(r, 500))
      BY <1>5 DEF Add, Kept, Acknowledge
    <3>2. Working(r) /\ "sign" \in Places \ {"done"}
      BY <3>1 DEF Working, Places
    <3>3. CASE GoTo(r, "sign")
      BY <3>2, <3>3, GoToType DEF BindingPlaces
    <3>4. CASE Reply(r, 200)
      BY <3>4, ReplyType
    <3>5. CASE Reply(r, 500)
      BY <3>5, ReplyType
    <3> QED  BY <3>1, <3>3, <3>4, <3>5
  <2>2. req[r].id \in Ids /\ req[r].blob \in Blobs
    BY <1>5 DEF Add, TypeInv, ArgumentsOK, Working
  <2>3. manifests' \in [Ids -> Stored \cup {Nil}]
    <3>1. \/ manifests' = [manifests EXCEPT ![req[r].id] =
                              [data |-> req[r].blob, signed |-> FALSE]]
          \/ UNCHANGED manifests
      BY <1>5 DEF Add, InsertManifest
    <3>2. [data |-> req[r].blob, signed |-> FALSE] \in Stored
      BY <2>2 DEF Stored
    <3> QED  BY <3>1, <3>2, <2>2 DEF TypeInv, TypeOK
  <2> QED  BY <1>5, <2>1, <2>3 DEF Add, TypeInv, TypeOK
<1>6. ASSUME NEW r \in Requests, Sign(r)
      PROVE  TypeInv'
  <2>1. req' \in [Requests -> Request] /\ ArgumentsOK'
    BY <1>6, ReplyType DEF Sign, Acknowledge
  <2>2. req[r].id \in Ids
    BY <1>6 DEF Sign, TypeInv, ArgumentsOK, Working
  <2>3. manifests' \in [Ids -> Stored \cup {Nil}]
    BY <1>6, <2>2 DEF Sign, SetReceipt, Exists, TypeInv, TypeOK, Stored
  <2> QED  BY <1>6, <2>1, <2>3 DEF Sign, TypeInv, TypeOK
<1>7. ASSUME NEW r \in Requests, Delete(r)
      PROVE  TypeInv'
  <2>1. req' \in [Requests -> Request] /\ ArgumentsOK'
    BY <1>7, ReplyType DEF Delete, Acknowledge
  <2> QED
    BY <1>7, <2>1 DEF Delete, RowsOf, ForgetRemoved, tables, TypeInv, TypeOK
<1>8. ASSUME NEW r \in Requests, BindCheck(r)
      PROVE  TypeInv'
  <2>1. req' \in [Requests -> Request] /\ ArgumentsOK'
    BY <1>8, ReplyType, GoToType DEF BindCheck, Working, Places, BindingPlaces
  <2> QED  BY <1>8, <2>1 DEF BindCheck, TypeInv, TypeOK, tables
<1>9. ASSUME NEW r \in Requests, BindInsert(r)
      PROVE  TypeInv'
  <2>1. req' \in [Requests -> Request] /\ ArgumentsOK'
    BY <1>9, ReplyType DEF BindInsert, SqliteInsertBinding, PostgresInsertBinding,
                           MysqlInsertBinding, AddRow, Acknowledge
  <2>2. <<req[r].value, req[r].id>> \in Row
    BY <1>9 DEF BindInsert, TypeInv, ArgumentsOK, Working, BindingPlaces, Row
  <2> QED
    BY <1>9, <2>1, <2>2 DEF BindInsert, SqliteInsertBinding, PostgresInsertBinding,
                            MysqlInsertBinding, AddRow, TypeInv, TypeOK
<1>10. ASSUME NEW r \in Requests, PutCheck(r)
       PROVE  TypeInv'
  <2>1. req' \in [Requests -> Request] /\ ArgumentsOK'
    BY <1>10, ReplyType, GoToType
    DEF PutCheck, PostgresPutCheck, OneLookPutCheck, Working, Places, BindingPlaces
  <2> QED  BY <1>10, <2>1 DEF PutCheck, TypeInv, TypeOK, tables
<1>11. ASSUME NEW r \in Requests, SqlitePutReplace(r)
       PROVE  TypeInv'
  <2>1. req' \in [Requests -> Request] /\ ArgumentsOK'
    BY <1>11, ReplyType DEF SqlitePutReplace
  <2>2. <<req[r].value, req[r].id>> \in Row
    BY <1>11 DEF SqlitePutReplace, TypeInv, ArgumentsOK, Working, BindingPlaces, Row
  <2> QED  BY <1>11, <2>1, <2>2 DEF SqlitePutReplace, TypeInv, TypeOK
<1>12. ASSUME NEW r \in Requests, PutDelete(r)
       PROVE  TypeInv'
  <2>1. req' \in [Requests -> Request] /\ ArgumentsOK'
    BY <1>12, GoToType DEF PutDelete, PostgresPutDelete, PostgresPutLocks, MysqlPutDelete,
                           Working, Places, BindingPlaces
  <2>2. seen' \in [Requests -> SUBSET Row]
    BY <1>12 DEF PutDelete, PostgresPutDelete, PostgresPutLocks, MysqlPutDelete,
                 BoundTo, TypeInv, TypeOK
  <2> QED  BY <1>12, <2>1, <2>2 DEF PutDelete, TypeInv, TypeOK, tables
<1>13. ASSUME NEW r \in Requests, PutInsert(r)
       PROVE  TypeInv'
  <2>1. req' \in [Requests -> Request] /\ ArgumentsOK'
    BY <1>13, ReplyType, GoToType DEF PutInsert, Working, Places, BindingPlaces
  <2>2. <<req[r].value, req[r].id>> \in Row
    BY <1>13 DEF PutInsert, TypeInv, ArgumentsOK, Working, BindingPlaces, Row
  <2> QED  BY <1>13, <2>1, <2>2 DEF PutInsert, TypeInv, TypeOK, tables
<1>14. ASSUME NEW r \in Requests, PutCommit(r)
       PROVE  TypeInv'
  <2>1. req' \in [Requests -> Request] /\ ArgumentsOK'
    BY <1>14, ReplyType DEF PutCommit, Acknowledge
  <2> QED  BY <1>14, <2>1 DEF PutCommit, ForgetRemoved, TypeInv, TypeOK
<1>15. ASSUME NEW r \in Requests, Fail(r)
       PROVE  TypeInv'
  <2>1. req' \in [Requests -> Request] /\ ArgumentsOK'
    BY <1>15, ReplyType DEF Fail
  <2> QED  BY <1>15, <2>1 DEF Fail, TypeInv, TypeOK, tables
<1>16. CASE Restart
  BY <1>16 DEF Restart, TypeInv, TypeOK, ArgumentsOK, Working, Answered, Request, Places,
               BindingPlaces, tables
<1>17. CASE UNCHANGED vars
  BY <1>17 DEF vars, TypeInv, TypeOK, ArgumentsOK, Working
<1> QED
  BY <1>1, <1>2, <1>3, <1>4, <1>5, <1>6, <1>7, <1>8, <1>9, <1>10, <1>11, <1>12, <1>13,
     <1>14, <1>15, <1>16, <1>17
  DEF Next, Arrive, Statement, PostBinding, PutBinding

\* Every variable stays in its type, and every handler holds its arguments.
THEOREM TypeCorrect == Spec => [](TypeOK /\ ArgumentsOK)
<1>1. TypeInv => TypeOK /\ ArgumentsOK
  BY DEF TypeInv
<1> QED  BY <1>1, InitType, StepType, PTL DEF Spec

-----------------------------------------------------------------------------
(* Referential integrity.  It is not inductive alone: a PUT that commits adds a
   row checked earlier, so the manifest of an inserted row must be known to stay
   until then, which the locks of the open transactions give. *)

TransactionPlaces == {"putLocks", "putInsert", "putCommit"}

Held(r) == seen[r] \cup added[r]

\* An open transaction's rows are rows of its value; those it deletes are still
\* in the table, the one it inserted has a manifest, and past its DELETE they
\* are its own.
TransactionInv(r) ==
    /\ req[r].pc \notin TransactionPlaces => seen[r] = {}
    /\ req[r].pc # "putCommit" => added[r] = {}
    /\ \A row \in seen[r] : row \in bindings /\ row[1] = req[r].value
    /\ \A row \in added[r] : Exists(row[2]) /\ row[1] = req[r].value
    /\ req[r].pc \in TransactionPlaces \cup {"putDelete"} => dialect # "sqlite"
    /\ req[r].pc = "putReplace" => dialect = "sqlite"

Disjoint(r, s) == Locking(r) /\ Locking(s) => Held(r) \cap Held(s) = {}

TransactionsInv ==
    /\ \A r \in Requests : TransactionInv(r)
    /\ \A r \in Requests : \A s \in Requests \ {r} : Disjoint(r, s)

Integrity == TypeInv /\ ReferentialIntegrity /\ TransactionsInv

LEMMA InitIntegrity == Init => Integrity
<1> SUFFICES ASSUME Init PROVE Integrity
  OBVIOUS
<1>1. TypeInv
  BY InitType
<1>2. ReferentialIntegrity
  BY DEF Init, ReferentialIntegrity
<1>3. TransactionsInv
  BY DEF Init, TransactionsInv, TransactionInv, TransactionPlaces, Answered, Disjoint, Locking
<1> QED  BY <1>1, <1>2, <1>3 DEF Integrity

\* A step of a handler with no open transaction, which takes no row away from
\* those who hold one, leaves the transactions as sound as they were.
LEMMA OutsideTransaction ==
  ASSUME TypeInv, TypeInv', TransactionsInv, NEW r \in Requests,
         \A s \in Requests \ {r} : req'[s] = req[s],
         UNCHANGED <<dialect, seen, added>>,
         req[r].pc \notin TransactionPlaces, req'[r].pc \notin TransactionPlaces,
         req'[r].pc = "putDelete" => dialect # "sqlite",
         req'[r].pc = "putReplace" => dialect = "sqlite",
         bindings \subseteq bindings' \/ dialect = "sqlite",
         \A i \in Ids : Exists(i) => Exists(i)'
  PROVE  TransactionsInv'
<1>1. ASSUME NEW s \in Requests PROVE TransactionInv(s)'
  <2>1. TransactionInv(s)
    BY DEF TransactionsInv
  <2>2. CASE s = r
    <3>1. seen'[r] = {} /\ added'[r] = {}
      BY <2>1, <2>2 DEF TransactionInv, TransactionPlaces
    <3> QED  BY <2>2, <3>1 DEF TransactionInv, TransactionPlaces
  <2>3. CASE s # r
    <3>1. req'[s] = req[s] /\ seen'[s] = seen[s] /\ added'[s] = added[s] /\ dialect' = dialect
      BY <2>3
    <3>2. \A row \in seen[s] : row \in bindings'
      BY <2>1 DEF TransactionInv, TransactionPlaces
    <3>3. \A row \in added[s] : row[2] \in Ids
      BY DEF TypeInv, TypeOK, Row
    <3>4. \A row \in added[s] : Exists(row[2])'
      BY <2>1, <3>3 DEF TransactionInv
    <3> QED  BY <2>1, <3>1, <3>2, <3>4 DEF TransactionInv
  <2> QED  BY <2>2, <2>3
<1>2. ASSUME NEW s \in Requests, NEW t \in Requests \ {s} PROVE Disjoint(s, t)'
  <2>1. Disjoint(s, t)
    BY DEF TransactionsInv
  <2>2. ~Locking(r)'
    BY DEF Locking, TransactionPlaces
  <2>3. CASE s # r /\ t # r
    BY <2>1, <2>3 DEF Disjoint, Locking, Held
  <2> QED  BY <2>2, <2>3 DEF Disjoint
<1> QED  BY <1>1, <1>2 DEF TransactionsInv

\* The steps between statements of a transaction, one lemma for the handlers
\* that have none open and one per action of those that do.
LEMMA PlainSteps ==
  ASSUME Integrity, TypeInv', NEW r \in Requests,
         \/ \E b \in Blobs \cup {Nil}, w \in BOOLEAN : PostManifest(r, b, w)
         \/ \E i \in Ids : DeleteManifest(r, i)
         \/ \E v \in Values \cup {Nil}, i \in Ids \cup {Nil} :
              PostBinding(r, v, i) \/ PutBinding(r, v, i)
         \/ Lookup(r) \/ Add(r) \/ Sign(r) \/ BindCheck(r) \/ BindInsert(r)
         \/ PutCheck(r) \/ SqlitePutReplace(r)
  PROVE  TransactionsInv'
<1> USE DEF NoTransaction, tables
<1>1. CASE \E b \in Blobs \cup {Nil}, w \in BOOLEAN : PostManifest(r, b, w)
  <2>1. PICK b \in Blobs \cup {Nil}, w \in BOOLEAN : PostManifest(r, b, w)
    BY <1>1
  <2>2. /\ req[r].pc = "done" /\ req'[r].pc \in {"done", "lookup", "add"}
        /\ \A s \in Requests \ {r} : req'[s] = req[s]
    BY <2>1 DEF PostManifest, Working, Reply, Answered, Handling, Integrity, TypeInv, TypeOK
  <2> QED
    BY <2>1, <2>2, OutsideTransaction
    DEF PostManifest, Integrity, TransactionPlaces, Exists
<1>2. CASE \E i \in Ids : DeleteManifest(r, i)
  <2>1. /\ req[r].pc = "done" /\ req'[r].pc = "delete"
        /\ \A s \in Requests \ {r} : req'[s] = req[s]
    BY <1>2 DEF DeleteManifest, Working, Handling, Integrity, TypeInv, TypeOK
  <2> QED
    BY <1>2, <2>1, OutsideTransaction
    DEF DeleteManifest, Integrity, TransactionPlaces, Exists
<1>3. CASE \E v \in Values \cup {Nil}, i \in Ids \cup {Nil} :
             PostBinding(r, v, i) \/ PutBinding(r, v, i)
  <2>1. PICK v \in Values \cup {Nil}, i \in Ids \cup {Nil}, place \in {"bindCheck", "putCheck"} :
          AskBinding(r, place, v, i)
    BY <1>3 DEF PostBinding, PutBinding
  <2>2. /\ req[r].pc = "done" /\ req'[r].pc \in {"done", "bindCheck", "putCheck"}
        /\ \A s \in Requests \ {r} : req'[s] = req[s]
    BY <2>1 DEF AskBinding, Working, Reply, Answered, Handling, Integrity, TypeInv, TypeOK
  <2>3. UNCHANGED <<dialect, manifests, bindings, seen, added>>
    BY <2>1 DEF AskBinding
  <2> QED
    BY <2>2, <2>3, OutsideTransaction DEF Integrity, TransactionPlaces, Exists
<1>4. CASE Lookup(r)
  <2>1. /\ req[r].pc = "lookup" /\ req'[r].pc \in {"done", "add", "sign"}
        /\ \A s \in Requests \ {r} : req'[s] = req[s]
    BY <1>4 DEF Lookup, Kept, Acknowledge, Reply, GoTo, Answered, Integrity, TypeInv, TypeOK,
                Request
  <2> QED
    BY <1>4, <2>1, OutsideTransaction DEF Lookup, Integrity, TransactionPlaces, Exists
<1>5. CASE Add(r)
  <2>1. /\ req[r].pc = "add" /\ req'[r].pc \in {"done", "sign"}
        /\ \A s \in Requests \ {r} : req'[s] = req[s]
    BY <1>5 DEF Add, Kept, Acknowledge, Reply, GoTo, Answered, Integrity, TypeInv, TypeOK,
                Request
  <2>2. \A i \in Ids : Exists(i) => Exists(i)'
    BY <1>5 DEF Add, InsertManifest, Exists, Integrity, TypeInv, TypeOK
  <2> QED
    BY <1>5, <2>1, <2>2, OutsideTransaction DEF Add, Integrity, TransactionPlaces
<1>6. CASE Sign(r)
  <2>1. /\ req[r].pc = "sign" /\ req'[r].pc = "done"
        /\ \A s \in Requests \ {r} : req'[s] = req[s]
    BY <1>6 DEF Sign, Acknowledge, Reply, Answered, Integrity, TypeInv, TypeOK
  <2>2. \A i \in Ids : Exists(i) => Exists(i)'
    <3>1. SUFFICES ASSUME NEW i \in Ids, manifests[i] # Nil PROVE manifests'[i] # Nil
      BY DEF Exists
    <3>2. manifests'[i] = manifests[i] \/ manifests'[i] = [manifests[i] EXCEPT !.signed = TRUE]
      BY <1>6 DEF Sign, SetReceipt, Integrity, TypeInv, TypeOK
    <3>3. manifests[i] \in Stored
      BY <3>1 DEF Integrity, TypeInv, TypeOK
    <3>4. manifests'[i] \in Stored
      BY <3>2, <3>3 DEF Stored
    <3> QED  BY <3>4, ConstantsAssumption DEF Stored
  <2> QED
    BY <1>6, <2>1, <2>2, OutsideTransaction DEF Sign, Integrity, TransactionPlaces
<1>7. CASE BindCheck(r)
  <2>1. /\ req[r].pc = "bindCheck" /\ req'[r].pc \in {"done", "bindInsert"}
        /\ \A s \in Requests \ {r} : req'[s] = req[s]
    BY <1>7 DEF BindCheck, Reply, GoTo, Answered, Integrity, TypeInv, TypeOK, Request
  <2> QED
    BY <1>7, <2>1, OutsideTransaction DEF BindCheck, Integrity, TransactionPlaces, Exists
<1>8. CASE BindInsert(r)
  <2>1. Reply(r, 204) \/ Reply(r, 500)
    BY <1>8 DEF BindInsert, SqliteInsertBinding, PostgresInsertBinding, MysqlInsertBinding,
                AddRow, Acknowledge
  <2>2. /\ req[r].pc = "bindInsert" /\ req'[r].pc = "done"
        /\ \A s \in Requests \ {r} : req'[s] = req[s]
    BY <1>8, <2>1 DEF BindInsert, Reply, Answered, Integrity, TypeInv, TypeOK
  <2>3. bindings \subseteq bindings'
    BY <1>8 DEF BindInsert, SqliteInsertBinding, PostgresInsertBinding, MysqlInsertBinding,
                AddRow
  <2> QED
    BY <1>8, <2>2, <2>3, OutsideTransaction
    DEF BindInsert, Integrity, TransactionPlaces, Exists
<1>9. CASE PutCheck(r)
  <2>1. /\ req[r].pc \in {"putCheck", "putManifest"}
        /\ req'[r].pc \in {"done", "putManifest", "putDelete", "putReplace"}
        /\ req'[r].pc = "putDelete" => dialect # "sqlite"
        /\ req'[r].pc = "putReplace" => dialect = "sqlite"
        /\ \A s \in Requests \ {r} : req'[s] = req[s]
    <3>1. \/ /\ req[r].pc \in {"putCheck", "putManifest"} /\ Reply(r, 404)
          \/ /\ req[r].pc = "putCheck" /\ dialect = "postgres" /\ GoTo(r, "putManifest")
          \/ /\ req[r].pc = "putManifest" /\ dialect = "postgres" /\ GoTo(r, "putDelete")
          \/ /\ req[r].pc = "putCheck" /\ dialect = "sqlite" /\ GoTo(r, "putReplace")
          \/ /\ req[r].pc = "putCheck" /\ dialect \notin {"sqlite", "postgres"}
             /\ GoTo(r, "putDelete")
      BY <1>9 DEF PutCheck, PostgresPutCheck, OneLookPutCheck
    <3> QED
      BY <3>1 DEF Reply, GoTo, Answered, Integrity, TypeInv, TypeOK, Request
  <2> QED
    BY <1>9, <2>1, OutsideTransaction DEF PutCheck, Integrity, TransactionPlaces, Exists
<1>10. CASE SqlitePutReplace(r)
  <2>1. /\ req[r].pc = "putReplace" /\ req'[r].pc = "done"
        /\ \A s \in Requests \ {r} : req'[s] = req[s]
    BY <1>10 DEF SqlitePutReplace, Reply, Answered, Integrity, TypeInv, TypeOK
  <2>2. dialect = "sqlite"
    BY <2>1 DEF Integrity, TransactionsInv, TransactionInv
  <2> QED
    BY <1>10, <2>1, <2>2, OutsideTransaction
    DEF SqlitePutReplace, Integrity, TransactionPlaces, Exists
<1> QED
  BY <1>1, <1>2, <1>3, <1>4, <1>5, <1>6, <1>7, <1>8, <1>9, <1>10

\* A DELETE takes no row an open transaction holds: it waited for those.
LEMMA DeleteStep ==
  ASSUME Integrity, TypeInv', NEW r \in Requests, Delete(r)
  PROVE  TransactionsInv'
<1> USE DEF NoTransaction
<1>1. /\ req[r].pc = "delete" /\ req'[r].pc = "done"
      /\ \A s \in Requests \ {r} : req'[s] = req[s]
  BY DEF Delete, Acknowledge, Reply, Answered, Integrity, TypeInv, TypeOK
<1>2. CASE ~Exists(req[r].id)
  BY <1>1, <1>2, OutsideTransaction DEF Delete, tables, Integrity, TransactionPlaces, Exists
<1>3. CASE Exists(req[r].id)
  <2> DEFINE i == req[r].id
  <2>1. /\ Unlocked(r, {row \in Row : row[2] = i})
        /\ manifests' = [manifests EXCEPT ![i] = Nil]
        /\ bindings' = bindings \ RowsOf(i)
        /\ ForgetRemoved(r, RowsOf(i))
        /\ added' = added /\ dialect' = dialect
    BY <1>3 DEF Delete
  <2>2. ASSUME NEW s \in Requests PROVE TransactionInv(s)'
    <3>1. TransactionInv(s)
      BY DEF Integrity, TransactionsInv
    <3>2. CASE s = r
      BY <1>1, <2>1, <3>1, <3>2
      DEF TransactionInv, TransactionPlaces, ForgetRemoved, Integrity, TypeInv, TypeOK
    <3>3. CASE s # r
      <4>1. req'[s] = req[s] /\ seen'[s] = seen[s] \ RowsOf(i) /\ added'[s] = added[s]
        BY <1>1, <2>1, <3>3 DEF ForgetRemoved
      <4>2. ASSUME NEW row \in added[s] PROVE Exists(row[2])'
        <5>1. row \in Row /\ row[2] \in Ids
          BY DEF Integrity, TypeInv, TypeOK, Row
        <5>2. Locking(s)
          BY <3>1 DEF TransactionInv, Locking
        <5>3. row[2] # i
          BY <2>1, <3>3, <5>1, <5>2 DEF Unlocked
        <5> QED  BY <2>1, <3>1, <5>1, <5>3 DEF TransactionInv, Exists, Integrity, TypeInv, TypeOK
      <4> QED  BY <2>1, <3>1, <4>1, <4>2 DEF TransactionInv, TransactionPlaces
    <3> QED  BY <3>2, <3>3
  <2>3. ASSUME NEW s \in Requests, NEW t \in Requests \ {s} PROVE Disjoint(s, t)'
    <3>1. Disjoint(s, t)
      BY DEF Integrity, TransactionsInv
    <3>2. ~Locking(r)'
      BY <1>1 DEF Locking
    <3>3. CASE s # r /\ t # r
      <4>1. /\ seen'[s] \subseteq seen[s] /\ seen'[t] \subseteq seen[t]
            /\ added'[s] = added[s] /\ added'[t] = added[t]
            /\ req'[s] = req[s] /\ req'[t] = req[t]
        BY <1>1, <2>1, <3>3 DEF ForgetRemoved
      <4> QED  BY <3>1, <4>1 DEF Disjoint, Locking, Held
    <3> QED  BY <3>2, <3>3 DEF Disjoint
  <2> QED  BY <2>2, <2>3 DEF TransactionsInv
<1> QED  BY <1>2, <1>3

\* A PUT's DELETE takes rows of the table that no other transaction holds: in
\* Postgres it waited for them, in MySQL for the value.
LEMMA PutDeleteStep ==
  ASSUME Integrity, TypeInv', NEW r \in Requests, PutDelete(r)
  PROVE  TransactionsInv'
<1>1. /\ UNCHANGED <<dialect, bindings, manifests, added>>
      /\ req[r].pc \in {"putDelete", "putLocks"} /\ req'[r].pc \in {"putLocks", "putInsert"}
      /\ req'[r].value = req[r].value
      /\ \A s \in Requests \ {r} : req'[s] = req[s] /\ seen'[s] = seen[s]
  BY DEF PutDelete, PostgresPutDelete, PostgresPutLocks, MysqlPutDelete, GoTo, tables,
         Integrity, TypeInv, TypeOK, Request
<1>2. \/ seen'[r] = BoundTo(req[r].value)
      \/ req[r].pc = "putLocks" /\ seen' = seen
  BY DEF PutDelete, PostgresPutDelete, PostgresPutLocks, MysqlPutDelete, Integrity, TypeInv, TypeOK
<1>3. ASSUME NEW s \in Requests PROVE TransactionInv(s)'
  <2>1. TransactionInv(s)
    BY DEF Integrity, TransactionsInv
  <2>2. CASE s = r
    <3>1. added'[r] = {}
      BY <1>1, <2>1, <2>2 DEF TransactionInv
    <3>2. \A row \in seen'[r] : row \in bindings /\ row[1] = req[r].value
      BY <1>2, <2>1, <2>2 DEF TransactionInv, BoundTo
    <3> QED  BY <1>1, <2>1, <2>2, <3>1, <3>2 DEF TransactionInv, TransactionPlaces
  <2>3. CASE s # r
    BY <1>1, <2>1, <2>3 DEF TransactionInv, TransactionPlaces, Exists
  <2> QED  BY <2>2, <2>3
<1>4. ASSUME NEW s \in Requests \ {r}, Locking(s), Locking(r)'
      PROVE  Held(s) \cap Held(r)' = {}
  <2>1. added'[r] = {}
    BY <1>1 DEF Integrity, TransactionsInv, TransactionInv
  <2>2. CASE PostgresPutLocks(r)
    BY <1>4, <2>1, <2>2 DEF PostgresPutLocks, Unlocked, Held
  <2>3. CASE MysqlPutDelete(r)
    <3>1. req[s].value # req[r].value
      BY <1>4, <2>3 DEF MysqlPutDelete, ValueUnlocked
    <3>2. \A row \in Held(s) : row[1] = req[s].value
      BY DEF Integrity, TransactionsInv, TransactionInv, Held
    <3>3. \A row \in seen'[r] : row[1] = req[r].value
      BY <2>3 DEF MysqlPutDelete, BoundTo, Integrity, TypeInv, TypeOK
    <3> QED  BY <2>1, <3>1, <3>2, <3>3 DEF Held
  <2>4. CASE PostgresPutDelete(r)
    BY <1>4, <2>4 DEF PostgresPutDelete, GoTo, Locking, Integrity, TypeInv, TypeOK, Request
  <2> QED  BY <2>2, <2>3, <2>4 DEF PutDelete
<1>5. ASSUME NEW s \in Requests, NEW t \in Requests \ {s} PROVE Disjoint(s, t)'
  <2>1. Disjoint(s, t)
    BY DEF Integrity, TransactionsInv
  <2>2. \A u \in Requests \ {r} : Held(u)' = Held(u) /\ Locking(u)' = Locking(u)
    BY <1>1 DEF Held, Locking
  <2>3. CASE s = r
    BY <1>4, <2>2, <2>3 DEF Disjoint
  <2>4. CASE t = r
    BY <1>4, <2>2, <2>4 DEF Disjoint
  <2>5. CASE s # r /\ t # r
    BY <2>1, <2>2, <2>5 DEF Disjoint
  <2> QED  BY <2>3, <2>4, <2>5
<1> QED  BY <1>3, <1>5 DEF TransactionsInv

\* A PUT's INSERT adds a row nobody holds, of a manifest that is there.
LEMMA PutInsertStep ==
  ASSUME Integrity, TypeInv', NEW r \in Requests, PutInsert(r)
  PROVE  TransactionsInv'
<1> DEFINE row == <<req[r].value, req[r].id>>
<1>1. /\ UNCHANGED <<dialect, bindings, manifests>>
      /\ req[r].pc = "putInsert"
      /\ \A s \in Requests \ {r} :
           req'[s] = req[s] /\ seen'[s] = seen[s] /\ added'[s] = added[s]
  BY DEF PutInsert, Reply, GoTo, tables, Integrity, TypeInv, TypeOK
<1>2. \/ /\ Exists(req[r].id) /\ req'[r].pc = "putCommit" /\ req'[r].value = req[r].value
         /\ seen'[r] = seen[r] /\ added'[r] = {row}
      \/ req'[r].pc = "done" /\ seen'[r] = {} /\ added'[r] = added[r]
  BY DEF PutInsert, Reply, GoTo, Answered, Integrity, TypeInv, TypeOK, Request
<1>3. ASSUME NEW s \in Requests PROVE TransactionInv(s)'
  <2>1. TransactionInv(s)
    BY DEF Integrity, TransactionsInv
  <2>2. CASE s = r
    BY <1>1, <1>2, <2>1, <2>2 DEF TransactionInv, TransactionPlaces, Exists
  <2>3. CASE s # r
    BY <1>1, <2>1, <2>3 DEF TransactionInv, TransactionPlaces, Exists
  <2> QED  BY <2>2, <2>3
<1>4. ASSUME NEW s \in Requests \ {r}, Locking(s), Locking(r)'
      PROVE  Held(s) \cap Held(r)' = {}
  <2>1. Held(r)' = seen[r] \cup {row}
    BY <1>2, <1>4 DEF Held, Locking
  <2>2. Held(s) \cap {row} = {}
    BY <1>4 DEF PutInsert, Unlocked, Held
  <2>3. Held(s) \cap seen[r] = {}
    BY <1>1, <1>4 DEF Integrity, TransactionsInv, Disjoint, Locking, Held
  <2> QED  BY <2>1, <2>2, <2>3
<1>5. ASSUME NEW s \in Requests, NEW t \in Requests \ {s} PROVE Disjoint(s, t)'
  <2>1. Disjoint(s, t)
    BY DEF Integrity, TransactionsInv
  <2>2. \A u \in Requests \ {r} : Held(u)' = Held(u) /\ Locking(u)' = Locking(u)
    BY <1>1 DEF Held, Locking
  <2>3. CASE s = r
    BY <1>4, <2>2, <2>3 DEF Disjoint
  <2>4. CASE t = r
    BY <1>4, <2>2, <2>4 DEF Disjoint
  <2>5. CASE s # r /\ t # r
    BY <2>1, <2>2, <2>5 DEF Disjoint
  <2> QED  BY <2>3, <2>4, <2>5
<1> QED  BY <1>3, <1>5 DEF TransactionsInv

\* Ending a transaction, by COMMIT or by a failure, touches nobody else's rows;
\* a waiting DELETE forgets those a COMMIT removed.
LEMMA EndStep ==
  ASSUME Integrity, TypeInv', NEW r \in Requests, PutCommit(r) \/ Fail(r)
  PROVE  TransactionsInv'
<1>1. /\ UNCHANGED <<dialect, manifests>>
      /\ req'[r].pc = "done" /\ seen'[r] = {} /\ added'[r] = {}
      /\ \A s \in Requests \ {r} :
           /\ req'[s] = req[s] /\ added'[s] = added[s]
           /\ \/ seen'[s] = seen[s] /\ bindings' = bindings
              \/ seen'[s] = seen[s] \ seen[r] /\ bindings' = (bindings \ seen[r]) \cup added[r]
  BY DEF PutCommit, Fail, Acknowledge, Reply, Answered, ForgetRemoved, tables, Integrity,
         TypeInv, TypeOK
<1>2. ASSUME NEW s \in Requests PROVE TransactionInv(s)'
  <2>1. TransactionInv(s)
    BY DEF Integrity, TransactionsInv
  <2>2. CASE s = r
    BY <1>1, <2>2 DEF TransactionInv, TransactionPlaces
  <2>3. CASE s # r
    BY <1>1, <2>1, <2>3 DEF TransactionInv, TransactionPlaces, Exists
  <2> QED  BY <2>2, <2>3
<1>3. ASSUME NEW s \in Requests, NEW t \in Requests \ {s} PROVE Disjoint(s, t)'
  <2>1. Disjoint(s, t)
    BY DEF Integrity, TransactionsInv
  <2>2. ~Locking(r)'
    BY <1>1 DEF Locking
  <2>3. \A u \in Requests \ {r} : Held(u)' \subseteq Held(u) /\ Locking(u)' = Locking(u)
    BY <1>1 DEF Held, Locking
  <2>4. CASE s # r /\ t # r
    BY <2>1, <2>3, <2>4 DEF Disjoint
  <2> QED  BY <2>2, <2>4 DEF Disjoint
<1> QED  BY <1>2, <1>3 DEF TransactionsInv

LEMMA TransactionsStep ==
  ASSUME Integrity, [Next]_vars
  PROVE  TransactionsInv'
<1>1. TypeInv'
  BY StepType DEF Integrity
<1>2. CASE Restart
  <2>1. PICK lost \in SUBSET Requests :
          \A r \in Requests :
            IF r \in lost
              THEN req'[r] = Answered(0) /\ seen'[r] = {} /\ added'[r] = {}
              ELSE req'[r] = req[r] /\ seen'[r] = seen[r] /\ added'[r] = added[r]
    BY <1>2 DEF Restart
  <2>2. UNCHANGED <<dialect, manifests, bindings>>
    BY <1>2 DEF Restart, tables
  <2>3. ASSUME NEW r \in Requests PROVE TransactionInv(r)'
    <3>1. CASE r \in lost
      BY <2>1, <3>1 DEF TransactionInv, TransactionPlaces, Answered
    <3>2. CASE r \notin lost
      BY <2>1, <2>2, <3>2 DEF Integrity, TransactionsInv, TransactionInv, Exists
    <3> QED  BY <3>1, <3>2
  <2>4. ASSUME NEW r \in Requests, NEW s \in Requests \ {r} PROVE Disjoint(r, s)'
    <3>1. CASE r \in lost \/ s \in lost
      BY <2>1, <3>1 DEF Disjoint, Locking, Answered
    <3>2. CASE r \notin lost /\ s \notin lost
      BY <2>1, <3>2 DEF Integrity, TransactionsInv, Disjoint, Locking, Held
    <3> QED  BY <3>1, <3>2
  <2> QED  BY <2>3, <2>4 DEF TransactionsInv
<1>3. CASE UNCHANGED vars
  BY <1>3 DEF vars, Integrity, TransactionsInv, TransactionInv, Disjoint, Locking, Held, Exists
<1>4. ASSUME NEW r \in Requests, Arrive(r) \/ Statement(r) \/ Fail(r)
      PROVE  TransactionsInv'
  BY <1>1, <1>4, PlainSteps, DeleteStep, PutDeleteStep, PutInsertStep, EndStep
  DEF Arrive, Statement
<1> QED  BY <1>2, <1>3, <1>4 DEF Next

\* Rows enter the table with a manifest that is there, or was locked there; a
\* manifest leaves with its rows.
LEMMA ReferentialStep ==
  ASSUME Integrity, [Next]_vars
  PROVE  ReferentialIntegrity'
<1> USE DEF NoTransaction
<1>1. \A row \in bindings : row[2] \in Ids /\ Exists(row[2])
  BY DEF Integrity, TypeInv, TypeOK, Row, ReferentialIntegrity
<1>2. ASSUME bindings' \subseteq bindings, \A i \in Ids : Exists(i) => Exists(i)'
      PROVE  ReferentialIntegrity'
  BY <1>1, <1>2 DEF ReferentialIntegrity
<1>3. ASSUME UNCHANGED <<manifests, bindings>>
      PROVE  ReferentialIntegrity'
  BY <1>2, <1>3 DEF Exists
<1>4. ASSUME NEW r \in Requests, Arrive(r)
      PROVE  ReferentialIntegrity'
  BY <1>3, <1>4 DEF Arrive, PostManifest, DeleteManifest, PostBinding, PutBinding, AskBinding,
                    tables
<1>5. ASSUME NEW r \in Requests,
             Lookup(r) \/ BindCheck(r) \/ PutCheck(r) \/ PutDelete(r) \/ PutInsert(r) \/ Fail(r)
      PROVE  ReferentialIntegrity'
  BY <1>3, <1>5 DEF Lookup, BindCheck, PutCheck, PutDelete, PutInsert, Fail, tables
<1>6. ASSUME NEW r \in Requests, Add(r)
      PROVE  ReferentialIntegrity'
  <2>1. \A i \in Ids : Exists(i) => Exists(i)'
    BY <1>6 DEF Add, InsertManifest, Exists, Integrity, TypeInv, TypeOK
  <2> QED  BY <1>2, <1>6, <2>1 DEF Add
<1>7. ASSUME NEW r \in Requests, Sign(r)
      PROVE  ReferentialIntegrity'
  <2>1. ASSUME NEW i \in Ids, Exists(i) PROVE Exists(i)'
    <3>1. manifests'[i] = manifests[i] \/ manifests'[i] = [manifests[i] EXCEPT !.signed = TRUE]
      BY <1>7 DEF Sign, SetReceipt, Integrity, TypeInv, TypeOK
    <3>2. manifests[i] \in Stored
      BY <2>1 DEF Exists, Integrity, TypeInv, TypeOK
    <3>3. manifests'[i] \in Stored
      BY <3>1, <3>2 DEF Stored
    <3> QED  BY <3>3, ConstantsAssumption DEF Stored, Exists
  <2> QED  BY <1>2, <1>7, <2>1 DEF Sign
<1>8. ASSUME NEW r \in Requests, Delete(r)
      PROVE  ReferentialIntegrity'
  <2>1. CASE UNCHANGED tables
    BY <1>3, <2>1 DEF tables
  <2>2. CASE /\ manifests' = [manifests EXCEPT ![req[r].id] = Nil]
             /\ bindings' = bindings \ RowsOf(req[r].id)
    BY <1>1, <2>2 DEF RowsOf, ReferentialIntegrity, Exists, Integrity, TypeInv, TypeOK
  <2> QED  BY <1>8, <2>1, <2>2 DEF Delete
<1>9. ASSUME NEW r \in Requests, BindInsert(r)
      PROVE  ReferentialIntegrity'
  <2>1. manifests' = manifests
    BY <1>9 DEF BindInsert
  <2>2. \/ bindings' = bindings
        \/ Exists(req[r].id) /\ bindings' = bindings \cup {<<req[r].value, req[r].id>>}
    BY <1>9 DEF BindInsert, SqliteInsertBinding, PostgresInsertBinding, MysqlInsertBinding,
                AddRow
  <2> QED  BY <1>1, <2>1, <2>2 DEF ReferentialIntegrity, Exists
<1>10. ASSUME NEW r \in Requests, SqlitePutReplace(r)
       PROVE  ReferentialIntegrity'
  BY <1>1, <1>10 DEF SqlitePutReplace, ReferentialIntegrity, Exists
<1>11. ASSUME NEW r \in Requests, PutCommit(r)
       PROVE  ReferentialIntegrity'
  <2>1. \A row \in added[r] : Exists(row[2])
    BY DEF Integrity, TransactionsInv, TransactionInv
  <2>2. manifests' = manifests /\ bindings' = (bindings \ seen[r]) \cup added[r]
    BY <1>11 DEF PutCommit
  <2> QED  BY <1>1, <2>1, <2>2 DEF ReferentialIntegrity, Exists
<1>12. CASE Restart
  BY <1>3, <1>12 DEF Restart, tables
<1>13. CASE UNCHANGED vars
  BY <1>3, <1>13 DEF vars
<1> QED
  BY <1>4, <1>5, <1>6, <1>7, <1>8, <1>9, <1>10, <1>11, <1>12, <1>13 DEF Next, Statement

LEMMA StepIntegrity == Integrity /\ [Next]_vars => Integrity'
  BY StepType, TransactionsStep, ReferentialStep DEF Integrity

\* Whatever requests race over whatever plugin, no binding points to a manifest
\* that is not stored.
THEOREM BindingsReferToManifests == Spec => []ReferentialIntegrity
<1>1. Integrity => ReferentialIntegrity
  BY DEF Integrity
<1> QED  BY <1>1, InitIntegrity, StepIntegrity, PTL DEF Spec

\* No step puts other bytes under an id that holds some: uploads that race for
\* one id leave the bytes of the first, until a DELETE.
THEOREM StoredBytesStay == Spec => BytesNeverReplaced
<1>1. ASSUME Integrity, [Next]_vars, NEW i \in Ids, Exists(i), Exists(i)'
      PROVE  manifests'[i].data = manifests[i].data
  <2> USE DEF NoTransaction
  <2>1. manifests \in [Ids -> Stored \cup {Nil}] /\ manifests[i] \in Stored
    BY <1>1 DEF Integrity, TypeInv, TypeOK, Exists
  <2>2. ASSUME NEW r \in Requests, Add(r)
        PROVE  manifests'[i] = manifests[i]
    <3>1. ~Exists(req[r].id) \/ manifests' = manifests
      BY <2>2 DEF Add, InsertManifest
    <3> QED  BY <1>1, <2>1, <2>2, <3>1 DEF Add, InsertManifest, Exists
  <2>3. ASSUME NEW r \in Requests, Sign(r)
        PROVE  manifests'[i].data = manifests[i].data
    <3>1. manifests'[i] = manifests[i] \/ manifests'[i] = [manifests[i] EXCEPT !.signed = TRUE]
      BY <2>1, <2>3 DEF Sign, SetReceipt
    <3> QED  BY <2>1, <3>1 DEF Stored
  <2>4. ASSUME NEW r \in Requests, Delete(r)
        PROVE  manifests'[i] = manifests[i]
    BY <1>1, <2>1, <2>4 DEF Delete, tables, Exists
  <2>5. ASSUME NEW r \in Requests,
               \/ Arrive(r) \/ Fail(r) \/ Lookup(r) \/ BindCheck(r) \/ BindInsert(r)
               \/ PutCheck(r) \/ SqlitePutReplace(r) \/ PutDelete(r) \/ PutInsert(r)
               \/ PutCommit(r)
        PROVE  manifests' = manifests
    BY <2>5 DEF Arrive, PostManifest, DeleteManifest, PostBinding, PutBinding, AskBinding, Fail,
                Lookup, BindCheck, BindInsert, PutCheck, SqlitePutReplace, PutDelete, PutInsert,
                PutCommit, tables
  <2>6. CASE Restart \/ UNCHANGED vars
    BY <2>6 DEF Restart, vars, tables
  <2> QED  BY <1>1, <2>2, <2>3, <2>4, <2>5, <2>6 DEF Next, Statement
<1>2. Integrity /\ [Next]_vars =>
        [\A i \in Ids : Exists(i) /\ Exists(i)' => manifests'[i].data = manifests[i].data]_vars
  BY <1>1
<1> QED  BY <1>2, InitIntegrity, StepIntegrity, PTL DEF Spec, BytesNeverReplaced
-----------------------------------------------------------------------------
(* The rows of a value when PUTs race. *)

\* In every dialect a PUT that is about to commit has inserted the row asked
\* for, and the rows of acknowledged PUTs are in the table.
RowsInserted ==
    /\ \A r \in Requests : req[r].pc = "putCommit" => added[r] = {<<req[r].value, req[r].id>>}
    /\ putRows \subseteq bindings

\* Where a PUT locks its value, or needs no second statement, the rows it will
\* delete stay all the rows of the value, and no other PUT has the value open.
HoldsItsValue(r) ==
    /\ req[r].pc \notin {"putManifest", "putLocks"}
    /\ Locking(r) => seen[r] = BoundTo(req[r].value)

ValuesApart ==
    \A r \in Requests : \A s \in Requests \ {r} :
        Locking(r) /\ Locking(s) => req[r].value # req[s].value

Exclusive == (\A r \in Requests : HoldsItsValue(r)) /\ ValuesApart /\ LastPutWins

Replacement == Integrity /\ RowsInserted /\ (dialect # "postgres" => Exclusive)

LEMMA InitReplacement == Init => Replacement
  BY InitIntegrity
  DEF Init, Replacement, RowsInserted, Exclusive, HoldsItsValue, ValuesApart, LastPutWins,
      Locking, Answered

-----------------------------------------------------------------------------
(* What each statement does to the bindings. *)

\* The steps that leave the bindings and the open transactions as they are.
Elsewhere(r) ==
    \/ Arrive(r) \/ Lookup(r) \/ Add(r) \/ Sign(r) \/ BindCheck(r) \/ PutCheck(r)

\* Between two places of a handler none of which has a transaction open.
LEMMA ElsewhereShape ==
  ASSUME TypeInv, NEW r \in Requests, Elsewhere(r)
  PROVE  /\ UNCHANGED <<dialect, bindings, putRows, seen, added>>
         /\ \A s \in Requests \ {r} : req'[s] = req[s]
         /\ req'[r].pc \notin {"putLocks", "putInsert", "putCommit"}
         /\ dialect # "postgres" => req'[r].pc # "putManifest"
<1> USE DEF NoTransaction, tables, TypeInv, TypeOK
<1>1. CASE Arrive(r)
  <2>1. CASE \E b \in Blobs \cup {Nil}, w \in BOOLEAN : PostManifest(r, b, w)
    BY <2>1 DEF PostManifest, Reply, Answered, Handling
  <2>2. CASE \E i \in Ids : DeleteManifest(r, i)
    BY <2>2 DEF DeleteManifest, Handling
  <2>3. CASE \E v \in Values \cup {Nil}, i \in Ids \cup {Nil} :
               PostBinding(r, v, i) \/ PutBinding(r, v, i)
    BY <2>3 DEF PostBinding, PutBinding, AskBinding, Reply, Answered, Handling
  <2> QED  BY <1>1, <2>1, <2>2, <2>3 DEF Arrive
<1>2. CASE Lookup(r)
  BY <1>2 DEF Lookup, Kept, Acknowledge, Reply, GoTo, Answered, Request
<1>3. CASE Add(r)
  BY <1>3 DEF Add, Kept, Acknowledge, Reply, GoTo, Answered, Request
<1>4. CASE Sign(r)
  BY <1>4 DEF Sign, Acknowledge, Reply, Answered
<1>5. CASE BindCheck(r)
  BY <1>5 DEF BindCheck, Reply, GoTo, Answered, Request
<1>6. CASE PutCheck(r)
  <2>1. CASE PostgresPutCheck(r)
    BY <1>6, <2>1 DEF PutCheck, PostgresPutCheck, Reply, GoTo, Answered, Request
  <2>2. CASE OneLookPutCheck(r)
    BY <1>6, <2>2 DEF PutCheck, OneLookPutCheck, Reply, GoTo, Answered, Request
  <2> QED  BY <1>6, <2>1, <2>2 DEF PutCheck
<1> QED  BY <1>1, <1>2, <1>3, <1>4, <1>5, <1>6 DEF Elsewhere

\* A POST, and SQLite's PUT, add a row the handler asked for and end; what they
\* take away first is the value's.
LEMMA InsertShape ==
  ASSUME TypeInv, NEW r \in Requests, BindInsert(r) \/ SqlitePutReplace(r)
  PROVE  /\ UNCHANGED <<dialect, manifests, minted, seen, added>>
         /\ req[r].id \in Ids /\ req[r].value \in Values
         /\ \E s \in {204, 500} : Reply(r, s)
         /\ \A s \in Requests \ {r} : req'[s] = req[s]
         /\ req'[r].pc = "done"
<1> USE DEF NoTransaction, TypeInv, TypeOK
<1>1. req[r].id \in Ids /\ req[r].value \in Values
  BY DEF BindInsert, SqlitePutReplace, ArgumentsOK, Working, BindingPlaces
<1>2. UNCHANGED <<dialect, manifests, minted, seen, added>>
  BY DEF BindInsert, SqlitePutReplace
<1>3. \E s \in {204, 500} : Reply(r, s)
  BY DEF BindInsert, SqliteInsertBinding, PostgresInsertBinding, MysqlInsertBinding,
         AddRow, Acknowledge, SqlitePutReplace
<1>4. PICK s \in {204, 500} : Reply(r, s)
  BY <1>3
<1>5. req'[r].pc = "done" /\ \A t \in Requests \ {r} : req'[t] = req[t]
  BY <1>4 DEF Reply, Answered
<1> QED  BY <1>1, <1>2, <1>3, <1>5

LEMMA PutDeleteShape ==
  ASSUME TypeInv, NEW r \in Requests, PutDelete(r)
  PROVE  /\ UNCHANGED <<dialect, manifests, bindings, putRows, minted, added>>
         /\ \A s \in Requests \ {r} : req'[s] = req[s] /\ seen'[s] = seen[s]
         /\ req'[r].pc # "putCommit" /\ req'[r].value = req[r].value
  BY DEF PutDelete, PostgresPutDelete, PostgresPutLocks, MysqlPutDelete, GoTo, tables,
         TypeInv, TypeOK, Request

LEMMA PutInsertShape ==
  ASSUME TypeInv, NEW r \in Requests, PutInsert(r)
  PROVE  /\ UNCHANGED <<dialect, manifests, bindings, putRows, minted>>
         /\ \A s \in Requests \ {r} :
              req'[s] = req[s] /\ seen'[s] = seen[s] /\ added'[s] = added[s]
         /\ \/ /\ req'[r].pc = "putCommit" /\ req'[r].value = req[r].value
               /\ req'[r].id = req[r].id /\ GoTo(r, "putCommit")
               /\ seen'[r] = seen[r] /\ added'[r] = {<<req[r].value, req[r].id>>}
            \/ req'[r].pc = "done" /\ Reply(r, 500)
  BY DEF PutInsert, Reply, GoTo, Answered, tables, TypeInv, TypeOK, Request

\* A transaction ends: by a COMMIT, or by a failure.
LEMMA EndShape ==
  ASSUME TypeInv, NEW r \in Requests, PutCommit(r) \/ Fail(r)
  PROVE  /\ UNCHANGED <<dialect, manifests, minted>>
         /\ \A s \in Requests \ {r} : req'[s] = req[s] /\ added'[s] = added[s]
         /\ req'[r].pc = "done"
         /\ \E s \in {204, 500} : Reply(r, s)
  BY DEF PutCommit, Fail, Acknowledge, Reply, Answered, tables, TypeInv, TypeOK

-----------------------------------------------------------------------------
(* The invariant of replacement. *)

LEMMA RowsInsertedStep ==
  ASSUME Replacement, [Next]_vars
  PROVE  RowsInserted'
<1> USE DEF Replacement, RowsInserted
<1>0. TypeInv
  BY DEF Integrity
<1>1. ASSUME NEW r \in Requests, Elsewhere(r)
      PROVE  RowsInserted'
  BY <1>0, <1>1, ElsewhereShape
<1>2. ASSUME NEW r \in Requests, BindInsert(r) \/ SqlitePutReplace(r)
      PROVE  RowsInserted'
  <2>1. putRows' \subseteq bindings'
    BY <1>2 DEF BindInsert, SqliteInsertBinding, PostgresInsertBinding, MysqlInsertBinding,
                AddRow, SqlitePutReplace
  <2> QED  BY <1>0, <1>2, <2>1, InsertShape
<1>3. ASSUME NEW r \in Requests, PutDelete(r)
      PROVE  RowsInserted'
  BY <1>0, <1>3, PutDeleteShape
<1>4. ASSUME NEW r \in Requests, PutInsert(r)
      PROVE  RowsInserted'
  <2>1. ASSUME NEW s \in Requests, req'[s].pc = "putCommit"
        PROVE  added'[s] = {<<req'[s].value, req'[s].id>>}
    BY <1>0, <1>4, <2>1, PutInsertShape
  <2> QED  BY <1>0, <1>4, <2>1, PutInsertShape
<1>5. ASSUME NEW r \in Requests, PutCommit(r) \/ Fail(r)
      PROVE  RowsInserted'
  <2>1. putRows' \subseteq bindings'
    BY <1>5 DEF PutCommit, Fail, tables
  <2> QED  BY <1>0, <1>5, <2>1, EndShape
<1>6. ASSUME NEW r \in Requests, Delete(r)
      PROVE  RowsInserted'
  <2>1. /\ UNCHANGED added /\ req'[r].pc = "done" /\ putRows' \subseteq bindings'
        /\ \A s \in Requests \ {r} : req'[s] = req[s]
    BY <1>0, <1>6 DEF Delete, Acknowledge, Reply, Answered, RowsOf, NoTransaction, tables,
                      TypeInv, TypeOK
  <2> QED  BY <2>1
<1>7. CASE Restart
  BY <1>7 DEF Restart, Answered, tables
<1>8. CASE UNCHANGED vars
  BY <1>8 DEF vars
<1> QED
  BY <1>1, <1>2, <1>3, <1>4, <1>5, <1>6, <1>7, <1>8 DEF Next, Statement, Elsewhere

\* A step of r keeps every value held as it was, if it leaves alone the bindings
\* of the values that others have locked, and locks none of these itself.
LEMMA OthersHold ==
  ASSUME Exclusive, NEW r \in Requests,
         \A s \in Requests \ {r} : req'[s] = req[s],
         \A s \in Requests \ {r} : Locking(s) =>
             seen'[s] = seen[s] /\ BoundTo(req[s].value)' = BoundTo(req[s].value),
         HoldsItsValue(r)',
         \A s \in Requests \ {r} :
             Locking(r)' /\ Locking(s) => req'[r].value # req[s].value
  PROVE  (\A s \in Requests : HoldsItsValue(s))' /\ ValuesApart'
<1>1. ASSUME NEW s \in Requests \ {r} PROVE HoldsItsValue(s)'
  <2>1. HoldsItsValue(s) /\ req'[s] = req[s]
    BY DEF Exclusive
  <2> QED  BY <2>1 DEF HoldsItsValue, Locking
<1>2. \A s \in Requests \ {r} : Locking(s)' = Locking(s)
  BY DEF Locking
<1> QED  BY <1>1, <1>2 DEF Exclusive, ValuesApart

\* What Replacement says where the dialect is not Postgres, in one place.
LEMMA NotPostgres ==
  ASSUME Replacement, dialect # "postgres"
  PROVE  /\ TypeInv /\ Exclusive /\ putRows \subseteq bindings /\ bindings \subseteq Row
         /\ dialect \in {"sqlite", "mysql"}
         /\ \A s \in Requests : TransactionInv(s)
         /\ \A s \in Requests : Locking(s) =>
              dialect = "mysql" /\ seen[s] = BoundTo(req[s].value)
         /\ \A s \in Requests : req[s].pc = "putReplace" => dialect = "sqlite"
<1>1. /\ TypeInv /\ Exclusive /\ putRows \subseteq bindings
      /\ \A s \in Requests : TransactionInv(s)
  BY DEF Replacement, RowsInserted, Integrity, TransactionsInv
<1>2. bindings \subseteq Row /\ dialect \in {"sqlite", "mysql"}
  BY <1>1, ConstantsAssumption DEF TypeInv, TypeOK
<1> QED  BY <1>1, <1>2 DEF TransactionInv, TransactionPlaces, Locking, Exclusive, HoldsItsValue

\* SQLite changes a value's bindings in one statement, and MySQL keeps every
\* other request out of a value whose DELETE has run.
LEMMA HoldingStep ==
  ASSUME Replacement, [Next]_vars, dialect # "postgres"
  PROVE  (\A s \in Requests : HoldsItsValue(s))' /\ ValuesApart'
<1>0. TypeInv /\ Exclusive /\ (\A s \in Requests : HoldsItsValue(s)) /\ ValuesApart
  BY NotPostgres DEF Exclusive
<1>1. ASSUME NEW r \in Requests, Elsewhere(r)
      PROVE  (\A s \in Requests : HoldsItsValue(s))' /\ ValuesApart'
  <2>1. HoldsItsValue(r)' /\ ~Locking(r)'
    BY <1>0, <1>1, ElsewhereShape DEF HoldsItsValue, Locking
  <2> QED  BY <1>0, <1>1, <2>1, ElsewhereShape, OthersHold DEF BoundTo
<1>2. ASSUME NEW r \in Requests, BindInsert(r) \/ SqlitePutReplace(r)
      PROVE  (\A s \in Requests : HoldsItsValue(s))' /\ ValuesApart'
  <2>1. HoldsItsValue(r)' /\ ~Locking(r)'
    BY <1>0, <1>2, InsertShape DEF HoldsItsValue, Locking
  <2>2. ASSUME NEW s \in Requests \ {r}, Locking(s)
        PROVE  BoundTo(req[s].value)' = BoundTo(req[s].value)
    <3>1. req'[s] = req[s] /\ dialect = "mysql"
      BY <1>0, <1>2, <2>2, InsertShape, NotPostgres
    <3>2. MysqlInsertBinding(r)
      BY <1>2, <3>1, NotPostgres
      DEF BindInsert, SqliteInsertBinding, PostgresInsertBinding, SqlitePutReplace
    <3>3. req[s].value # req[r].value
      BY <2>2, <3>2 DEF MysqlInsertBinding, ValueUnlocked
    <3>4. bindings' \in {bindings, bindings \cup {<<req[r].value, req[r].id>>}}
      BY <3>2 DEF MysqlInsertBinding, AddRow
    <3> QED  BY <3>1, <3>3, <3>4 DEF BoundTo
  <2> QED  BY <1>0, <1>2, <2>1, <2>2, InsertShape, OthersHold
<1>3. ASSUME NEW r \in Requests, PutDelete(r)
      PROVE  (\A s \in Requests : HoldsItsValue(s))' /\ ValuesApart'
  <2>1. MysqlPutDelete(r)
    BY <1>0, <1>3 DEF PutDelete, PostgresPutDelete, PostgresPutLocks, HoldsItsValue
  <2>2. /\ req'[r].pc = "putInsert" /\ req'[r].value = req[r].value
        /\ seen'[r] = BoundTo(req[r].value) /\ bindings' = bindings
    BY <1>0, <1>3, <2>1, PutDeleteShape DEF MysqlPutDelete, GoTo, TypeInv, TypeOK, Request
  <2>3. HoldsItsValue(r)'
    BY <2>2 DEF HoldsItsValue, BoundTo
  <2>4. \A s \in Requests \ {r} : Locking(s) => req'[r].value # req[s].value
    BY <2>1, <2>2 DEF MysqlPutDelete, ValueUnlocked
  <2> QED  BY <1>0, <1>3, <2>2, <2>3, <2>4, PutDeleteShape, OthersHold DEF BoundTo
<1>4. ASSUME NEW r \in Requests, PutInsert(r)
      PROVE  (\A s \in Requests : HoldsItsValue(s))' /\ ValuesApart'
  <2>1. req[r].pc = "putInsert" /\ HoldsItsValue(r) /\ bindings' = bindings
    BY <1>0, <1>4, PutInsertShape DEF PutInsert
  <2>2. HoldsItsValue(r)'
    BY <1>0, <1>4, <2>1, PutInsertShape DEF HoldsItsValue, Locking, BoundTo
  <2>3. \A s \in Requests \ {r} : Locking(r)' /\ Locking(s) => req'[r].value # req[s].value
    BY <1>0, <1>4, <2>1, PutInsertShape DEF ValuesApart, Locking
  <2> QED  BY <1>0, <1>4, <2>1, <2>2, <2>3, PutInsertShape, OthersHold DEF BoundTo
<1>5. ASSUME NEW r \in Requests, PutCommit(r) \/ Fail(r)
      PROVE  (\A s \in Requests : HoldsItsValue(s))' /\ ValuesApart'
  <2>1. HoldsItsValue(r)' /\ ~Locking(r)'
    BY <1>0, <1>5, EndShape DEF HoldsItsValue, Locking
  <2>2. ASSUME NEW s \in Requests \ {r}, Locking(s)
        PROVE  seen'[s] = seen[s] /\ BoundTo(req[s].value)' = BoundTo(req[s].value)
    <3>1. req'[s] = req[s]
      BY <1>0, <1>5, EndShape
    <3>2. CASE Fail(r)
      BY <3>1, <3>2 DEF Fail, tables, BoundTo, TypeInv, TypeOK
    <3>3. CASE PutCommit(r)
      <4>1. /\ Locking(r)
            /\ bindings' = (bindings \ seen[r]) \cup added[r]
            /\ seen'[s] = seen[s] \ seen[r]
        BY <3>3 DEF PutCommit, ForgetRemoved, Locking
      <4>2. req[r].value # req[s].value /\ seen[s] = BoundTo(req[s].value)
        BY <1>0, <2>2, <4>1 DEF ValuesApart, HoldsItsValue
      <4>3. \A row \in seen[r] \cup added[r] : row[1] = req[r].value
        BY NotPostgres DEF TransactionInv
      <4> QED  BY <3>1, <4>1, <4>2, <4>3 DEF BoundTo
    <3> QED  BY <1>5, <3>2, <3>3
  <2> QED  BY <1>0, <1>5, <2>1, <2>2, EndShape, OthersHold
<1>6. ASSUME NEW r \in Requests, Delete(r)
      PROVE  (\A s \in Requests : HoldsItsValue(s))' /\ ValuesApart'
  <2>1. /\ req'[r].pc = "done" /\ \A s \in Requests \ {r} : req'[s] = req[s]
    BY <1>0, <1>6 DEF Delete, Acknowledge, Reply, Answered, TypeInv, TypeOK
  <2>2. HoldsItsValue(r)' /\ ~Locking(r)'
    BY <2>1 DEF HoldsItsValue, Locking
  <2>3. ASSUME NEW s \in Requests \ {r}, Locking(s)
        PROVE  seen'[s] = seen[s] /\ BoundTo(req[s].value)' = BoundTo(req[s].value)
    <3>1. CASE ~Exists(req[r].id)
      BY <1>6, <2>1, <3>1 DEF Delete, tables, NoTransaction, BoundTo
    <3>2. CASE Exists(req[r].id)
      <4>1. /\ Unlocked(r, {row \in Row : row[2] = req[r].id})
            /\ bindings' = bindings \ RowsOf(req[r].id)
            /\ seen'[s] = seen[s] \ RowsOf(req[r].id)
        BY <1>6, <3>2 DEF Delete, ForgetRemoved
      <4>2. seen[s] = BoundTo(req[s].value) /\ bindings \subseteq Row
        BY <2>3, NotPostgres
      <4>3. seen[s] \cap RowsOf(req[r].id) = {}
        BY <2>3, <4>1, <4>2 DEF Unlocked, RowsOf
      <4> QED  BY <2>1, <4>1, <4>2, <4>3 DEF BoundTo
    <3> QED  BY <3>1, <3>2
  <2> QED  BY <1>0, <2>1, <2>2, <2>3, OthersHold
<1>7. CASE Restart
  <2>1. PICK lost \in SUBSET Requests :
          \A r \in Requests :
            IF r \in lost THEN req'[r] = Answered(0)
                          ELSE req'[r] = req[r] /\ seen'[r] = seen[r]
    BY <1>7 DEF Restart
  <2>2. UNCHANGED bindings
    BY <1>7 DEF Restart, tables
  <2>3. \A r \in lost : req'[r].pc = "done"
    BY <2>1 DEF Answered
  <2>4. ASSUME NEW r \in Requests PROVE HoldsItsValue(r)'
    BY <1>0, <2>1, <2>2, <2>3 DEF HoldsItsValue, Locking, BoundTo
  <2>5. ValuesApart'
    BY <1>0, <2>1, <2>3 DEF ValuesApart, Locking
  <2> QED  BY <2>4, <2>5
<1>8. CASE UNCHANGED vars
  BY <1>0, <1>8 DEF vars, HoldsItsValue, ValuesApart, Locking, BoundTo
<1> QED
  BY <1>1, <1>2, <1>3, <1>4, <1>5, <1>6, <1>7, <1>8 DEF Next, Statement, Elsewhere

\* The rows of acknowledged PUTs lose all those of a value when one replaces them.
LEMMA LastPutWinsStep ==
  ASSUME Replacement, [Next]_vars, dialect # "postgres"
  PROVE  LastPutWins'
<1>0. TypeInv /\ LastPutWins /\ putRows \subseteq bindings
  BY NotPostgres DEF Exclusive
<1>1. ASSUME putRows' \subseteq putRows
      PROVE  LastPutWins'
  BY <1>0, <1>1 DEF LastPutWins
<1>2. ASSUME NEW r \in Requests,
             putRows' = (putRows \ BoundTo(req[r].value)) \cup {<<req[r].value, req[r].id>>}
      PROVE  LastPutWins'
  BY <1>0, <1>2 DEF LastPutWins, BoundTo
<1>3. ASSUME NEW r \in Requests, Elsewhere(r)
      PROVE  LastPutWins'
  BY <1>0, <1>1, <1>3, ElsewhereShape
<1>4. ASSUME NEW r \in Requests, BindInsert(r) \/ Delete(r)
      PROVE  LastPutWins'
  BY <1>1, <1>4 DEF BindInsert, SqliteInsertBinding, PostgresInsertBinding,
                    MysqlInsertBinding, AddRow, Delete, tables
<1>5. ASSUME NEW r \in Requests, SqlitePutReplace(r)
      PROVE  LastPutWins'
  BY <1>1, <1>2, <1>5 DEF SqlitePutReplace
<1>6. ASSUME NEW r \in Requests, PutDelete(r) \/ PutInsert(r) \/ Fail(r)
      PROVE  LastPutWins'
  BY <1>1, <1>6 DEF PutDelete, PutInsert, Fail, tables
<1>7. ASSUME NEW r \in Requests, PutCommit(r)
      PROVE  LastPutWins'
  <2>1. req[r].pc = "putCommit" /\ putRows' = (putRows \ seen[r]) \cup added[r]
    BY <1>7 DEF PutCommit
  <2>2. seen[r] = BoundTo(req[r].value) /\ added[r] = {<<req[r].value, req[r].id>>}
    BY <2>1, NotPostgres DEF Locking, Replacement, RowsInserted
  <2> QED  BY <1>2, <2>1, <2>2
<1>8. CASE Restart \/ UNCHANGED vars
  BY <1>1, <1>8 DEF Restart, vars, tables
<1> QED
  BY <1>3, <1>4, <1>5, <1>6, <1>7, <1>8 DEF Next, Statement, Elsewhere

LEMMA SameDialect == [Next]_vars => dialect' = dialect
<1>1. ASSUME NEW r \in Requests, Arrive(r) PROVE dialect' = dialect
  BY <1>1 DEF Arrive, PostManifest, DeleteManifest, PostBinding, PutBinding, AskBinding
<1>2. ASSUME NEW r \in Requests, Statement(r) PROVE dialect' = dialect
  BY <1>2 DEF Statement, Lookup, Add, Sign, Delete, BindCheck, BindInsert, PutCheck,
              SqlitePutReplace, PutDelete, PutInsert, PutCommit
<1>3. ASSUME NEW r \in Requests, Fail(r) PROVE dialect' = dialect
  BY <1>3 DEF Fail
<1>4. CASE Restart
  BY <1>4 DEF Restart
<1> QED
  BY <1>1, <1>2, <1>3, <1>4 DEF Next, vars

LEMMA StepReplacement == Replacement /\ [Next]_vars => Replacement'
<1> SUFFICES ASSUME Replacement, [Next]_vars PROVE Replacement'
  OBVIOUS
<1>1. Integrity' /\ RowsInserted' /\ dialect' = dialect
  BY StepIntegrity, RowsInsertedStep, SameDialect DEF Replacement
<1>2. dialect # "postgres" => Exclusive'
  BY HoldingStep, LastPutWinsStep DEF Exclusive
<1> QED  BY <1>1, <1>2 DEF Replacement

\* In SQLite and MySQL, of several committed PUTs of one value only the last
\* one's binding is left.  (In Postgres two of them may both keep theirs.)
THEOREM LastPutOfAValueWins == Spec /\ dialect # "postgres" => []LastPutWins
<1>1. Replacement /\ dialect # "postgres" => LastPutWins
  BY DEF Replacement, Exclusive
<1>2. dialect # "postgres" /\ [Next]_vars => (dialect # "postgres")'
  BY SameDialect
<1> QED  BY <1>1, <1>2, InitReplacement, StepReplacement, PTL DEF Spec

\* No failure and no race loses a binding, in any dialect: it leaves with its
\* manifest, or in the step that puts a PUT's own row in its place.
THEOREM BindingsStay == Spec => BindingsLeaveOnlyOnRequest
<1> DEFINE Leaves(row) == \/ ~Exists(row[2])'
                          \/ \E r \in Requests :
                               /\ req[r].pc \in {"putReplace", "putCommit"}
                               /\ req[r].value = row[1]
                               /\ <<row[1], req[r].id>> \in bindings'
<1>1. ASSUME Replacement, [Next]_vars, NEW row \in bindings \ bindings'
      PROVE  Leaves(row)
  <2>0. TypeInv /\ row \in Row
    BY <1>1 DEF Replacement, Integrity, TypeInv, TypeOK
  <2>1. ASSUME NEW r \in Requests, Delete(r)
        PROVE  Leaves(row)
    <3>1. Exists(req[r].id) /\ row[2] = req[r].id /\ req[r].id \in Ids
      BY <1>1, <2>0, <2>1 DEF Delete, tables, RowsOf, Row
    <3> QED  BY <2>0, <2>1, <3>1 DEF Delete, Exists, TypeInv, TypeOK
  <2>2. ASSUME NEW r \in Requests, SqlitePutReplace(r)
        PROVE  Leaves(row)
    <3>1. /\ req[r].pc = "putReplace" /\ row[1] = req[r].value
          /\ <<req[r].value, req[r].id>> \in bindings'
      BY <1>1, <2>2 DEF SqlitePutReplace, BoundTo
    <3> QED  BY <3>1
  <2>3. ASSUME NEW r \in Requests, PutCommit(r)
        PROVE  Leaves(row)
    <3>1. req[r].pc = "putCommit" /\ row \in seen[r] /\ added[r] \subseteq bindings'
      BY <1>1, <2>3 DEF PutCommit
    <3>2. row[1] = req[r].value /\ added[r] = {<<req[r].value, req[r].id>>}
      BY <1>1, <3>1 DEF Replacement, RowsInserted, Integrity, TransactionsInv, TransactionInv
    <3> QED  BY <3>1, <3>2
  <2>4. ASSUME NEW r \in Requests, Elsewhere(r) \/ PutDelete(r) \/ PutInsert(r)
        PROVE  FALSE
    BY <1>1, <2>0, <2>4, ElsewhereShape, PutDeleteShape, PutInsertShape
  <2>5. ASSUME NEW r \in Requests, BindInsert(r) \/ Fail(r)
        PROVE  FALSE
    BY <1>1, <2>5 DEF BindInsert, SqliteInsertBinding, PostgresInsertBinding,
                      MysqlInsertBinding, AddRow, Fail, tables
  <2>6. ASSUME Restart \/ UNCHANGED vars
        PROVE  FALSE
    BY <1>1, <2>6 DEF Restart, vars, tables
  <2> HIDE DEF Leaves
  <2> QED
    BY <1>1, <2>1, <2>2, <2>3, <2>4, <2>5, <2>6 DEF Next, Statement, Elsewhere
<1>2. Replacement /\ [Next]_vars =>
        [\A row \in bindings \ bindings' :
           \/ ~Exists(row[2])'
           \/ \E r \in Requests :
                /\ req[r].pc \in {"putReplace", "putCommit"} /\ req[r].value = row[1]
                /\ <<row[1], req[r].id>> \in bindings']_vars
  BY <1>1
<1> QED
  BY <1>2, InitReplacement, StepReplacement, PTL DEF Spec, BindingsLeaveOnlyOnRequest

-----------------------------------------------------------------------------
(* The refinement.  Outside Postgres every statement is an operation of the  *)
(* abstract repository or none: what its handler saw is still so when it     *)
(* matters, because one statement does both or a lock is in between.         *)

\* What a client sees of a handler.
Client(q) ==
    [op |-> OperationAt(q.pc), id |-> q.id, blob |-> q.blob, value |-> q.value,
     receipt |-> q.receipt, status |-> q.status]

LEMMA InitImplementsRepository == Init => Repo!Init
  BY DEF Init, Repo!Init, Outstanding, OperationAt, Answered, Repo!Answered

\* The places of a handler, by operation.
LEMMA Operations ==
  /\ OperationAt("done") = "free"
  /\ OperationAt("lookup") = "ingest" /\ OperationAt("add") = "ingest"
  /\ OperationAt("sign") = "sign" /\ OperationAt("delete") = "remove"
  /\ OperationAt("bindCheck") = "bind" /\ OperationAt("bindInsert") = "bind"
  /\ OperationAt("putCheck") = "rebind"
  /\ \A place \in {"putManifest", "putDelete", "putLocks", "putInsert", "putCommit",
                    "putReplace"} : OperationAt(place) = "replace"
  BY DEF OperationAt

\* A handler that answers answers its client.
LEMMA AnswerSeen ==
  ASSUME TypeInv, NEW r \in Requests, NEW s \in {0, 200, 204, 400, 404, 500}, Reply(r, s)
  PROVE  Repo!Reply(r, s)
<1>1. ASSUME NEW t \in Requests
      PROVE  Outstanding'[t] = IF t = r THEN Repo!Answered(s) ELSE Outstanding[t]
  <2>1. CASE t = r
    <3>1. req'[r] = Answered(s)
      BY DEF Reply, TypeInv, TypeOK
    <3>2. /\ OperationAt(req'[r].pc) = "free" /\ req'[r].id = Nil /\ req'[r].blob = Nil
          /\ req'[r].value = Nil /\ req'[r].receipt = FALSE /\ req'[r].status = s
      BY <3>1, Operations DEF Answered
    <3> QED  BY <2>1, <3>2 DEF Outstanding, Repo!Answered
  <2>2. CASE t # r
    BY <2>2 DEF Reply, Outstanding, TypeInv, TypeOK
  <2> QED  BY <2>1, <2>2
<1> QED  BY <1>1 DEF Outstanding, Repo!Reply

\* One whose statement was done does so too, or loses the reply.
LEMMA AcknowledgementSeen ==
  ASSUME TypeInv, NEW r \in Requests, NEW s \in {200, 204}, Acknowledge(r, s)
  PROVE  Repo!Acknowledge(r, s)
  BY AnswerSeen DEF Acknowledge, Repo!Acknowledge

\* A step within an operation is not seen.
LEMMA NothingSeen ==
  ASSUME TypeInv, NEW r \in Requests, NEW place \in Places, GoTo(r, place),
         OperationAt(place) = OperationAt(req[r].pc)
  PROVE  Outstanding' = Outstanding
<1>1. ASSUME NEW t \in Requests
      PROVE  Outstanding'[t] = Outstanding[t]
  <2>1. CASE t = r
    BY <2>1 DEF Outstanding, GoTo, TypeInv, TypeOK, Request
  <2>2. CASE t # r
    BY <2>2 DEF Outstanding, GoTo, TypeInv, TypeOK
  <2> QED  BY <2>1, <2>2
<1> QED  BY <1>1 DEF Outstanding

\* A handler that starts is an operation its client asked for.
LEMMA AskSeen ==
  ASSUME TypeInv, NEW r \in Requests, NEW q, req' = [req EXCEPT ![r] = q]
  PROVE  Outstanding' = [Outstanding EXCEPT ![r] = Client(q)]
<1>1. ASSUME NEW t \in Requests
      PROVE  Outstanding'[t] = IF t = r THEN Client(q) ELSE Outstanding[t]
  <2>1. CASE t = r
    <3>1. req'[r] = q
      BY DEF TypeInv, TypeOK
    <3> QED  BY <2>1, <3>1 DEF Outstanding, Client
  <2>2. CASE t # r
    BY <2>2 DEF Outstanding, TypeInv, TypeOK
  <2> QED  BY <2>1, <2>2
<1> QED  BY <1>1 DEF Outstanding

\* A handler that has stored the bytes has its receipt still to sign, and a PUT
\* that has found its value bound has its rows still to replace.
LEMMA OperationSeen ==
  ASSUME TypeInv, NEW r \in Requests, NEW place \in Places, GoTo(r, place)
  PROVE  Outstanding' = [Outstanding EXCEPT ![r].op = OperationAt(place)]
<1>1. ASSUME NEW t \in Requests
      PROVE  Outstanding'[t] = IF t = r THEN [Outstanding[r] EXCEPT !.op = OperationAt(place)]
                                       ELSE Outstanding[t]
  <2>1. CASE t = r
    BY <2>1 DEF Outstanding, GoTo, TypeInv, TypeOK, Request
  <2>2. CASE t # r
    BY <2>2 DEF Outstanding, GoTo, TypeInv, TypeOK
  <2> QED  BY <2>1, <2>2
<1> QED  BY <1>1 DEF Outstanding

\* What a process takes with it when it stops.
LEMMA RestartSeen ==
  ASSUME Restart
  PROVE  \E lost \in SUBSET Requests :
           /\ Outstanding' = [r \in Requests |-> IF r \in lost THEN Repo!Answered(0)
                                                               ELSE Outstanding[r]]
           /\ \A r \in lost : req'[r] = Answered(0)
           /\ \A r \in Requests \ lost : req'[r] = req[r]
           /\ seen' = [r \in Requests |-> IF r \in lost THEN {} ELSE seen[r]]
<1>1. PICK lost \in SUBSET Requests :
        /\ req' = [r \in Requests |-> IF r \in lost THEN Answered(0) ELSE req[r]]
        /\ seen' = [r \in Requests |-> IF r \in lost THEN {} ELSE seen[r]]
  BY DEF Restart
<1>2. ASSUME NEW r \in Requests
      PROVE  Outstanding'[r] = IF r \in lost THEN Repo!Answered(0) ELSE Outstanding[r]
  <2>1. CASE r \in lost
    <3>1. req'[r] = Answered(0)
      BY <1>1, <2>1
    <3>2. /\ OperationAt(req'[r].pc) = "free" /\ req'[r].id = Nil /\ req'[r].blob = Nil
          /\ req'[r].value = Nil /\ req'[r].receipt = FALSE /\ req'[r].status = 0
      BY <3>1, Operations DEF Answered
    <3> QED  BY <2>1, <3>2 DEF Outstanding, Repo!Answered
  <2>2. CASE r \notin lost
    BY <1>1, <2>2 DEF Outstanding
  <2> QED  BY <2>1, <2>2
<1>3. Outstanding' = [r \in Requests |-> IF r \in lost THEN Repo!Answered(0) ELSE Outstanding[r]]
  BY <1>2 DEF Outstanding
<1> QED  BY <1>1, <1>3

LEMMA ClientFields ==
  ASSUME NEW r \in Requests
  PROVE  /\ Outstanding[r].op = OperationAt(req[r].pc) /\ Outstanding[r].id = req[r].id
         /\ Outstanding[r].blob = req[r].blob /\ Outstanding[r].value = req[r].value
         /\ Outstanding[r].receipt = req[r].receipt
  BY DEF Outstanding

LEMMA RequestedCalls ==
  /\ \A i \in Ids, b \in Blobs, w \in BOOLEAN :
       Repo!Asked("ingest", i, b, Nil, w) \in Repo!Requested
  /\ \A i \in Ids : Repo!Asked("remove", i, Nil, Nil, FALSE) \in Repo!Requested
  /\ \A op \in {"bind", "rebind"}, i \in Ids, v \in Values :
       Repo!Asked(op, i, Nil, v, FALSE) \in Repo!Requested
<1> DEFINE ops == {"bind", "rebind"}
           no == FALSE
           ingests == {Repo!Asked("ingest", i, b, Nil, w) : i \in Ids, b \in Blobs, w \in BOOLEAN}
           removes == {Repo!Asked("remove", i, Nil, Nil, FALSE) : i \in Ids}
           binds == {Repo!Asked(op, i, Nil, v, no) : op \in ops, i \in Ids, v \in Values}
<1>1. Repo!Requested = ingests \cup removes \cup binds
  BY DEF Repo!Requested
<1> HIDE DEF ops, no
<1>2. \A i \in Ids, b \in Blobs, w \in BOOLEAN : Repo!Asked("ingest", i, b, Nil, w) \in ingests
  OBVIOUS
<1>3. \A i \in Ids : Repo!Asked("remove", i, Nil, Nil, FALSE) \in removes
  OBVIOUS
<1>4. \A op \in ops, i \in Ids, v \in Values : Repo!Asked(op, i, Nil, v, no) \in binds
  OBVIOUS
<1> HIDE DEF ingests, removes, binds
<1> QED  BY <1>1, <1>2, <1>3, <1>4 DEF ops, no

\* Arrivals.
LEMMA ArriveImplements ==
  ASSUME TypeInv, NEW r \in Requests, Arrive(r)
  PROVE  Repo!Ask(r)
<1> USE DEF NoTransaction, tables
<1>1. /\ Outstanding[r].op = "free" /\ UNCHANGED <<manifests, bindings>>
  BY ClientFields, Operations
  DEF Arrive, PostManifest, DeleteManifest, PostBinding, PutBinding, AskBinding, Working
<1>2. ASSUME Reply(r, 400)
      PROVE  Repo!Ask(r)
  BY <1>1, <1>2, AnswerSeen DEF Repo!Ask
<1>3. ASSUME NEW place \in Places, NEW i, NEW b, NEW v, NEW w,
             req' = [req EXCEPT ![r] = Handling(place, i, b, v, w)],
             Repo!Asked(OperationAt(place), i, b, v, w) \in Repo!Requested
      PROVE  Repo!Ask(r)
  <2> DEFINE q == Handling(place, i, b, v, w)
             c == Repo!Asked(OperationAt(place), i, b, v, w)
  <2>0. Client(q) = c
    BY DEF Client, Handling, Repo!Asked
  <2> HIDE DEF q
  <2>1. Outstanding' = [Outstanding EXCEPT ![r] = c]
    <3>1. req' = [req EXCEPT ![r] = q]
      BY <1>3 DEF q
    <3> HIDE DEF c
    <3> QED  BY <2>0, <3>1, AskSeen
  <2> HIDE DEF c
  <2>2. c \in Repo!Requested
    BY <1>3 DEF c
  <2> QED  BY <1>1, <2>1, <2>2 DEF Repo!Ask
<1>4. ASSUME NEW b \in Blobs \cup {Nil}, NEW w \in BOOLEAN, PostManifest(r, b, w)
      PROVE  Repo!Ask(r)
  <2>1. CASE Reply(r, 400)
    BY <1>2, <2>1
  <2>2. CASE \E i \in Ids, place \in {"lookup", "add"} :
               b # Nil /\ req' = [req EXCEPT ![r] = Handling(place, i, b, Nil, w)]
    <3>1. PICK i \in Ids, place \in {"lookup", "add"} :
            b # Nil /\ req' = [req EXCEPT ![r] = Handling(place, i, b, Nil, w)]
      BY <2>2
    <3>2. OperationAt(place) = "ingest" /\ place \in Places
      BY Operations DEF Places
    <3>3. Repo!Asked("ingest", i, b, Nil, w) \in Repo!Requested
      BY <3>1, RequestedCalls
    <3> QED  BY <1>3, <3>1, <3>2, <3>3
  <2> QED  BY <1>4, <2>1, <2>2, ConstantsAssumption DEF PostManifest
<1>5. ASSUME NEW i \in Ids, DeleteManifest(r, i)
      PROVE  Repo!Ask(r)
  <2>1. Repo!Asked("remove", i, Nil, Nil, FALSE) \in Repo!Requested
    BY RequestedCalls
  <2>2. "delete" \in Places /\ OperationAt("delete") = "remove"
    BY Operations DEF Places
  <2> QED  BY <1>3, <1>5, <2>1, <2>2 DEF DeleteManifest
<1>6. ASSUME NEW v \in Values \cup {Nil}, NEW i \in Ids \cup {Nil},
             NEW place \in {"bindCheck", "putCheck"}, AskBinding(r, place, v, i)
      PROVE  Repo!Ask(r)
  <2>1. CASE Reply(r, 400)
    BY <1>2, <2>1
  <2>2. CASE /\ v # Nil /\ i # Nil
             /\ req' = [req EXCEPT ![r] = Handling(place, i, Nil, v, FALSE)]
    <3>1. place \in Places /\ OperationAt(place) \in {"bind", "rebind"}
      BY Operations DEF Places
    <3>2. Repo!Asked(OperationAt(place), i, Nil, v, FALSE) \in Repo!Requested
      BY <2>2, <3>1, RequestedCalls
    <3> QED  BY <1>3, <2>2, <3>1, <3>2
  <2> QED  BY <1>6, <2>1, <2>2 DEF AskBinding
<1> QED  BY <1>4, <1>5, <1>6 DEF Arrive, PostBinding, PutBinding

\* An upload's statements: looking an id up and inserting it are one Ingest,
\* whichever of them finds what it needs.
LEMMA UploadImplements ==
  ASSUME TypeInv, NEW r \in Requests, Lookup(r) \/ Add(r) \/ Sign(r)
  PROVE  \/ Repo!Ingest(r) \/ Repo!Sign(r) \/ Repo!Fail(r)
         \/ UNCHANGED <<manifests, bindings, Outstanding>>
<1> USE DEF tables
<1>1. ASSUME req[r].pc \in {"lookup", "add"}, Kept(r)
      PROVE  IF Outstanding[r].receipt
               THEN Outstanding' = [Outstanding EXCEPT ![r].op = "sign"]
               ELSE Repo!Acknowledge(r, 200)
  <2>1. "sign" \in Places /\ OperationAt("sign") = "sign"
    BY Operations DEF Places
  <2> QED  BY <1>1, <2>1, ClientFields, AcknowledgementSeen, OperationSeen DEF Kept
<1>2. CASE Lookup(r)
  <2>1. /\ req[r].pc = "lookup" /\ UNCHANGED <<manifests, bindings>>
        /\ Outstanding[r].op = "ingest"
    BY <1>2, ClientFields, Operations DEF Lookup
  <2>2. CASE GoTo(r, "add")
    BY <2>1, <2>2, NothingSeen, Operations DEF Places
  <2>3. CASE Exists(req[r].id) /\ manifests[req[r].id].data = req[r].blob /\ Kept(r)
    BY <1>1, <2>1, <2>3, ClientFields DEF Repo!Ingest, Exists
  <2>4. CASE Exists(req[r].id) /\ manifests[req[r].id].data # req[r].blob /\ Reply(r, 400)
    BY <2>1, <2>4, ClientFields, AnswerSeen DEF Repo!Ingest, Exists
  <2> QED  BY <1>2, <2>2, <2>3, <2>4 DEF Lookup
<1>3. CASE Add(r)
  <2>1. req[r].pc = "add" /\ UNCHANGED bindings /\ Outstanding[r].op = "ingest"
    BY <1>3, ClientFields, Operations DEF Add
  <2>2. CASE InsertManifest(req[r].id, req[r].blob) /\ Kept(r)
    BY <1>1, <2>1, <2>2, ClientFields DEF Repo!Ingest, InsertManifest, Exists
  <2>3. CASE Reply(r, 500) /\ UNCHANGED manifests
    BY <2>1, <2>3, AnswerSeen DEF Repo!Fail
  <2> QED  BY <1>3, <2>2, <2>3 DEF Add
<1>4. CASE Sign(r)
  <2>1. /\ req[r].pc = "sign" /\ UNCHANGED bindings /\ Outstanding[r].op = "sign"
        /\ SetReceipt(req[r].id) /\ Acknowledge(r, 200)
    BY <1>4, ClientFields, Operations DEF Sign
  <2>2. Repo!Acknowledge(r, 200)
    BY <2>1, AcknowledgementSeen
  <2>3. Outstanding[r].id = req[r].id
    BY <2>1, ClientFields
  <2> QED  BY <2>1, <2>2, <2>3 DEF Repo!Sign, SetReceipt, Exists
<1> QED  BY <1>2, <1>3, <1>4

LEMMA DeleteImplements ==
  ASSUME TypeInv, NEW r \in Requests, Delete(r)
  PROVE  Repo!Remove(r)
<1>1. req[r].pc = "delete" /\ Outstanding[r].op = "remove" /\ Outstanding[r].id = req[r].id
  BY ClientFields, Operations DEF Delete
<1>2. CASE ~Exists(req[r].id)
  BY <1>1, <1>2, AnswerSeen DEF Delete, Exists, tables, Repo!Remove
<1>3. CASE Exists(req[r].id)
  <2>1. bindings \ RowsOf(req[r].id) = {row \in bindings : row[2] # req[r].id}
    BY DEF RowsOf
  <2> QED  BY <1>1, <1>3, <2>1, AcknowledgementSeen DEF Delete, Exists, Repo!Remove
<1> QED  BY <1>2, <1>3

\* The handler's look for the manifest counts when it finds none; else the
\* INSERT decides.
LEMMA PostImplements ==
  ASSUME TypeInv, NEW r \in Requests, BindCheck(r) \/ BindInsert(r)
  PROVE  \/ Repo!Bind(r) \/ Repo!Fail(r)
         \/ UNCHANGED <<manifests, bindings, Outstanding>>
<1>1. /\ Outstanding[r].op = "bind" /\ Outstanding[r].id = req[r].id
      /\ Outstanding[r].value = req[r].value
      /\ UNCHANGED manifests
  BY ClientFields, Operations DEF BindCheck, BindInsert, tables
<1>2. CASE BindCheck(r)
  <2>1. CASE Exists(req[r].id)
    BY <1>2, <2>1, NothingSeen, Operations DEF BindCheck, tables, Places
  <2>2. CASE ~Exists(req[r].id)
    BY <1>1, <1>2, <2>2, AnswerSeen DEF BindCheck, tables, Exists, Repo!Bind
  <2> QED  BY <2>1, <2>2
<1>3. CASE BindInsert(r)
  <2>1. CASE AddRow(r)
    BY <1>1, <2>1, AcknowledgementSeen DEF AddRow, Exists, Repo!Bind
  <2>2. CASE ~Exists(req[r].id) /\ Reply(r, 500) /\ UNCHANGED bindings
    BY <1>1, <2>2, AnswerSeen DEF Repo!Fail
  <2>3. CASE ~Exists(req[r].id) /\ Reply(r, 204) /\ UNCHANGED bindings
    BY <1>1, <2>3, AnswerSeen DEF Exists, Repo!Bind
  <2> QED
    BY <1>3, <2>1, <2>2, <2>3
    DEF BindInsert, SqliteInsertBinding, PostgresInsertBinding, MysqlInsertBinding
<1> QED  BY <1>2, <1>3

\* SQLite replaces the rows in one statement; MySQL's COMMIT replaces the rows
\* that its DELETE found, which are the value's rows still.
LEMMA PutImplements ==
  ASSUME Replacement, dialect # "postgres", NEW r \in Requests,
         PutCheck(r) \/ SqlitePutReplace(r) \/ PutDelete(r) \/ PutInsert(r) \/ PutCommit(r)
  PROVE  \/ Repo!Confirm(r) \/ Repo!Rebind(r) \/ Repo!Fail(r)
         \/ UNCHANGED <<manifests, bindings, Outstanding>>
<1> USE DEF tables
<1>0. TypeInv
  BY NotPostgres
<1>1. /\ Outstanding[r].id = req[r].id /\ Outstanding[r].value = req[r].value
      /\ UNCHANGED manifests
  BY ClientFields DEF PutCheck, SqlitePutReplace, PutDelete, PutInsert, PutCommit
<1>2. CASE PutCheck(r)
  <2>1. /\ req[r].pc = "putCheck" /\ Outstanding[r].op = "rebind" /\ UNCHANGED bindings
        /\ \/ BoundTo(req[r].value) # {} /\ (GoTo(r, "putReplace") \/ GoTo(r, "putDelete"))
           \/ ~(BoundTo(req[r].value) # {} /\ Exists(req[r].id)) /\ Reply(r, 404)
    BY <1>2, ClientFields, Operations DEF PutCheck, PostgresPutCheck, OneLookPutCheck
  <2>2. CASE BoundTo(req[r].value) # {} /\ (GoTo(r, "putReplace") \/ GoTo(r, "putDelete"))
    <3>1. Outstanding' = [Outstanding EXCEPT ![r].op = "replace"]
      BY <1>0, <2>2, OperationSeen, Operations DEF Places
    <3> QED  BY <1>1, <1>2, <2>1, <2>2, <3>1 DEF BoundTo, Repo!BoundTo, Repo!Confirm
  <2>3. CASE ~(BoundTo(req[r].value) # {} /\ Exists(req[r].id)) /\ Reply(r, 404)
    BY <1>0, <1>1, <1>2, <2>1, <2>3, AnswerSeen
    DEF Exists, BoundTo, Repo!BoundTo, Repo!Confirm
  <2> QED  BY <2>1, <2>2, <2>3
<1>3. CASE SqlitePutReplace(r)
  <2>0. Outstanding[r].op = "replace"
    BY <1>3, ClientFields, Operations DEF SqlitePutReplace
  <2>1. CASE Exists(req[r].id) /\ Reply(r, 204) /\
             bindings' = (bindings \ BoundTo(req[r].value)) \cup {<<req[r].value, req[r].id>>}
    BY <1>0, <1>1, <2>0, <2>1, AnswerSeen
    DEF Exists, BoundTo, Repo!BoundTo, Repo!Acknowledge, Repo!Rebind
  <2>2. CASE Reply(r, 500) /\ UNCHANGED bindings
    BY <1>0, <1>1, <2>0, <2>2, AnswerSeen DEF Repo!Fail
  <2> QED  BY <1>3, <2>1, <2>2 DEF SqlitePutReplace
<1>4. CASE PutDelete(r)
  <2>1. /\ UNCHANGED <<manifests, bindings>>
        /\ req[r].pc \in {"putDelete", "putLocks"}
        /\ \E place \in {"putLocks", "putInsert"} : GoTo(r, place)
    BY <1>4 DEF PutDelete, PostgresPutDelete, PostgresPutLocks, MysqlPutDelete
  <2> QED  BY <1>0, <2>1, NothingSeen, Operations DEF Places
<1>5. CASE PutInsert(r)
  <2>0. Outstanding[r].op = "replace"
    BY <1>5, ClientFields, Operations DEF PutInsert
  <2>1. CASE GoTo(r, "putCommit")
    BY <1>0, <1>5, <2>1, NothingSeen, Operations DEF PutInsert, Places
  <2>2. CASE Reply(r, 500)
    BY <1>0, <1>1, <1>5, <2>0, <2>2, AnswerSeen DEF PutInsert, Repo!Fail
  <2> QED  BY <1>5, <2>1, <2>2 DEF PutInsert
<1>6. CASE PutCommit(r)
  <2>1. /\ req[r].pc = "putCommit" /\ Outstanding[r].op = "replace"
        /\ bindings' = (bindings \ seen[r]) \cup added[r]
    BY <1>6, ClientFields, Operations DEF PutCommit
  <2>2. seen[r] = BoundTo(req[r].value) /\ added[r] = {<<req[r].value, req[r].id>>}
    BY <2>1, NotPostgres DEF Locking, Replacement, RowsInserted
  <2>3. Exists(req[r].id)
    <3>1. \A row \in added[r] : Exists(row[2])
      BY NotPostgres DEF TransactionInv
    <3>2. <<req[r].value, req[r].id>> \in added[r]
      BY <2>2
    <3> QED  BY <3>1, <3>2
  <2>4. Repo!Acknowledge(r, 204)
    BY <1>0, <1>6, AcknowledgementSeen DEF PutCommit
  <2> QED  BY <1>1, <2>1, <2>2, <2>3, <2>4 DEF Exists, BoundTo, Repo!BoundTo, Repo!Rebind
<1> QED  BY <1>2, <1>3, <1>4, <1>5, <1>6

LEMMA StepImplementsRepository ==
  ASSUME Replacement, [Next]_vars, dialect # "postgres"
  PROVE  [Repo!Next]_(Repo!vars)
<1>0. TypeInv
  BY NotPostgres
<1>1. ASSUME NEW r \in Requests, Arrive(r)
      PROVE  Repo!Next
  BY <1>0, <1>1, ArriveImplements DEF Repo!Next
<1>2. ASSUME NEW r \in Requests, Statement(r)
      PROVE  Repo!Next \/ UNCHANGED <<manifests, bindings, Outstanding>>
  BY <1>0, <1>2, UploadImplements, DeleteImplements, PostImplements, PutImplements
  DEF Statement, Repo!Next
<1>3. ASSUME NEW r \in Requests, Fail(r)
      PROVE  Repo!Next
  <2>1. Outstanding[r].op # "free"
    BY <1>0, <1>3 DEF Fail, Working, Outstanding, OperationAt, TypeInv, TypeOK, Request, Places
  <2> QED  BY <1>0, <1>3, <2>1, AnswerSeen DEF Fail, tables, Repo!Fail, Repo!Next
<1>4. CASE Restart
  <2> QED  BY <1>4, RestartSeen DEF Restart, tables, Repo!Restart, Repo!Next
<1>5. CASE UNCHANGED vars
  BY <1>5 DEF vars, Outstanding, Repo!vars
<1> QED  BY <1>1, <1>2, <1>3, <1>4, <1>5 DEF Next, Repo!vars

\* Over SQLite and MySQL the server is the abstract repository: each answer and
\* each change of the tables is that of one indivisible operation.
THEOREM RepositoryImplemented == Spec /\ dialect # "postgres" => ImplementsRepository
<1>1. dialect # "postgres" /\ [Next]_vars => (dialect # "postgres")'
  BY SameDialect
<1>2. Replacement /\ dialect # "postgres" /\ [Next]_vars => [Repo!Next]_(Repo!vars)
  BY StepImplementsRepository
<1> QED
  BY <1>1, <1>2, InitReplacement, StepReplacement, InitImplementsRepository, PTL
  DEF Spec, ImplementsRepository, Repo!Spec

-----------------------------------------------------------------------------
(* The relaxed refinement.  In every dialect a step is the step of the        *)
(* repository it was before, but for a PUT in a transaction: its DELETE aims, *)
(* and its COMMIT replaces what is left of the rows it aimed at.              *)

LEMMA InitImplementsRelaxed == Init => Relaxed!InitRelaxed
  BY InitImplementsRepository
  DEF Init, Relaxed!InitRelaxed, Relaxed!Init, Relaxed!Answered, Repo!Init, Repo!Answered,
      Aiming, Answered

\* Both contracts mean the same by an operation.
LEMMA SameOperations ==
  ASSUME NEW r \in Requests
  PROVE  /\ \A s : Repo!Acknowledge(r, s) <=> Relaxed!Acknowledge(r, s)
         /\ Repo!Ask(r) <=> Relaxed!Ask(r)
         /\ Repo!Ingest(r) <=> Relaxed!Ingest(r)
         /\ Repo!Sign(r) <=> Relaxed!Sign(r)
         /\ Repo!Remove(r) <=> Relaxed!Remove(r)
         /\ Repo!Bind(r) <=> Relaxed!Bind(r)
         /\ Repo!Confirm(r) <=> Relaxed!Confirm(r)
         /\ Repo!Rebind(r) <=> Relaxed!Rebind(r)
         /\ Repo!Fail(r) <=> Relaxed!Fail(r)
<1>1. /\ \A s : Repo!Answered(s) = Relaxed!Answered(s)
      /\ \A op, i, b, v, w : Repo!Asked(op, i, b, v, w) = Relaxed!Asked(op, i, b, v, w)
      /\ \A v : Repo!BoundTo(v) = Relaxed!BoundTo(v)
  BY DEF Repo!Answered, Relaxed!Answered, Repo!Asked, Relaxed!Asked,
         Repo!BoundTo, Relaxed!BoundTo
<1>2. /\ \A s : Repo!Reply(r, s) <=> Relaxed!Reply(r, s)
      /\ \A s : Repo!Acknowledge(r, s) <=> Relaxed!Acknowledge(r, s)
  BY <1>1 DEF Repo!Reply, Relaxed!Reply, Repo!Acknowledge, Relaxed!Acknowledge
<1>3. Repo!Requested = Relaxed!Requested
  BY DEF Repo!Requested, Relaxed!Requested, Repo!Asked, Relaxed!Asked
<1>4. Repo!Ask(r) <=> Relaxed!Ask(r)
  BY <1>2, <1>3 DEF Repo!Ask, Relaxed!Ask
<1>5. Repo!Ingest(r) <=> Relaxed!Ingest(r)
  BY <1>2 DEF Repo!Ingest, Relaxed!Ingest
<1>6. Repo!Sign(r) <=> Relaxed!Sign(r)
  BY <1>2 DEF Repo!Sign, Relaxed!Sign
<1>7. Repo!Remove(r) <=> Relaxed!Remove(r)
  BY <1>2 DEF Repo!Remove, Relaxed!Remove
<1>8. Repo!Bind(r) <=> Relaxed!Bind(r)
  BY <1>2 DEF Repo!Bind, Relaxed!Bind
<1>9. Repo!Rebind(r) <=> Relaxed!Rebind(r)
  BY <1>1, <1>2 DEF Repo!Rebind, Relaxed!Rebind
<1>10. Repo!Fail(r) <=> Relaxed!Fail(r)
  BY <1>2 DEF Repo!Fail, Relaxed!Fail
<1>11. Repo!Confirm(r) <=> Relaxed!Confirm(r)
  BY <1>1, <1>2 DEF Repo!Confirm, Relaxed!Confirm
<1> QED  BY <1>2, <1>4, <1>5, <1>6, <1>7, <1>8, <1>9, <1>10, <1>11

\* A handler outside a PUT's transaction has not aimed; if it removes rows, or
\* nothing, it takes them from the targets and ends what it was aiming at.
LEMMA OutsideAim ==
  ASSUME TypeInv, TransactionsInv, NEW r \in Requests,
         \A s \in Requests \ {r} : req'[s] = req[s],
         req[r].pc \notin TransactionPlaces, req'[r].pc \notin TransactionPlaces,
         UNCHANGED seen,
         bindings \subseteq bindings' \/ dialect = "sqlite"
  PROVE  /\ r \notin Aiming
         /\ Relaxed!Removing(r, bindings \ bindings')
         /\ UNCHANGED <<Aiming, seen>>
<1>1. r \notin Aiming /\ Aiming' = Aiming
  BY DEF Aiming, TransactionPlaces
<1>2. seen[r] = {} /\ \A s \in Requests : dialect = "sqlite" => seen[s] = {}
  BY DEF TransactionsInv, TransactionInv
<1>3. \A s \in Requests : seen[s] \ (bindings \ bindings') = seen[s]
  BY <1>2
<1>4. seen' = [s \in Requests |-> IF s = r THEN {} ELSE seen[s] \ (bindings \ bindings')]
  BY <1>2, <1>3 DEF TypeInv, TypeOK
<1> QED  BY <1>1, <1>4 DEF Relaxed!Removing

\* A handler that answers without having changed the bindings aims no more.
LEMMA AimEnds ==
  ASSUME TypeInv, NEW r \in Requests, NEW s \in {0, 200, 204, 400, 404, 500}, Reply(r, s),
         seen' = [seen EXCEPT ![r] = {}], UNCHANGED bindings
  PROVE  Relaxed!Removing(r, bindings \ bindings')
<1>1. req'[r].pc = "done" /\ \A t \in Requests \ {r} : req'[t] = req[t]
  BY DEF Reply, Answered, TypeInv, TypeOK
<1>2. Aiming' = Aiming \ {r}
  BY <1>1 DEF Aiming
<1>3. \A t \in Requests : seen[t] \ (bindings \ bindings') = seen[t]
  OBVIOUS
<1>4. seen' = [t \in Requests |-> IF t = r THEN {} ELSE seen[t] \ (bindings \ bindings')]
  BY <1>3 DEF TypeInv, TypeOK
<1> QED  BY <1>2, <1>4 DEF Relaxed!Removing

\* Whatever a handler does outside of a PUT it did at once, in either contract.
LEMMA OthersImplementRelaxed ==
  ASSUME Integrity, NEW r \in Requests,
         \/ Arrive(r) \/ Lookup(r) \/ Add(r) \/ Sign(r) \/ Delete(r)
         \/ BindCheck(r) \/ BindInsert(r)
  PROVE  Relaxed!AtOnce(r) \/ UNCHANGED Relaxed!relaxedVars
<1> USE DEF NoTransaction, tables
<1>0. TypeInv /\ TransactionsInv
  BY DEF Integrity
<1>1. ASSUME Arrive(r) \/ Lookup(r) \/ Add(r) \/ Sign(r) \/ BindCheck(r) \/ BindInsert(r)
      PROVE  Relaxed!AtOnce(r) \/ UNCHANGED Relaxed!relaxedVars
  <2>1. /\ UNCHANGED seen /\ bindings \subseteq bindings'
        /\ \A s \in Requests \ {r} : req'[s] = req[s]
        /\ req[r].pc \notin TransactionPlaces /\ req'[r].pc \notin TransactionPlaces
    <3>1. CASE Arrive(r) \/ BindCheck(r)
      BY <1>0, <3>1 DEF Arrive, PostManifest, DeleteManifest, PostBinding, PutBinding,
         AskBinding, BindCheck, Working, Reply, GoTo, Handling, Answered, TransactionPlaces,
         TypeInv, TypeOK, Request
    <3>2. CASE Lookup(r) \/ Add(r) \/ Sign(r)
      BY <1>0, <3>2 DEF Lookup, Add, Sign, Kept, Acknowledge, Reply, GoTo, Answered,
         TransactionPlaces, TypeInv, TypeOK, Request
    <3>3. CASE BindInsert(r)
      BY <1>0, <3>3 DEF BindInsert, SqliteInsertBinding, PostgresInsertBinding,
         MysqlInsertBinding, AddRow, Acknowledge, Reply, Answered, TransactionPlaces,
         TypeInv, TypeOK, Request
    <3> QED  BY <1>1, <3>1, <3>2, <3>3
  <2>2. Relaxed!Removing(r, bindings \ bindings') /\ UNCHANGED <<Aiming, seen>>
    BY <1>0, <2>1, OutsideAim
  <2>3. \/ Repo!Ask(r) \/ Repo!Ingest(r) \/ Repo!Sign(r) \/ Repo!Bind(r) \/ Repo!Fail(r)
        \/ UNCHANGED <<manifests, bindings, Outstanding>>
    BY <1>0, <1>1, ArriveImplements, UploadImplements, PostImplements
  <2>4. \/ Relaxed!Ask(r) \/ Relaxed!Ingest(r) \/ Relaxed!Sign(r) \/ Relaxed!Bind(r)
        \/ Relaxed!Fail(r)
        \/ UNCHANGED <<manifests, bindings, Outstanding>>
    BY <2>3, SameOperations
  <2> QED  BY <2>2, <2>4 DEF Relaxed!AtOnce, Relaxed!relaxedVars
<1>2. CASE Delete(r)
  <2>1. Relaxed!Remove(r)
    BY <1>0, <1>2, DeleteImplements, SameOperations
  <2>2. /\ req[r].pc = "delete" /\ req'[r].pc = "done"
        /\ \A s \in Requests \ {r} : req'[s] = req[s]
    BY <1>0, <1>2 DEF Delete, Acknowledge, Reply, Answered, TypeInv, TypeOK
  <2>3. Aiming' = Aiming \ {r} /\ seen[r] = {}
    BY <1>0, <2>2 DEF Aiming, TransactionsInv, TransactionInv, TransactionPlaces
  <2>4. seen' = [s \in Requests |-> IF s = r THEN {} ELSE seen[s] \ (bindings \ bindings')]
    <3>1. CASE UNCHANGED <<seen, bindings>>
      <4>1. \A s \in Requests : seen[s] \ (bindings \ bindings') = seen[s]
        BY <3>1
      <4> QED  BY <1>0, <2>3, <3>1, <4>1 DEF TypeInv, TypeOK
    <3>2. CASE ForgetRemoved(r, RowsOf(req[r].id)) /\ bindings' = bindings \ RowsOf(req[r].id)
      <4>1. bindings \ bindings' = RowsOf(req[r].id)
        BY <3>2 DEF RowsOf
      <4> QED  BY <3>2, <4>1 DEF ForgetRemoved
    <3> QED  BY <1>2, <3>1, <3>2 DEF Delete
  <2> QED  BY <2>1, <2>3, <2>4 DEF Relaxed!AtOnce, Relaxed!Removing
<1> QED  BY <1>1, <1>2

\* A PUT that has no transaction open confirms, or replaces at once.
LEMMA PutBeforeAim ==
  ASSUME Integrity, NEW r \in Requests, PutCheck(r) \/ SqlitePutReplace(r)
  PROVE  Relaxed!AtOnce(r) \/ UNCHANGED Relaxed!relaxedVars
<1> USE DEF NoTransaction, tables
<1>0. TypeInv /\ TransactionsInv
  BY DEF Integrity
<1>1. /\ Outstanding[r].id = req[r].id /\ Outstanding[r].value = req[r].value
      /\ UNCHANGED <<manifests, seen>>
  BY ClientFields DEF PutCheck, SqlitePutReplace
<1>2. r \notin Aiming /\ Relaxed!Removing(r, bindings \ bindings') /\ UNCHANGED <<Aiming, seen>>
  <2>1. CASE PutCheck(r)
    <3>1. /\ bindings \subseteq bindings'
          /\ \A s \in Requests \ {r} : req'[s] = req[s]
          /\ req[r].pc \notin TransactionPlaces /\ req'[r].pc \notin TransactionPlaces
      BY <1>0, <2>1 DEF PutCheck, PostgresPutCheck, OneLookPutCheck, Reply, GoTo, Answered,
         TransactionPlaces, TypeInv, TypeOK, Request
    <3> QED  BY <1>0, <1>1, <3>1, OutsideAim
  <2>2. CASE SqlitePutReplace(r)
    <3>1. /\ dialect = "sqlite"
          /\ \A s \in Requests \ {r} : req'[s] = req[s]
          /\ req[r].pc \notin TransactionPlaces /\ req'[r].pc \notin TransactionPlaces
      BY <1>0, <2>2 DEF SqlitePutReplace, Reply, Answered, TransactionPlaces,
         TypeInv, TypeOK, Request, TransactionsInv, TransactionInv
    <3> QED  BY <1>0, <1>1, <3>1, OutsideAim
  <2> QED  BY <2>1, <2>2
<1>3. ASSUME Repo!Confirm(r) \/ Repo!Rebind(r) \/ Repo!Fail(r) PROVE Relaxed!AtOnce(r)
  BY <1>2, <1>3, SameOperations DEF Relaxed!AtOnce
<1>4. CASE PutCheck(r) /\ req[r].pc = "putCheck"
  <2>1. /\ Outstanding[r].op = "rebind" /\ UNCHANGED bindings
        /\ \/ /\ BoundTo(req[r].value) # {}
              /\ \E place \in {"putManifest", "putDelete", "putReplace"} : GoTo(r, place)
           \/ (BoundTo(req[r].value) = {} \/ ~Exists(req[r].id)) /\ Reply(r, 404)
    BY <1>4, ClientFields, Operations DEF PutCheck, PostgresPutCheck, OneLookPutCheck
  <2>2. CASE /\ BoundTo(req[r].value) # {}
             /\ \E place \in {"putManifest", "putDelete", "putReplace"} : GoTo(r, place)
    <3>1. Outstanding' = [Outstanding EXCEPT ![r].op = "replace"]
      BY <1>0, <2>2, OperationSeen, Operations DEF Places
    <3>2. Repo!Confirm(r)
      BY <1>1, <2>1, <2>2, <3>1 DEF BoundTo, Repo!BoundTo, Repo!Confirm
    <3> QED  BY <1>3, <3>2
  <2>3. CASE (BoundTo(req[r].value) = {} \/ ~Exists(req[r].id)) /\ Reply(r, 404)
    <3>1. Repo!Confirm(r)
      BY <1>0, <1>1, <2>1, <2>3, AnswerSeen DEF Exists, BoundTo, Repo!BoundTo, Repo!Confirm
    <3> QED  BY <1>3, <3>1
  <2> QED  BY <2>1, <2>2, <2>3
<1>5. CASE PutCheck(r) /\ req[r].pc = "putManifest"
  <2>1. /\ Outstanding[r].op = "replace" /\ UNCHANGED bindings
        /\ GoTo(r, "putDelete") \/ (~Exists(req[r].id) /\ Reply(r, 404))
    BY <1>5, ClientFields, Operations DEF PutCheck, PostgresPutCheck, OneLookPutCheck
  <2>2. CASE GoTo(r, "putDelete")
    <3>1. UNCHANGED Outstanding
      BY <1>0, <1>5, <2>2, NothingSeen, Operations DEF Places
    <3> QED  BY <1>1, <1>2, <2>1, <3>1 DEF Relaxed!relaxedVars
  <2>3. CASE ~Exists(req[r].id) /\ Reply(r, 404)
    <3>1. Repo!Rebind(r)
      BY <1>0, <1>1, <2>1, <2>3, AnswerSeen DEF Exists, Repo!Rebind
    <3> QED  BY <1>3, <3>1
  <2> QED  BY <2>1, <2>2, <2>3
<1>6. CASE SqlitePutReplace(r)
  <2>0. Outstanding[r].op = "replace"
    BY <1>6, ClientFields, Operations DEF SqlitePutReplace
  <2>1. CASE Exists(req[r].id) /\ Reply(r, 204) /\
             bindings' = (bindings \ BoundTo(req[r].value)) \cup {<<req[r].value, req[r].id>>}
    <3>1. Repo!Rebind(r)
      BY <1>0, <1>1, <2>0, <2>1, AnswerSeen
      DEF Exists, BoundTo, Repo!BoundTo, Repo!Acknowledge, Repo!Rebind
    <3> QED  BY <1>3, <3>1
  <2>2. CASE Reply(r, 500) /\ UNCHANGED bindings
    <3>1. Repo!Fail(r)
      BY <1>0, <1>1, <2>0, <2>2, AnswerSeen DEF Repo!Fail
    <3> QED  BY <1>3, <3>1
  <2> QED  BY <1>6, <2>1, <2>2 DEF SqlitePutReplace
<1>7. PutCheck(r) => req[r].pc \in {"putCheck", "putManifest"}
  BY DEF PutCheck, PostgresPutCheck, OneLookPutCheck
<1> QED  BY <1>4, <1>5, <1>6, <1>7

\* The DELETE of a PUT's transaction aims, and its COMMIT replaces.
LEMMA PutAims ==
  ASSUME Replacement, NEW r \in Requests, PutDelete(r) \/ PutInsert(r) \/ PutCommit(r)
  PROVE  \/ Relaxed!Aim(r) \/ Relaxed!Replace(r) \/ Relaxed!AtOnce(r)
         \/ UNCHANGED Relaxed!relaxedVars
<1> USE DEF tables
<1>0. TypeInv /\ TransactionsInv /\ RowsInserted
  BY DEF Replacement, Integrity
<1>1. /\ Outstanding[r].op = "replace" /\ Outstanding[r].id = req[r].id
      /\ Outstanding[r].value = req[r].value
      /\ OperationAt(req[r].pc) = "replace"
      /\ UNCHANGED manifests
  BY ClientFields, Operations
  DEF PutDelete, PostgresPutDelete, PostgresPutLocks, MysqlPutDelete, PutInsert, PutCommit
<1>2. ASSUME NEW place \in {"putLocks", "putInsert", "putCommit"}, GoTo(r, place)
      PROVE  UNCHANGED Outstanding /\ Aiming' = Aiming \cup {r}
  <2>1. place \in Places /\ OperationAt(place) = OperationAt(req[r].pc)
    BY <1>1, Operations DEF Places
  <2>2. req'[r].pc = place /\ \A s \in Requests \ {r} : req'[s].pc = req[s].pc
    BY <1>0, <1>2 DEF GoTo, TypeInv, TypeOK, Request
  <2> QED  BY <1>0, <1>2, <2>1, <2>2, NothingSeen DEF Aiming
<1>3. CASE PostgresPutDelete(r) \/ MysqlPutDelete(r)
  <2>1. /\ UNCHANGED bindings
        /\ req[r].pc = "putDelete" /\ seen' = [seen EXCEPT ![r] = BoundTo(req[r].value)]
        /\ \E place \in {"putLocks", "putInsert", "putCommit"} : GoTo(r, place)
    BY <1>3 DEF PutDelete, PutInsert, PutCommit, PostgresPutDelete, MysqlPutDelete,
       PostgresPutLocks
  <2>2. r \notin Aiming /\ UNCHANGED Outstanding /\ Aiming' = Aiming \cup {r}
    BY <1>2, <2>1 DEF Aiming
  <2> QED  BY <1>1, <2>1, <2>2 DEF BoundTo, Relaxed!BoundTo, Relaxed!Aim
<1>4. CASE PutDelete(r) /\ PostgresPutLocks(r)
  <2>1. r \in Aiming /\ UNCHANGED <<seen, bindings>> /\ GoTo(r, "putInsert")
    BY <1>4 DEF PutDelete, PostgresPutLocks, Aiming
  <2> QED  BY <1>1, <1>2, <2>1 DEF Relaxed!relaxedVars
<1>5. CASE PutInsert(r)
  <2>1. r \in Aiming /\ UNCHANGED bindings
    BY <1>5 DEF PutInsert, Aiming
  <2>2. CASE GoTo(r, "putCommit") /\ UNCHANGED seen
    BY <1>1, <1>2, <2>1, <2>2 DEF Relaxed!relaxedVars
  <2>3. CASE Reply(r, 500) /\ seen' = [seen EXCEPT ![r] = {}]
    <3>1. Repo!Fail(r)
      BY <1>0, <1>1, <2>1, <2>3, AnswerSeen DEF Repo!Fail
    <3>2. Relaxed!Removing(r, bindings \ bindings')
      BY <1>0, <2>1, <2>3, AimEnds
    <3> QED  BY <3>1, <3>2, SameOperations DEF Relaxed!AtOnce
  <2> QED  BY <1>5, <2>2, <2>3 DEF PutInsert
<1>6. CASE PutCommit(r)
  <2>1. /\ r \in Aiming /\ bindings' = (bindings \ seen[r]) \cup added[r]
        /\ added[r] = {<<req[r].value, req[r].id>>}
    BY <1>0, <1>6 DEF PutCommit, Aiming, RowsInserted
  <2>2. Exists(req[r].id)
    <3>1. \A row \in added[r] : Exists(row[2])
      BY <1>0 DEF TransactionsInv, TransactionInv
    <3>2. <<req[r].value, req[r].id>> \in added[r]
      BY <2>1
    <3> QED  BY <3>1, <3>2
  <2>3. Relaxed!Acknowledge(r, 204)
    BY <1>0, <1>6, AcknowledgementSeen, SameOperations DEF PutCommit
  <2>4. Relaxed!Removing(r, seen[r])
    <3>1. req'[r].pc = "done" /\ \A s \in Requests \ {r} : req'[s] = req[s]
      BY <1>0, <1>6 DEF PutCommit, Acknowledge, Reply, Answered, TypeInv, TypeOK
    <3> QED  BY <1>6, <3>1 DEF PutCommit, ForgetRemoved, Aiming, Relaxed!Removing
  <2> QED  BY <1>1, <2>1, <2>2, <2>3, <2>4 DEF Exists, Relaxed!Replace
<1> QED  BY <1>3, <1>4, <1>5, <1>6 DEF PutDelete

LEMMA StepImplementsRelaxed ==
  ASSUME Replacement, [Next]_vars
  PROVE  [Relaxed!NextRelaxed]_(Relaxed!relaxedVars)
<1>0. Integrity /\ TypeInv
  BY DEF Replacement, Integrity
<1>1. ASSUME NEW r \in Requests, Arrive(r) \/ Statement(r)
      PROVE  [Relaxed!NextRelaxed]_(Relaxed!relaxedVars)
  <2>1. \/ Relaxed!Aim(r) \/ Relaxed!Replace(r) \/ Relaxed!AtOnce(r)
        \/ UNCHANGED Relaxed!relaxedVars
    BY <1>0, <1>1, OthersImplementRelaxed, PutBeforeAim, PutAims DEF Statement
  <2> QED  BY <2>1 DEF Relaxed!NextRelaxed
<1>2. ASSUME NEW r \in Requests, Fail(r)
      PROVE  Relaxed!NextRelaxed
  <2>1. Outstanding[r].op # "free"
    BY <1>0, <1>2 DEF Fail, Working, Outstanding, OperationAt, TypeInv, TypeOK, Request, Places
  <2>2. Repo!Fail(r)
    BY <1>0, <1>2, <2>1, AnswerSeen DEF Fail, tables, Repo!Fail
  <2>3. Relaxed!Removing(r, bindings \ bindings')
    BY <1>0, <1>2, AimEnds DEF Fail, tables
  <2> QED  BY <2>2, <2>3, SameOperations DEF Relaxed!AtOnce, Relaxed!NextRelaxed
<1>3. CASE Restart
  <2>1. PICK lost \in SUBSET Requests :
          /\ Outstanding' = [r \in Requests |-> IF r \in lost THEN Repo!Answered(0)
                                                              ELSE Outstanding[r]]
          /\ \A r \in lost : req'[r] = Answered(0)
          /\ \A r \in Requests \ lost : req'[r] = req[r]
          /\ seen' = [r \in Requests |-> IF r \in lost THEN {} ELSE seen[r]]
    BY <1>3, RestartSeen
  <2>2. Aiming' = Aiming \ lost
    BY <2>1 DEF Aiming, Answered
  <2>3. UNCHANGED <<manifests, bindings>> /\ Repo!Answered(0) = Relaxed!Answered(0)
    BY <1>3 DEF Restart, tables, Repo!Answered, Relaxed!Answered
  <2>4. Relaxed!RestartRelaxed
    BY <2>1, <2>2, <2>3 DEF Relaxed!RestartRelaxed
  <2> QED  BY <2>4 DEF Relaxed!NextRelaxed
<1>4. CASE UNCHANGED vars
  BY <1>4 DEF vars, Outstanding, Aiming, Relaxed!relaxedVars
<1> QED  BY <1>1, <1>2, <1>3, <1>4 DEF Next

\* Over every database, PostgreSQL included, the server is the relaxed repository.
THEOREM RelaxedImplemented == Spec => ImplementsRelaxed
<1>1. Replacement /\ [Next]_vars => [Relaxed!NextRelaxed]_(Relaxed!relaxedVars)
  BY StepImplementsRelaxed
<1> QED
  BY <1>1, InitReplacement, StepReplacement, InitImplementsRelaxed, PTL
  DEF Spec, ImplementsRelaxed, Relaxed!SpecRelaxed
=============================================================================
