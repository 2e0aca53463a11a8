----------------------------- MODULE Repository -----------------------------
(***************************************************************************)
(* What the store routes promise their clients, whatever data store plugin *)
(* sits behind them: every request takes effect in one indivisible step    *)
(* between its arrival and its answer (an ingest that asked for a receipt  *)
(* takes two), and a request that answers 4xx takes none.  A request that  *)
(* answers 500 has taken no effect or all of it: the database may have     *)
(* done what it was asked and its reply been lost.  A PUT of a binding has *)
(* two moments: at the first its value must be bound, or it is answered    *)
(* 404 ("Soft binding value not found"); at the second what the value has  *)
(* by then is replaced.  The contract is the one the route handlers of     *)
(* src/src/routes/store.ts and the DataStorePlugin interface state; the    *)
(* SQL plugins are shown to implement it.                                  *)
(***************************************************************************)

CONSTANTS
    Requests,   \* request slots: one HTTP request at a time in each
    Ids,        \* manifest ids
    Blobs,      \* C2PA Manifest Stores, as byte strings told apart
    Values,     \* soft binding values
    Nil         \* no id, no bytes, no row

VARIABLES
    manifests,  \* [Ids -> Stored \cup {Nil}]
    bindings,   \* SUBSET (Values \X Ids)
    call        \* [Requests -> Call]: what each client has outstanding

vars == <<manifests, bindings, call>>

Stored == [data : Blobs, signed : BOOLEAN]

\* What is stored is never undefined.
ASSUME NilAssumption == Nil \notin Stored

Operations == {"free", "ingest", "sign", "remove", "bind", "rebind", "replace"}

Call == [op : Operations, id : Ids \cup {Nil}, blob : Blobs \cup {Nil},
         value : Values \cup {Nil}, receipt : BOOLEAN,
         status : {0, 200, 204, 400, 404, 500}]

Answered(s) == [op |-> "free", id |-> Nil, blob |-> Nil, value |-> Nil,
                receipt |-> FALSE, status |-> s]

Asked(op, i, b, v, receipt) ==
    [op |-> op, id |-> i, blob |-> b, value |-> v, receipt |-> receipt, status |-> 0]

Reply(r, s) == call' = [call EXCEPT ![r] = Answered(s)]

\* What was asked is done; the client is told so, or the reply is lost.
Acknowledge(r, s) == Reply(r, s) \/ Reply(r, 500)

BoundTo(v) == {row \in bindings : row[1] = v}

Init ==
    /\ manifests = [i \in Ids |-> Nil]
    /\ bindings = {}
    /\ call = [r \in Requests |-> Answered(0)]

-----------------------------------------------------------------------------
Requested ==
    {Asked("ingest", i, b, Nil, w) : i \in Ids, b \in Blobs, w \in BOOLEAN}
        \cup {Asked("remove", i, Nil, Nil, FALSE) : i \in Ids}
        \cup {Asked(op, i, Nil, v, FALSE) :
                op \in {"bind", "rebind"}, i \in Ids, v \in Values}

\* A request arrives, or is refused for its own sake.
Ask(r) ==
    /\ call[r].op = "free"
    /\ \/ call' \in {[call EXCEPT ![r] = c] : c \in Requested}
       \/ Reply(r, 400)
    /\ UNCHANGED <<manifests, bindings>>

\* Bytes go under an id nobody holds, or are already there; an id that holds
\* other bytes is a label conflict and keeps them.
Ingest(r) ==
    LET c == call[r] IN
    /\ c.op = "ingest"
    /\ \/ /\ manifests[c.id] # Nil /\ manifests[c.id].data # c.blob
          /\ Reply(r, 400)
          /\ UNCHANGED manifests
       \/ /\ \/ manifests[c.id] # Nil /\ manifests[c.id].data = c.blob /\ UNCHANGED manifests
             \/ /\ manifests[c.id] = Nil
                /\ manifests' = [manifests EXCEPT ![c.id] = [data |-> c.blob, signed |-> FALSE]]
          /\ IF c.receipt
               THEN call' = [call EXCEPT ![r].op = "sign"]
               ELSE Acknowledge(r, 200)
    /\ UNCHANGED bindings

\* The receipt is kept with the manifest, if it is still there.
Sign(r) ==
    LET c == call[r] IN
    /\ c.op = "sign"
    /\ manifests' = IF manifests[c.id] = Nil
                      THEN manifests
                      ELSE [manifests EXCEPT ![c.id].signed = TRUE]
    /\ Acknowledge(r, 200)
    /\ UNCHANGED bindings

\* A manifest goes together with its receipt and every binding to it.
Remove(r) ==
    LET c == call[r] IN
    /\ c.op = "remove"
    /\ \/ /\ manifests[c.id] = Nil
          /\ Reply(r, 404)
          /\ UNCHANGED <<manifests, bindings>>
       \/ /\ manifests[c.id] # Nil
          /\ manifests' = [manifests EXCEPT ![c.id] = Nil]
          /\ bindings' = {row \in bindings : row[2] # c.id}
          /\ Acknowledge(r, 204)

\* A value is associated with a stored manifest.  A manifest removed while the
\* request was being served may be reported either way; no row is left for it.
Bind(r) ==
    LET c == call[r] IN
    /\ c.op = "bind"
    /\ \/ /\ manifests[c.id] # Nil
          /\ bindings' = bindings \cup {<<c.value, c.id>>}
          /\ Acknowledge(r, 204)
       \/ /\ manifests[c.id] = Nil
          /\ \E s \in {204, 404} : Reply(r, s)
          /\ UNCHANGED bindings
    /\ UNCHANGED manifests

\* A PUT goes on only if its value is bound; no value without a binding, and no
\* manifest that is missing, is ever answered other than 404 at this moment.
Confirm(r) ==
    LET c == call[r] IN
    /\ c.op = "rebind"
    /\ \/ BoundTo(c.value) # {} /\ call' = [call EXCEPT ![r].op = "replace"]
       \/ (manifests[c.id] = Nil \/ BoundTo(c.value) = {}) /\ Reply(r, 404)
    /\ UNCHANGED <<manifests, bindings>>

\* The associations that the value has now are replaced by one.
Rebind(r) ==
    LET c == call[r] IN
    /\ c.op = "replace"
    /\ \/ /\ manifests[c.id] # Nil
          /\ bindings' = (bindings \ BoundTo(c.value)) \cup {<<c.value, c.id>>}
          /\ Acknowledge(r, 204)
       \/ /\ manifests[c.id] = Nil
          /\ Reply(r, 404)
          /\ UNCHANGED bindings
    /\ UNCHANGED manifests

\* A request may fail before it takes effect, and a process of the server may
\* stop, with the requests that it serves: what was not done never is.
Fail(r) ==
    /\ call[r].op # "free"
    /\ Reply(r, 500)
    /\ UNCHANGED <<manifests, bindings>>

Restart ==
    /\ \E lost \in SUBSET Requests :
         call' = [r \in Requests |-> IF r \in lost THEN Answered(0) ELSE call[r]]
    /\ UNCHANGED <<manifests, bindings>>

Next ==
    \/ \E r \in Requests : Ask(r) \/ Ingest(r) \/ Sign(r) \/ Remove(r)
                             \/ Bind(r) \/ Confirm(r) \/ Rebind(r) \/ Fail(r)
    \/ Restart

Spec == Init /\ [][Next]_vars
=============================================================================
