----------------------------- MODULE MongoServer -----------------------------
(***************************************************************************)
(* The store routes (src/src/routes/store.ts) over the MongoDB data store  *)
(* plugin (src/plugins/mongoDB/src/index.ts).  As in SqlServer a request   *)
(* is a process whose steps are the operations its handler awaits.  Mongo  *)
(* makes a change of one document atomic and nothing more: the plugin      *)
(* opens no transaction, creates no index and has no foreign key, so two   *)
(* documents may carry one id, an upsert that matched nothing inserts      *)
(* whatever appeared since, and the cascade of a DELETE is two scans of    *)
(* the bindings, which pull an id value by value and remove documents one  *)
(* by one, with anything in between.  An operation on one document takes   *)
(* the first that matches in the collection's own order: nothing sorts,    *)
(* and that order is not the one in which inserts were answered, so an     *)
(* insert may land in front of a document or behind it.  The order of the  *)
(* documents that are stored stays (one mongod scans by record, and an     *)
(* update leaves the record where it is).                                  *)
(***************************************************************************)
EXTENDS Sequences, SequencesExt

CONSTANTS
    Requests,   \* request slots: one HTTP request at a time in each
    Ids,        \* manifest ids
    MintedIds,  \* the ids among them that the server's uuid generator returns
    Blobs,      \* C2PA Manifest Stores, as byte strings told apart
    Values,     \* soft binding values
    Nil,        \* no id, no bytes
    Unparsable, \* what the operator's parseManifestId answers by throwing
    ParsedId    \* what parseManifestId makes of each blob (Nil: no id, or not configured)

ASSUME ConstantsAssumption ==
    /\ MintedIds \subseteq Ids
    /\ Nil \notin Ids \cup Blobs \cup Values
    /\ Unparsable \notin Ids \cup {Nil}
    /\ ParsedId \in [Blobs -> (Ids \ MintedIds) \cup {Nil, Unparsable}]

VARIABLES
    manifests,  \* the manifests collection: for each id, its documents
    bindings,   \* the bindings collection: for each value, its documents' manifestIds
    minted,     \* the ids the uuid generator has returned
    req,        \* what each request's handler is doing and holds
    late,       \* history: <<value, id>> written when no manifest had the id
    cut,        \* history: <<value, id>> that a DELETE of the id stopped before reaching
    raced,      \* history: values for which two upserts were about to insert at once
    crossed,    \* history: uploads about to insert while another inserted their id
    doubled     \* history: ids such an upload gave a second document

vars == <<manifests, bindings, minted, req, late, cut, raced, crossed, doubled>>
ofUploads == <<crossed, doubled>>
history == <<late, cut, raced, crossed, doubled>>

Stored == [data : Blobs, signed : BOOLEAN]

Places == {"done", "lookup", "add", "sign", "signSet", "delete", "pull", "deleteEmpty",
           "bindCheck", "bindUpsert", "bindInsertDoc", "putFind", "putManifest", "putSet"}

Request == [pc : Places, id : Ids \cup {Nil}, blob : Blobs \cup {Nil},
            value : Values \cup {Nil}, receipt : BOOLEAN, todo : SUBSET Values,
            status : {0, 200, 204, 400, 404, 500}]

Answered(s) == [pc |-> "done", id |-> Nil, blob |-> Nil, value |-> Nil,
                receipt |-> FALSE, todo |-> {}, status |-> s]

Handling(place, i, b, v, receipt) ==
    [pc |-> place, id |-> i, blob |-> b, value |-> v, receipt |-> receipt,
     todo |-> {}, status |-> 0]

Init ==
    /\ manifests = [i \in Ids |-> <<>>]
    /\ bindings = [v \in Values |-> <<>>]
    /\ minted = {}
    /\ req = [r \in Requests |-> Answered(0)]
    /\ late = {}
    /\ cut = {}
    /\ raced = {}
    /\ crossed = {}
    /\ doubled = {}

-----------------------------------------------------------------------------
Working(r) == req[r].pc # "done"
Reply(r, s) == req' = [req EXCEPT ![r] = Answered(s)]
GoTo(r, place) == req' = [req EXCEPT ![r].pc = place]

\* The answer to a change that was made, or 500: the database's reply was lost.
Acknowledge(r, s) == Reply(r, s) \/ Reply(r, 500)

\* getDocById, on either collection.
FoundManifest(i) == manifests[i] # <<>>
FoundBinding(v) == bindings[v] # <<>>

\* What findByBinding answers from: the first document of the value.  (It answers
\* with at most maxResults of its ids.)
Matches(v) == IF FoundBinding(v) THEN Head(bindings[v]) ELSE {}

-----------------------------------------------------------------------------
(* POST /manifests *)

PostManifest(r, b, wantReceipt) ==
    /\ ~Working(r)
    /\ \/ /\ b = Nil \/ (b # Nil /\ ParsedId[b] = Unparsable)
          /\ Reply(r, 400)
          /\ UNCHANGED minted
       \/ /\ b # Nil /\ ParsedId[b] \in Ids
          /\ req' = [req EXCEPT ![r] = Handling("lookup", ParsedId[b], b, Nil, wantReceipt)]
          /\ UNCHANGED minted
       \/ /\ b # Nil /\ ParsedId[b] = Nil
          /\ \E i \in MintedIds \ minted :
               /\ req' = [req EXCEPT ![r] = Handling("add", i, b, Nil, wantReceipt)]
               /\ minted' = minted \cup {i}
    /\ UNCHANGED <<manifests, bindings, history>>

Kept(r) == IF req[r].receipt THEN GoTo(r, "sign") ELSE Acknowledge(r, 200)

\* Mutant: an id whose document has other bytes counts as free.
LookupByBytes(r) ==
    LET q == req[r] IN
    /\ q.pc = "lookup"
    /\ IF FoundManifest(q.id) /\ Head(manifests[q.id]).data = q.blob
         THEN Kept(r) ELSE GoTo(r, "add")
    /\ UNCHANGED <<manifests, bindings, minted, history>>

Lookup(r) ==
    LET q == req[r] IN
    /\ q.pc = "lookup"
    /\ \/ ~FoundManifest(q.id) /\ GoTo(r, "add")
       \/ FoundManifest(q.id) /\ Head(manifests[q.id]).data = q.blob /\ Kept(r)
       \/ FoundManifest(q.id) /\ Head(manifests[q.id]).data # q.blob /\ Reply(r, 400)
    /\ UNCHANGED <<manifests, bindings, minted, history>>

\* insertOne: nothing makes the id unique, and nothing says where a scan meets the
\* new document.
InsertOne(docs, doc) == {InsertAt(docs, k, doc) : k \in 1..(Len(docs) + 1)}

\* addManifest.  A manifest stored anew under an id gives the bindings left over
\* from an earlier one a manifest to point to.
Add(r) ==
    LET q == req[r] IN
    /\ q.pc = "add"
    /\ \E docs \in InsertOne(manifests[q.id], [data |-> q.blob, signed |-> FALSE]) :
         manifests' = [manifests EXCEPT ![q.id] = docs]
    /\ Kept(r)
    /\ late' = {row \in late : row[2] # q.id}
    /\ cut' = {row \in cut : row[2] # q.id}
    /\ crossed' = (crossed \cup {s \in Requests : req[s].pc = "add" /\ req[s].id = q.id}) \ {r}
    /\ doubled' = IF FoundManifest(q.id) /\ r \in crossed THEN doubled \cup {q.id} ELSE doubled
    /\ UNCHANGED <<bindings, minted, raced>>

\* Mutant: the updateOne is an upsert, and makes a document without bytes.
UpsertFirst(docs) ==
    IF docs = <<>> THEN <<[data |-> Nil, signed |-> TRUE]>> ELSE [docs EXCEPT ![1].signed = TRUE]

\* updateOne of the receipt: the first document, if there is one.
SetFirst(docs) == IF docs = <<>> THEN docs ELSE [docs EXCEPT ![1].signed = TRUE]

\* setReceipt: findOne, then updateOne, which may match nothing any more.
Sign(r) ==
    LET i == req[r].id IN
    /\ \/ /\ req[r].pc = "sign"
          /\ IF FoundManifest(i) THEN GoTo(r, "signSet") ELSE Reply(r, 200)
          /\ UNCHANGED manifests
       \/ /\ req[r].pc = "signSet"
          /\ manifests' = [manifests EXCEPT ![i] = SetFirst(@)]
          /\ Acknowledge(r, 200)
    /\ UNCHANGED <<bindings, minted, history>>

-----------------------------------------------------------------------------
(* DELETE /manifests/:manifestId *)

DeleteManifest(r, i) ==
    /\ ~Working(r)
    /\ req' = [req EXCEPT ![r] = Handling("delete", i, Nil, Nil, FALSE)]
    /\ UNCHANGED <<manifests, bindings, minted, history>>

\* An updateMany or deleteMany over the bindings begins ...
Scan(r, place) == req' = [req EXCEPT ![r].pc = place, ![r].todo = Values]

\* ... and leaves a value behind.
Scanned(r, v) == req' = [req EXCEPT ![r].todo = @ \ {v}]

\* deleteOne: one document of the id, if there are two.
DeleteOne(r) ==
    LET i == req[r].id IN
    /\ req[r].pc = "delete"
    /\ \/ ~FoundManifest(i) /\ Reply(r, 404) /\ UNCHANGED <<manifests, doubled>>
       \/ /\ FoundManifest(i)
          /\ manifests' = [manifests EXCEPT ![i] = Tail(@)]
          /\ doubled' = IF Len(manifests[i]) > 2 THEN doubled ELSE doubled \ {i}
          /\ Scan(r, "pull")
    /\ UNCHANGED <<bindings, minted, late, cut, raced, crossed>>

\* Mutant: $pull runs on the first document of each value (updateOne).
PulledFromFirst(docs, i) == IF docs = <<>> THEN docs ELSE [docs EXCEPT ![1] = @ \ {i}]

\* Mutant: deleteMany({manifestIds: id}) takes the documents that name the id.
PulledWhole(docs, i) == SelectSeq(docs, LAMBDA doc : i \notin doc)

\* updateMany({}, {$pull}): from every document of every value.
Pulled(docs, i) == [k \in DOMAIN docs |-> docs[k] \ {i}]

Pull(r) ==
    LET q == req[r] IN
    /\ q.pc = "pull"
    /\ \E v \in q.todo :
         /\ bindings' = [bindings EXCEPT ![v] = Pulled(@, q.id)]
         /\ late' = late \ {<<v, q.id>>}
         /\ cut' = cut \ {<<v, q.id>>}
         /\ IF q.todo = {v} THEN Scan(r, "deleteEmpty") ELSE Scanned(r, v)
    /\ UNCHANGED <<manifests, minted, raced, ofUploads>>

\* The requests whose upsert of the value has matched no document.
Inserting(v) == {r \in Requests : req[r].pc = "bindInsertDoc" /\ req[r].value = v}

\* deleteMany({manifestIds: {$size: 0}}), document by document.
DeleteEmpty(r) ==
    LET q == req[r] IN
    /\ q.pc = "deleteEmpty"
    /\ \E v \in q.todo :
         \/ \E k \in DOMAIN bindings[v] :
              /\ bindings[v][k] = {}
              /\ bindings' = [bindings EXCEPT ![v] = RemoveAt(@, k)]
              /\ raced' = {w \in raced : w # v \/ bindings'[v] # <<>> \/ Inserting(v) # {}}
              /\ UNCHANGED req
         \/ /\ {} \notin Range(bindings[v])
            /\ IF q.todo = {v} THEN Reply(r, 204) ELSE Scanned(r, v)
            /\ UNCHANGED <<bindings, raced>>
    /\ UNCHANGED <<manifests, minted, late, cut, ofUploads>>

-----------------------------------------------------------------------------
(* POST /bindings and PUT /bindings *)

AskBinding(r, place, v, i) ==
    /\ ~Working(r)
    /\ IF v = Nil \/ i = Nil
         THEN Reply(r, 400)
         ELSE req' = [req EXCEPT ![r] = Handling(place, i, Nil, v, FALSE)]
    /\ UNCHANGED <<manifests, bindings, minted, history>>

PostBinding(r, v, i) == AskBinding(r, "bindCheck", v, i)
PutBinding(r, v, i) == AskBinding(r, "putFind", v, i)

\* The document of the value, however many, names the manifest from now on.
Wrote(v, i) ==
    late' = IF FoundManifest(i) THEN late ELSE late \cup {<<v, i>>}

BindCheck(r) ==
    /\ req[r].pc = "bindCheck"
    /\ IF FoundManifest(req[r].id) THEN GoTo(r, "bindUpsert") ELSE Reply(r, 404)
    /\ UNCHANGED <<manifests, bindings, minted, history>>

\* Mutant: every association is a document of its own.
AddDocument(docs, i) == Append(docs, {i})

\* $addToSet, on the first document.
AddToSet(docs, i) == [docs EXCEPT ![1] = @ \cup {i}]

\* updateOne with upsert: it matches a document and changes it ...
BindMatched(r) ==
    LET q == req[r] IN
    /\ q.pc = "bindUpsert" /\ FoundBinding(q.value)
    /\ bindings' = [bindings EXCEPT ![q.value] = AddToSet(@, q.id)]
    /\ Wrote(q.value, q.id)
    /\ Acknowledge(r, 204)
    /\ UNCHANGED <<manifests, minted, cut, raced, ofUploads>>

\* ... or matches none, and goes on to insert one.
BindUnmatched(r) ==
    /\ req[r].pc = "bindUpsert" /\ ~FoundBinding(req[r].value)
    /\ GoTo(r, "bindInsertDoc")
    /\ raced' = IF Inserting(req[r].value) = {} THEN raced ELSE raced \cup {req[r].value}
    /\ UNCHANGED <<manifests, bindings, minted, late, cut, ofUploads>>

BindInsertDoc(r) ==
    LET q == req[r] IN
    /\ q.pc = "bindInsertDoc"
    /\ \E docs \in InsertOne(bindings[q.value], {q.id}) :
         bindings' = [bindings EXCEPT ![q.value] = docs]
    /\ Wrote(q.value, q.id)
    /\ Acknowledge(r, 204)
    /\ UNCHANGED <<manifests, minted, cut, raced, ofUploads>>

\* updateBinding: findOne of the value, findOne of the manifest ...
PutCheck(r) ==
    LET q == req[r] IN
    /\ \/ /\ q.pc = "putFind"
          /\ IF FoundBinding(q.value) THEN GoTo(r, "putManifest") ELSE Reply(r, 404)
       \/ /\ q.pc = "putManifest"
          /\ IF FoundManifest(q.id) THEN GoTo(r, "putSet") ELSE Reply(r, 404)
    /\ UNCHANGED <<manifests, bindings, minted, history>>

\* ... and updateOne, whose count of matched documents nobody reads.
PutSet(r) ==
    LET q == req[r] IN
    /\ q.pc = "putSet"
    /\ \/ /\ FoundBinding(q.value)
          /\ bindings' = [bindings EXCEPT ![q.value][1] = {q.id}]
          /\ Wrote(q.value, q.id)
       \/ ~FoundBinding(q.value) /\ UNCHANGED <<bindings, late>>
    /\ Acknowledge(r, 204)
    /\ UNCHANGED <<manifests, minted, cut, raced, ofUploads>>

-----------------------------------------------------------------------------
(* Failures: an operation rejects, or the process stops.  Nothing is undone. (A   *)
(* change whose reply is lost is Acknowledge where the handler answers from it,   *)
(* and that change with a Fail behind it where the handler goes on.)              *)

\* What the scans of these requests had not reached.
CutShort(rs) ==
    UNION {{<<v, req[r].id>> : v \in req[r].todo} : r \in {s \in rs : req[s].pc = "pull"}}

Fail(r) ==
    /\ Working(r)
    /\ Reply(r, 500)
    /\ cut' = cut \cup CutShort({r})
    /\ crossed' = crossed \ {r}
    /\ UNCHANGED <<manifests, bindings, minted, late, raced, doubled>>

Restart ==
    /\ req' = [r \in Requests |-> Answered(0)]
    /\ cut' = cut \cup CutShort(Requests)
    /\ crossed' = {}
    /\ UNCHANGED <<manifests, bindings, minted, late, raced, doubled>>

Arrive(r) ==
    \/ \E b \in Blobs \cup {Nil}, w \in BOOLEAN : PostManifest(r, b, w)
    \/ \E i \in Ids : DeleteManifest(r, i)
    \/ \E v \in Values \cup {Nil}, i \in Ids \cup {Nil} :
         PostBinding(r, v, i) \/ PutBinding(r, v, i)

Operation(r) ==
    \/ Lookup(r) \/ Add(r) \/ Sign(r) \/ DeleteOne(r) \/ Pull(r) \/ DeleteEmpty(r)
    \/ BindCheck(r) \/ BindMatched(r) \/ BindUnmatched(r) \/ BindInsertDoc(r)
    \/ PutCheck(r) \/ PutSet(r)

Next ==
    \/ \E r \in Requests : Arrive(r) \/ Operation(r) \/ Fail(r)
    \/ Restart

\* The database answers every operation.
Fairness == \A r \in Requests : WF_vars(Operation(r))

Spec == Init /\ [][Next]_vars
FairSpec == Spec /\ Fairness

-----------------------------------------------------------------------------
(* Properties *)

TypeOK ==
    /\ manifests \in [Ids -> Seq(Stored)]
    /\ bindings \in [Values -> Seq(SUBSET Ids)]
    /\ minted \subseteq MintedIds
    /\ req \in [Requests -> Request]
    /\ late \subseteq Values \X Ids
    /\ cut \subseteq Values \X Ids
    /\ raced \subseteq Values
    /\ crossed \subseteq Requests
    /\ doubled \subseteq Ids

Names(docs, i) == \E doc \in Range(docs) : i \in doc

Dangling ==
    {row \in Values \X Ids : Names(bindings[row[1]], row[2]) /\ ~FoundManifest(row[2])}

\* A binding to a manifest that is not stored has one of three causes: its
\* DELETE has not reached it yet, was stopped before it did, or overlapped a
\* request that had checked the manifest before and wrote after.  (It is the
\* order of deleteManifest, the manifest first, that leaves no other.)
DanglingOnlyByOverlap ==
    \A row \in Dangling :
        \/ row \in late
        \/ row \in cut
        \/ \E r \in Requests :
             req[r].pc = "pull" /\ req[r].id = row[2] /\ row[1] \in req[r].todo

\* A binding that was written leaves only by a PUT of its value or the cascade of a
\* DELETE of its manifest, which takes no other binding of the value with it, not even
\* where documents of the value race and are emptied.  (The cascade may be one of an
\* earlier manifest of the id: it goes by id alone.)
BindingsLeaveOnlyOnRequest ==
    [][\A v \in Values, i \in Ids :
         Names(bindings[v], i) /\ ~Names(bindings'[v], i) =>
             \E r \in Requests : \/ req[r].pc = "putSet" /\ req[r].value = v
                                 \/ req[r].pc = "pull" /\ req[r].id = i]_vars

\* A binding that was acknowledged and not removed is found, except where upserts of
\* its value both matched nothing and one inserted a document beside the other's, or
\* more beside that.
HiddenOnlyByRace ==
    \A v \in Values, i \in Ids :
        Names(bindings[v], i) => i \in Matches(v) \/ v \in raced

\* A step in which a DELETE removes a document of the id.
RemovesOne(i) ==
    \E r \in Requests : req[r].pc = "delete" /\ req[r].id = i /\ req'[r].pc = "pull"

\* The bytes served under an id never change, and what a DELETE removed is no longer
\* served, except where one upload inserted between another's lookup and its insert:
\* whichever document was served then, the other may be served instead of it or after
\* its DELETE.
ServedUntilDeletedUnlessRaced ==
    [][\A i \in Ids :
         FoundManifest(i) /\ FoundManifest(i)' =>
             \/ i \in doubled \cup doubled'
             \/ /\ Head(manifests'[i]).data = Head(manifests[i]).data
                /\ ~RemovesOne(i)]_vars

\* A manifest goes together with its bindings ("Remove a manifest and its
\* associated bindings"): with no request being served and no DELETE stopped
\* halfway, none is left behind.  (Not so: see mongo_dangling.)
NoBindingLeftBehind ==
    (\A r \in Requests : ~Working(r)) /\ cut = {} => Dangling = {}

\* An acknowledged PUT has replaced the value's associations, if its manifest is
\* still stored.  (Not so: see mongo_lost_put.)
PutTakesEffect ==
    [][\A r \in Requests :
         req[r].pc = "putSet" /\ req'[r].status = 204 /\ FoundManifest(req[r].id) =>
             /\ bindings'[req[r].value] # <<>>
             /\ Head(bindings'[req[r].value]) = {req[r].id}]_vars
=============================================================================
