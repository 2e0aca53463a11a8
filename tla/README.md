# A verification development for the C2PA Soft Binding Resolution server

TLA+ models of the server in this repository, checked with TLC on small
instances, and theorems about them proved with TLAPS for every instance.
Paths below are relative to the repository root.

## 1. The system

The server (`src/index.ts`, `createServer`) is an Express application that
stores C2PA Manifest Stores ("manifests"), soft binding values that point to
them, and signed receipts, and that resolves a soft binding, or an asset it is
extracted from, to manifests. Handlers are asynchronous: each awaits one
statement of a *data store plugin* after the other, and other requests run in
between, in one process and across several that share a database.

| Component | Code | State | Operations | What is hard |
|---|---|---|---|---|
| Store routes | `src/routes/store.ts` | none of their own | POST /manifests, POST and PUT /bindings, DELETE /manifests/:id | several statements per request; every check may be stale when its write runs; an ignored result |
| SQL stores | `plugins/{sqlite,postgres,mysql}/src` | tables manifests and bindings | add, get, exists, delete, bind, rebind, set and get receipt | foreign keys, `IGNORE`, transactions, isolation levels, lock waits |
| MongoDB store | `plugins/mongoDB/src` | collections manifests and bindings | the same | no transaction, no unique index, a cascade in steps, upserts |
| Query routes | `src/routes/query.ts`, `src/utils/ssrf.ts`, `src/utils/regionOfInterest.ts` | one abort timer per request by reference | byBinding, byContent, byReference | redirects, size limit, a timer racing every step, error classification, a hint beside an extraction |
| Fetch routes, receipts | `src/routes/fetch.ts`, `src/receipts.ts` | receipt secret (process) | read a manifest, read or verify a receipt | two reads per request; a secret that may not survive a restart |
| Authentication | `src/auth.ts`, `plugins/google-auth` | request-local scopes | mandatory and optional middleware, scope check | which chain applies to which route |
| Soft binding registry | `src/softBinding.ts`, `src/routes/service.ts` | extractors, two lists of names | register (once, at the start), extract, list | an extractor that throws, or finds nothing |
| Object stores | `plugins/{awsBucket,gcpBucket}` | two buckets (remote) | save, load, link, delete, delete older | decisions on stale listings; failures reported as successes |
| VSMark codec | `plugins/vsmark/src/codec.ts` | none | encode, decode | false starts, boundaries of the framing, older marks, damage |
| Assembly, rate limit | `src/index.ts`, `src/rateLimit.ts`, `plugins/redis-rate-limit` | a count per client and window | the pipeline in front of every handler | any part of it may answer, and fail; a handler may reject; one limiter on two mounts |
| Configuration, logging | `src/config.ts`, `src/logger.ts` | configuration | start | - |

What makes each correct:

- *Store routes over a store.* A binding points to a stored manifest; stored
  bytes are never replaced; a failed or interrupted request loses nothing; a
  PUT replaces what earlier PUTs left; every request is answered; seen from
  outside, each request is one indivisible operation (a PUT is two: it confirms its
  value, and replaces).
- *Pipeline.* Every answer of a query or store route is one that `openapi.yaml` names, but for the four it leaves
  out: the limiter's 429, the 504 of byReference, and what the JSON parser answers where no body
  is documented, 413 on GET byBinding and 400 or 413 on DELETE /manifests/:id; a client gets
  no more requests through than its limit; no handler runs, and no upload is
  buffered, without the scope.
- *By reference.* Only validated URLs are fetched, boundedly often; no body,
  socket or timer outlives the request; the answer says what happened; once the
  parameters have been taken there is always an answer; a hint decides only where the asset
  yields nothing.
- *Fetch and receipts.* The signed part of a receipt that verifies was issued by this
  repository for this id; a private manifest looks like a missing one.
- *Object stores.* An object saved after the clean-up listed the bucket is not
  removed as old; what is reported deleted is gone.
- *Codec.* What was hidden is found again however the visible text is edited; what is
  damaged is not read; marking changes nothing visible and leaves no older mark.

PROJECT.json lists the hazards line by line with the properties that cover them.

## 2. Modules

| Module | Models | Depends on |
|---|---|---|
| `Repository` | what the store routes promise: every request takes effect in one step or not at all | - |
| `RelaxedRepository` | the same where a PUT of a binding may take two steps | extends `Repository` |
| `SqlServer` | store routes over a SQL plugin, three dialects | instantiates `Repository` and `RelaxedRepository` |
| `SqlServerProofs` | theorems about `SqlServer` | extends `SqlServer`, `TLAPS` |
| `MCSqlServer` | TLC instance | extends `SqlServer` |
| `MongoServer`, `MCMongoServer` | store routes over the MongoDB plugin, TLC instances | - |
| `MongoServerProofs` | theorems about `MongoServer` | extends `MongoServer`, `SequenceTheorems`, `TLAPS` |
| `App` | what `createServer` mounts in front of the handlers, each handler one step | - |
| `Query`, `MCQuery` | the four query handlers in full, behind that pipeline | extends `App`, and instantiates it as its abstract specification |
| `QueryProofs` | theorems about `Query` | extends `Query`, `TLAPS` |
| `Vsmark`, `MCVsmark` | the text watermark codec, and a text that is edited | - |
| `SequenceLemmas` | what `FlattenSeq` and recursion over 1..n yield | extends `SequenceTheorems`, `WellFoundedInduction`, `TLAPS` |
| `ChecksumProofs` | what the checksum of `Vsmark` distinguishes | extends `Vsmark`, `SequenceLemmas` |
| `VsmarkProofs` | theorems about `Vsmark` | extends `ChecksumProofs` |
| `Retrieval`, `MCRetrieval` | the fetch routes, receipts, secrets and the auth chains, over several processes | extends `Repository` |
| `RetrievalProofs` | theorems about `Retrieval` | extends `Retrieval`, `FiniteSetTheorems`, `TLAPS` |
| `ObjectStore`, `MCObjectStore` | the S3 and Google Cloud Storage plugins | - |
| `ObjectStoreProofs` | theorems about `ObjectStore` | extends `ObjectStore`, `TLAPS` |

### SqlServer

A request slot `r` is a handler: `req[r].pc` names the statement it awaits next
("done" between requests), the other fields are its local variables. `Arrive`
is what the handler does before its first `await` on the store (with body
checks and `parseManifestId`, whose answer is the constant function
`ParsedId`); each disjunct of `Statement` is one statement with everything the
handler does until the next one.

| Code | Actions |
|---|---|
| `store.ts` POST /manifests | `PostManifest`, `Lookup`, `Add`, `Sign` |
| DELETE /manifests/:id | `DeleteManifest`, `Delete` (the foreign key cascades) |
| POST /bindings, `createBinding` | `PostBinding`, `BindCheck`, `BindInsert` with one definition per dialect |
| PUT /bindings, `updateBinding` | `PutBinding`, `PutCheck`; SQLite `SqlitePutReplace`; PostgreSQL and MySQL `PutDelete`, `PutInsert`, `PutCommit` |
| a statement that rejects | `Fail`, at any statement of any request |
| a process stops, of one or several on the database | `Restart`: its handlers and their open transactions go, committed rows stay |

Tables are `manifests` (id to bytes and whether a receipt is stored) and
`bindings` (a set of pairs, as `UNIQUE` makes it). An open PUT transaction keeps
what its DELETE targets in `seen[r]` and what it inserted in `added[r]`; the
table changes at `PutCommit`, because no other transaction sees it before.
Databases are outside the repository; the model takes from them only what the
plugins rely on:

- primary key, unique key and cascading foreign key as the `CREATE TABLE`
  statements of each `client.ts` declare them;
- SQLite: what a plugin's function does without an await is one step: a statement, a
  `db.transaction`, the two SELECTs of a PUT (`sqlite/src/index.ts:56-60`). In one process the
  awaits of a SQLite handler finish within a turn of the event loop, so that
  requests interleave only around a slow `parseManifestId`; the model lets them
  interleave between any two steps, as they do for two processes on one file.
- PostgreSQL, READ COMMITTED (the default, never changed by the plugin): a
  DELETE fixes its targets when it starts (`PostgresPutDelete`), waits for rows
  that others have changed and then takes those that remain
  (`PostgresPutLocks`). An INSERT waits for an uncommitted row with its key. A
  deletion of a manifest waits for a transaction that has inserted or deleted
  one of its bindings.
- MySQL, InnoDB at REPEATABLE READ (the default): both SELECTs of a PUT read one
  snapshot; its DELETE locks every row and gap of the value. Two PUTs that lock
  an empty gap both and end in a deadlock appear here as one that waits, or
  whose `Fail` is the deadlock's victim.

A statement of the model takes all its locks at once or waits, and so nobody ever waits in a
circle. What a database does about a circle is to fail one of the statements in it, and
what a pool does without a free connection is to keep a request waiting or to reject it: both
appear as a `Fail` and not as the circumstances that lead to it, and
`EveryRequestAnswered` says nothing of how often they do.

A reply may be lost: the statement that decides an answer took effect, the
connection broke, and the client reads 500 (`Acknowledge`). On SQLite, which runs in the
process, it cannot. Where the handler goes on behind a statement whose reply was lost, the model
has that statement with a `Fail` behind it.

`putRows` is history: the rows PUTs have put in, used by one property.

### Repository

The contract, with one action per operation: `Ingest`, `Sign`, `Remove`, `Bind`,
`Confirm` and `Rebind`, `Fail`, `Restart`. A request that answers 4xx changes nothing. One that
answers 500 has changed nothing, or everything it was asked for, if the reply was lost
(`Acknowledge`). A POST of a binding whose manifest has just been deleted may be answered
204 or 404: MySQL's `INSERT IGNORE` answers 204.

A PUT has two moments. `Confirm` is the promise of `store.ts:119-121` and
`openapi.yaml:310-311`, "Soft binding value not found": a PUT goes on only if its value is bound then, and
is otherwise answered 404. `Rebind` replaces what the value has later. No
plugin looks at the value again in between, so a DELETE may take the last binding of a
confirmed value and the PUT still binds it and answers 204; nothing stronger
is true of the code. A PUT of a value that has no binding at any moment of the request is always
answered 404 (or fails).

`SqlServer` implements it by a refinement mapping that keeps the tables and
renames the place of each handler to the operation outstanding (`Outstanding`):
a handler takes effect in the statement that decides its answer, a PUT confirms its
value in its SELECT, and every other statement is a stutter. The check is the temporal property
`ImplementsRepository == Repo!Spec`. PostgreSQL is excluded from that run: its racing
PUTs do not implement the contract (`sql_put_race`).

What it does implement is `RelaxedRepository`. There the replacement of a confirmed PUT may itself take
two steps: it aims at the rows its value has at one moment of the request (`Aim`) and later replaces those that are left of
them by its own (`Replace`, answered 204, and only if its manifest exists then). Rows that came in between stay, which is
all that may go wrong: nothing else is taken, a PUT that fails after it aimed changes nothing, and every other
operation is as in `Repository`. A row that is deleted and bound again is another row, and no target any
more (`Removing`). The mapping adds to `Outstanding` that a handler whose DELETE has started
has aimed (`Aiming`), at what that found (`seen`). SQLite's PUT aims and replaces in one
step, which is `Rebind`; `ImplementsRelaxed == Relaxed!SpecRelaxed` is checked and
proved for all three dialects (`sql_server`).

### MongoServer

The same requests over collections: `manifests[i]` is the sequence of documents
with id `i`, `bindings[v]` that of the documents of value `v`, each a set of
manifest ids. Sequences, because nothing makes ids unique, and a read or update takes the first
document a scan meets. `client.ts` creates no index and no query sorts, so which of two documents comes
first is not the order in which their inserts were answered: `InsertOne` puts a document at
any place among the others. The order of documents that are already stored is taken to
stay, as it does on one mongod, which scans by record and leaves an updated record
where it is; replicas and shards may differ among themselves, and are not modelled. An upsert is a match (`BindMatched`,
`BindUnmatched`) and an insert (`BindInsertDoc`). A DELETE is `DeleteOne`, then a
scan of the bindings that pulls the id (`Pull`) and another that removes empty
documents one by one (`DeleteEmpty`); a scan goes value by value, in any order, with other
requests in between. `$pull` reaches the documents of one value together, the one
place where the model is coarser than MongoDB. Five variables are history: `late`, who
wrote a binding to a missing manifest; `cut`, which scans were cut short; `raced`,
for which values two upserts were both about to insert; `crossed`, which uploads are about to
insert although another has inserted their id behind their lookup; and `doubled`, which ids such
an upload gave a second document. `Matches` is what
`findByBinding` answers from, the first document only; the cut to `maxResults` ids is left
out. Replies are lost as in `SqlServer` (`Acknowledge`).

With two documents of an id either may be served: bytes that were acknowledged may give way
to the other upload's, and a DELETE, which removes one of them, leaves the other to be served.
`ServedUntilDeletedUnlessRaced` says that this takes such a pair of uploads (`doubled`) and
nothing else: for every other id the bytes stay what they were and are not served
once a DELETE has removed them.

### App

One request's way through `createServer`, in the order of the mounts: `ParseJson` (health
and, with docs, the API description are answered before the limiter),
`CountRequest`, then the routers (`Routed`: 404 for what no route takes), `Authenticate` with
`requireAuthScope`, `ReadRaw`, and `Handle`, which is the whole handler of whichever router
in one step that answers. Each may answer instead of passing the request on, among
them the error handler at the end. `express.json` is mounted for every route and method (`index.ts:87`), so it
may refuse a body nobody asked for: the 400 and 413 that `openapi.yaml` does not name for
DELETE /manifests/:id (`:358-372`), and the 413 for GET byBinding (`:42-58`), are listed as
exceptions in `DocumentedStatus`, each tied to the place it comes from. `hits` is the limiter's count, `NextWindow`
the end of a window; `reached` is history. `granted` is what the middleware has
published: a scope, none of them, or ("unset") nothing at all, as with no `auth` or one's own middleware.

### Query

Extends `App` with the handlers of `query.ts`. `pc` is what the handler awaits;
`response` what the headers of the current response amount to; `total` the bytes read, in
units of the smallest chunk; `wants` what the client asks for: an algorithm, a hint, and
whether `assetType` is absent, a string, or something else (the body is JSON and
nobody looks at the type). Remote side, resolver, extractor and data store are nondeterministic:
`Fetch` may yield any kind of response or fail, `CancelFails` is a body whose cancelling
rejects, `ReadChunk` may go on as long as
the limit allows, `Extract` and `Find` may throw. An error is one of four kinds, by how
the catch of `query.ts:280-292` tells them apart: the size error, an abort, an error
whose message names URL, HTTPS, IP or hostname, any other. A plugin's own error may be of any kind but the
first (`PluginErrors`): an extractor whose own request was aborted throws an `AbortError`, which is
answered 504 with the timer still running. `Timeout` may come
whenever the handler awaits while the timer is armed. That a host name still resolves
to the address that `validateReferenceUrl` looked at when `fetch` connects is not modelled:
`FetchesAreVetted` is about the order of the calls, not about DNS.

What a handler does with its parameters before its `try` can throw: `parseInt` of a `maxResults`
that is an object without a conversion (`query.ts:101,129,157,204`), and `>` on such an `assetLength`
(`:212`). The handler is an `async` function and Express 4 ignores its promise: `Reject`. The
request is never answered; nothing in the repository handles `unhandledRejection`, so
Node (from 15 on; `README.md:247` asks for 18) ends the process, and whoever supervises it starts
it again (`Restart`), with the other requests in flight lost and the counts of an in-process
limiter at zero. `EveryRequestAnswered` therefore says "answered, or rejected", and `HandlerRejects` says
from which place alone a rejection can come. `ParsesAsRegion` is
`parseRegionOfInterest`, as a predicate on the fields a client sends. byContent and
byReference share `Extract`, `FallBack` and `Find`, as in the code.

The body of a response is left alone in one case: `assetType` is no string, so that
`.split` throws behind the fetch. `BodiesAreReleased` names it, and the aborted
timer does not come, as the `finally` clears it.

`App` is the abstract specification: to a caller a query handler is one step.
The mapping renames every place inside a handler to "handler"; `ImplementsApp == Front!Spec`.

### Vsmark

`Crc`, `Block`, `Encode` and `Scan` are the functions of `codec.ts`, on sequences of code
points and bytes, with the width of a byte as a constant: at the code's 8 bits the numbers are
the code's. `^` is `Xor`, bit by bit on non-negative numbers, which is what the code's signed 32-bit words
come to after `>>> 0`. Around them a text lives: `Mark` encodes a message in it,
`Retype` edits what is visible (the selectors are taken to stay when the character they follow is
removed, as in a program that edits code points; an editor that removes a character with
its selectors removes part of the mark), `Quote` puts it in front of or behind another text, which may hide
something itself, `Damage` alters one hidden byte. The reference definition
`FindsTheFirst` says what decode means in terms of encode alone: the first place
where the hidden bytes go on with a block that encode would write. `DamageIsSeen` says that at the
place of a damaged mark there is no such block, whatever was damaged but the length, and that
what decode still finds begins behind it: a message can itself hold a block. Two things decode
and encode do that a caller may not expect: `TextDecoder` drops a byte order mark, so a message that begins with one
comes back without it; and encode removes every variation selector of the
carrier, those of emoji included (`Visible` counts none of them as visible). An empty message comes
back as `''`, which the query routes treat as nothing found.

### Retrieval

Extends `Repository`: the store routes are that contract's actions (`Upload`,
`SignReceipt`, `Withdraw`, with no soft binding values), and the module adds to them
which receipt is stored and which process, with which secret, served the request.
It therefore speaks of stores that keep the contract for manifests and receipts:
SQLite and MySQL by `sql_repository`, PostgreSQL by `ImplementsRelaxed`, where only PUTs differ,
MongoDB not (two documents of an id).

`read[q]` is a handler of a fetch route: middleware (`Authenticate`), then
`ReadManifest` and `AskPredicate` for GET /manifests/:id, `FindManifest` and
`ReadReceipt` for the two receipt routes. `config` holds the options that matter: the
kind of `auth` (none, `JwtAuthOptions`, the google-auth plugin, a middleware of one's
own), whether `isManifestAuthRequired` is given and which ids it calls private,
and whether a secret is configured. An HMAC is the pair of secret and payload, so that
a proof verifies exactly if both are the same. The payload is the algorithm, the URI, the id and the anchor
(`receipts.ts:6-8`, `:46-58`); the field `rest` of a receipt is what it does not cover, `@context`,
`@type`, `anchor.parameters` and fields of the caller's own. Callers send receipts they
were issued, or those with the id, the URI or the rest changed; one with the rest changed
verifies and is echoed as it came, so `VerifiedIsOurs` is about the `SignedPart`. `issued` and
`seen` are history. A finished handler keeps its answer only.

A scoped token is no help against a private manifest when `auth` is a function or
absent: no `AuthContext` exists then (`config.ts:60-65` says so), so the answer is 404
for everyone. `MayFetch` states that rule.

### ObjectStore

`call[c]` is a plugin call, and its steps are the requests it awaits, on one bucket (the
data and the public bucket are handled alike). Every save gets a number, which
stands for its bytes and its content type; `aged` are the objects older than the
age asked for by now, and a clean-up takes it as its `cutoff` when it starts.
`ListPage` is one page of at most `PageSize` objects (both services return keys in
order; GCS's `getFiles` asks for the pages itself), `PurgeSome` one DeleteObjects batch, or one of the
deletions GCS runs side by side. Either may fail for any of its keys; the code
goes on. A batch takes effect at one moment, which is coarser than S3, where other
requests may come between its keys. Links and public URLs change no state and are left out.

## 3. Runs

| Run | Config | Shows |
|---|---|---|
| `sql_server` | `SqlServer.cfg` | types, referential integrity, bytes never replaced, bindings leave only on request, every request answered; `RelaxedRepository` implemented; all three dialects, with failures, lost replies and restarts |
| `sql_repository` | `SqlRepository.cfg` | SQLite and MySQL implement `Repository`, with its 404 for a value that is not bound; acknowledged PUTs replace each other |
| `sql_put_race` | `SqlPutRace.cfg` | **violation**: PostgreSQL keeps the rows of two acknowledged PUTs |
| `mongo_server` | `MongoServer.cfg` | types; the only three causes of a binding without a manifest; the only cause of a binding that is not found; the only cause of bytes that change or outlive their DELETE; bindings leave only on request |
| `mongo_dangling` | `MongoDangling.cfg` | **violation**: a DELETE leaves a binding behind |
| `mongo_lost_put` | `MongoLostPut.cfg` | **violation**: an acknowledged PUT that changed nothing |
| `query` | `Query.cfg` | documented answers and the four exceptions, the limit, scopes; vetted fetches, released bodies, cleared timer, earned status, hints that come second; a handler is one step of `App`; always an answer, or a rejection |
| `by_reference_504` | `QueryTimeout.cfg` | **violation**: "Reference download timed out" for what is none: a failure after the download, or a plugin's own AbortError |
| `retrieval` | `Retrieval.cfg` | reads are of one moment, what is signed of a verified receipt was issued here, a configured secret verifies everywhere, nothing is sent to those who may not have it |
| `vsmark` | `Vsmark.cfg` | decode against its reference definition, marks survive editing, damage is seen, nothing is left behind, nothing visible changes |
| `object_store` | `ObjectStore.cfg` | a load is whole from S3, and from Google Cloud Storage its bytes are no older than its type; reported deletions happened, a clean-up is complete |
| `object_cleanup` | `ObjectCleanup.cfg` | **violation**: a clean-up deletes a new object |

*Bounds.* Two request slots, reused without end, so that histories of any length of
two overlapping requests occur; every hazard found in this code is a race of
two. Two ids, one derived from the manifest and one minted; blobs A and B carry the
same id, C has none, one does not parse. `SqlServer` has one binding value: a value's rows
are independent of another's except through a manifest's deletion. `MongoServer`, whose cascade
goes value by value, has two: its constraint `Bounded` explores one value with both ids and
both values with one id (`MCMongoServer`). A minted id is never minted again (UUID v4). `Query`
has one client, as handlers share nothing but the limiter's counts, which are kept per client; a `Limit` of
2, so that windows fill up; the code's 5 redirects, a size limit of 3 units and chunks of 1 or 2, so that the
limit is met exactly, and overstepped by one; an algorithm with and one without an extractor; and a region of
each kind that parses differently. `Vsmark` has bytes of 2 bits and so a checksum of 8, three ranges of code
points, messages that are empty, begin with one or two byte order marks, contain a block, need two digits of length, or are
too long, and two edits at the start, middle or end of the text (`MaxEdits`) after each of any number of marks;
an 8-bit checksum can miss two damaged bytes, and so can one of 32, therefore one is damaged. `Retrieval` has one writer and one reader on two processes, two ids
of which one is private, at most 2 different receipts (`MaxIssued`) and as many drawn secrets as processes (`MaxStarts`): a receipt
of the other process stands for one from before a restart, as both carry a secret this
process does not hold. `ObjectStore` has two calls, three keys, pages of one
key, batches of two and three saves (`MaxSaves`), so that a listing has three pages, a purge two batches,
and a key can be saved, found, replaced and cleaned up in turn. Symmetry (of requests, of values
and of the blobs with one id) is used only in runs without liveness properties.

*Fairness.* `SqlServer`: strong fairness of each handler's statements. A statement
waits for locks that others take and release again and again, and all three databases
queue lock requests, so a lock that is free infinitely often is granted; a
statement that does not wait is answered. (Circles of waiting are outside the model, see
SqlServer in section 2.) Arrivals, failures and restarts are not
fair. `MongoServer`: weak fairness, as nothing waits. `Query`: weak fairness of the
middleware (a client's body arrives, or Node's request timeout breaks it off), of the handler's own steps,
which the resolver, extractor and data store answer, and of the timer; none of the remote side, but
an aborted `fetch` or body read rejects, which is what an abort signal does.

*Mutants.* Beside each property stands a mutated form of a definition that
breaks it (`...Unlocked`, `...WithoutRollback`, and so on, each commented), listed in
PROJECT.json.

## 4. Proofs

`SqlServerProofs` proves, for any sets of requests, ids, blobs and values and any
subset of the three dialects, under `ConstantsAssumption` alone:

| Theorem | Property |
|---|---|
| `TypeCorrect` | `TypeOK`, and that a handler past its checks holds an id, and a value where it writes one |
| `BindingsReferToManifests` | `ReferentialIntegrity` |
| `StoredBytesStay` | `BytesNeverReplaced` |

`ReferentialIntegrity` is not inductive: `PutCommit` adds a row without looking at
the manifests. What makes it safe is that the manifest of an inserted row cannot be
deleted before the commit, because the cascade waits. The inductive invariant
`Integrity` is therefore the conjunction of the types, `ReferentialIntegrity` and
`TransactionsInv`, which says of every handler that holds locks that its deleted
rows are in the table, that its inserted row's manifest exists and that no other
handler holds the same rows, and of every other that it holds none. Each action has one step, split by
the conjuncts it can disturb.

Its second half goes on from there:

| Theorem | Property |
|---|---|
| `LastPutOfAValueWins` | `LastPutWins`, for SQLite and MySQL |
| `BindingsStay` | `BindingsLeaveOnlyOnRequest`, for all three dialects |
| `RepositoryImplemented` | `ImplementsRepository`, for SQLite and MySQL |
| `RelaxedImplemented` | `ImplementsRelaxed`, for all three dialects |

The two theorems that say `dialect # "postgres"` do so because PostgreSQL's PUT breaks both
(run `sql_put_race`, section 5); the dialect is chosen in `Init` and never changes, so
the hypothesis is about which server runs and not about its states. Their inductive
invariant `Replacement` adds to `Integrity` what a PUT knows between its statements:
the row it inserted is still there (`RowsInserted`), and, where the delete locks the
value, the rows it deleted are all the rows the value has and no second
PUT has the value open (`Exclusive`). `LastPutWins` alone is not inductive: it
speaks of committed rows only, and the next commit could add a second one.
The refinement maps a handler to the call it is carrying out. A lemma for each handler
(`UploadImplements`, `DeleteImplements`, `PostImplements`, `PutImplements`) shows
that its last write is the one step of `Repository` and that every other statement is
a stutter; a PUT has its SELECT besides, which is `Confirm`. The hard one is that PUT, whose DELETE and
INSERT become one `Rebind`:
`Exclusive` is what makes the rows deleted and the rows replaced the same set.
For the relaxed contract `Exclusive` is not needed. The same lemmas say which operation a
step is (`SameOperations` carries them over), `OutsideAim` that a step outside a transaction leaves
all targets alone, and `PutAims` that a transaction's steps are an `Aim`, stutters, and a
`Replace` or a failure (a COMMIT whose reply is lost is a `Replace` that answers 500): the manifest of the inserted row is there at the COMMIT (`TransactionInv`),
and a row that another COMMIT or a DELETE has taken has left `seen` as it has left the target.

`ObjectStoreProofs` proves, for any number of calls, keys and saves, any page and batch
size and both services:

| Theorem | Property |
|---|---|
| `TypeCorrect` | `TypeOK`, and that a listing does not come back to a key it means to delete |
| `LoadsStayOrdered` | `LoadsAreOrdered` |
| `DeletedStaysGone` | `DeletedIsGone` |
| `CleanupsAreComplete` | `CleanupIsComplete` |

The properties speak of finished calls, the inductive invariant `Inv` of what each
unfinished one knows (`Knows`): a number it remembers has been saved (`Bounded`), so
that a later save has another; the object of a half-finished load is the one it asked
about, a later one or none (`LoadInv`); a deleted number does not come back
(`DeleteInv`); every old object is after the last page listed or already doomed, and after
the listing doomed (`CleanInv`). `OthersKnow` shows that this survives any step of
another call, because a step puts only new numbers into the bucket (`BucketMoves`); a
lemma for each action shows the call's own part. That pages neither skip nor repeat a
key rests on `PageEnds`: a page is an initial segment of what remains, and a
non-empty set of keys has a greatest element.

`QueryProofs` proves, for any clients, limits, algorithms, regions and numbers of redirects and
bytes, under the two assumptions on the constants:

| Theorem | Property |
|---|---|
| `TypeCorrect` | `TypeOK` |
| `AnswersDocumented` | `AnswersAreDocumented` |
| `LimitHolds` | `LimitIsKept` |
| `AuthorisedOnly` | `OnlyAuthorised` |
| `FetchesVetted` | `FetchesAreVetted` |
| `BodiesReleased` | `BodiesAreReleased` |
| `TimerCleared` | `TimerIsCleared` |
| `StatusEarned` | `StatusIsEarned` |
| `HintsComeSecond` | `HintNeverOverrides` |
| `Refinement` | `ImplementsApp` |

The invariant `Inv` has a part for each stretch of a request's way: what the limiter and the
middleware have let through (`FrontInv`: an admitted request was counted, so that `reached`
stays below `hits`), that a request holds nothing until its handler begins
(`Unstarted`), which routes come to which place (`RouteInv`), what is known of the
fetches, the body and the value at each place (`FetchInv`, `BodyInv`, `ValueInv`).
Each action has a lemma. The lemmas on the steps of a
handler also conclude `HandlerGoesOn`: the step stays inside, or ends with an answer of
the route. With it the refinement is short: a step inside is a stutter of `App`, one that
ends is its `Handle`, one that throws in front of the `try` its `HandlerRejects`, and a step of the
pipeline maps to itself (`SamePlace`). `AnswersDocumented` and `StatusEarned` are about the
step that answers: each action that can be one has its lemma say with which status it may
be, from what `Inv` knows of the place.

`MongoServerProofs` proves, for any requests, ids, blobs and values:

| Theorem | Property |
|---|---|
| `TypeCorrect` | `TypeOK` |
| `DanglingExplained` | `DanglingOnlyByOverlap` |
| `HiddenExplained` | `HiddenOnlyByRace` |
| `BytesServedStay` | `ServedUntilDeletedUnlessRaced` |
| `BindingsStay` | `BindingsLeaveOnlyOnRequest` |

Its first lemmas say what each operation makes of the documents of one value: which
type and length they have then, and which ids they name (`Inserted`, `FirstChanged`, `PulledFacts`,
`Removed`); an insertion may be anywhere, and `InsertedFacts` says what is true of all of them. The invariant `Inv` adds three parts to the types: what a handler has read
before it came to its place (`HandlersInv`); `OverlapInv`, which is
`DanglingOnlyByOverlap` value by value and inductive as it stands; and `DocumentsInv`, which
`HiddenOnlyByRace` needs: until two upserts of a value meet, the value has one document at most, and none
while a request is about to insert it. Three lemmas carry most steps: a step that leaves the bindings
alone (`Quiet`), one that writes a binding (`Writes`), and that a handler which was not
pulling takes no excuse for a dangling binding with it (`ExcusesStay`).
`BytesServedStay` needs an invariant beside it, `UploadsInv`: an id with more than one document
is in `doubled`, an upload that is about to insert finds the id free unless it is in `crossed`, and a
minted id has no document before it is minted. (A second document thus takes a crossed upload, and
where there is one document no insert comes in front of it.)

`RetrievalProofs` proves, for any writers, readers, processes, ids and blobs, any set of
options, any number of restarts and receipts, under `NilAssumption` (what is stored is
never `Nil`):

| Theorem | Property |
|---|---|
| `TypeCorrect` | `TypeOK`, with it that a receipt is stored exactly with a signed manifest, under its id |
| `EveryReadIsCurrent` | `ReadsAreCurrent` |
| `EveryVerifiedReceiptIsOurs` | `VerifiedIsOurs` |
| `EveryConfiguredReceiptVerifies` | `ConfiguredReceiptsVerify` |
| `NobodyElseLearns` | `OnlyForTheAuthorised` |
| `ContractKept` | the steps under the fetch routes are steps of `Repository` |

The four properties are about the step that answers, so the invariant `Inv` says what is
known before it. `ReceiptsInv`: every receipt issued bears the key of some process and
names the manifest it was made for, in its signed part, only issued receipts are stored, and with a
configured secret all keys are one. `PlacesInv` and `AdmittedInv`: which request can be
at which statement, and that past the middleware it has the scope unless it came in by
the optional one. `SeenInv`: what is stored under the id at this moment is in the reader's
history, and so are the bytes it holds while the predicate is asked. `ContractKept` is the other direction of the composition: seen from the store routes, processes that stop one
by one, and readers, leave a behaviour of `Repository`. Each step of a
reader has a lemma, the steps of writers and processes one between them
(`WriterStep`, `StopStep`), and each handler that can answer one more, which shows that
its answer is `Sound`.

`ChecksumProofs` and `VsmarkProofs` prove, for any width of a byte, any two ranges of selectors
that do not overlap, any magic and version, any polynomial with a constant term, any texts
and messages, and any number of edits, under `PowerAssumption`, `FormatAssumption` and
`TextAssumption`:

| Theorem | Property |
|---|---|
| `CrcSeesOne` | payloads of one length that differ in one byte have different checksums |
| `DecodeFindsTheFirst` | `FindsTheFirst` |
| `MarksAreFound` | `MarkIsFound` |
| `DamageIsRefused` | `DamageIsSeen` |
| `NothingIsLeftBehind` | `NothingLeftBehind` |
| `MarkingStaysInvisible` | `VisibleStays` |

The code's numbers satisfy the assumptions: the ranges are U+FE00-U+FE0F and
U+E0100-U+E01EF, what editing adds is visible, and 0xEDB88320 has its highest bit, which in
this order of the bits is the constant term. `PowerAssumption` is the definition of a power, `2 ^ n`
being twice `2 ^ (n - 1)`, which the provers do not know; TLC evaluates it.

`ChecksumProofs` has the checksum bit by bit. `Xor` takes two numbers bit by bit; on words it
is a group in which each element is its own inverse (`WordXor`), and the halves of an
exclusive or are those of its sides (`XorHalves`). One shift of the checksum (`Shift`)
loses nothing: only the polynomial has the highest bit, so that bit of the result tells which
bit went out, and the rest gives back the others (`ShiftKeeps`). A bit above those that
go out passes unchanged (`ShiftXor`), therefore a step with the table is all the shifts of the word with the byte
in it (`TableIsShifts`, `FeedIsShifts`), and loses neither the word nor the byte
(`FeedKeeps`). Two payloads that differ in one byte are thus equal up to that byte,
different after it, and stay different. Nothing is said of two damaged bytes, which no checksum of four bytes
can promise, nor of a damaged length, which makes another payload the one that is checked.

In `VsmarkProofs` everything about blocks goes through `Sits`, that a
block stands in the bytes byte by byte: `SitsAccepted` and `AcceptedSits` say that
decode accepts a place exactly if the block of the payload it reads stands there, which rests on
`LengthRoundTrip`, that the two bytes of a length are read as the length written. About texts,
`HiddenConcat` and `HiddenInParts` say what is hidden in a text made of parts, so that
`EncodeHides` (the block is hidden, the rest is untouched) and the edits (`Around`, `Removed`,
`Replaced`) follow. The inductive invariant `Inv` says that nothing is hidden in a text
that was too short, that what is hidden in a marked one begins with its block, and that what is
hidden in a damaged one begins with bytes that differ from its block in one place, and not in its
length (`OneOff`); `MarkIsFound` alone is not inductive, because it does not say where the block
stands. `OneOffIsNone` shows that such bytes are nobody's block: a byte of the magic or the
version is compared, one of the message changes the checksum computed, one of the checksum the one stored.
`SequenceLemmas` has the recursion: the induction theorems of the library take operators as
parameters, so `FiniteRecursion` takes the steps as a function and `Induction` is the
least element of a set.

Only model-checked: the liveness properties (`EveryRequestAnswered` and its like), because
fairness and ENABLED are out of the prover's reach.

## 5. Findings

- `plugins/postgres/src/index.ts:86`: two racing PUTs of a value may both succeed and both stay (`sql_put_race`).
- `plugins/mongoDB/src/index.ts:72`: a binding may be written after the cascade of its manifest's DELETE (`mongo_dangling`).
- `plugins/mongoDB/src/index.ts:86`: a PUT may be acknowledged and lost (`mongo_lost_put`).
- `src/routes/query.ts:284`: an extractor or data store failure is answered as a download timeout if it comes late, or is an `AbortError` of the plugin's own (`by_reference_504`).
- `plugins/awsBucket/src/index.ts:144`, `plugins/gcpBucket/src/index.ts:144`: a clean-up deletes by key and so takes an object saved since it listed (`object_cleanup`).

## 6. Not modelled

- *Registration and the service lists* (`softBinding.ts:41-57`, `service.ts`): `createServer`
  registers each key of the `extractors` option once, so neither order nor repetition can
  matter; the lists are a copy of that option.
- *The pieces of the configuration*: defaults and environment variables are read once. A limit that is no number
  (`config.ts:155`) becomes `NaN`, with which no comparison is true.
- *Logging, the API description, the command line*: output, and a start.
- *Links and public URLs of the object stores, the extractor around the codec*: no state; each
  hands a value on.
- *Conformance tests and scripts*: clients of a server.
- *Name resolution between check and fetch*, *replicas and shards*, *deadlocks and the size of
  connection pools*: see Query, MongoServer and SqlServer in section 2.
- *Timing.* `OnlyForTheAuthorised` is about what is answered. That a missing manifest is answered
  without the predicate being asked, and that a predicate that rejects gives 500 for a stored manifest and never
  for a missing one, tells of its existence all the same.

## 7. Plan

In the order in which the rest is worth doing:

1. *Queries over the stores*: `Find` of `Query` composed with `SqlServer`: an acknowledged binding
   is found until a request takes it away, as `HiddenOnlyByRace` says for MongoDB.
2. *Finer grain*: the documents of one MongoDB value pulled one by one, and the keys of an S3
   batch deleted one by one.
