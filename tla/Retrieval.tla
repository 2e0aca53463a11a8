----------------------------- MODULE Retrieval -----------------------------
(***************************************************************************)
(* The fetch routes (src/src/routes/fetch.ts): reading a manifest, reading *)
(* its receipt and checking a receipt, by server processes that share one  *)
(* data store, while requests of the store routes change it.  The store    *)
(* routes are those of Repository, which says of the manifests all that    *)
(* matters here; this module adds the receipts themselves (receipts.ts),   *)
(* the secret each process signs with (config.ts) and the middleware in    *)
(* front of the fetch routes (auth.ts, google-auth).                       *)
(*                                                                         *)
(* An HMAC is modelled by what it is made of: the secret and the payload,  *)
(* which is a receipt's repository, id and anchor.  Everything else in a   *)
(* receipt (@context, parameters, fields a caller adds) is not signed.     *)
(***************************************************************************)
EXTENDS Repository, Naturals, FiniteSets

CONSTANTS
    Readers,    \* slots of requests to the fetch routes
    Processes,  \* server processes on one data store
    MaxStarts,  \* bound: secrets drawn in a behaviour
    MaxIssued,  \* bound: different receipts issued in a behaviour
    Options     \* the options of createServer to consider

Configs == [auth : {"none", "jwt", "google", "custom"}, gated : BOOLEAN,
            private : SUBSET Ids, secret : BOOLEAN]

ASSUME RetrievalAssumption ==
    /\ Options \subseteq Configs
    /\ IsFiniteSet(Processes)
    /\ MaxStarts \in Nat /\ MaxStarts >= Cardinality(Processes)
    /\ MaxIssued \in Nat

VARIABLES
    config,     \* the options of createServer, the same in every process
    secret,     \* receiptSecret of each process
    starts,     \* how many secrets have been drawn
    host,       \* the process that serves the request in each slot
    receipts,   \* the receipt stored with each manifest
    issued,     \* history: every receipt that was built for an upload
    read,       \* the handlers of the fetch routes
    seen        \* history: what was stored under the id since the request came

store == <<manifests, bindings, call>>
others == <<config, secret, starts, host, issued>>
all == <<store, others, receipts, read, seen>>

Slots == Requests \cup Readers
Secrets == 0..MaxStarts     \* 0: the configured one
Tokens == {"none", "unscoped", "scoped"}    \* "none": none, or one that is not valid
Proofs == [secret : Secrets, uri : {"ours"}, id : Ids]
Receipts == [uri : {"ours", "other"}, id : Ids, proof : Proofs,
             rest : {"issued", "altered"}]  \* the fields that no proof covers

Reader == [pc : {"done", "auth", "manifest", "predicate", "exists", "receipt"},
           op : {"none", "get", "receipts", "verify"},
           id : Ids \cup {Nil}, token : Tokens,
           sent : Receipts \cup {Nil},      \* the receipt in the body
           context : BOOLEAN,               \* an AuthContext with fetch:manifests
           data : Blobs \cup {Nil},         \* entry.data
           got : Receipts \cup {Nil},       \* the receipt that is served, or vouched for
           verified : BOOLEAN,
           status : {0, 200, 303, 400, 401, 403, 404, 500}]

Unread == [pc |-> "done", op |-> "none", id |-> Nil, token |-> "none", sent |-> Nil,
           context |-> FALSE, data |-> Nil, got |-> Nil, verified |-> FALSE, status |-> 0]

-----------------------------------------------------------------------------
(* Secrets and receipts *)

\* Mutant: RECEIPT_SECRET is not looked at.
AlwaysDrawn(n) == IF n \in Secrets THEN n ELSE 1

\* The configured secret, or the n-th one drawn.
Secret(n) == IF config.secret THEN 0 ELSE n

BuildReceipt(p, i) ==
    [uri |-> "ours", id |-> i, proof |-> [secret |-> secret[p], uri |-> "ours", id |-> i],
     rest |-> "issued"]

\* The HMAC over canonicalPayload of the receipt's own fields is the one it
\* carries; nothing is asked of the rest.
VerifyReceipt(r, p) == r.proof = [secret |-> secret[p], uri |-> r.uri, id |-> r.id]

\* Receipts a caller may hold: issued ones, and issued ones with a field changed.
Held == issued \cup {[r EXCEPT !.id = i] : r \in issued, i \in Ids}
               \cup {[r EXCEPT !.uri = "other"] : r \in issued}
               \cup {[r EXCEPT !.rest = "altered"] : r \in issued}

InitRetrieval ==
    /\ Init
    /\ config \in Options
    /\ starts = Cardinality(Processes)
    /\ \E draw \in [Processes -> 1..Cardinality(Processes)] :
         /\ \A p, q \in Processes : draw[p] = draw[q] => p = q
         /\ secret = [p \in Processes |-> Secret(draw[p])]
    /\ host \in [Slots -> Processes]
    /\ receipts = [i \in Ids |-> Nil]
    /\ issued = {}
    /\ read = [q \in Readers |-> Unread]
    /\ seen = [q \in Readers |-> {}]

-----------------------------------------------------------------------------
(* The store routes, and what readers may have seen of them *)

Entry(i) == [manifest |-> manifests[i], receipt |-> receipts[i]]

\* A handler under way sees what becomes of the manifest it was asked for.
Observe ==
    seen' = [q \in Readers |->
               LET i == read[q].id IN
               IF read[q].pc = "done" THEN {}
               ELSE seen[q] \cup {[manifest |-> manifests'[i], receipt |-> receipts'[i]]}]

\* Mutant: the receipt outlives its manifest.
NotDropped(i) == receipts

\* A receipt is a column, or a field, of its manifest.
Dropped(i) == [receipts EXCEPT ![i] = Nil]

Arrive(r) ==
    /\ Ask(r)
    /\ \E p \in Processes : host' = [host EXCEPT ![r] = p]
    /\ UNCHANGED <<config, secret, starts, receipts, issued, read, seen>>

Upload(r) ==
    /\ Ingest(r)
    /\ UNCHANGED <<others, receipts, read>>
    /\ Observe

SignReceipt(r) ==
    LET i == call[r].id
        new == BuildReceipt(host[r], i)
    IN
    /\ Sign(r)
    /\ receipts' = IF manifests[i] = Nil THEN receipts ELSE [receipts EXCEPT ![i] = new]
    /\ issued' = issued \cup {new}
    /\ Cardinality(issued') <= MaxIssued
    /\ Observe
    /\ UNCHANGED <<config, secret, starts, host, read>>

Withdraw(r) ==
    /\ Remove(r)
    /\ receipts' = IF manifests[call[r].id] = Nil THEN receipts ELSE Dropped(call[r].id)
    /\ Observe
    /\ UNCHANGED <<others, read>>

FailWrite(r) == Fail(r) /\ UNCHANGED <<others, receipts, read, seen>>

\* A process stops, its requests with it, and starts again.
StopProcess(p) ==
    /\ config.secret \/ starts < MaxStarts
    /\ starts' = IF config.secret THEN starts ELSE starts + 1
    /\ secret' = [secret EXCEPT ![p] = Secret(starts + 1)]
    /\ call' = [r \in Requests |-> IF host[r] = p THEN Answered(0) ELSE call[r]]
    /\ read' = [q \in Readers |-> IF host[q] = p THEN Unread ELSE read[q]]
    /\ seen' = [q \in Readers |-> IF host[q] = p THEN {} ELSE seen[q]]
    /\ UNCHANGED <<manifests, bindings, config, host, receipts, issued>>

-----------------------------------------------------------------------------
(* The fetch routes *)

Go(q, new) ==
    /\ read' = [read EXCEPT ![q] = new]
    /\ UNCHANGED <<store, others, receipts, seen>>

\* An answer: bytes, a receipt and whether it is verified, a status.
Answer(q, data, got, verified, status) ==
    /\ read' = [read EXCEPT ![q] = [Unread EXCEPT !.data = data, !.got = got,
                                                  !.verified = verified, !.status = status]]
    /\ seen' = [seen EXCEPT ![q] = {}]
    /\ UNCHANGED <<store, others, receipts>>

Status(q, s) == Answer(q, Nil, Nil, FALSE, s)

\* The middleware looks at the token and publishes its scopes.
Published == config.auth \in {"jwt", "google"}

\* A request comes in.  A browser may be redirected before anything is looked at.
Get(q) ==
    /\ read[q].pc = "done"
    /\ \E p \in Processes, op \in {"get", "receipts", "verify"}, i \in Ids :
       \E t \in IF Published THEN Tokens ELSE {"none"},
          sent \in IF op = "verify" THEN Held \cup {Nil} ELSE {Nil} :
         LET new == [Unread EXCEPT !.pc = "auth", !.op = op, !.id = i, !.token = t,
                                   !.sent = sent]
         IN
         /\ host' = [host EXCEPT ![q] = p]
         /\ \/ read' = [read EXCEPT ![q] = new] /\ seen' = [seen EXCEPT ![q] = {Entry(i)}]
            \/ /\ op = "get"
               /\ read' = [read EXCEPT ![q] = [Unread EXCEPT !.status = 303]]
               /\ UNCHANGED seen
    /\ UNCHANGED <<store, config, secret, starts, receipts, issued>>

\* With isManifestAuthRequired, GET /manifests/:id runs the optional middleware.
Optional(q) == config.gated /\ read[q].op = "get"

\* Where the route begins: a body that is no receipt is refused at once.
Enter(q, context) ==
    IF read[q].op = "verify" /\ read[q].sent = Nil
      THEN Status(q, 400)
      ELSE Go(q, [read[q] EXCEPT !.context = context,
                                 !.pc = IF read[q].op = "get" THEN "manifest" ELSE "exists"])

\* auth and requireAuthScope.  Any token is refused while the issuer's keys cannot
\* be had; a middleware of one's own decides by itself; without `auth` all pass.
Mandatory(q) ==
    \/ config.auth # "none" /\ Status(q, 401)
    \/ Published /\ read[q].token = "unscoped" /\ Status(q, 403)
    \/ (Published => read[q].token = "scoped") /\ Enter(q, FALSE)

\* optionalAuth never refuses: a token it cannot verify is none, and only
\* JwtAuthOptions let it verify any.
Authenticate(q) ==
    /\ read[q].pc = "auth"
    /\ \/ /\ Optional(q)
          /\ \E context \in {FALSE, config.auth = "jwt" /\ read[q].token = "scoped"} :
               Enter(q, context)
       \/ ~Optional(q) /\ Mandatory(q)

ReadManifest(q) ==
    LET entry == manifests[read[q].id] IN
    /\ read[q].pc = "manifest"
    /\ \/ entry = Nil /\ Status(q, 404)
       \/ entry # Nil /\ config.gated
          /\ Go(q, [read[q] EXCEPT !.pc = "predicate", !.data = entry.data])
       \/ entry # Nil /\ ~config.gated
          /\ Answer(q, entry.data, Nil, FALSE, 200)

\* Mutant: any valid token opens a private manifest.
WithheldFromAnonymous(q) ==
    read[q].id \in config.private /\ ~(config.auth = "jwt" /\ read[q].token \in {"scoped", "unscoped"})

\* authRequired, and no AuthContext with the scope.
Withheld(q) == read[q].id \in config.private /\ ~read[q].context

AskPredicate(q) ==
    /\ read[q].pc = "predicate"
    /\ IF Withheld(q) THEN Status(q, 404) ELSE Answer(q, read[q].data, Nil, FALSE, 200)

\* Mutant: the receipt of any manifest will do.
AnyReceipt(r, i) == TRUE

\* repository.manifestId is the one in the path.
Concerns(r, i) == r.id = i

\* manifestExists; then a receipt that was sent is checked.
FindManifest(q) ==
    LET r == read[q] IN
    /\ r.pc = "exists"
    /\ \/ manifests[r.id] = Nil /\ Status(q, 404)
       \/ manifests[r.id] # Nil /\ r.op = "receipts" /\ Go(q, [r EXCEPT !.pc = "receipt"])
       \/ /\ manifests[r.id] # Nil /\ r.op = "verify"
          /\ IF Concerns(r.sent, r.id)
               THEN LET ok == VerifyReceipt(r.sent, host[q]) IN
                    Answer(q, Nil, IF ok THEN r.sent ELSE Nil, ok, 200)
               ELSE Status(q, 400)

\* Mutant: the manifest has been found, so there is a receipt.
NeverMissing(i) == FALSE

\* getReceipt: no manifest, or no receipt.
NoReceipt(i) == receipts[i] = Nil

ReadReceipt(q) ==
    LET r == read[q]
        receipt == receipts[r.id]
    IN
    /\ r.pc = "receipt"
    /\ IF NoReceipt(r.id)
         THEN Status(q, 404)
         ELSE Answer(q, Nil, receipt, /\ receipt # Nil
                                      /\ Concerns(receipt, r.id)
                                      /\ VerifyReceipt(receipt, host[q]), 200)

\* The data store or the predicate rejects.
FailRead(q) ==
    /\ read[q].pc \notin {"done", "auth"}
    /\ Status(q, 500)

Route(q) ==
    \/ Get(q) \/ Authenticate(q) \/ ReadManifest(q) \/ AskPredicate(q)
    \/ FindManifest(q) \/ ReadReceipt(q) \/ FailRead(q)

NextRetrieval ==
    \/ \E r \in Requests :
         Arrive(r) \/ Upload(r) \/ SignReceipt(r) \/ Withdraw(r) \/ FailWrite(r)
    \/ \E q \in Readers : Route(q)
    \/ \E p \in Processes : StopProcess(p)

SpecRetrieval == InitRetrieval /\ [][NextRetrieval]_all

-----------------------------------------------------------------------------
(* Properties *)

\* Types; a receipt is stored exactly with a manifest that has been signed, and
\* under the id it names.
TypeOK ==
    /\ manifests \in [Ids -> Stored \cup {Nil}]
    /\ call \in [Requests -> Call]
    /\ config \in Options
    /\ starts \in Nat
    /\ secret \in [Processes -> Secrets]
    /\ host \in [Slots -> Processes]
    /\ issued \subseteq Receipts
    /\ read \in [Readers -> Reader]
    /\ \A i \in Ids :
         IF manifests[i] # Nil /\ manifests[i].signed
           THEN receipts[i] \in Receipts /\ receipts[i].id = i
           ELSE receipts[i] = Nil

Answers(q) == read[q].pc # "done" /\ read'[q].pc = "done" /\ read'[q].status # 0

\* What a fetch answers was so at one moment while it was served: bytes and
\* receipts were stored under the id just then, and a 404 to a caller who may
\* read the manifest means that it, or its receipt, was missing just then.
ReadsAreCurrent ==
    [][\A q \in Readers : Answers(q) =>
         LET old == read[q]
             new == read'[q]
         IN
         /\ new.status = 200 /\ old.op = "get" =>
              \E e \in seen[q] : e.manifest # Nil /\ e.manifest.data = new.data
         /\ new.status = 200 /\ old.op = "receipts" =>
              \E e \in seen[q] : e.manifest # Nil /\ e.receipt # Nil /\ e.receipt = new.got
         /\ new.status = 404 /\ ~(Optional(q) /\ Withheld(q)) =>
              \E e \in seen[q] : e.manifest = Nil \/ (old.op = "receipts" /\ e.receipt = Nil)]_all

\* What a proof vouches for: the repository, the manifest, and itself.
SignedPart(r) == [uri |-> r.uri, id |-> r.id, proof |-> r.proof]

\* An answer that says "verified" is about a receipt whose signed part one of the
\* processes issued for the very manifest in the path.  (It is echoed with the
\* rest as it was sent, altered or not.)
VerifiedIsOurs ==
    [][\A q \in Readers : Answers(q) /\ read'[q].verified =>
         \E r \in issued : r.id = read[q].id /\ SignedPart(read'[q].got) = SignedPart(r)]_all

\* With a configured secret, the receipt that is stored verifies, on whichever
\* process, however often the processes have been restarted.
ConfiguredReceiptsVerify ==
    [][\A q \in Readers :
         Answers(q) /\ config.secret /\ read[q].op = "receipts" /\ read'[q].status = 200 =>
             read'[q].verified]_all

\* Who may fetch: without isManifestAuthRequired the chain's callers, with it
\* everyone a public manifest and holders of the scope a private one too.
MayFetch(q) ==
    IF Optional(q)
      THEN read[q].id \in config.private => config.auth = "jwt" /\ read[q].token = "scoped"
      ELSE Published => read[q].token = "scoped"

\* Nobody else is sent a manifest or a receipt, or learns whether there is one:
\* a private manifest answers 404, stored or not, and the mandatory chain answers
\* before the store is asked.
OnlyForTheAuthorised ==
    [][\A q \in Readers : Answers(q) /\ ~MayFetch(q) =>
         /\ read'[q].data = Nil /\ read'[q].got = Nil
         /\ read'[q].status \in IF Optional(q) THEN {404, 500} ELSE {401, 403}]_all
=============================================================================
