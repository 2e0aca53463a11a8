----------------------------- MODULE ObjectStore -----------------------------
(***************************************************************************)
(* The object store plugins (src/plugins/awsBucket/src/index.ts and        *)
(* gcpBucket/src/index.ts): calls that save, load, delete and clean up the *)
(* objects of one bucket, each a process whose steps are the requests it   *)
(* awaits.  S3 and Google Cloud Storage are the buckets' services: a       *)
(* request on one object is atomic, a list is one page at a time in the    *)
(* order of the keys.  Every save makes a new object, known by its number; *)
(* bytes and content type of number n were given together by save n.       *)
(***************************************************************************)
EXTENDS Naturals, FiniteSets

CONSTANTS
    Clients,    \* call slots: one call at a time in each
    LastKey,    \* the keys are 1..LastKey, in the order a list returns them
    PageSize,   \* the most objects in a page of a list (1000 in both services)
    BatchSize,  \* keys in one DeleteObjects request (1000)
    MaxSaves,   \* bound: saves in a behaviour
    Backends    \* the plugins to consider

ASSUME ConstantsAssumption ==
    /\ LastKey \in Nat \ {0} /\ PageSize \in Nat \ {0} /\ BatchSize \in Nat \ {0}
    /\ MaxSaves \in Nat
    /\ Backends \subseteq {"aws", "gcp"}

Keys == 1..LastKey
Number == 0..MaxSaves   \* 0: no object

VARIABLES
    backend,    \* the configured plugin
    objects,    \* the bucket: the number of the object under each key
    saves,      \* how many saves have taken effect
    aged,       \* the objects that are older than maxAgeMs by now
    call        \* what each call is doing, holds and has answered

vars == <<backend, objects, saves, aged, call>>

Places == {"done", "put", "head", "get", "exists", "delete", "list", "purge"}
Operations == {"none", "save", "load", "delete", "clean"}

Call == [pc : Places, op : Operations, key : Keys \cup {0},
         meta : Number, data : Number,      \* load: whose type and whose bytes
         found : Number, ok : BOOLEAN,      \* delete: what exists saw; the answer
         cutoff : SUBSET (1..MaxSaves),     \* clean: the objects older than it
         after : Keys \cup {0},             \* clean: the key the last page ended with
         doomed : SUBSET Keys,              \* clean: keysToDelete, not yet deleted
         failed : BOOLEAN]                  \* a request of the call failed

Idle == [pc |-> "done", op |-> "none", key |-> 0, meta |-> 0, data |-> 0, found |-> 0,
         ok |-> FALSE, cutoff |-> {}, after |-> 0, doomed |-> {}, failed |-> FALSE]

Init ==
    /\ backend \in Backends
    /\ objects = [k \in Keys |-> 0]
    /\ saves = 0
    /\ aged = {}
    /\ call = [c \in Clients |-> Idle]

Stored == {objects[k] : k \in Keys} \ {0}

Become(c, new) == call' = [call EXCEPT ![c] = new]
Bucket == <<objects, saves, aged>>

-----------------------------------------------------------------------------
(* saveData, loadData, deleteData *)

\* A call is made; a clean-up fixes its cutoff.
Start(c) ==
    /\ call[c].pc = "done"
    /\ \/ \E k \in Keys :
            Become(c, [Idle EXCEPT !.pc = "put", !.op = "save", !.key = k])
       \/ \E k \in Keys :
            Become(c, [Idle EXCEPT !.pc = IF backend = "gcp" THEN "head" ELSE "get",
                                   !.op = "load", !.key = k])
       \/ \E k \in Keys : Become(c, [Idle EXCEPT !.pc = "exists", !.op = "delete", !.key = k])
       \/ Become(c, [Idle EXCEPT !.pc = "list", !.op = "clean", !.cutoff = aged])
    /\ UNCHANGED <<backend, Bucket>>

Save(c) ==
    /\ call[c].pc = "put"
    /\ saves < MaxSaves
    /\ saves' = saves + 1
    /\ objects' = [objects EXCEPT ![call[c].key] = saves + 1]
    /\ Become(c, [call[c] EXCEPT !.pc = "done"])
    /\ UNCHANGED <<backend, aged>>

Finish(c, meta, data) == Become(c, [call[c] EXCEPT !.pc = "done", !.meta = meta, !.data = data])

\* Mutant: the bytes are downloaded before the metadata is asked for.
AnswerBytesFirst(c, o) ==
    Finish(c, o, IF backend = "gcp" THEN call[c].meta ELSE o)

\* S3 has both from one GetObject, GCS the type from the request before.
AnswerLoad(c, o) ==
    Finish(c, IF backend = "gcp" THEN call[c].meta ELSE o, o)

\* S3: GetObject.  GCS: getMetadata, then download.  Gone at either: null.
Load(c) ==
    LET o == objects[call[c].key] IN
    /\ \/ /\ call[c].pc \in {"head", "get"} /\ o = 0
          /\ Finish(c, 0, 0)
       \/ /\ call[c].pc = "head" /\ o # 0
          /\ Become(c, [call[c] EXCEPT !.pc = "get", !.meta = o])
       \/ /\ call[c].pc = "get" /\ o # 0
          /\ AnswerLoad(c, o)
    /\ UNCHANGED <<backend, Bucket>>

\* Is there an object?  If not, false.
CheckExists(c) ==
    LET o == objects[call[c].key] IN
    /\ call[c].pc = "exists"
    /\ Become(c, IF o = 0 THEN [call[c] EXCEPT !.pc = "done"]
                 ELSE [call[c] EXCEPT !.pc = "delete", !.found = o])
    /\ UNCHANGED <<backend, Bucket>>

\* Mutant: a deletion that fails still answers true.
AnswerAnyway(c) == Become(c, [call[c] EXCEPT !.pc = "done", !.ok = TRUE, !.failed = TRUE])

\* A request of the call fails: a deletion answers false, any other call rejects.
Reject(c) == Become(c, [call[c] EXCEPT !.pc = "done", !.failed = TRUE,
                                       !.meta = 0, !.data = 0])

\* The object may have been replaced since, or be gone: S3 deletes nothing and
\* is content, GCS answers 404 and the call false.
Delete(c) ==
    LET k == call[c].key IN
    /\ call[c].pc = "delete"
    /\ \/ /\ objects[k] # 0 \/ backend = "aws"
          /\ objects' = [objects EXCEPT ![k] = 0]
          /\ Become(c, [call[c] EXCEPT !.pc = "done", !.ok = TRUE])
       \/ /\ objects[k] = 0 /\ backend = "gcp"
          /\ Reject(c) /\ UNCHANGED objects
    /\ UNCHANGED <<backend, saves, aged>>

-----------------------------------------------------------------------------
(* deleteDataOlderThan *)

\* The n first keys of a set.
First(n, S) == {k \in S : Cardinality({j \in S : j <= k}) <= n}

\* What a list has still to return.
Following(c) == {k \in Keys : objects[k] # 0 /\ k > call[c].after}

\* Mutant: every request asks for the first page.
SameToken(c, page) == call[c].after

\* NextContinuationToken: where the page ends.
NextToken(c, page) == CHOOSE k \in page : \A j \in page : j <= k

\* Mutant: the list ends with its first page.
FirstPageOnly(c, page) == FALSE

\* IsTruncated: the list goes on.
GoesOn(c, page) == page # Following(c)

\* A page is the next keys, PageSize of them or fewer.
ListPage(c) ==
    /\ call[c].pc = "list"
    /\ \E n \in 1..PageSize :
         LET page == First(n, Following(c))
             doomed == call[c].doomed \cup {k \in page : objects[k] \in call[c].cutoff}
         IN Become(c, IF GoesOn(c, page)
                      THEN [call[c] EXCEPT !.after = NextToken(c, page), !.doomed = doomed]
                      ELSE [call[c] EXCEPT !.pc = "purge", !.doomed = doomed])
    /\ UNCHANGED <<backend, Bucket>>

\* A request that deletes what is under these keys by now; each key's deletion
\* may fail, which is logged at most, and the call goes on.
Purge(c, batch) ==
    \E gone \in SUBSET batch :
        /\ objects' = [k \in Keys |-> IF k \in gone THEN 0 ELSE objects[k]]
        /\ Become(c, [call[c] EXCEPT !.doomed = @ \ batch, !.failed = @ \/ gone # batch])

\* S3 deletes batch after batch, GCS key by key in any order.
PurgeSome(c) ==
    /\ call[c].pc = "purge" /\ call[c].doomed # {}
    /\ \/ backend = "aws" /\ Purge(c, First(BatchSize, call[c].doomed))
       \/ backend = "gcp" /\ \E k \in call[c].doomed : Purge(c, {k})
    /\ UNCHANGED <<backend, saves, aged>>

PurgeEnds(c) ==
    /\ call[c].pc = "purge" /\ call[c].doomed = {}
    /\ Become(c, [call[c] EXCEPT !.pc = "done"])
    /\ UNCHANGED <<backend, Bucket>>

-----------------------------------------------------------------------------
Fail(c) ==
    /\ call[c].pc \notin {"done", "purge"}
    /\ Reject(c)
    /\ UNCHANGED <<backend, Bucket>>

\* Time passes, and an object is older than the age clean-ups ask for.
Age ==
    /\ \E n \in Stored \ aged : aged' = aged \cup {n}
    /\ UNCHANGED <<backend, objects, saves, call>>

Step(c) ==
    \/ Save(c) \/ Load(c) \/ CheckExists(c) \/ Delete(c)
    \/ ListPage(c) \/ PurgeSome(c) \/ PurgeEnds(c)

Next ==
    \/ \E c \in Clients : Start(c) \/ Step(c) \/ Fail(c)
    \/ Age

\* The services answer.
Fairness == \A c \in Clients : WF_vars(Step(c))

Spec == Init /\ [][Next]_vars
FairSpec == Spec /\ Fairness

-----------------------------------------------------------------------------
(* Properties *)

\* Types; and a listing has been past every key it means to delete, which it
\* will therefore not meet again.
TypeOK ==
    /\ backend \in Backends
    /\ objects \in [Keys -> Number]
    /\ saves \in Number
    /\ aged \subseteq 1..saves
    /\ call \in [Clients -> Call]
    /\ \A c \in Clients : call[c].pc = "list" => \A k \in call[c].doomed : k <= call[c].after

Answered(c, op) == call[c].pc = "done" /\ call[c].op = op

\* What loadData answers is whole: from S3 the bytes and the content type of one
\* save, from GCS bytes that are never older than their content type.
LoadsAreOrdered ==
    \A c \in Clients : Answered(c, "load") =>
        /\ call[c].meta = 0 <=> call[c].data = 0
        /\ call[c].meta <= call[c].data
        /\ backend = "aws" => call[c].meta = call[c].data

\* When deleteData answers true, the object it had found is in the bucket no
\* more, whoever replaced or deleted it in the meantime.
DeletedIsGone ==
    \A c \in Clients :
        Answered(c, "delete") /\ call[c].ok => objects[call[c].key] # call[c].found

\* When deleteDataOlderThan has ended and nothing failed, no object is left that
\* was too old when it began, on whatever page, and whatever came or went while
\* it listed.
CleanupIsComplete ==
    \A c \in Clients :
        Answered(c, "clean") /\ ~call[c].failed =>
            \A k \in Keys : objects[k] \notin call[c].cutoff

\* "deletes only objects older than the cutoff": a clean-up removes no other.
\* (Not so: see object_cleanup.)
CleanupSparesNew ==
    [][\A c \in Clients, k \in Keys :
         call[c].pc = "purge" /\ call'[c] # call[c] /\ objects[k] # 0 /\ objects'[k] = 0
             => objects[k] \in call[c].cutoff]_vars
=============================================================================
