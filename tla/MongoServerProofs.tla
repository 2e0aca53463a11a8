------------------------- MODULE MongoServerProofs -------------------------
(***************************************************************************)
(* Proofs about MongoServer, for any requests, ids, blobs and values.      *)
(***************************************************************************)
EXTENDS MongoServer, SequenceTheorems, TLAPS

(* What the operations make of the documents of one value *)

Docs == Seq(SUBSET Ids)

LEMMA NamesByIndex ==
  ASSUME NEW docs, NEW j
  PROVE  Names(docs, j) <=> \E k \in DOMAIN docs : j \in docs[k]
BY DEF Names, Range

\* insertOne puts one document among the others, and changes none.
LEMMA InsertedFacts ==
  ASSUME NEW S, NEW docs \in Seq(S), NEW doc \in S, NEW new \in InsertOne(docs, doc)
  PROVE  /\ new \in Seq(S) /\ Len(new) = Len(docs) + 1
         /\ \E m \in DOMAIN new : new[m] = doc
         /\ \A n \in DOMAIN docs : \E m \in DOMAIN new : new[m] = docs[n]
         /\ \A m \in DOMAIN new : new[m] = doc \/ \E n \in DOMAIN docs : new[m] = docs[n]
<1>1. PICK k \in 1..(Len(docs) + 1) : new = InsertAt(docs, k, doc)
  BY DEF InsertOne
<1> DEFINE before == SubSeq(docs, 1, k - 1)
           one == <<doc>>
           after == SubSeq(docs, k, Len(docs))
           front == before \o one
<1>2. Len(docs) \in Nat /\ k \in Nat /\ k >= 1 /\ k <= Len(docs) + 1
  OBVIOUS
<1>3. /\ before \in Seq(S) /\ Len(before) = k - 1
      /\ \A n \in 1..(k - 1) : before[n] = docs[n]
  BY <1>2, SubSeqProperties
<1>4. /\ after \in Seq(S) /\ Len(after) = Len(docs) - k + 1
      /\ \A n \in 1..(Len(docs) - k + 1) : after[n] = docs[k + n - 1]
  BY <1>2, SubSeqProperties
<1>5. one \in Seq(S) /\ Len(one) = 1 /\ one[1] = doc
  OBVIOUS
<1>6. new = front \o after
  BY <1>1 DEF InsertAt
<1> HIDE DEF before, one, after
<1>7. /\ front \in Seq(S) /\ Len(front) = k
      /\ \A n \in 1..k : front[n] = IF n < k THEN docs[n] ELSE doc
  <2>1. /\ front \in Seq(S) /\ Len(front) = Len(before) + Len(one)
        /\ \A n \in 1..(Len(before) + Len(one)) :
             front[n] = IF n <= Len(before) THEN before[n] ELSE one[n - Len(before)]
    BY <1>3, <1>5, ConcatProperties
  <2>2. ASSUME NEW n \in 1..k PROVE front[n] = IF n < k THEN docs[n] ELSE doc
    <3> HIDE DEF front
    <3>1. n \in Nat /\ n >= 1 /\ n <= k /\ n \in 1..(Len(before) + Len(one))
      BY <1>2, <1>3, <1>5
    <3>2. CASE n < k
      BY <1>2, <1>3, <2>1, <3>1, <3>2
    <3>3. CASE n = k
      BY <1>2, <1>3, <1>5, <2>1, <3>1, <3>3
    <3> QED
      BY <1>2, <3>1, <3>2, <3>3
  <2> QED
    BY <1>2, <1>3, <1>5, <2>1, <2>2
<1> HIDE DEF front
<1>8. new \in Seq(S) /\ Len(new) = Len(docs) + 1
  <2>1. new \in Seq(S) /\ Len(new) = Len(front) + Len(after)
    BY <1>4, <1>6, <1>7, ConcatProperties
  <2> QED
    BY <1>2, <1>4, <1>7, <2>1
<1>9. \A n \in 1..(Len(docs) + 1) : new[n] = IF n <= k THEN front[n] ELSE after[n - k]
  <2>1. \A n \in 1..(Len(front) + Len(after)) :
          new[n] = IF n <= Len(front) THEN front[n] ELSE after[n - Len(front)]
    BY <1>4, <1>6, <1>7, ConcatProperties
  <2> QED
    BY <1>2, <1>4, <1>7, <2>1
<1>10. /\ \A n \in 1..(k - 1) : new[n] = docs[n]
       /\ new[k] = doc
       /\ \A n \in k..Len(docs) : new[n + 1] = docs[n]
  <2>1. ASSUME NEW n \in 1..(k - 1) PROVE new[n] = docs[n]
    BY <1>2, <1>7, <1>9
  <2>2. new[k] = doc
    BY <1>2, <1>7, <1>9
  <2>3. ASSUME NEW n \in k..Len(docs) PROVE new[n + 1] = docs[n]
    <3>1. n + 1 \in 1..(Len(docs) + 1) /\ ~(n + 1 <= k)
      BY <1>2
    <3>2. (n + 1) - k \in 1..(Len(docs) - k + 1) /\ k + ((n + 1) - k) - 1 = n
      BY <1>2
    <3> QED
      BY <1>4, <1>9, <3>1, <3>2
  <2> QED
    BY <2>1, <2>2, <2>3
<1>11. DOMAIN new = 1..(Len(docs) + 1) /\ DOMAIN docs = 1..Len(docs)
  BY <1>8
<1>12. ASSUME NEW n \in DOMAIN docs PROVE \E m \in DOMAIN new : new[m] = docs[n]
  <2>1. CASE n < k
    BY <1>2, <1>10, <1>11, <2>1
  <2>2. CASE n >= k
    <3>1. n + 1 \in DOMAIN new /\ new[n + 1] = docs[n]
      BY <1>2, <1>10, <1>11, <2>2
    <3> QED
      BY <3>1
  <2> QED
    BY <1>2, <1>11, <2>1, <2>2
<1>13. ASSUME NEW m \in DOMAIN new
       PROVE  new[m] = doc \/ \E n \in DOMAIN docs : new[m] = docs[n]
  <2>1. CASE m < k
    BY <1>2, <1>10, <1>11, <2>1
  <2>2. CASE m = k
    BY <1>10, <2>2
  <2>3. CASE m > k
    <3>1. m - 1 \in k..Len(docs) /\ (m - 1) + 1 = m
      BY <1>2, <1>11, <2>3
    <3>2. m - 1 \in DOMAIN docs /\ new[m] = docs[m - 1]
      <4>1. new[(m - 1) + 1] = docs[m - 1]
        BY <1>10, <3>1
      <4> QED
        BY <1>2, <1>11, <3>1, <4>1
    <3> QED
      BY <3>2
  <2> QED
    BY <1>2, <1>11, <2>1, <2>2, <2>3
<1>14. \E m \in DOMAIN new : new[m] = doc
  BY <1>2, <1>10, <1>11
<1> QED
  BY <1>8, <1>12, <1>13, <1>14

LEMMA Inserted ==
  ASSUME NEW docs \in Docs, NEW i \in Ids, NEW new \in InsertOne(docs, {i})
  PROVE  /\ new \in Docs
         /\ Len(new) = Len(docs) + 1
         /\ \A j \in Ids : Names(new, j) <=> Names(docs, j) \/ j = i
<1>1. /\ new \in Docs /\ Len(new) = Len(docs) + 1
      /\ \E m \in DOMAIN new : new[m] = {i}
      /\ \A n \in DOMAIN docs : \E m \in DOMAIN new : new[m] = docs[n]
      /\ \A m \in DOMAIN new : new[m] = {i} \/ \E n \in DOMAIN docs : new[m] = docs[n]
  <2>1. {i} \in SUBSET Ids /\ docs \in Seq(SUBSET Ids)
    BY DEF Docs
  <2> QED
    BY <2>1, InsertedFacts DEF Docs
<1>2. ASSUME NEW j \in Ids
      PROVE  Names(new, j) <=> Names(docs, j) \/ j = i
  BY <1>1, NamesByIndex
<1> QED
  BY <1>1, <1>2

\* An update of the first document changes no other.
LEMMA FirstChanged ==
  ASSUME NEW docs \in Docs, docs # <<>>, NEW doc \in SUBSET Ids
  PROVE  /\ [docs EXCEPT ![1] = doc] \in Docs
         /\ Len([docs EXCEPT ![1] = doc]) = Len(docs)
         /\ \A j \in Ids : Names([docs EXCEPT ![1] = doc], j) => Names(docs, j) \/ j \in doc
         /\ \A j \in Ids : docs[1] \subseteq doc /\ Names(docs, j) => Names([docs EXCEPT ![1] = doc], j)
<1> DEFINE new == [docs EXCEPT ![1] = doc]
<1>1. new \in Docs /\ Len(new) = Len(docs) /\ DOMAIN new = DOMAIN docs
  BY DEF Docs
<1>2. 1 \in DOMAIN docs /\ new[1] = doc /\ \A k \in DOMAIN docs : k # 1 => new[k] = docs[k]
  BY DEF Docs
<1>3. ASSUME NEW j \in Ids, Names(new, j) PROVE Names(docs, j) \/ j \in doc
  BY <1>1, <1>2, <1>3, NamesByIndex
<1>4. ASSUME NEW j \in Ids, docs[1] \subseteq doc, Names(docs, j) PROVE Names(new, j)
  BY <1>1, <1>2, <1>4, NamesByIndex
<1> QED
  BY <1>1, <1>3, <1>4

LEMMA PulledFacts ==
  ASSUME NEW docs \in Docs, NEW i \in Ids
  PROVE  /\ Pulled(docs, i) \in Docs
         /\ Len(Pulled(docs, i)) = Len(docs)
         /\ \A j \in Ids : Names(Pulled(docs, i), j) <=> Names(docs, j) /\ j # i
<1>1. /\ Pulled(docs, i) \in Docs /\ Len(Pulled(docs, i)) = Len(docs)
      /\ DOMAIN Pulled(docs, i) = DOMAIN docs
      /\ \A k \in DOMAIN docs : Pulled(docs, i)[k] = docs[k] \ {i}
  <2>1. Pulled(docs, i) \in [1..Len(docs) -> SUBSET Ids]
    BY DEF Pulled, Docs
  <2> QED
    BY <2>1 DEF Docs, Pulled
<1> QED
  BY <1>1, NamesByIndex

\* deleteMany takes a document that names nothing.
LEMMA Removed ==
  ASSUME NEW docs \in Docs, NEW k \in DOMAIN docs, docs[k] = {}
  PROVE  /\ RemoveAt(docs, k) \in Docs
         /\ Len(RemoveAt(docs, k)) = Len(docs) - 1
         /\ \A j \in Ids : Names(RemoveAt(docs, k), j) <=> Names(docs, j)
<1> DEFINE rest == RemoveAt(docs, k)
           before == SubSeq(docs, 1, k - 1)
           after == SubSeq(docs, k + 1, Len(docs))
<1>1. k \in 1..Len(docs) /\ Len(docs) \in Nat
  BY DEF Docs
<1>2. /\ before \in Docs /\ Len(before) = k - 1
      /\ \A n \in 1..(k - 1) : before[n] = docs[n]
  BY <1>1, SubSeqProperties DEF Docs
<1>3. /\ after \in Docs /\ Len(after) = Len(docs) - k
      /\ \A n \in 1..(Len(docs) - k) : after[n] = docs[k + n]
  BY <1>1, SubSeqProperties DEF Docs
<1>4. rest = before \o after
  BY DEF RemoveAt
<1> HIDE DEF before, after, rest
<1>5. rest \in Docs /\ Len(rest) = Len(docs) - 1
  BY <1>1, <1>2, <1>3, <1>4, ConcatProperties DEF Docs
<1>6. \A n \in 1..(Len(docs) - 1) : rest[n] = IF n < k THEN docs[n] ELSE docs[n + 1]
  <2> TAKE n \in 1..(Len(docs) - 1)
  <2>1. rest[n] = IF n <= Len(before) THEN before[n] ELSE after[n - Len(before)]
    <3>1. n \in 1..(Len(before) + Len(after))
      BY <1>1, <1>2, <1>3
    <3>2. before \in Seq(SUBSET Ids) /\ after \in Seq(SUBSET Ids)
      BY <1>2, <1>3 DEF Docs
    <3>3. (before \o after)[n] = IF n <= Len(before) THEN before[n] ELSE after[n - Len(before)]
      BY <3>1, <3>2, ConcatProperties
    <3> QED
      BY <1>4, <3>3
  <2>2. CASE n < k
    BY <1>1, <1>2, <2>1, <2>2
  <2>3. CASE n >= k
    <3>1. n - (k - 1) \in 1..(Len(docs) - k) /\ k + (n - (k - 1)) = n + 1
      BY <1>1, <2>3
    <3> QED
      BY <1>1, <1>2, <1>3, <2>1, <2>3, <3>1
  <2> QED
    BY <1>1, <2>2, <2>3
<1>7. ASSUME NEW j \in Ids PROVE Names(rest, j) <=> Names(docs, j)
  <2>1. ASSUME Names(rest, j) PROVE Names(docs, j)
    <3>1. PICK n \in DOMAIN rest : j \in rest[n]
      BY <2>1, NamesByIndex
    <3>2. n \in 1..(Len(docs) - 1)
      BY <1>5 DEF Docs
    <3>3. \E m \in 1..Len(docs) : j \in docs[m]
      BY <1>1, <1>6, <3>1, <3>2
    <3> QED
      BY <3>3, NamesByIndex DEF Docs
  <2>2. ASSUME Names(docs, j) PROVE Names(rest, j)
    <3>1. PICK n \in DOMAIN docs : j \in docs[n]
      BY <2>2, NamesByIndex
    <3>2. n \in 1..Len(docs) /\ n # k
      BY <3>1 DEF Docs
    <3>3. \E m \in 1..(Len(docs) - 1) : j \in rest[m]
      <4>1. CASE n < k
        BY <1>1, <1>6, <3>1, <3>2, <4>1
      <4>2. CASE n > k
        <5>1. n - 1 \in 1..(Len(docs) - 1) /\ rest[n - 1] = docs[n]
          BY <1>1, <1>6, <3>2, <4>2
        <5> QED
          BY <3>1, <5>1
      <4> QED
        BY <1>1, <3>2, <4>1, <4>2
    <3> QED
      BY <1>5, <3>3, NamesByIndex DEF Docs
  <2> QED
    BY <2>1, <2>2
<1> QED
  BY <1>5, <1>7 DEF rest

\* What becomes of the manifests' documents.
LEMMA ManifestDocs ==
  ASSUME NEW docs \in Seq(Stored)
  PROVE  /\ \A doc \in Stored : \A new \in InsertOne(docs, doc) :
              new \in Seq(Stored) /\ new # <<>> /\ Len(new) = Len(docs) + 1
         /\ SetFirst(docs) \in Seq(Stored) /\ (SetFirst(docs) = <<>> <=> docs = <<>>)
         /\ Len(SetFirst(docs)) = Len(docs)
         /\ docs # <<>> => Head(SetFirst(docs)).data = Head(docs).data
         /\ docs # <<>> => Tail(docs) \in Seq(Stored) /\ Len(Tail(docs)) = Len(docs) - 1
<1>1. ASSUME NEW doc \in Stored, NEW new \in InsertOne(docs, doc)
      PROVE  new \in Seq(Stored) /\ new # <<>> /\ Len(new) = Len(docs) + 1
  <2>1. new \in Seq(Stored) /\ Len(new) = Len(docs) + 1
    BY InsertedFacts
  <2> QED
    BY <2>1
<1>2. CASE docs = <<>>
  BY <1>1, <1>2 DEF SetFirst
<1>3. CASE docs # <<>>
  <2>1. docs[1] \in Stored /\ Head(docs) = docs[1] /\ 1 \in 1..Len(docs)
    BY <1>3
  <2> DEFINE first == [docs[1] EXCEPT !.signed = TRUE]
  <2>2. first \in Stored /\ first.data = docs[1].data
    BY <2>1 DEF Stored
  <2>3. SetFirst(docs) = [docs EXCEPT ![1] = first]
    BY <1>3 DEF SetFirst
  <2> HIDE DEF first
  <2>4. /\ SetFirst(docs) \in Seq(Stored) /\ SetFirst(docs) # <<>>
        /\ Len(SetFirst(docs)) = Len(docs) /\ Head(SetFirst(docs)) = first
    BY <2>1, <2>2, <2>3
  <2>5. Tail(docs) \in Seq(Stored) /\ Len(Tail(docs)) = Len(docs) - 1
    BY <1>3
  <2> QED
    BY <1>1, <1>3, <2>1, <2>2, <2>4, <2>5
<1> QED
  BY <1>2, <1>3

-----------------------------------------------------------------------------
(* The invariant *)

Binding == {"bindCheck", "bindUpsert", "bindInsertDoc", "putFind", "putManifest", "putSet"}

\* What a handler has read before it came to its place.
Holds(q) ==
    /\ q.pc # "done" => q.id \in Ids
    /\ q.pc \in {"lookup", "add"} => q.blob \in Blobs
    /\ q.pc \in Binding => q.value \in Values

HandlersInv == \A r \in Requests : Holds(req[r])

\* Why a binding may point to a manifest that is not stored.
Excused(v, i) ==
    \/ <<v, i>> \in late
    \/ <<v, i>> \in cut
    \/ \E r \in Requests : req[r].pc = "pull" /\ req[r].id = i /\ v \in req[r].todo

OverlapInv ==
    \A v \in Values, i \in Ids : Names(bindings[v], i) /\ ~FoundManifest(i) => Excused(v, i)

\* Until two upserts meet, a value has one document, or one request about to insert it.
OneDocument(v) ==
    v \notin raced =>
        /\ Len(bindings[v]) <= 1
        /\ \A r \in Inserting(v) : bindings[v] = <<>>
        /\ \A r, s \in Inserting(v) : r = s

DocumentsInv == \A v \in Values : OneDocument(v)

Inv == TypeOK /\ HandlersInv /\ OverlapInv /\ DocumentsInv

LEMMA InitInv == Init => Inv
<1> SUFFICES ASSUME Init PROVE Inv
  OBVIOUS
<1> USE DEF Init
<1>1. TypeOK
  BY DEF TypeOK, Answered, Request, Places
<1>2. HandlersInv
  BY DEF HandlersInv, Holds, Answered, Binding
<1>3. OverlapInv
  <2>1. \A i : ~Names(<<>>, i)
    BY NamesByIndex
  <2> QED
    BY <2>1 DEF OverlapInv
<1>4. DocumentsInv
  BY DEF DocumentsInv, OneDocument, Inserting, Answered
<1> QED
  BY <1>1, <1>2, <1>3, <1>4 DEF Inv

-----------------------------------------------------------------------------
(* The handler that moves *)

\* r moves to q, and nobody else moves.
Moves(r, q) == req' = [req EXCEPT ![r] = q]

LEMMA Moved ==
  ASSUME Inv, NEW r \in Requests, NEW q \in Request, Holds(q), Moves(r, q)
  PROVE  /\ req' \in [Requests -> Request] /\ HandlersInv'
         /\ req'[r] = q /\ \A s \in Requests : s # r => req'[s] = req[s]
BY DEF Moves, Inv, TypeOK, HandlersInv, Holds

LEMMA Replies ==
  ASSUME NEW r \in Requests, NEW s \in {200, 204, 400, 404, 500}, Reply(r, s)
  PROVE  /\ Moves(r, Answered(s)) /\ Answered(s) \in Request /\ Holds(Answered(s))
         /\ Answered(s).pc = "done"
BY DEF Reply, Moves, Answered, Request, Places, Holds, Binding

LEMMA Acknowledges ==
  ASSUME NEW r \in Requests, NEW s \in {200, 204}, Acknowledge(r, s)
  PROVE  \E q \in Request : Moves(r, q) /\ Holds(q) /\ q.pc = "done"
BY Replies DEF Acknowledge

LEMMA Goes ==
  ASSUME Inv, NEW r \in Requests, NEW place \in Places, GoTo(r, place), Working(r),
         place \in {"lookup", "add"} => req[r].pc \in {"lookup", "add"},
         place \in Binding => req[r].pc \in Binding
  PROVE  \E q \in Request : /\ Moves(r, q) /\ Holds(q) /\ q.pc = place
                            /\ q.id = req[r].id /\ q.value = req[r].value
<1> DEFINE q == [req[r] EXCEPT !.pc = place]
<1>1. req[r] \in Request /\ Holds(req[r]) /\ req \in [Requests -> Request]
  BY DEF Inv, TypeOK, HandlersInv
<1>2. q \in Request /\ q.pc = place /\ q.id = req[r].id /\ q.value = req[r].value
  BY <1>1 DEF Request
<1>3. q.blob = req[r].blob
  BY <1>1 DEF Request
<1>4. Holds(q)
  BY <1>1, <1>2, <1>3 DEF Holds, Working
<1>5. Moves(r, q)
  BY <1>1 DEF GoTo, Moves
<1> QED
  BY <1>2, <1>4, <1>5

\* A handler that was not pulling takes no excuse with it.
LEMMA ExcusesStay ==
  ASSUME Inv, NEW r \in Requests, NEW q \in Request, Holds(q), Moves(r, q),
         req[r].pc # "pull", late \subseteq late', cut \subseteq cut'
  PROVE  \A v \in Values, i \in Ids : Excused(v, i) => Excused(v, i)'
<1>1. \A s \in Requests : s # r => req'[s] = req[s]
  BY Moved
<1> QED
  BY <1>1 DEF Excused

LEMMA InsertersLeave ==
  ASSUME Inv, NEW r \in Requests, NEW q \in Request, Holds(q), Moves(r, q), q.pc # "bindInsertDoc"
  PROVE  \A v \in Values : Inserting(v)' \subseteq Inserting(v) \ {r}
<1>1. req'[r] = q /\ \A s \in Requests : s # r => req'[s] = req[s]
  BY Moved
<1> QED
  BY <1>1 DEF Inserting

\* A step that takes no manifest away and leaves the bindings as they are.
LEMMA Quiet ==
  ASSUME Inv, NEW r \in Requests, NEW q \in Request, Holds(q), Moves(r, q),
         req[r].pc # "pull", q.pc # "bindInsertDoc",
         manifests' \in [Ids -> Seq(Stored)], minted' \subseteq MintedIds,
         \A i \in Ids : manifests[i] # <<>> => manifests'[i] # <<>>,
         UNCHANGED <<bindings, history>>
  PROVE  Inv'
<1> USE DEF history
<1>1. TypeOK' /\ HandlersInv'
  BY Moved DEF Inv, TypeOK
<1>2. OverlapInv'
  BY ExcusesStay DEF Inv, OverlapInv, FoundManifest, Names
<1>3. DocumentsInv'
  <2>1. \A v \in Values : Inserting(v)' \subseteq Inserting(v)
    BY InsertersLeave
  <2> QED
    BY <2>1 DEF Inv, DocumentsInv, OneDocument
<1> QED
  BY <1>1, <1>2, <1>3 DEF Inv

\* A request that is answered 204 for what it wrote into the documents of its value.
LEMMA Writes ==
  ASSUME Inv, NEW r \in Requests, NEW v \in Values, NEW i \in Ids, NEW docs \in Docs,
         Acknowledge(r, 204), req[r].pc # "pull",
         bindings' = [bindings EXCEPT ![v] = docs],
         \A j \in Ids : Names(docs, j) => Names(bindings[v], j) \/ j = i,
         v \notin raced => Len(docs) <= 1 /\ Inserting(v) \subseteq {r},
         Wrote(v, i), UNCHANGED <<manifests, minted, cut, raced, ofUploads>>
  PROVE  Inv'
<1> USE DEF ofUploads
<1>1. PICK q \in Request : Holds(q) /\ Moves(r, q) /\ q.pc = "done"
  BY Acknowledges
<1>2. late \subseteq late' /\ late' \subseteq Values \X Ids
  BY DEF Wrote, Inv, TypeOK
<1>3. bindings' \in [Values -> Docs] /\ bindings'[v] = docs
      /\ \A w \in Values : w # v => bindings'[w] = bindings[w]
  BY DEF Inv, TypeOK, Docs
<1>4. TypeOK' /\ HandlersInv'
  BY <1>1, <1>2, <1>3, Moved DEF Inv, TypeOK, Docs
<1>5. OverlapInv'
  <2> SUFFICES ASSUME NEW w \in Values, NEW j \in Ids,
                      Names(bindings'[w], j), ~FoundManifest(j)'
               PROVE  Excused(w, j)'
    BY DEF OverlapInv, Names
  <2>1. ~FoundManifest(j)
    BY DEF FoundManifest
  <2>2. CASE Names(bindings[w], j)
    BY <1>1, <1>2, <2>1, <2>2, ExcusesStay DEF Inv, OverlapInv
  <2>3. CASE w = v /\ j = i
    BY <2>1, <2>3 DEF Wrote, Excused
  <2> QED
    BY <1>3, <2>2, <2>3
<1>6. DocumentsInv'
  <2>1. \A w \in Values : Inserting(w)' \subseteq Inserting(w) \ {r}
    BY <1>1, InsertersLeave
  <2> SUFFICES ASSUME NEW w \in Values, w \notin raced
               PROVE  /\ Len(bindings'[w]) <= 1
                      /\ \A s \in Inserting(w)' : bindings'[w] = <<>>
                      /\ \A s, u \in Inserting(w)' : s = u
    BY DEF DocumentsInv, OneDocument
  <2>2. CASE w = v
    BY <1>3, <2>1, <2>2
  <2>3. CASE w # v
    BY <1>3, <2>1, <2>3 DEF Inv, DocumentsInv, OneDocument
  <2> QED
    BY <2>2, <2>3
<1> QED
  BY <1>4, <1>5, <1>6 DEF Inv

-----------------------------------------------------------------------------
(* The steps: uploads *)

LEMMA PostManifestStep ==
  ASSUME Inv, NEW r \in Requests, NEW b \in Blobs \cup {Nil}, NEW w \in BOOLEAN,
         PostManifest(r, b, w)
  PROVE  Inv'
<1>1. PICK q \in Request : Holds(q) /\ Moves(r, q) /\ q.pc # "bindInsertDoc"
  <2>1. CASE Reply(r, 400)
    BY <2>1, Replies
  <2>2. CASE \E i \in Ids, place \in {"lookup", "add"} :
               b # Nil /\ req' = [req EXCEPT ![r] = Handling(place, i, b, Nil, w)]
    <3>1. PICK i \in Ids, place \in {"lookup", "add"} :
            b # Nil /\ req' = [req EXCEPT ![r] = Handling(place, i, b, Nil, w)]
      BY <2>2
    <3>2. /\ Handling(place, i, b, Nil, w) \in Request
          /\ Holds(Handling(place, i, b, Nil, w))
          /\ Handling(place, i, b, Nil, w).pc # "bindInsertDoc"
      BY <3>1 DEF Handling, Request, Places, Holds, Binding
    <3> QED
      BY <3>1, <3>2 DEF Moves
  <2> QED
    BY <2>1, <2>2, ConstantsAssumption DEF PostManifest
<1>2. req[r].pc # "pull" /\ minted' \subseteq MintedIds
  BY DEF PostManifest, Working, Inv, TypeOK
<1>3. UNCHANGED <<manifests, bindings, history>>
  BY DEF PostManifest
<1> QED
  BY <1>1, <1>2, <1>3, Quiet DEF Inv, TypeOK

LEMMA KeptGoesOn ==
  ASSUME Inv, NEW r \in Requests, req[r].pc \in {"lookup", "add"}, Kept(r)
  PROVE  \E q \in Request : Holds(q) /\ Moves(r, q) /\ q.pc \in {"done", "sign"}
<1>1. CASE Acknowledge(r, 200)
  BY <1>1, Acknowledges
<1>2. CASE GoTo(r, "sign")
  BY <1>2, Goes DEF Places, Working, Binding
<1> QED
  BY <1>1, <1>2 DEF Kept

LEMMA LookupStep ==
  ASSUME Inv, NEW r \in Requests, Lookup(r)
  PROVE  Inv'
<1>1. PICK q \in Request : Holds(q) /\ Moves(r, q) /\ q.pc # "bindInsertDoc"
  <2>1. CASE Reply(r, 400)
    BY <2>1, Replies
  <2>2. CASE GoTo(r, "add")
    BY <2>2, Goes DEF Lookup, Places, Working, Binding
  <2>3. CASE Kept(r)
    BY <2>3, KeptGoesOn DEF Lookup
  <2> QED
    BY <2>1, <2>2, <2>3 DEF Lookup
<1> QED
  BY <1>1, Quiet DEF Lookup, Inv, TypeOK

\* The id has a manifest from now on, whatever names it.
LEMMA AddStep ==
  ASSUME Inv, NEW r \in Requests, Add(r)
  PROVE  Inv'
<1> DEFINE i == req[r].id
           doc == [data |-> req[r].blob, signed |-> FALSE]
<1>1. i \in Ids /\ doc \in Stored /\ req[r].pc = "add"
  BY DEF Add, Inv, HandlersInv, Holds, Stored
<1>2. PICK q \in Request : Holds(q) /\ Moves(r, q) /\ q.pc \in {"done", "sign"}
  BY <1>1, KeptGoesOn DEF Add
<1>3. PICK docs \in InsertOne(manifests[i], doc) : manifests' = [manifests EXCEPT ![i] = docs]
  BY DEF Add
<1> HIDE DEF doc
<1>4. manifests' \in [Ids -> Seq(Stored)] /\ manifests'[i] # <<>>
      /\ \A j \in Ids : j # i => manifests'[j] = manifests[j]
  BY <1>1, <1>3, ManifestDocs DEF Inv, TypeOK
<1>5. TypeOK' /\ HandlersInv'
  BY <1>2, <1>4, Moved DEF Add, Inv, TypeOK
<1>6. OverlapInv'
  <2> SUFFICES ASSUME NEW v \in Values, NEW j \in Ids, Names(bindings[v], j), ~FoundManifest(j)'
               PROVE  Excused(v, j)'
    BY DEF OverlapInv, Names, Add
  <2>1. j # i /\ ~FoundManifest(j)
    BY <1>4 DEF FoundManifest
  <2>2. Excused(v, j)
    BY <2>1 DEF Inv, OverlapInv
  <2>3. \A s \in Requests : s # r => req'[s] = req[s]
    BY <1>2, Moved
  <2>4. /\ <<v, j>> \in late => <<v, j>> \in late'
        /\ <<v, j>> \in cut => <<v, j>> \in cut'
    BY <2>1 DEF Add
  <2> QED
    BY <1>1, <2>2, <2>3, <2>4 DEF Excused
<1>7. DocumentsInv'
  <2>1. \A v \in Values : Inserting(v)' \subseteq Inserting(v)
    BY <1>2, InsertersLeave
  <2> QED
    BY <2>1 DEF Add, Inv, DocumentsInv, OneDocument
<1> QED
  BY <1>5, <1>6, <1>7 DEF Inv

LEMMA SignStep ==
  ASSUME Inv, NEW r \in Requests, Sign(r)
  PROVE  Inv'
<1>1. req[r].id \in Ids
  BY DEF Sign, Inv, HandlersInv, Holds
<1>2. PICK q \in Request : Holds(q) /\ Moves(r, q) /\ q.pc # "bindInsertDoc"
  <2>1. CASE Reply(r, 200)
    BY <2>1, Replies
  <2>2. CASE GoTo(r, "signSet")
    BY <2>2, Goes DEF Sign, Places, Working, Binding
  <2>3. CASE Acknowledge(r, 200)
    BY <2>3, Acknowledges
  <2> QED
    BY <2>1, <2>2, <2>3 DEF Sign
<1>3. /\ manifests' \in [Ids -> Seq(Stored)]
      /\ \A i \in Ids : manifests[i] # <<>> => manifests'[i] # <<>>
  BY <1>1, ManifestDocs DEF Sign, Inv, TypeOK
<1> QED
  BY <1>2, <1>3, Quiet DEF Sign, Inv, TypeOK

-----------------------------------------------------------------------------
(* Deletions *)

LEMMA DeleteManifestStep ==
  ASSUME Inv, NEW r \in Requests, NEW i \in Ids, DeleteManifest(r, i)
  PROVE  Inv'
<1> DEFINE q == Handling("delete", i, Nil, Nil, FALSE)
<1>1. q \in Request /\ Holds(q) /\ q.pc # "bindInsertDoc"
  BY DEF Handling, Request, Places, Holds, Binding
<1>2. Moves(r, q) /\ req[r].pc # "pull"
  BY DEF DeleteManifest, Moves, Working
<1> HIDE DEF q
<1> QED
  BY <1>1, <1>2, Quiet DEF DeleteManifest, Inv, TypeOK

LEMMA ScanFacts ==
  ASSUME Inv, NEW r \in Requests, NEW place \in {"pull", "deleteEmpty"}, Working(r), Scan(r, place)
  PROVE  \E q \in Request : /\ Holds(q) /\ Moves(r, q)
                            /\ q.pc = place /\ q.id = req[r].id /\ q.todo = Values
<1> DEFINE p == [req[r] EXCEPT !.pc = place]
           q == [p EXCEPT !.todo = Values]
<1>1. req[r] \in Request /\ Holds(req[r]) /\ req \in [Requests -> Request]
  BY DEF Inv, TypeOK, HandlersInv
<1>2. p \in Request /\ p.pc = place /\ p.id = req[r].id /\ p.blob = req[r].blob
  <2>1. place \in Places
    BY DEF Places
  <2> QED
    BY <1>1, <2>1 DEF Request
<1>3. Moves(r, q)
  BY <1>1 DEF Scan, Moves
<1> HIDE DEF p
<1>4. q \in Request /\ q.pc = place /\ q.id = req[r].id /\ q.todo = Values
  BY <1>2 DEF Request
<1>5. Holds(q)
  BY <1>1, <1>4 DEF Holds, Working, Binding
<1> QED
  BY <1>3, <1>4, <1>5

LEMMA ScannedFacts ==
  ASSUME Inv, NEW r \in Requests, NEW v \in Values, Working(r), Scanned(r, v),
         req[r].pc \in {"pull", "deleteEmpty"}
  PROVE  \E q \in Request : /\ Holds(q) /\ Moves(r, q) /\ q.pc = req[r].pc
                            /\ q.id = req[r].id /\ q.todo = req[r].todo \ {v}
<1> DEFINE q == [req[r] EXCEPT !.todo = @ \ {v}]
<1>1. req[r] \in Request /\ Holds(req[r]) /\ req \in [Requests -> Request]
  BY DEF Inv, TypeOK, HandlersInv
<1>2. q \in Request /\ q.pc = req[r].pc /\ q.id = req[r].id /\ q.todo = req[r].todo \ {v}
  BY <1>1 DEF Request
<1>3. Holds(q)
  BY <1>1, <1>2 DEF Holds, Working, Binding
<1>4. Moves(r, q)
  BY <1>1 DEF Scanned, Moves
<1> QED
  BY <1>2, <1>3, <1>4

\* The manifest goes first, and its bindings are excused until the scan has passed.
LEMMA DeleteOneStep ==
  ASSUME Inv, NEW r \in Requests, DeleteOne(r)
  PROVE  Inv'
<1> DEFINE i == req[r].id
<1>1. i \in Ids /\ req[r].pc = "delete"
  BY DEF DeleteOne, Inv, HandlersInv, Holds
<1>2. CASE ~FoundManifest(i) /\ Reply(r, 404) /\ UNCHANGED <<manifests, doubled>>
  <2>1. PICK q \in Request : Holds(q) /\ Moves(r, q) /\ q.pc # "bindInsertDoc"
    BY <1>2, Replies
  <2> QED
    BY <1>1, <1>2, <2>1, Quiet DEF DeleteOne, history, Inv, TypeOK
<1>3. CASE /\ FoundManifest(i) /\ manifests' = [manifests EXCEPT ![i] = Tail(@)]
           /\ Scan(r, "pull") /\ doubled' \in {doubled, doubled \ {i}}
  <2>1. PICK q \in Request : /\ Holds(q) /\ Moves(r, q)
                             /\ q.pc = "pull" /\ q.id = i /\ q.todo = Values
    BY <1>1, <1>3, ScanFacts DEF Working
  <2>2. manifests' \in [Ids -> Seq(Stored)] /\ \A j \in Ids : j # i => manifests'[j] = manifests[j]
    BY <1>1, <1>3, ManifestDocs DEF FoundManifest, Inv, TypeOK
  <2>3. TypeOK' /\ HandlersInv'
    BY <2>1, <2>2, Moved DEF DeleteOne, Inv, TypeOK
  <2>4. OverlapInv'
    <3> SUFFICES ASSUME NEW v \in Values, NEW j \in Ids, Names(bindings[v], j), ~FoundManifest(j)'
                 PROVE  Excused(v, j)'
      BY DEF OverlapInv, Names, DeleteOne
    <3>1. CASE j = i
      <4>1. req'[r] = q
        BY <2>1, Moved
      <4> QED
        BY <2>1, <3>1, <4>1 DEF Excused
    <3>2. CASE j # i
      <4>1. Excused(v, j)
        BY <2>2, <3>2 DEF FoundManifest, Inv, OverlapInv
      <4>2. late \subseteq late' /\ cut \subseteq cut'
        BY DEF DeleteOne
      <4> QED
        BY <1>1, <2>1, <4>1, <4>2, ExcusesStay
    <3> QED
      BY <3>1, <3>2
  <2>5. DocumentsInv'
    <3>1. \A v \in Values : Inserting(v)' \subseteq Inserting(v)
      BY <2>1, InsertersLeave
    <3> QED
      BY <3>1 DEF DeleteOne, Inv, DocumentsInv, OneDocument
  <2> QED
    BY <2>3, <2>4, <2>5 DEF Inv
<1> QED
  BY <1>2, <1>3 DEF DeleteOne

\* A value the scan has passed names the id no more.
LEMMA PullStep ==
  ASSUME Inv, NEW r \in Requests, Pull(r)
  PROVE  Inv'
<1> DEFINE i == req[r].id
<1>1. i \in Ids /\ req[r].pc = "pull" /\ Working(r)
  BY DEF Pull, Inv, HandlersInv, Holds, Working
<1>2. PICK v \in req[r].todo :
        /\ bindings' = [bindings EXCEPT ![v] = Pulled(bindings[v], i)]
        /\ late' = late \ {<<v, i>>}
        /\ cut' = cut \ {<<v, i>>}
        /\ IF req[r].todo = {v} THEN Scan(r, "deleteEmpty") ELSE Scanned(r, v)
  BY DEF Pull
<1>3. v \in Values
  BY <1>2 DEF Inv, TypeOK, Request
<1>4. PICK q \in Request : /\ Holds(q) /\ Moves(r, q) /\ q.id = i
                           /\ \/ req[r].todo = {v} /\ q.pc = "deleteEmpty"
                              \/ q.pc = "pull" /\ q.todo = req[r].todo \ {v}
  BY <1>1, <1>2, <1>3, ScanFacts, ScannedFacts
<1>5. /\ bindings' \in [Values -> Docs]
      /\ bindings'[v] = Pulled(bindings[v], i) /\ bindings[v] \in Docs
      /\ \A w \in Values : w # v => bindings'[w] = bindings[w]
  BY <1>1, <1>2, <1>3, PulledFacts DEF Inv, TypeOK, Docs
<1>6. req'[r] = q /\ \A s \in Requests : s # r => req'[s] = req[s]
  BY <1>4, Moved
<1>7. TypeOK' /\ HandlersInv'
  BY <1>2, <1>4, <1>5, Moved DEF Pull, ofUploads, Inv, TypeOK, Docs
<1>8. OverlapInv'
  <2> SUFFICES ASSUME NEW w \in Values, NEW j \in Ids,
                      Names(bindings'[w], j), ~FoundManifest(j)'
               PROVE  Excused(w, j)'
    BY DEF OverlapInv, Names
  <2>1. Names(bindings[w], j) /\ ~(w = v /\ j = i)
    BY <1>1, <1>5, PulledFacts
  <2>2. Excused(w, j)
    BY <2>1 DEF Inv, OverlapInv, FoundManifest, Pull
  <2>3. /\ <<w, j>> \in late => <<w, j>> \in late'
        /\ <<w, j>> \in cut => <<w, j>> \in cut'
    BY <1>2, <2>1
  <2>4. ASSUME NEW s \in Requests, req[s].pc = "pull", req[s].id = j, w \in req[s].todo
        PROVE  req'[s].pc = "pull" /\ req'[s].id = j /\ w \in req'[s].todo
    <3>1. CASE s # r
      BY <1>6, <2>4, <3>1
    <3>2. CASE s = r
      BY <1>4, <1>6, <2>1, <2>4, <3>2
    <3> QED
      BY <3>1, <3>2
  <2> QED
    BY <2>2, <2>3, <2>4 DEF Excused
<1>9. DocumentsInv'
  <2>1. \A w \in Values : Inserting(w)' \subseteq Inserting(w)
    BY <1>4, InsertersLeave
  <2>2. Len(bindings'[v]) = Len(bindings[v]) /\ (bindings[v] = <<>> => bindings'[v] = <<>>)
    BY <1>1, <1>5, PulledFacts DEF Docs
  <2> QED
    BY <1>5, <2>1, <2>2 DEF Pull, Inv, DocumentsInv, OneDocument
<1> QED
  BY <1>7, <1>8, <1>9 DEF Inv

LEMMA DeleteEmptyStep ==
  ASSUME Inv, NEW r \in Requests, DeleteEmpty(r)
  PROVE  Inv'
<1>1. req[r].pc = "deleteEmpty" /\ Working(r)
  BY DEF DeleteEmpty, Working
<1>2. PICK v \in req[r].todo :
        \/ \E k \in DOMAIN bindings[v] :
             /\ bindings[v][k] = {}
             /\ bindings' = [bindings EXCEPT ![v] = RemoveAt(@, k)]
             /\ raced' = {w \in raced : w # v \/ bindings'[v] # <<>> \/ Inserting(v) # {}}
             /\ UNCHANGED req
        \/ /\ IF req[r].todo = {v} THEN Reply(r, 204) ELSE Scanned(r, v)
           /\ UNCHANGED <<bindings, raced>>
  BY DEF DeleteEmpty
<1>3. v \in Values
  BY <1>2 DEF Inv, TypeOK, Request
<1>4. CASE /\ IF req[r].todo = {v} THEN Reply(r, 204) ELSE Scanned(r, v)
           /\ UNCHANGED <<bindings, raced>>
  <2>1. PICK q \in Request : Holds(q) /\ Moves(r, q) /\ q.pc # "bindInsertDoc"
    BY <1>1, <1>3, <1>4, Replies, ScannedFacts
  <2> QED
    BY <1>1, <1>4, <2>1, Quiet DEF DeleteEmpty, history, ofUploads, Inv, TypeOK
<1>5. ASSUME NEW k \in DOMAIN bindings[v], bindings[v][k] = {},
             bindings' = [bindings EXCEPT ![v] = RemoveAt(@, k)],
             raced' = {w \in raced : w # v \/ bindings'[v] # <<>> \/ Inserting(v) # {}},
             UNCHANGED req
      PROVE  Inv'
  <2>1. bindings[v] \in Docs /\ RemoveAt(bindings[v], k) \in Docs
        /\ Len(RemoveAt(bindings[v], k)) = Len(bindings[v]) - 1
    BY <1>3, <1>5, Removed DEF Inv, TypeOK, Docs
  <2>2. /\ bindings' \in [Values -> Docs]
        /\ bindings'[v] = RemoveAt(bindings[v], k)
        /\ \A w \in Values : w # v => bindings'[w] = bindings[w]
    BY <1>3, <1>5, <2>1 DEF Inv, TypeOK, Docs
  <2>3. TypeOK' /\ HandlersInv'
    BY <1>5, <2>2 DEF DeleteEmpty, ofUploads, Inv, TypeOK, HandlersInv, Holds, Docs
  <2>4. \A w \in Values, j \in Ids : Names(bindings'[w], j) => Names(bindings[w], j)
    BY <1>5, <2>1, <2>2, Removed
  <2>5. OverlapInv'
    BY <1>5, <2>4 DEF DeleteEmpty, Inv, OverlapInv, Excused, FoundManifest, Names
  <2>6. DocumentsInv'
    <3> SUFFICES ASSUME NEW w \in Values, w \notin raced'
                 PROVE  /\ Len(bindings'[w]) <= 1
                        /\ \A s \in Inserting(w) : bindings'[w] = <<>>
                        /\ \A s, u \in Inserting(w) : s = u
      BY <1>5 DEF DocumentsInv, OneDocument, Inserting
    <3>1. CASE w \in raced
      BY <1>5, <3>1
    <3>2. CASE w \notin raced /\ w # v
      BY <2>2, <3>2 DEF Inv, DocumentsInv, OneDocument
    <3>3. CASE w \notin raced /\ w = v
      <4>1. Len(bindings[v]) <= 1 /\ bindings[v] # <<>> /\ Len(bindings[v]) \in Nat
        BY <1>5, <2>1, <3>3 DEF Inv, DocumentsInv, OneDocument, Docs
      <4>2. Inserting(v) = {}
        BY <1>3, <3>3, <4>1 DEF Inv, DocumentsInv, OneDocument
      <4> QED
        BY <2>1, <2>2, <3>3, <4>1, <4>2
    <3> QED
      BY <3>1, <3>2, <3>3
  <2> QED
    BY <2>3, <2>5, <2>6 DEF Inv
<1> QED
  BY <1>2, <1>4, <1>5

-----------------------------------------------------------------------------
(* Bindings *)

LEMMA AskBindingStep ==
  ASSUME Inv, NEW r \in Requests, NEW v \in Values \cup {Nil}, NEW i \in Ids \cup {Nil},
         NEW place \in {"bindCheck", "putFind"}, AskBinding(r, place, v, i)
  PROVE  Inv'
<1>1. PICK q \in Request : Holds(q) /\ Moves(r, q) /\ q.pc # "bindInsertDoc"
  <2>1. CASE v = Nil \/ i = Nil
    <3>1. Reply(r, 400)
      BY <2>1 DEF AskBinding
    <3> QED
      BY <3>1, Replies
  <2>2. CASE ~(v = Nil \/ i = Nil)
    <3> DEFINE q == Handling(place, i, Nil, v, FALSE)
    <3>1. q \in Request /\ Holds(q) /\ q.pc # "bindInsertDoc"
      BY <2>2 DEF Handling, Request, Places, Holds, Binding
    <3>2. Moves(r, q)
      BY <2>2 DEF AskBinding, Moves
    <3> QED
      BY <3>1, <3>2
  <2> QED
    BY <2>1, <2>2
<1> QED
  BY <1>1, Quiet DEF AskBinding, Working, Inv, TypeOK

LEMMA ChecksOn ==
  ASSUME Inv, NEW r \in Requests, req[r].pc \in Binding,
         NEW place \in {"bindUpsert", "putManifest", "putSet"},
         GoTo(r, place) \/ Reply(r, 404)
  PROVE  \E q \in Request : Holds(q) /\ Moves(r, q) /\ q.pc # "bindInsertDoc"
<1>1. CASE Reply(r, 404)
  BY <1>1, Replies
<1>2. CASE GoTo(r, place)
  <2>1. place \in Places /\ place \notin {"lookup", "add"} /\ Working(r)
    BY DEF Places, Working, Binding
  <2>2. PICK q \in Request : Holds(q) /\ Moves(r, q) /\ q.pc = place
    BY <1>2, <2>1, Goes
  <2> QED
    BY <2>2
<1> QED
  BY <1>1, <1>2

LEMMA CheckStep ==
  ASSUME Inv, NEW r \in Requests, BindCheck(r) \/ PutCheck(r)
  PROVE  Inv'
<1>1. PICK q \in Request : Holds(q) /\ Moves(r, q) /\ q.pc # "bindInsertDoc"
  <2>1. CASE BindCheck(r)
    BY <2>1, ChecksOn DEF BindCheck, Binding
  <2>2. CASE PutCheck(r)
    BY <2>2, ChecksOn DEF PutCheck, Binding
  <2> QED
    BY <2>1, <2>2
<1> QED
  BY <1>1, Quiet DEF BindCheck, PutCheck, Inv, TypeOK

LEMMA BindMatchedStep ==
  ASSUME Inv, NEW r \in Requests, BindMatched(r)
  PROVE  Inv'
<1> DEFINE v == req[r].value
           i == req[r].id
<1>1. v \in Values /\ i \in Ids
  BY DEF BindMatched, Inv, HandlersInv, Holds, Binding
<1>2. bindings[v] \in Docs /\ bindings[v] # <<>>
  BY <1>1 DEF BindMatched, FoundBinding, Inv, TypeOK, Docs
<1>3. bindings[v][1] \cup {i} \in SUBSET Ids
  BY <1>1, <1>2 DEF Docs
<1>4. AddToSet(bindings[v], i) = [bindings[v] EXCEPT ![1] = bindings[v][1] \cup {i}]
  BY DEF AddToSet
<1>5. /\ AddToSet(bindings[v], i) \in Docs
      /\ Len(AddToSet(bindings[v], i)) = Len(bindings[v])
      /\ \A j \in Ids : Names(AddToSet(bindings[v], i), j) => Names(bindings[v], j) \/ j = i
  <2> DEFINE docs == bindings[v]
             doc == docs[1] \cup {i}
  <2>1. docs \in Docs /\ docs # <<>> /\ doc \in SUBSET Ids
    BY <1>2, <1>3
  <2>2. AddToSet(docs, i) = [docs EXCEPT ![1] = doc]
    BY <1>4
  <2>3. 1 \in DOMAIN docs
    BY <2>1 DEF Docs
  <2> HIDE DEF docs, doc
  <2>4. /\ [docs EXCEPT ![1] = doc] \in Docs
        /\ Len([docs EXCEPT ![1] = doc]) = Len(docs)
        /\ \A j \in Ids : Names([docs EXCEPT ![1] = doc], j) => Names(docs, j) \/ j \in doc
    BY <2>1, FirstChanged
  <2>5. ASSUME NEW j \in Ids, j \in doc PROVE Names(docs, j) \/ j = i
    BY <2>3, <2>5, NamesByIndex DEF doc
  <2> QED
    BY <2>2, <2>4, <2>5 DEF docs
<1>6. v \notin raced => Len(bindings[v]) <= 1 /\ Inserting(v) \subseteq {r}
  BY <1>1, <1>2 DEF Inv, DocumentsInv, OneDocument
<1>7. /\ Acknowledge(r, 204) /\ req[r].pc # "pull" /\ Wrote(v, i)
      /\ bindings' = [bindings EXCEPT ![v] = AddToSet(bindings[v], i)]
      /\ UNCHANGED <<manifests, minted, cut, raced, ofUploads>>
  BY DEF BindMatched
<1>8. v \notin raced => Len(AddToSet(bindings[v], i)) <= 1 /\ Inserting(v) \subseteq {r}
  BY <1>5, <1>6
<1> QED
  BY <1>1, <1>5, <1>7, <1>8, Writes

LEMMA BindInsertDocStep ==
  ASSUME Inv, NEW r \in Requests, BindInsertDoc(r)
  PROVE  Inv'
<1> DEFINE v == req[r].value
           i == req[r].id
<1>1. v \in Values /\ i \in Ids /\ r \in Inserting(v)
  BY DEF BindInsertDoc, Inserting, Inv, HandlersInv, Holds, Binding
<1>2. bindings[v] \in Docs
  BY <1>1 DEF Inv, TypeOK, Docs
<1>3. PICK docs \in InsertOne(bindings[v], {i}) : bindings' = [bindings EXCEPT ![v] = docs]
  BY DEF BindInsertDoc
<1>4. v \notin raced => bindings[v] = <<>> /\ Inserting(v) \subseteq {r}
  BY <1>1 DEF Inv, DocumentsInv, OneDocument
<1>5. /\ docs \in Docs /\ Len(docs) = Len(bindings[v]) + 1
      /\ \A j \in Ids : Names(docs, j) => Names(bindings[v], j) \/ j = i
  BY <1>1, <1>2, Inserted
<1>6. v \notin raced => Len(docs) <= 1 /\ Inserting(v) \subseteq {r}
  BY <1>4, <1>5
<1>7. /\ Acknowledge(r, 204) /\ req[r].pc # "pull" /\ Wrote(v, i)
      /\ UNCHANGED <<manifests, minted, cut, raced, ofUploads>>
  BY DEF BindInsertDoc
<1> HIDE DEF v, i
<1> QED
  BY <1>1, <1>3, <1>5, <1>6, <1>7, Writes

\* The one step that may make two documents possible, and says so.
LEMMA BindUnmatchedStep ==
  ASSUME Inv, NEW r \in Requests, BindUnmatched(r)
  PROVE  Inv'
<1> DEFINE v == req[r].value
<1>1. v \in Values /\ req[r].pc = "bindUpsert" /\ bindings[v] = <<>>
  BY DEF BindUnmatched, FoundBinding, Inv, HandlersInv, Holds, Binding
<1>2. PICK q \in Request : Holds(q) /\ Moves(r, q) /\ q.pc = "bindInsertDoc" /\ q.value = v
  BY <1>1, Goes DEF BindUnmatched, Places, Working, Binding
<1>3. req'[r] = q /\ \A s \in Requests : s # r => req'[s] = req[s]
  BY <1>2, Moved
<1>4. raced' = IF Inserting(v) = {} THEN raced ELSE raced \cup {v}
  BY DEF BindUnmatched
<1>5. TypeOK' /\ HandlersInv'
  BY <1>1, <1>2, <1>4, Moved DEF BindUnmatched, ofUploads, Inv, TypeOK
<1>6. OverlapInv'
  BY <1>1, <1>2, ExcusesStay DEF BindUnmatched, Inv, OverlapInv, FoundManifest, Names
<1>7. DocumentsInv'
  <2> SUFFICES ASSUME NEW w \in Values, w \notin raced'
               PROVE  /\ Len(bindings[w]) <= 1
                      /\ \A s \in Inserting(w)' : bindings[w] = <<>>
                      /\ \A s, u \in Inserting(w)' : s = u
    BY DEF DocumentsInv, OneDocument, BindUnmatched
  <2>1. Inserting(w)' \subseteq IF w = v THEN Inserting(w) \cup {r} ELSE Inserting(w)
    BY <1>2, <1>3 DEF Inserting
  <2>2. w \notin raced /\ (w = v => Inserting(w) = {})
    BY <1>4
  <2> QED
    BY <1>1, <2>1, <2>2 DEF Inv, DocumentsInv, OneDocument
<1> QED
  BY <1>5, <1>6, <1>7 DEF Inv

LEMMA PutSetStep ==
  ASSUME Inv, NEW r \in Requests, PutSet(r)
  PROVE  Inv'
<1> DEFINE v == req[r].value
           i == req[r].id
<1>1. v \in Values /\ i \in Ids /\ req[r].pc = "putSet"
  BY DEF PutSet, Inv, HandlersInv, Holds, Binding
<1>2. CASE ~FoundBinding(v) /\ UNCHANGED <<bindings, late>>
  <2>1. PICK q \in Request : Holds(q) /\ Moves(r, q) /\ q.pc # "bindInsertDoc"
    BY Acknowledges DEF PutSet
  <2> QED
    BY <1>1, <1>2, <2>1, Quiet DEF PutSet, history, ofUploads, Inv, TypeOK
<1>3. CASE FoundBinding(v) /\ bindings' = [bindings EXCEPT ![v][1] = {i}] /\ Wrote(v, i)
  <2>1. bindings[v] \in Docs /\ bindings[v] # <<>>
    BY <1>1, <1>3 DEF FoundBinding, Inv, TypeOK, Docs
  <2> DEFINE docs == [bindings[v] EXCEPT ![1] = {i}]
  <2>2. /\ docs \in Docs /\ Len(docs) = Len(bindings[v])
        /\ \A j \in Ids : Names(docs, j) => Names(bindings[v], j) \/ j \in {i}
    <3>1. {i} \in SUBSET Ids
      BY <1>1
    <3> QED
      BY <2>1, <3>1, FirstChanged
  <2>3. bindings' = [bindings EXCEPT ![v] = docs]
    BY <1>3
  <2>4. v \notin raced => Len(bindings[v]) <= 1 /\ Inserting(v) \subseteq {r}
    BY <1>1, <2>1 DEF Inv, DocumentsInv, OneDocument
  <2> HIDE DEF docs
  <2>5. /\ Acknowledge(r, 204) /\ req[r].pc # "pull"
        /\ UNCHANGED <<manifests, minted, cut, raced, ofUploads>>
    BY <1>1 DEF PutSet
  <2>6. /\ \A j \in Ids : Names(docs, j) => Names(bindings[v], j) \/ j = i
        /\ v \notin raced => Len(docs) <= 1 /\ Inserting(v) \subseteq {r}
    BY <2>2, <2>4
  <2> QED
    BY <1>1, <1>3, <2>2, <2>3, <2>5, <2>6, Writes
<1> QED
  BY <1>2, <1>3 DEF PutSet

-----------------------------------------------------------------------------
(* Failures *)

\* What a scan had not reached is excused for good.
LEMMA FailStep ==
  ASSUME Inv, NEW r \in Requests, Fail(r)
  PROVE  Inv'
<1>1. PICK q \in Request : Holds(q) /\ Moves(r, q) /\ q.pc = "done"
  BY Replies DEF Fail
<1>2. \A s \in Requests : s # r => req'[s] = req[s]
  BY <1>1, Moved
<1>3. /\ req[r].pc = "pull" => \A v \in req[r].todo : <<v, req[r].id>> \in cut'
      /\ cut \subseteq cut' /\ cut' \subseteq Values \X Ids /\ late' = late
  <2>1. req[r].pc = "pull" => req[r].id \in Ids /\ req[r].todo \subseteq Values
    BY DEF Inv, TypeOK, HandlersInv, Holds, Request
  <2>2. CutShort({r}) = IF req[r].pc = "pull" THEN {<<v, req[r].id>> : v \in req[r].todo} ELSE {}
    <3>1. {s \in {r} : req[s].pc = "pull"} = IF req[r].pc = "pull" THEN {r} ELSE {}
      OBVIOUS
    <3> QED
      BY <3>1 DEF CutShort
  <2>3. cut' = cut \cup CutShort({r}) /\ late' = late /\ cut \subseteq Values \X Ids
    BY DEF Fail, Inv, TypeOK
  <2>4. CASE req[r].pc = "pull"
    <3>1. CutShort({r}) \subseteq Values \X Ids
      BY <2>1, <2>2, <2>4
    <3>2. \A v \in req[r].todo : <<v, req[r].id>> \in CutShort({r})
      BY <2>2, <2>4
    <3> QED
      BY <2>3, <3>1, <3>2
  <2>5. CASE req[r].pc # "pull"
    BY <2>2, <2>3, <2>5
  <2> QED
    BY <2>4, <2>5
<1>4. TypeOK' /\ HandlersInv'
  BY <1>1, <1>3, Moved DEF Fail, Inv, TypeOK
<1>5. OverlapInv'
  <2> SUFFICES ASSUME NEW v \in Values, NEW j \in Ids, Names(bindings[v], j), ~FoundManifest(j)
               PROVE  Excused(v, j)'
    BY DEF OverlapInv, Names, FoundManifest, Fail
  <2>1. Excused(v, j)
    BY DEF Inv, OverlapInv
  <2> QED
    BY <1>2, <1>3, <2>1 DEF Excused
<1>6. DocumentsInv'
  <2>1. \A w \in Values : Inserting(w)' \subseteq Inserting(w)
    BY <1>1, InsertersLeave
  <2> QED
    BY <2>1 DEF Fail, Inv, DocumentsInv, OneDocument
<1> QED
  BY <1>4, <1>5, <1>6 DEF Inv

LEMMA RestartStep ==
  ASSUME Inv, Restart
  PROVE  Inv'
<1>1. /\ \A r \in Requests : req[r].pc = "pull" =>
           \A v \in req[r].todo : <<v, req[r].id>> \in cut'
      /\ cut \subseteq cut' /\ cut' \subseteq Values \X Ids
  <2>1. \A r \in Requests : req[r].pc = "pull" => req[r].id \in Ids /\ req[r].todo \subseteq Values
    BY DEF Inv, TypeOK, HandlersInv, Holds, Request
  <2> QED
    BY <2>1 DEF Restart, CutShort, Inv, TypeOK
<1>2. TypeOK'
  BY <1>1 DEF Restart, Inv, TypeOK, Answered, Request, Places
<1>3. HandlersInv'
  BY DEF Restart, HandlersInv, Holds, Answered, Binding
<1>4. OverlapInv'
  BY <1>1 DEF Restart, Inv, OverlapInv, Excused, FoundManifest, Names
<1>5. DocumentsInv'
  <2>1. \A w \in Values : Inserting(w)' = {}
    BY DEF Restart, Inserting, Answered
  <2> QED
    BY <2>1 DEF Restart, Inv, DocumentsInv, OneDocument
<1> QED
  BY <1>2, <1>3, <1>4, <1>5 DEF Inv

LEMMA StepInv == Inv /\ [Next]_vars => Inv'
<1> SUFFICES ASSUME Inv, [Next]_vars PROVE Inv'
  OBVIOUS
<1>1. ASSUME NEW r \in Requests, Arrive(r) PROVE Inv'
  BY <1>1, PostManifestStep, DeleteManifestStep, AskBindingStep
     DEF Arrive, PostBinding, PutBinding
<1>2. ASSUME NEW r \in Requests, Operation(r) PROVE Inv'
  BY <1>2, LookupStep, AddStep, SignStep, DeleteOneStep, PullStep, DeleteEmptyStep, CheckStep,
     BindMatchedStep, BindUnmatchedStep, BindInsertDocStep, PutSetStep DEF Operation
<1>3. ASSUME NEW r \in Requests, Fail(r) PROVE Inv'
  BY <1>3, FailStep
<1>4. CASE UNCHANGED vars
  <2> USE <1>4 DEF vars
  <2>1. TypeOK' /\ HandlersInv'
    BY DEF Inv, TypeOK, HandlersInv, Holds
  <2>2. OverlapInv'
    BY DEF Inv, OverlapInv, Excused, FoundManifest, Names
  <2>3. DocumentsInv'
    BY DEF Inv, DocumentsInv, OneDocument, Inserting
  <2> QED
    BY <2>1, <2>2, <2>3 DEF Inv
<1> QED
  BY <1>1, <1>2, <1>3, <1>4, RestartStep DEF Next

LEMMA Invariance == Spec => []Inv
<1> QED
  BY InitInv, StepInv, PTL DEF Spec

-----------------------------------------------------------------------------
(* Two manifests under one id *)

\* An upload that looks an id up did not draw it, and one that is about to insert
\* beside a document was crossed by the upload that stored it.
Uploaded(r) ==
    /\ req[r].pc = "lookup" => req[r].id \notin MintedIds
    /\ req[r].pc = "add" =>
         /\ FoundManifest(req[r].id) => r \in crossed
         /\ req[r].id \in MintedIds => req[r].id \in minted

UploadsInv ==
    /\ \A r \in Requests : Uploaded(r)
    /\ \A i \in Ids : Len(manifests[i]) > 1 => i \in doubled
    /\ \A i \in MintedIds \ minted : manifests[i] = <<>>

LEMMA NoDocuments ==
  ASSUME NEW docs \in Seq(Stored), NEW more \in Seq(Stored), Len(docs) <= Len(more)
  PROVE  more = <<>> => docs = <<>>
OBVIOUS

\* A step of no upload, or of one that goes on behind its insert.
LEMMA Elsewhere ==
  ASSUME Inv, Inv', UploadsInv, UNCHANGED minted,
         \A s \in Requests : req'[s].pc \in {"lookup", "add"} =>
             req'[s] = req[s] /\ (s \in crossed => s \in crossed'),
         \A i \in Ids : Len(manifests'[i]) <= Len(manifests[i]),
         \A i \in Ids : i \in doubled /\ Len(manifests'[i]) > 1 => i \in doubled'
  PROVE  UploadsInv'
<1>1. \A i \in Ids : /\ manifests[i] \in Seq(Stored) /\ manifests'[i] \in Seq(Stored)
                     /\ Len(manifests[i]) \in Nat /\ Len(manifests'[i]) \in Nat
                     /\ manifests[i] = <<>> => manifests'[i] = <<>>
  <2>1. \A i \in Ids : manifests[i] \in Seq(Stored) /\ manifests'[i] \in Seq(Stored)
    BY DEF Inv, TypeOK
  <2> QED
    BY <2>1, NoDocuments
<1>2. ASSUME NEW s \in Requests PROVE Uploaded(s)'
  <2>1. CASE req'[s].pc \notin {"lookup", "add"}
    BY <2>1 DEF Uploaded
  <2>2. CASE req'[s].pc \in {"lookup", "add"}
    <3>1. req'[s] = req[s] /\ (s \in crossed => s \in crossed') /\ req[s].id \in Ids
      BY <2>2 DEF Inv, HandlersInv, Holds
    <3> QED
      BY <1>1, <3>1 DEF Uploaded, UploadsInv, FoundManifest
  <2> QED
    BY <2>1, <2>2
<1>3. ASSUME NEW i \in Ids, Len(manifests'[i]) > 1 PROVE i \in doubled'
  <2>1. Len(manifests[i]) > 1
    BY <1>1, <1>3
  <2> QED
    BY <1>3, <2>1 DEF UploadsInv
<1>4. \A i \in MintedIds \ minted' : manifests'[i] = <<>>
  BY <1>1, ConstantsAssumption DEF UploadsInv
<1> QED
  BY <1>2, <1>3, <1>4 DEF UploadsInv

LEMMA PostManifestUploads ==
  ASSUME Inv, UploadsInv, NEW r \in Requests, NEW b \in Blobs \cup {Nil}, NEW w \in BOOLEAN,
         PostManifest(r, b, w)
  PROVE  UploadsInv'
<1>1. /\ UNCHANGED <<manifests, crossed, doubled>> /\ minted \subseteq minted'
      /\ \A s \in Requests : s # r => req'[s] = req[s]
  BY DEF PostManifest, history, Reply, Inv, TypeOK
<1>2. Uploaded(r)'
  <2>1. CASE Reply(r, 400)
    BY <2>1 DEF Reply, Answered, Uploaded, Inv, TypeOK
  <2>2. CASE /\ b # Nil /\ ParsedId[b] \in Ids
             /\ req' = [req EXCEPT ![r] = Handling("lookup", ParsedId[b], b, Nil, w)]
    <3>1. req'[r].pc = "lookup" /\ req'[r].id = ParsedId[b]
      BY <2>2 DEF Handling, Inv, TypeOK
    <3>2. ParsedId[b] \notin MintedIds
      BY <2>2, ConstantsAssumption
    <3> QED
      BY <3>1, <3>2 DEF Uploaded
  <2>3. CASE \E i \in MintedIds \ minted :
               /\ req' = [req EXCEPT ![r] = Handling("add", i, b, Nil, w)]
               /\ minted' = minted \cup {i}
    <3>1. PICK i \in MintedIds \ minted :
               /\ req' = [req EXCEPT ![r] = Handling("add", i, b, Nil, w)]
               /\ minted' = minted \cup {i}
      BY <2>3
    <3>2. req'[r].pc = "add" /\ req'[r].id = i
      BY <3>1 DEF Handling, Inv, TypeOK
    <3>3. ~FoundManifest(i)'
      BY <1>1 DEF FoundManifest, UploadsInv
    <3> QED
      BY <3>1, <3>2, <3>3 DEF Uploaded, FoundManifest
  <2> QED
    BY <2>1, <2>2, <2>3 DEF PostManifest
<1>3. ASSUME NEW s \in Requests, s # r PROVE Uploaded(s)'
  BY <1>1, <1>3 DEF UploadsInv, Uploaded, FoundManifest
<1> QED
  BY <1>1, <1>2, <1>3 DEF UploadsInv

LEMMA LookupUploads ==
  ASSUME Inv, UploadsInv, NEW r \in Requests, Lookup(r)
  PROVE  UploadsInv'
<1>1. /\ UNCHANGED <<manifests, minted, crossed, doubled>>
      /\ \A s \in Requests : s # r => req'[s] = req[s]
  BY DEF Lookup, Kept, Acknowledge, history, Reply, GoTo, Inv, TypeOK
<1>2. Uploaded(r)'
  <2>1. CASE ~FoundManifest(req[r].id) /\ GoTo(r, "add")
    <3>1. req'[r].pc = "add" /\ req'[r].id = req[r].id
      BY <2>1 DEF GoTo, Inv, TypeOK, Request
    <3>2. req[r].id \notin MintedIds
      BY DEF Lookup, UploadsInv, Uploaded
    <3> QED
      BY <1>1, <2>1, <3>1, <3>2 DEF Uploaded, FoundManifest
  <2>2. CASE Kept(r) \/ Reply(r, 400)
    BY <2>2 DEF Kept, Acknowledge, GoTo, Reply, Answered, Uploaded, Inv, TypeOK, Request
  <2> QED
    BY <2>1, <2>2 DEF Lookup
<1>3. ASSUME NEW s \in Requests, s # r PROVE Uploaded(s)'
  BY <1>1, <1>3 DEF UploadsInv, Uploaded, FoundManifest
<1> QED
  BY <1>1, <1>2, <1>3 DEF UploadsInv

\* A second document comes only from an upload that was crossed, and crosses the others.
LEMMA AddUploads ==
  ASSUME Inv, UploadsInv, NEW r \in Requests, Add(r)
  PROVE  UploadsInv'
<1> DEFINE i == req[r].id
           doc == [data |-> req[r].blob, signed |-> FALSE]
<1>1. i \in Ids /\ doc \in Stored /\ req[r].pc = "add" /\ manifests[i] \in Seq(Stored)
  BY DEF Add, Inv, TypeOK, HandlersInv, Holds, Stored
<1>2. PICK docs \in InsertOne(manifests[i], doc) : manifests' = [manifests EXCEPT ![i] = docs]
  BY DEF Add
<1> HIDE DEF doc
<1>3. /\ manifests'[i] = docs /\ Len(docs) = Len(manifests[i]) + 1
      /\ \A j \in Ids : j # i => manifests'[j] = manifests[j]
  BY <1>1, <1>2, ManifestDocs DEF Inv, TypeOK
<1>4. req'[r].pc \in {"done", "sign"} /\ \A s \in Requests : s # r => req'[s] = req[s]
  BY DEF Add, Kept, Acknowledge, Reply, Answered, GoTo, Inv, TypeOK, Request
<1>5. /\ UNCHANGED minted
      /\ \A s \in Requests : s # r /\ (s \in crossed \/ (req[s].pc = "add" /\ req[s].id = i)) =>
                               s \in crossed'
      /\ doubled \subseteq doubled'
      /\ FoundManifest(i) => i \in doubled'
  <2>1. FoundManifest(i) => r \in crossed
    BY <1>1 DEF UploadsInv, Uploaded
  <2> QED
    BY <2>1 DEF Add
<1>6. ASSUME NEW s \in Requests PROVE Uploaded(s)'
  <2>1. CASE s = r
    BY <1>4, <2>1 DEF Uploaded
  <2>2. CASE s # r /\ req[s].pc = "add" /\ req[s].id = i
    BY <1>4, <1>5, <2>2 DEF Uploaded, UploadsInv
  <2>3. CASE s # r /\ ~(req[s].pc = "add" /\ req[s].id = i)
    <3>1. Uploaded(s) /\ req'[s] = req[s] /\ minted' = minted
      BY <1>4, <1>5, <2>3 DEF UploadsInv
    <3>2. CASE req[s].pc = "add"
      <4>1. req[s].id \in Ids /\ req[s].id # i
        BY <2>3, <3>2 DEF Inv, HandlersInv, Holds
      <4>2. manifests'[req[s].id] = manifests[req[s].id]
        BY <1>3, <4>1
      <4>3. s \in crossed => s \in crossed'
        BY <2>3 DEF Add
      <4> QED
        <5>1. req'[s].pc = "add" /\ req'[s].id = req[s].id
          BY <3>1, <3>2
        <5>2. manifests'[req'[s].id] # <<>> => s \in crossed'
          BY <3>1, <3>2, <4>2, <4>3, <5>1 DEF Uploaded, FoundManifest
        <5>3. req'[s].id \in MintedIds => req'[s].id \in minted'
          BY <3>1, <3>2, <5>1 DEF Uploaded
        <5> QED
          BY <5>1, <5>2, <5>3 DEF Uploaded, FoundManifest
    <3>3. CASE req[s].pc # "add"
      BY <3>1, <3>3 DEF Uploaded
    <3> QED
      BY <3>2, <3>3
  <2> QED
    BY <2>1, <2>2, <2>3
<1>7. ASSUME NEW j \in Ids, Len(manifests'[j]) > 1 PROVE j \in doubled'
  <2>1. CASE j = i
    <3>1. FoundManifest(i)
      BY <1>1, <1>3, <1>7, <2>1 DEF FoundManifest
    <3> QED
      BY <1>5, <2>1, <3>1
  <2>2. CASE j # i
    BY <1>3, <1>5, <1>7, <2>2 DEF UploadsInv
  <2> QED
    BY <2>1, <2>2
<1>8. ASSUME NEW j \in MintedIds \ minted' PROVE manifests'[j] = <<>>
  <2>1. j \in Ids /\ j # i
    BY <1>1, <1>5, <1>8, ConstantsAssumption DEF UploadsInv, Uploaded
  <2> QED
    BY <1>3, <1>5, <1>8, <2>1 DEF UploadsInv
<1> QED
  BY <1>6, <1>7, <1>8 DEF UploadsInv

LEMMA StepUploads == Inv /\ UploadsInv /\ [Next]_vars => UploadsInv'
<1> SUFFICES ASSUME Inv, UploadsInv, [Next]_vars PROVE UploadsInv'
  OBVIOUS
<1>1. Inv' /\ req \in [Requests -> Request] /\ \A i \in Ids : manifests[i] \in Seq(Stored)
  BY StepInv DEF Inv, TypeOK
<1>2. ASSUME UNCHANGED <<manifests, minted, crossed, doubled>>,
             \A s \in Requests : req'[s] = req[s] \/ req'[s].pc \notin {"lookup", "add"}
      PROVE  UploadsInv'
  <2>1. \A i \in Ids : Len(manifests'[i]) <= Len(manifests[i])
    BY <1>1, <1>2
  <2> QED
    BY <1>1, <1>2, <2>1, Elsewhere
<1>3. ASSUME NEW r \in Requests, Arrive(r) PROVE UploadsInv'
  <2>1. CASE \E b \in Blobs \cup {Nil}, w \in BOOLEAN : PostManifest(r, b, w)
    BY <2>1, PostManifestUploads
  <2>2. CASE \/ \E i \in Ids : DeleteManifest(r, i)
             \/ \E v \in Values \cup {Nil}, i \in Ids \cup {Nil} :
                  PostBinding(r, v, i) \/ PutBinding(r, v, i)
    BY <1>1, <1>2, <2>2 DEF DeleteManifest, PostBinding, PutBinding, AskBinding, Reply,
       Answered, Handling, history
  <2> QED
    BY <1>3, <2>1, <2>2 DEF Arrive
<1>4. ASSUME NEW r \in Requests, Sign(r) PROVE UploadsInv'
  <2>1. \A i \in Ids : manifests'[i] \in {manifests[i], SetFirst(manifests[i])}
    BY <1>4 DEF Sign, Inv, TypeOK
  <2>2. \A i \in Ids : Len(manifests'[i]) <= Len(manifests[i])
    BY <1>1, <2>1, ManifestDocs
  <2>3. \A s \in Requests : req'[s] = req[s] \/ req'[s].pc \notin {"lookup", "add"}
    BY <1>1, <1>4 DEF Sign, Reply, Acknowledge, GoTo, Answered, Request
  <2>4. UNCHANGED <<minted, crossed, doubled>>
    BY <1>4 DEF Sign, history
  <2> QED
    BY <1>1, <2>2, <2>3, <2>4, Elsewhere
<1>5. ASSUME NEW r \in Requests, DeleteOne(r) PROVE UploadsInv'
  <2>1. \A i \in Ids : \/ manifests'[i] = manifests[i]
                       \/ /\ manifests[i] # <<>> /\ manifests'[i] = Tail(manifests[i])
                          /\ i = req[r].id
    BY <1>5 DEF DeleteOne, FoundManifest, Inv, TypeOK
  <2>2. ASSUME NEW i \in Ids PROVE Len(manifests'[i]) <= Len(manifests[i])
    <3>1. manifests[i] \in Seq(Stored) /\ Len(manifests[i]) \in Nat
      BY <1>1
    <3>2. CASE manifests'[i] = manifests[i]
      BY <3>1, <3>2
    <3>3. CASE manifests[i] # <<>> /\ manifests'[i] = Tail(manifests[i])
      <4>1. Len(manifests'[i]) = Len(manifests[i]) - 1
        BY <3>1, <3>3, ManifestDocs
      <4> QED
        BY <3>1, <4>1
    <3> QED
      BY <2>1, <3>2, <3>3
  <2>3. ASSUME NEW i \in Ids, i \in doubled, Len(manifests'[i]) > 1 PROVE i \in doubled'
    <3>1. CASE i # req[r].id
      BY <1>5, <2>3, <3>1 DEF DeleteOne
    <3>2. CASE i = req[r].id /\ ~FoundManifest(i)
      BY <1>5, <2>3, <3>2 DEF DeleteOne
    <3>3. CASE i = req[r].id /\ FoundManifest(i)
      <4>1. manifests'[i] = Tail(manifests[i]) /\ manifests[i] # <<>>
        BY <1>5, <3>3 DEF DeleteOne, FoundManifest, Inv, TypeOK
      <4>2. Len(manifests[i]) > 2
        BY <1>1, <2>3, <4>1
      <4> QED
        BY <1>5, <2>3, <3>3, <4>2 DEF DeleteOne
    <3> QED
      BY <3>1, <3>2, <3>3
  <2>4. \A s \in Requests : req'[s] = req[s] \/ req'[s].pc \notin {"lookup", "add"}
    BY <1>1, <1>5 DEF DeleteOne, Reply, Scan, Answered, Request
  <2>5. UNCHANGED <<minted, crossed>>
    BY <1>5 DEF DeleteOne
  <2> QED
    BY <1>1, <2>2, <2>3, <2>4, <2>5, Elsewhere
<1>6. ASSUME NEW r \in Requests, Pull(r) \/ DeleteEmpty(r) PROVE UploadsInv'
  BY <1>1, <1>2, <1>6 DEF Pull, DeleteEmpty, ofUploads, Reply, Scan, Scanned, Answered, Request
<1>7. ASSUME NEW r \in Requests, \/ BindCheck(r) \/ BindMatched(r) \/ BindUnmatched(r)
                                 \/ BindInsertDoc(r) \/ PutCheck(r) \/ PutSet(r)
      PROVE  UploadsInv'
  BY <1>1, <1>2, <1>7 DEF BindCheck, BindMatched, BindUnmatched, BindInsertDoc, PutCheck, PutSet,
     ofUploads, history, Acknowledge, Reply, GoTo, Answered, Request
<1>8. ASSUME (\E r \in Requests : Fail(r)) \/ Restart PROVE UploadsInv'
  <2>1. \A s \in Requests : req'[s].pc \in {"lookup", "add"} =>
            req'[s] = req[s] /\ (s \in crossed => s \in crossed')
    <3>1. CASE Restart
      BY <3>1 DEF Restart, Answered
    <3>2. ASSUME NEW r \in Requests, Fail(r)
          PROVE  \A s \in Requests : req'[s].pc \in {"lookup", "add"} =>
                    req'[s] = req[s] /\ (s \in crossed => s \in crossed')
      <4>1. req'[r].pc = "done" /\ \A s \in Requests : s # r => req'[s] = req[s]
        BY <1>1, <3>2 DEF Fail, Reply, Answered
      <4>2. \A s \in Requests : s # r /\ s \in crossed => s \in crossed'
        BY <3>2 DEF Fail
      <4> QED
        BY <4>1, <4>2
    <3> QED
      BY <1>8, <3>1, <3>2
  <2>2. UNCHANGED <<manifests, minted, doubled>>
    BY <1>8 DEF Fail, Restart
  <2>3. \A i \in Ids : Len(manifests'[i]) <= Len(manifests[i])
    BY <1>1, <2>2
  <2> QED
    BY <1>1, <2>1, <2>2, <2>3, Elsewhere
<1>9. CASE UNCHANGED vars
  BY <1>2, <1>9 DEF vars
<1> QED
  BY <1>3, <1>4, <1>5, <1>6, <1>7, <1>8, <1>9, LookupUploads, AddUploads DEF Next, Operation

LEMMA UploadsInvariance == Spec => []UploadsInv
<1>1. Init => UploadsInv
  BY ConstantsAssumption DEF Init, UploadsInv, Uploaded, Answered
<1> QED
  BY <1>1, Invariance, StepUploads, PTL DEF Spec

-----------------------------------------------------------------------------
(* Theorems *)

\* The collections hold documents of their kind, and handlers what they read.
THEOREM TypeCorrect == Spec => []TypeOK
<1>1. Inv => TypeOK
  BY DEF Inv
<1> QED
  BY <1>1, Invariance, PTL

\* A binding without a manifest was written late, cut off, or is still to be pulled:
\* deleteManifest and createBinding leave no other.
THEOREM DanglingExplained == Spec => []DanglingOnlyByOverlap
<1>1. Inv => DanglingOnlyByOverlap
  <2> SUFFICES ASSUME Inv, NEW row \in Dangling
               PROVE  \/ row \in late
                      \/ row \in cut
                      \/ \E r \in Requests :
                           req[r].pc = "pull" /\ req[r].id = row[2] /\ row[1] \in req[r].todo
    BY DEF DanglingOnlyByOverlap
  <2>1. /\ row = <<row[1], row[2]>> /\ row[1] \in Values /\ row[2] \in Ids
        /\ Names(bindings[row[1]], row[2]) /\ ~FoundManifest(row[2])
    BY DEF Dangling
  <2>2. Excused(row[1], row[2])
    BY <2>1 DEF Inv, OverlapInv
  <2> QED
    BY <2>1, <2>2 DEF Excused
<1> QED
  BY <1>1, Invariance, PTL

\* findByBinding misses an acknowledged binding only where upserts raced.
THEOREM HiddenExplained == Spec => []HiddenOnlyByRace
<1>1. Inv => HiddenOnlyByRace
  <2> SUFFICES ASSUME Inv, NEW v \in Values, NEW i \in Ids, Names(bindings[v], i), v \notin raced
               PROVE  i \in Matches(v)
    BY DEF HiddenOnlyByRace
  <2>1. Len(bindings[v]) <= 1 /\ bindings[v] \in Seq(SUBSET Ids)
    BY DEF Inv, TypeOK, DocumentsInv, OneDocument
  <2>2. PICK k \in DOMAIN bindings[v] : i \in bindings[v][k]
    BY NamesByIndex
  <2>3. k = 1 /\ bindings[v] # <<>>
    BY <2>1, <2>2
  <2> QED
    BY <2>1, <2>2, <2>3 DEF Matches, FoundBinding
<1> QED
  BY <1>1, Invariance, PTL

\* The bytes findOne answers with stay, and go with the DELETE that is answered 204, unless
\* uploads of the id raced, wherever their inserts land in the collection.
THEOREM BytesServedStay == Spec => ServedUntilDeletedUnlessRaced
<1> DEFINE Stays(i) == FoundManifest(i) /\ FoundManifest(i)' =>
                         \/ i \in doubled \cup doubled'
                         \/ /\ Head(manifests'[i]).data = Head(manifests[i]).data
                            /\ ~RemovesOne(i)
<1>1. ASSUME Inv, UploadsInv, [Next]_vars, NEW i \in Ids PROVE Stays(i)
  <2>1. /\ manifests \in [Ids -> Seq(Stored)] /\ req \in [Requests -> Request]
        /\ HandlersInv /\ manifests[i] \in Seq(Stored)
    BY <1>1 DEF Inv, TypeOK
  <2>2. ASSUME NEW r \in Requests, Add(r) PROVE Stays(i)
    <3>1. manifests'[i] = manifests[i] \/ i = req[r].id
      BY <2>1, <2>2 DEF Add
    <3>2. i = req[r].id /\ FoundManifest(i) => i \in doubled'
      BY <1>1, <2>2 DEF Add, UploadsInv, Uploaded
    <3>3. ~RemovesOne(i)
      <4> SUFFICES ASSUME NEW s \in Requests, req[s].pc = "delete", req'[s].pc = "pull"
                   PROVE  FALSE
        BY DEF RemovesOne
      <4>1. s # r /\ req'[s] = req[s]
        BY <2>1, <2>2 DEF Add, Kept, GoTo, Acknowledge, Reply
      <4> QED
        BY <4>1
    <3> QED
      BY <3>1, <3>2, <3>3
  <2>3. ASSUME NEW r \in Requests, Sign(r) PROVE Stays(i)
    <3>1. manifests'[i] \in {manifests[i], SetFirst(manifests[i])}
      BY <2>1, <2>3 DEF Sign, HandlersInv, Holds
    <3>2. ~RemovesOne(i)
      <4> SUFFICES ASSUME NEW s \in Requests, req[s].pc = "delete", req'[s].pc = "pull"
                   PROVE  FALSE
        BY DEF RemovesOne
      <4>1. s # r /\ req'[s] = req[s]
        BY <2>1, <2>3 DEF Sign, GoTo, Acknowledge, Reply
      <4> QED
        BY <4>1
    <3> QED
      BY <2>1, <3>1, <3>2, ManifestDocs DEF FoundManifest
  <2>4. ASSUME NEW r \in Requests, DeleteOne(r) PROVE Stays(i)
    <3>1. CASE i = req[r].id
      <4>1. ASSUME FoundManifest(i), FoundManifest(i)', manifests'[i] = Tail(manifests[i])
            PROVE  i \in doubled
        <5>1. Len(manifests[i]) > 1
          BY <2>1, <4>1 DEF FoundManifest
        <5> QED
          BY <1>1, <5>1 DEF UploadsInv
      <4>2. CASE ~FoundManifest(i)
        BY <4>2
      <4>3. CASE FoundManifest(i)
        BY <2>1, <2>4, <3>1, <4>1, <4>3 DEF DeleteOne
      <4> QED
        BY <4>2, <4>3
    <3>2. CASE i # req[r].id
      <4>1. manifests'[i] = manifests[i]
        BY <2>1, <2>4, <3>2 DEF DeleteOne
      <4>2. ~RemovesOne(i)
        <5> SUFFICES ASSUME NEW s \in Requests, req[s].pc = "delete", req[s].id = i,
                            req'[s].pc = "pull"
                     PROVE  FALSE
          BY DEF RemovesOne
        <5>1. s # r /\ req'[s] = req[s]
          BY <2>1, <2>4, <3>2 DEF DeleteOne, Reply, Scan
        <5> QED
          BY <5>1
      <4> QED
        BY <4>1, <4>2
    <3> QED
      BY <3>1, <3>2
  <2>5. ASSUME NEW r \in Requests, Arrive(r) \/ Fail(r) PROVE Stays(i)
    <3>1. UNCHANGED manifests
      BY <2>5 DEF Arrive, Fail, PostManifest, DeleteManifest, PostBinding, PutBinding, AskBinding
    <3>2. \A s \in Requests : req'[s] = req[s] \/ req'[s].pc # "pull"
      BY <2>1, <2>5 DEF Arrive, Fail, PostManifest, DeleteManifest, PostBinding, PutBinding,
         AskBinding, Reply, Answered, Handling
    <3> QED
      BY <3>1, <3>2 DEF RemovesOne
  <2>6. ASSUME NEW r \in Requests, Operation(r), ~Add(r), ~Sign(r), ~DeleteOne(r) PROVE Stays(i)
    <3>1. UNCHANGED manifests
      BY <2>6 DEF Operation, Lookup, Pull, DeleteEmpty, BindCheck, BindMatched, BindUnmatched,
         BindInsertDoc, PutCheck, PutSet
    <3>2. req[r].pc # "delete" /\ \A s \in Requests : s # r => req'[s] = req[s]
      BY <2>1, <2>6 DEF Operation, Lookup, Pull, DeleteEmpty, BindCheck, BindMatched,
         BindUnmatched, BindInsertDoc, PutCheck, PutSet, Kept, Acknowledge, Reply, GoTo,
         Scan, Scanned
    <3> QED
      BY <3>1, <3>2 DEF RemovesOne
  <2>7. ASSUME Restart \/ UNCHANGED vars PROVE Stays(i)
    <3>1. UNCHANGED manifests /\ \A s \in Requests : req'[s] = req[s] \/ req'[s].pc # "pull"
      BY <2>7 DEF Restart, vars, Answered
    <3> QED
      BY <3>1 DEF RemovesOne
  <2> HIDE DEF Stays
  <2> QED
    BY <1>1, <2>2, <2>3, <2>4, <2>5, <2>6, <2>7 DEF Next
<1>2. Inv /\ UploadsInv /\ [Next]_vars => [\A i \in Ids : Stays(i)]_vars
  BY <1>1
<1> QED
  BY <1>2, Invariance, UploadsInvariance, PTL DEF Spec, ServedUntilDeletedUnlessRaced

\* No upsert, insert, clean-up or failure takes a binding away: only the PUT of its value
\* and the cascade of its manifest do.
THEOREM BindingsStay == Spec => BindingsLeaveOnlyOnRequest
<1> DEFINE Stays(v, i) == Names(bindings[v], i) /\ ~Names(bindings'[v], i) =>
                            \E r \in Requests : \/ req[r].pc = "putSet" /\ req[r].value = v
                                                \/ req[r].pc = "pull" /\ req[r].id = i
<1>1. ASSUME Inv, [Next]_vars, NEW v \in Values, NEW i \in Ids PROVE Stays(v, i)
  <2>1. bindings \in [Values -> Docs] /\ bindings[v] \in Docs /\ HandlersInv
    BY <1>1 DEF Inv, TypeOK, Docs
  <2>2. CASE bindings'[v] = bindings[v]
    BY <2>2
  <2>3. ASSUME NEW r \in Requests, BindMatched(r) PROVE Stays(v, i)
    <3>1. CASE v = req[r].value
      <4> DEFINE docs == bindings[v]
                 doc == docs[1] \cup {req[r].id}
      <4>1. req[r].id \in Ids /\ docs # <<>>
        BY <2>1, <2>3, <3>1 DEF BindMatched, FoundBinding, HandlersInv, Holds
      <4>2. doc \in SUBSET Ids /\ docs[1] \subseteq doc
        BY <2>1, <4>1 DEF Docs
      <4>3. bindings'[v] = [docs EXCEPT ![1] = doc]
        BY <2>1, <2>3, <3>1 DEF BindMatched, AddToSet
      <4> HIDE DEF doc
      <4> QED
        <5>1. \A j \in Ids : Names(docs, j) /\ docs[1] \subseteq doc =>
                               Names([docs EXCEPT ![1] = doc], j)
          BY <2>1, <4>1, <4>2, FirstChanged
        <5> QED
          BY <4>2, <4>3, <5>1
    <3>2. CASE v # req[r].value
      BY <2>1, <2>2, <2>3, <3>2 DEF BindMatched
    <3> QED
      BY <3>1, <3>2
  <2>4. ASSUME NEW r \in Requests, BindInsertDoc(r) PROVE Stays(v, i)
    <3>1. CASE v = req[r].value
      <4>1. bindings'[v] \in InsertOne(bindings[v], {req[r].id}) /\ req[r].id \in Ids
        BY <2>1, <2>4, <3>1 DEF BindInsertDoc, HandlersInv, Holds
      <4> QED
        BY <2>1, <4>1, Inserted
    <3>2. CASE v # req[r].value
      BY <2>1, <2>2, <2>4, <3>2 DEF BindInsertDoc
    <3> QED
      BY <3>1, <3>2
  <2>5. ASSUME NEW r \in Requests, PutSet(r) PROVE Stays(v, i)
    <3>1. CASE v = req[r].value
      BY <2>5, <3>1 DEF PutSet
    <3>2. CASE v # req[r].value
      <4>1. bindings'[v] = bindings[v]
        BY <2>1, <2>5, <3>2 DEF PutSet
      <4> QED
        BY <2>2, <4>1
    <3> QED
      BY <3>1, <3>2
  <2>6. ASSUME NEW r \in Requests, Pull(r) PROVE Stays(v, i)
    <3>1. CASE i = req[r].id
      BY <2>6, <3>1 DEF Pull
    <3>2. CASE i # req[r].id
      <4>1. req[r].id \in Ids
        BY <2>1, <2>6 DEF Pull, HandlersInv, Holds
      <4>2. bindings'[v] \in {bindings[v], Pulled(bindings[v], req[r].id)}
        BY <2>1, <2>6 DEF Pull
      <4> QED
        BY <2>1, <3>2, <4>1, <4>2, PulledFacts
    <3> QED
      BY <3>1, <3>2
  <2>7. ASSUME NEW r \in Requests, DeleteEmpty(r) PROVE Stays(v, i)
    <3>1. \/ bindings'[v] = bindings[v]
          \/ \E k \in DOMAIN bindings[v] :
               bindings[v][k] = {} /\ bindings'[v] = RemoveAt(bindings[v], k)
      BY <2>1, <2>7 DEF DeleteEmpty
    <3> QED
      BY <2>1, <3>1, Removed
  <2>8. ASSUME NEW r \in Requests, Arrive(r) \/ Fail(r) PROVE UNCHANGED bindings
    BY <2>8 DEF Arrive, Fail, PostManifest, DeleteManifest, PostBinding, PutBinding, AskBinding
  <2>9. ASSUME NEW r \in Requests, Operation(r),
               ~BindMatched(r), ~BindInsertDoc(r), ~PutSet(r), ~Pull(r), ~DeleteEmpty(r)
        PROVE  UNCHANGED bindings
    BY <2>9 DEF Operation, Lookup, Add, Sign, DeleteOne, BindCheck, BindUnmatched, PutCheck
  <2>10. Restart \/ UNCHANGED vars => UNCHANGED bindings
    BY DEF Restart, vars
  <2> HIDE DEF Stays
  <2> QED
    BY <1>1, <2>2, <2>3, <2>4, <2>5, <2>6, <2>7, <2>8, <2>9, <2>10 DEF Next
<1>2. Inv /\ [Next]_vars => [\A v \in Values, i \in Ids : Stays(v, i)]_vars
  BY <1>1
<1> QED
  BY <1>2, Invariance, PTL DEF Spec, BindingsLeaveOnlyOnRequest
=============================================================================
