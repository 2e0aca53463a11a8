--------------------------- MODULE RetrievalProofs ---------------------------
(***************************************************************************)
(* Proofs about Retrieval, for any number of writers, readers, processes,  *)
(* ids and blobs, and for every set of options of createServer.            *)
(***************************************************************************)
EXTENDS Retrieval, FiniteSetTheorems, TLAPS

\* A write request holds the arguments of the operation asked for.
CallArguments ==
    \A r \in Requests :
        /\ call[r].op # "free" => call[r].id \in Ids
        /\ call[r].op = "ingest" => call[r].blob \in Blobs

\* What TypeOK leaves out: the receipts column, and the readers' histories.
Entries == [manifest : Stored \cup {Nil}, receipt : Receipts \cup {Nil}]

ColumnsOK ==
    /\ receipts \in [Ids -> Receipts \cup {Nil}]
    /\ seen \in [Readers -> SUBSET Entries]

TypeInv == TypeOK /\ CallArguments /\ ColumnsOK

\* What every receipt that was issued looks like, and which ones are stored.
Genuine(x) == x.uri = "ours" /\ x.proof.uri = "ours" /\ x.proof.id = x.id

ReceiptsInv ==
    /\ \A x \in issued : Genuine(x) /\ (config.secret => x.proof.secret = 0)
    /\ \A i \in Ids : receipts[i] # Nil => receipts[i] \in issued
    /\ config.secret => \A p \in Processes : secret[p] = 0

\* Where a reader's handler can be, and what it holds there.
PlacesInv(r) ==
    /\ r.id \in Ids /\ r.op \in {"get", "receipts", "verify"}
    /\ r.pc \in {"manifest", "predicate"} => r.op = "get"
    /\ r.pc \in {"exists", "receipt"} => r.op # "get"
    /\ r.pc = "receipt" => r.op = "receipts"
    /\ r.pc # "auth" /\ r.op = "verify" => r.sent # Nil
    /\ r.pc = "predicate" => config.gated
    /\ r.sent \in Held \cup {Nil}

\* It has passed the middleware, and the context it carries is a real one.
AdmittedInv(r) ==
    /\ r.pc # "auth" /\ ~(config.gated /\ r.op = "get") /\ Published => r.token = "scoped"
    /\ r.context => config.auth = "jwt" /\ r.token = "scoped"

\* It has seen what is stored now, and the bytes it is holding.
SeenInv(q) ==
    /\ Entry(read[q].id) \in seen[q]
    /\ read[q].pc = "predicate" =>
         \E e \in seen[q] : e.manifest # Nil /\ e.manifest.data = read[q].data

ReaderInv(q) ==
    read[q].pc # "done" => PlacesInv(read[q]) /\ AdmittedInv(read[q]) /\ SeenInv(q)

Inv == TypeInv /\ ReceiptsInv /\ (\A q \in Readers : ReaderInv(q))

-----------------------------------------------------------------------------
(* The initial states. *)

LEMMA ProcessCount == Cardinality(Processes) \in Nat /\ Cardinality(Processes) <= MaxStarts
  BY RetrievalAssumption, FS_CardinalityType

LEMMA UnreadType == Unread \in Reader /\ Unread.pc = "done" /\ ~Unread.context
  BY DEF Unread, Reader, Tokens

LEMMA InitInv == InitRetrieval => Inv
<1> SUFFICES ASSUME InitRetrieval PROVE Inv
  OBVIOUS
<1>1. secret \in [Processes -> Secrets] /\ (config.secret => \A p \in Processes : secret[p] = 0)
  <2>1. PICK draw \in [Processes -> 1..Cardinality(Processes)] :
          secret = [p \in Processes |-> Secret(draw[p])]
    BY DEF InitRetrieval
  <2>2. ASSUME NEW p \in Processes PROVE Secret(draw[p]) \in Secrets
    BY <2>1, ProcessCount, RetrievalAssumption DEF Secret, Secrets
  <2> QED  BY <2>1, <2>2 DEF Secret
<1>2. manifests \in [Ids -> Stored \cup {Nil}] /\ call \in [Requests -> Call] /\ CallArguments
  BY DEF InitRetrieval, Init, Answered, Call, Operations, CallArguments
<1>3. read \in [Readers -> Reader]
  BY UnreadType DEF InitRetrieval
<1>4. TypeOK
  BY <1>1, <1>2, <1>3, ProcessCount DEF InitRetrieval, Init, TypeOK
<1>5. ReceiptsInv /\ ColumnsOK
  BY <1>1 DEF InitRetrieval, ReceiptsInv, ColumnsOK
<1>6. \A q \in Readers : ReaderInv(q)
  BY DEF InitRetrieval, Unread, ReaderInv
<1> QED  BY <1>2, <1>4, <1>5, <1>6 DEF Inv, TypeInv

-----------------------------------------------------------------------------
(* The store routes. *)

\* What is stored, for which receipts, as one part of the type invariant.
TablesOK ==
    /\ manifests \in [Ids -> Stored \cup {Nil}]
    /\ receipts \in [Ids -> Receipts \cup {Nil}]
    /\ \A i \in Ids :
         IF manifests[i] # Nil /\ manifests[i].signed
           THEN receipts[i] \in Receipts /\ receipts[i].id = i
           ELSE receipts[i] = Nil

CallsOK == call \in [Requests -> Call] /\ CallArguments

LEMMA ReplyCalls ==
  ASSUME CallsOK, NEW r \in Requests, NEW s \in {0, 200, 204, 400, 404, 500}, Reply(r, s)
  PROVE  CallsOK'
  BY DEF CallsOK, CallArguments, Reply, Answered, Call, Operations

LEMMA RequestedType ==
  ASSUME NEW c \in Requested
  PROVE  c \in Call /\ c.id \in Ids /\ (c.op = "ingest" => c.blob \in Blobs)
<1>1. ASSUME NEW i \in Ids, NEW b \in Blobs, NEW w \in BOOLEAN, c = Asked("ingest", i, b, Nil, w)
      PROVE  c \in Call /\ c.id \in Ids /\ (c.op = "ingest" => c.blob \in Blobs)
  BY <1>1 DEF Asked, Call, Operations
<1>2. ASSUME NEW op \in {"remove", "bind", "rebind"}, NEW i \in Ids, NEW v \in Values \cup {Nil},
             c = Asked(op, i, Nil, v, FALSE)
      PROVE  c \in Call /\ c.id \in Ids /\ (c.op = "ingest" => c.blob \in Blobs)
  BY <1>2 DEF Asked, Call, Operations
<1> DEFINE ops == {"bind", "rebind"}
           no == FALSE
           ingests == {Asked("ingest", i, b, Nil, w) : i \in Ids, b \in Blobs, w \in BOOLEAN}
           removes == {Asked("remove", i, Nil, Nil, FALSE) : i \in Ids}
           binds == {Asked(op, i, Nil, v, no) : op \in ops, i \in Ids, v \in Values}
<1>3. Requested = ingests \cup removes \cup binds
  BY DEF Requested
<1> HIDE DEF ops, no
<1>4. c \in ingests => \E i \in Ids, b \in Blobs, w \in BOOLEAN : c = Asked("ingest", i, b, Nil, w)
  OBVIOUS
<1>5. c \in removes => \E i \in Ids : c = Asked("remove", i, Nil, Nil, FALSE)
  OBVIOUS
<1>6. c \in binds => \E op \in ops, i \in Ids, v \in Values : c = Asked(op, i, Nil, v, no)
  OBVIOUS
<1> HIDE DEF ingests, removes, binds
<1> QED  BY <1>1, <1>2, <1>3, <1>4, <1>5, <1>6 DEF ops, no

LEMMA WriterCalls ==
  ASSUME CallsOK, NEW r \in Requests, Ask(r) \/ Ingest(r) \/ Sign(r) \/ Remove(r) \/ Fail(r)
  PROVE  CallsOK'
<1>1. CASE call' \in {[call EXCEPT ![r] = c] : c \in Requested}
  BY <1>1, RequestedType DEF CallsOK, CallArguments
<1>2. CASE call' = [call EXCEPT ![r].op = "sign"] /\ call[r].op # "free"
  BY <1>2 DEF CallsOK, CallArguments, Call, Operations
<1>3. CASE \E s \in {200, 204, 400, 404, 500} : Reply(r, s)
  BY <1>3, ReplyCalls
<1> QED  BY <1>1, <1>2, <1>3 DEF Ask, Ingest, Sign, Remove, Fail, Acknowledge

\* A manifest that comes has no receipt yet.
LEMMA UploadTables ==
  ASSUME TablesOK, CallsOK, NEW r \in Requests, Ingest(r), UNCHANGED receipts
  PROVE  TablesOK'
<1>1. CASE UNCHANGED manifests
  BY <1>1 DEF TablesOK
<1>2. CASE /\ manifests[call[r].id] = Nil
           /\ manifests' = [manifests EXCEPT ![call[r].id] =
                                [data |-> call[r].blob, signed |-> FALSE]]
  <2>1. call[r].id \in Ids /\ call[r].blob \in Blobs
    BY DEF Ingest, CallsOK, CallArguments
  <2>2. [data |-> call[r].blob, signed |-> FALSE] \in Stored
    BY <2>1 DEF Stored
  <2>3. manifests' \in [Ids -> Stored \cup {Nil}]
    BY <1>2, <2>1, <2>2 DEF TablesOK
  <2>4. ASSUME NEW i \in Ids
        PROVE  IF manifests'[i] # Nil /\ manifests'[i].signed
                 THEN receipts[i] \in Receipts /\ receipts[i].id = i
                 ELSE receipts[i] = Nil
    BY <1>2, <2>1 DEF TablesOK
  <2> QED  BY <2>3, <2>4 DEF TablesOK
<1> QED  BY <1>1, <1>2 DEF Ingest

\* The receipt that is signed is for the manifest it is stored with.
LEMMA SignTables ==
  ASSUME TypeOK, TablesOK, CallArguments, NEW r \in Requests, SignReceipt(r)
  PROVE  /\ TablesOK' /\ host[r] \in Processes
         /\ BuildReceipt(host[r], call[r].id) \in Receipts
         /\ issued' = issued \cup {BuildReceipt(host[r], call[r].id)}
         /\ \A i \in Ids : receipts'[i] # Nil => receipts'[i] \in {receipts[i]} \cup issued'
<1> DEFINE i == call[r].id
           new == BuildReceipt(host[r], i)
<1>1. i \in Ids /\ host[r] \in Processes /\ secret[host[r]] \in Secrets
  BY DEF SignReceipt, Sign, CallArguments, TypeOK, Slots
<1>2. new \in Receipts /\ new.id = i
  BY <1>1 DEF BuildReceipt, Receipts, Proofs
<1>3. issued' = issued \cup {new}
  BY DEF SignReceipt
<1>4. /\ manifests' = IF manifests[i] = Nil THEN manifests ELSE [manifests EXCEPT ![i].signed = TRUE]
      /\ receipts' = IF manifests[i] = Nil THEN receipts ELSE [receipts EXCEPT ![i] = new]
  BY DEF SignReceipt, Sign
<1> HIDE DEF new, i
<1>5. CASE manifests[i] = Nil
  BY <1>1, <1>2, <1>3, <1>4, <1>5 DEF TablesOK, new, i
<1>6. CASE manifests[i] # Nil
  <2>1. manifests[i] \in Stored
    BY <1>1, <1>6 DEF TablesOK
  <2>2. [manifests[i] EXCEPT !.signed = TRUE] \in Stored
        /\ [manifests[i] EXCEPT !.signed = TRUE].signed
    BY <2>1 DEF Stored
  <2>3. manifests' = [manifests EXCEPT ![i] = [manifests[i] EXCEPT !.signed = TRUE]]
    BY <1>1, <1>4, <1>6 DEF TablesOK
  <2>4. TablesOK'
    <3>1. manifests' \in [Ids -> Stored \cup {Nil}] /\ receipts' \in [Ids -> Receipts \cup {Nil}]
      BY <1>1, <1>2, <1>4, <1>6, <2>2, <2>3 DEF TablesOK
    <3>2. ASSUME NEW j \in Ids
          PROVE  IF manifests'[j] # Nil /\ manifests'[j].signed
                   THEN receipts'[j] \in Receipts /\ receipts'[j].id = j
                   ELSE receipts'[j] = Nil
      <4>1. CASE j = i
        BY <1>1, <1>2, <1>4, <1>6, <2>2, <2>3, <4>1, NilAssumption DEF TablesOK
      <4>2. CASE j # i
        BY <1>4, <1>6, <2>3, <4>2 DEF TablesOK
      <4> QED  BY <4>1, <4>2
    <3> QED  BY <3>1, <3>2 DEF TablesOK
  <2> QED  BY <1>1, <1>2, <1>3, <1>4, <1>6, <2>4 DEF TablesOK, new, i
<1> QED  BY <1>5, <1>6

\* A manifest goes with its receipt.
LEMMA WithdrawTables ==
  ASSUME TablesOK, CallArguments, NEW r \in Requests, Withdraw(r)
  PROVE  TablesOK' /\ \A i \in Ids : receipts'[i] # Nil => receipts'[i] = receipts[i]
<1>1. call[r].id \in Ids
  BY DEF Withdraw, Remove, CallArguments
<1>2. CASE manifests[call[r].id] = Nil
  BY <1>1, <1>2 DEF Withdraw, Remove, TablesOK
<1>3. CASE manifests[call[r].id] # Nil
  BY <1>1, <1>3 DEF Withdraw, Remove, Dropped, TablesOK
<1> QED  BY <1>2, <1>3

\* What the readers' part of the invariant needs of a step of somebody else.
LEMMA ReadersKeep ==
  ASSUME Inv, UNCHANGED <<config, read>>, issued \subseteq issued',
         \A q \in Readers : read[q].pc # "done" =>
             seen[q] \subseteq seen'[q] /\ Entry(read[q].id)' \in seen'[q]
  PROVE  (\A q \in Readers : ReaderInv(q))'
<1>1. Held \subseteq Held'
  BY DEF Held
<1>2. ASSUME NEW q \in Readers, read[q].pc # "done"
      PROVE  PlacesInv(read[q])' /\ AdmittedInv(read[q])' /\ SeenInv(q)'
  <2>1. PlacesInv(read[q]) /\ AdmittedInv(read[q]) /\ SeenInv(q)
    BY <1>2 DEF Inv, ReaderInv
  <2>2. PlacesInv(read[q])'
    BY <1>1, <2>1 DEF PlacesInv
  <2>3. AdmittedInv(read[q])'
    BY <2>1 DEF AdmittedInv, Published
  <2>4. SeenInv(q)'
    BY <1>2, <2>1 DEF SeenInv
  <2> QED  BY <2>2, <2>3, <2>4
<1> QED  BY <1>2 DEF ReaderInv

LEMMA EntryType ==
  ASSUME TablesOK, NEW i \in Ids
  PROVE  Entry(i) \in Entries
  BY DEF Entry, Entries, TablesOK

LEMMA ObserveSees ==
  ASSUME Inv, TablesOK', UNCHANGED read, Observe
  PROVE  /\ \A q \in Readers : read[q].pc # "done" =>
              seen[q] \subseteq seen'[q] /\ Entry(read[q].id)' \in seen'[q]
         /\ seen' \in [Readers -> SUBSET Entries]
<1>1. ASSUME NEW q \in Readers
      PROVE  /\ read[q].pc # "done" =>
                   seen[q] \subseteq seen'[q] /\ Entry(read[q].id)' \in seen'[q]
             /\ seen'[q] \subseteq Entries
  <2>1. CASE read[q].pc = "done"
    BY <2>1 DEF Observe
  <2>2. CASE read[q].pc # "done"
    <3>1. read[q].id \in Ids
      BY <2>2 DEF Inv, ReaderInv, PlacesInv
    <3>2. [manifest |-> manifests'[read[q].id], receipt |-> receipts'[read[q].id]] \in Entries
      BY <3>1 DEF TablesOK, Entries
    <3>3. seen'[q] = seen[q] \cup
                     {[manifest |-> manifests'[read[q].id], receipt |-> receipts'[read[q].id]]}
      BY <2>2 DEF Observe
    <3>4. seen[q] \subseteq Entries
      BY DEF Inv, TypeInv, ColumnsOK
    <3> QED  BY <3>2, <3>3, <3>4 DEF Entry
  <2> QED  BY <2>1, <2>2
<1> QED  BY <1>1 DEF Observe

\* The steps of the store routes.
LEMMA WriterStep ==
  ASSUME Inv, NEW r \in Requests,
         Arrive(r) \/ Upload(r) \/ SignReceipt(r) \/ Withdraw(r) \/ FailWrite(r)
  PROVE  Inv'
<1>0. TypeOK /\ TablesOK /\ CallsOK /\ ColumnsOK /\ ReceiptsInv
  BY DEF Inv, TypeInv, TypeOK, TablesOK, CallsOK, ColumnsOK
<1>1. CallsOK'
  BY <1>0, WriterCalls DEF Arrive, Upload, SignReceipt, Withdraw, FailWrite
<1>2. UNCHANGED <<config, secret, starts, read>> /\ issued \subseteq issued'
  BY DEF Arrive, Upload, SignReceipt, Withdraw, FailWrite, others
<1>3. host' \in [Slots -> Processes]
  BY <1>0 DEF Arrive, Upload, SignReceipt, Withdraw, FailWrite, others, TypeOK
<1>4. ASSUME TablesOK', issued' \subseteq Receipts,
             \A x \in issued' \ issued : Genuine(x) /\ (config.secret => x.proof.secret = 0),
             \A i \in Ids : receipts'[i] # Nil => receipts'[i] \in {receipts[i]} \cup issued',
             \/ Observe
             \/ UNCHANGED <<manifests, receipts, seen>>
      PROVE  Inv'
  <2>1. /\ \A q \in Readers : read[q].pc # "done" =>
              seen[q] \subseteq seen'[q] /\ Entry(read[q].id)' \in seen'[q]
        /\ seen' \in [Readers -> SUBSET Entries]
    <3>1. CASE Observe
      BY <1>2, <1>4, <3>1, ObserveSees
    <3>2. CASE UNCHANGED <<manifests, receipts, seen>>
      BY <1>0, <1>2, <3>2 DEF Inv, ReaderInv, SeenInv, Entry, ColumnsOK
    <3> QED  BY <1>4, <3>1, <3>2
  <2>2. (\A q \in Readers : ReaderInv(q))'
    BY <1>2, <2>1, ReadersKeep
  <2>3. ReceiptsInv'
    <3>1. \A x \in issued' : Genuine(x) /\ (config'.secret => x.proof.secret = 0)
      BY <1>0, <1>2, <1>4 DEF ReceiptsInv
    <3>2. \A i \in Ids : receipts'[i] # Nil => receipts'[i] \in issued'
      BY <1>0, <1>2, <1>4 DEF ReceiptsInv
    <3> QED  BY <1>0, <1>2, <3>1, <3>2 DEF ReceiptsInv
  <2>4. TypeInv'
    BY <1>0, <1>1, <1>2, <1>3, <1>4, <2>1 DEF TypeInv, TypeOK, TablesOK, CallsOK, ColumnsOK
  <2> QED  BY <2>2, <2>3, <2>4 DEF Inv
<1>5. CASE Arrive(r) \/ FailWrite(r)
  <2>1. UNCHANGED <<manifests, receipts, issued, seen>>
    BY <1>5 DEF Arrive, FailWrite, Ask, Fail, others
  <2> QED  BY <1>0, <1>4, <2>1 DEF TablesOK, TypeOK
<1>6. CASE Upload(r)
  <2>1. UNCHANGED <<receipts, issued>> /\ Observe /\ TablesOK'
    BY <1>0, <1>6, UploadTables DEF Upload, others
  <2> QED  BY <1>0, <1>4, <2>1 DEF TypeOK
<1>7. CASE SignReceipt(r)
  <2> DEFINE new == BuildReceipt(host[r], call[r].id)
  <2>1. /\ TablesOK' /\ new \in Receipts /\ issued' = issued \cup {new} /\ host[r] \in Processes
        /\ \A i \in Ids : receipts'[i] # Nil => receipts'[i] \in {receipts[i]} \cup issued'
    BY <1>0, <1>7, SignTables DEF CallsOK
  <2>2. Genuine(new) /\ (config.secret => new.proof.secret = 0)
    BY <1>0, <2>1 DEF Genuine, BuildReceipt, ReceiptsInv
  <2>3. Observe
    BY <1>7 DEF SignReceipt
  <2> HIDE DEF new
  <2> QED  BY <1>0, <1>4, <2>1, <2>2, <2>3 DEF TypeOK
<1>8. CASE Withdraw(r)
  <2>1. TablesOK' /\ \A i \in Ids : receipts'[i] # Nil => receipts'[i] = receipts[i]
    BY <1>0, <1>8, WithdrawTables DEF CallsOK
  <2>2. UNCHANGED issued /\ Observe
    BY <1>8 DEF Withdraw, others
  <2> QED  BY <1>0, <1>4, <2>1, <2>2 DEF TypeOK
<1> QED  BY <1>5, <1>6, <1>7, <1>8

\* A process that stops takes the requests it was serving with it; a secret that
\* is drawn again is no stored receipt's business.
LEMMA StopStep ==
  ASSUME Inv, NEW p \in Processes, StopProcess(p)
  PROVE  Inv'
<1>0. TypeOK /\ CallArguments /\ ColumnsOK /\ ReceiptsInv
  BY DEF Inv, TypeInv
<1>1. UNCHANGED <<manifests, bindings, config, host, receipts, issued>>
  BY DEF StopProcess
<1>2. Secret(starts + 1) \in Secrets /\ starts' \in Nat /\ (config.secret => Secret(starts + 1) = 0)
  BY <1>0, RetrievalAssumption DEF StopProcess, Secret, Secrets, TypeOK
<1>3. /\ secret' \in [Processes -> Secrets]
      /\ config.secret => \A o \in Processes : secret'[o] = 0
  BY <1>0, <1>2 DEF StopProcess, TypeOK, ReceiptsInv
<1>4. call' \in [Requests -> Call] /\ CallArguments'
  BY <1>0 DEF StopProcess, TypeOK, CallArguments, Answered, Call, Operations
<1>5. read' \in [Readers -> Reader] /\ seen' \in [Readers -> SUBSET Entries]
  BY <1>0, UnreadType DEF StopProcess, TypeOK, ColumnsOK
<1>6. TypeInv'
  BY <1>0, <1>1, <1>2, <1>3, <1>4, <1>5 DEF TypeInv, TypeOK, ColumnsOK
<1>7. ReceiptsInv'
  BY <1>0, <1>1, <1>3 DEF ReceiptsInv
<1>8. ASSUME NEW q \in Readers, read'[q].pc # "done"
      PROVE  PlacesInv(read[q])' /\ AdmittedInv(read[q])' /\ SeenInv(q)'
  <2>1. read'[q] = read[q] /\ seen'[q] = seen[q]
    BY <1>8 DEF StopProcess, Unread
  <2>2. PlacesInv(read[q]) /\ AdmittedInv(read[q]) /\ SeenInv(q)
    BY <1>8, <2>1 DEF Inv, ReaderInv
  <2> QED
    BY <1>1, <2>1, <2>2 DEF PlacesInv, AdmittedInv, SeenInv, Held, Published, Entry
<1> QED  BY <1>6, <1>7, <1>8 DEF Inv, ReaderInv

-----------------------------------------------------------------------------
(* The fetch routes. *)

\* A reader's step that goes from one place to the next.
LEMMA GoStep ==
  ASSUME Inv, NEW q \in Readers, NEW new \in Reader, Go(q, new),
         new.id = read[q].id, read[q].pc # "done",
         PlacesInv(new), AdmittedInv(new),
         new.pc = "predicate" => \E e \in seen[q] : e.manifest # Nil /\ e.manifest.data = new.data
  PROVE  Inv'
<1>0. TypeOK /\ CallArguments /\ ColumnsOK /\ ReceiptsInv
  BY DEF Inv, TypeInv
<1>1. /\ UNCHANGED <<manifests, bindings, call, config, secret, starts, host, issued, receipts, seen>>
      /\ read' = [read EXCEPT ![q] = new]
  BY DEF Go, store, others
<1>2. TypeInv'
  BY <1>0, <1>1 DEF TypeInv, TypeOK, CallArguments, ColumnsOK
<1>3. ReceiptsInv'
  BY <1>0, <1>1 DEF ReceiptsInv
<1>4. ASSUME NEW s \in Readers, read'[s].pc # "done"
      PROVE  PlacesInv(read[s])' /\ AdmittedInv(read[s])' /\ SeenInv(s)'
  <2>1. CASE s = q
    <3>1. read'[q] = new
      BY <1>0, <1>1 DEF TypeOK
    <3>2. SeenInv(q)
      BY DEF Inv, ReaderInv
    <3>3. SeenInv(q)'
      BY <1>1, <3>1, <3>2 DEF SeenInv, Entry
    <3>4. PlacesInv(read[q])' /\ AdmittedInv(read[q])'
      BY <1>1, <3>1 DEF PlacesInv, AdmittedInv, Held, Published
    <3> QED  BY <2>1, <3>3, <3>4
  <2>2. CASE s # q
    <3>1. read'[s] = read[s]
      BY <1>0, <1>1, <2>2 DEF TypeOK
    <3>2. PlacesInv(read[s]) /\ AdmittedInv(read[s]) /\ SeenInv(s)
      BY <1>4, <3>1 DEF Inv, ReaderInv
    <3> QED
      BY <1>1, <3>1, <3>2 DEF PlacesInv, AdmittedInv, SeenInv, Held, Published, Entry
  <2> QED  BY <2>1, <2>2
<1> QED  BY <1>2, <1>3, <1>4 DEF Inv, ReaderInv

\* A reader that is done, whatever it was given.
LEMMA DoneStep ==
  ASSUME Inv, NEW q \in Readers, NEW new \in Reader, new.pc = "done",
         read' = [read EXCEPT ![q] = new],
         seen' \in {seen, [seen EXCEPT ![q] = {}]},
         host' \in [Slots -> Processes],
         UNCHANGED <<store, config, secret, starts, issued, receipts>>
  PROVE  Inv'
<1>0. TypeOK /\ CallArguments /\ ColumnsOK /\ ReceiptsInv
  BY DEF Inv, TypeInv
<1>1. UNCHANGED <<manifests, bindings, call, config, secret, starts, issued, receipts>>
  BY DEF store
<1>2. TypeInv'
  BY <1>0, <1>1 DEF TypeInv, TypeOK, CallArguments, ColumnsOK
<1>3. ReceiptsInv'
  BY <1>0, <1>1 DEF ReceiptsInv
<1>4. ASSUME NEW s \in Readers, read'[s].pc # "done"
      PROVE  PlacesInv(read[s])' /\ AdmittedInv(read[s])' /\ SeenInv(s)'
  <2>1. s # q
    BY <1>0, <1>4 DEF TypeOK
  <2>2. read'[s] = read[s] /\ seen'[s] = seen[s]
    BY <1>0, <2>1 DEF TypeOK, ColumnsOK
  <2>3. PlacesInv(read[s]) /\ AdmittedInv(read[s]) /\ SeenInv(s)
    BY <1>4, <2>2 DEF Inv, ReaderInv
  <2> QED
    BY <1>1, <2>2, <2>3 DEF PlacesInv, AdmittedInv, SeenInv, Held, Published, Entry
<1> QED  BY <1>2, <1>3, <1>4 DEF Inv, ReaderInv

LEMMA AnswerStep ==
  ASSUME Inv, NEW q \in Readers, NEW data \in Blobs \cup {Nil}, NEW got \in Receipts \cup {Nil},
         NEW verified \in BOOLEAN, NEW status \in {200, 303, 400, 401, 403, 404, 500},
         Answer(q, data, got, verified, status)
  PROVE  Inv'
<1> DEFINE new == [Unread EXCEPT !.data = data, !.got = got, !.verified = verified,
                                 !.status = status]
<1>1. new \in Reader /\ new.pc = "done"
  <2> DEFINE d == [Unread EXCEPT !.data = data]
             g == [d EXCEPT !.got = got]
             v == [g EXCEPT !.verified = verified]
  <2>1. new = [v EXCEPT !.status = status]
    BY UnreadType DEF Reader
  <2>2. d \in Reader /\ d.pc = "done"
    BY UnreadType DEF Reader
  <2> HIDE DEF d
  <2>3. g \in Reader /\ g.pc = "done"
    BY <2>2 DEF Reader
  <2> HIDE DEF g
  <2>4. v \in Reader /\ v.pc = "done"
    BY <2>3 DEF Reader
  <2> HIDE DEF v, new
  <2> QED  BY <2>1, <2>4 DEF Reader
<1>2. /\ read' = [read EXCEPT ![q] = new] /\ seen' = [seen EXCEPT ![q] = {}]
      /\ UNCHANGED <<store, config, secret, starts, host, issued, receipts>>
  BY DEF Answer, others
<1>3. host' \in [Slots -> Processes]
  BY <1>2 DEF Inv, TypeInv, TypeOK
<1> HIDE DEF new
<1> QED  BY <1>1, <1>2, <1>3, DoneStep

LEMMA StatusStep ==
  ASSUME Inv, NEW q \in Readers, NEW s \in {400, 401, 403, 404, 500}, Status(q, s)
  PROVE  Inv'
<1> DEFINE no == FALSE
<1>1. no \in BOOLEAN /\ Answer(q, Nil, Nil, no, s)
  BY DEF Status
<1> HIDE DEF no
<1> QED  BY <1>1, AnswerStep

LEMMA HeldType == TypeOK => Held \subseteq Receipts
<1> SUFFICES ASSUME TypeOK PROVE Held \subseteq Receipts
  OBVIOUS
<1>1. \A x \in issued : /\ x \in Receipts /\ [x EXCEPT !.uri = "other"] \in Receipts
                        /\ [x EXCEPT !.rest = "altered"] \in Receipts
  BY DEF TypeOK, Receipts
<1>2. \A x \in issued : \A i \in Ids : [x EXCEPT !.id = i] \in Receipts
  BY DEF TypeOK, Receipts
<1> DEFINE moved == {[r EXCEPT !.id = i] : r \in issued, i \in Ids}
           foreign == {[r EXCEPT !.uri = "other"] : r \in issued}
           edited == {[r EXCEPT !.rest = "altered"] : r \in issued}
<1>3. moved \subseteq Receipts
  BY <1>2
<1>4. foreign \subseteq Receipts /\ edited \subseteq Receipts
  BY <1>1
<1>5. Held = issued \cup moved \cup foreign \cup edited
  BY DEF Held
<1> HIDE DEF moved, foreign, edited
<1> QED  BY <1>1, <1>3, <1>4, <1>5

\* A request that comes has seen what is stored, and nothing else.
LEMMA GetStep ==
  ASSUME Inv, NEW q \in Readers, Get(q)
  PROVE  Inv'
<1>0. TypeOK /\ CallArguments /\ ColumnsOK /\ ReceiptsInv /\ TablesOK
  BY DEF Inv, TypeInv, TypeOK, ColumnsOK, TablesOK
<1>1. PICK p \in Processes, op \in {"get", "receipts", "verify"}, i \in Ids :
        \E t \in IF Published THEN Tokens ELSE {"none"},
           sent \in IF op = "verify" THEN Held \cup {Nil} ELSE {Nil} :
          /\ host' = [host EXCEPT ![q] = p]
          /\ \/ /\ read' = [read EXCEPT ![q] = [Unread EXCEPT !.pc = "auth", !.op = op,
                                               !.id = i, !.token = t, !.sent = sent]]
                /\ seen' = [seen EXCEPT ![q] = {Entry(i)}]
             \/ /\ op = "get"
                /\ read' = [read EXCEPT ![q] = [Unread EXCEPT !.status = 303]]
                /\ UNCHANGED seen
  BY Zenon DEF Get
<1>1a. PICK t \in Tokens, sent \in Held \cup {Nil} :
         /\ host' = [host EXCEPT ![q] = p]
         /\ \/ /\ read' = [read EXCEPT ![q] = [Unread EXCEPT !.pc = "auth", !.op = op,
                                              !.id = i, !.token = t, !.sent = sent]]
               /\ seen' = [seen EXCEPT ![q] = {Entry(i)}]
            \/ /\ read' = [read EXCEPT ![q] = [Unread EXCEPT !.status = 303]]
               /\ UNCHANGED seen
  BY <1>1 DEF Tokens
<1>2. UNCHANGED <<store, config, secret, starts, receipts, issued>>
  BY DEF Get
<1>3. host' \in [Slots -> Processes]
  BY <1>0, <1>1a DEF TypeOK
<1>4. CASE /\ read' = [read EXCEPT ![q] = [Unread EXCEPT !.status = 303]]
           /\ UNCHANGED seen
  <2>1. [Unread EXCEPT !.status = 303] \in Reader /\ [Unread EXCEPT !.status = 303].pc = "done"
    BY UnreadType DEF Reader
  <2> QED  BY <1>2, <1>3, <1>4, <2>1, DoneStep
<1>5. CASE /\ read' = [read EXCEPT ![q] = [Unread EXCEPT !.pc = "auth", !.op = op, !.id = i,
                                                        !.token = t, !.sent = sent]]
           /\ seen' = [seen EXCEPT ![q] = {Entry(i)}]
  <2> DEFINE a == [Unread EXCEPT !.pc = "auth"]
             b == [a EXCEPT !.op = op]
             c == [b EXCEPT !.id = i]
             d == [c EXCEPT !.token = t]
             new == [d EXCEPT !.sent = sent]
  <2>1. read' = [read EXCEPT ![q] = new]
    BY <1>5, UnreadType DEF Reader
  <2>2. a \in Reader /\ a.pc = "auth" /\ ~a.context
    BY UnreadType DEF Reader
  <2> HIDE DEF a
  <2>3. b \in Reader /\ b.pc = "auth" /\ b.op = op /\ ~b.context
    BY <2>2 DEF Reader
  <2> HIDE DEF b
  <2>4. c \in Reader /\ c.pc = "auth" /\ c.op = op /\ c.id = i /\ ~c.context
    BY <2>3 DEF Reader
  <2> HIDE DEF c
  <2>5. d \in Reader /\ d.pc = "auth" /\ d.op = op /\ d.id = i /\ ~d.context
    BY <2>4 DEF Reader
  <2> HIDE DEF d
  <2>6. sent \in Receipts \cup {Nil}
    BY <1>0, HeldType
  <2>7. /\ new \in Reader /\ new.pc = "auth" /\ new.op = op /\ new.id = i /\ ~new.context
        /\ new.sent = sent
    BY <2>5, <2>6 DEF Reader
  <2> HIDE DEF new
  <2>8. UNCHANGED <<manifests, bindings, call, config, secret, starts, receipts, issued>>
    BY <1>2 DEF store
  <2>9. TypeInv'
    <3>1. seen' \in [Readers -> SUBSET Entries]
      BY <1>0, <1>5, EntryType DEF ColumnsOK
    <3>2. read' \in [Readers -> Reader]
      BY <1>0, <2>1, <2>7 DEF TypeOK
    <3> QED
      BY <1>0, <1>3, <2>8, <3>1, <3>2 DEF TypeInv, TypeOK, CallArguments, ColumnsOK
  <2>10. ReceiptsInv'
    BY <1>0, <2>8 DEF ReceiptsInv
  <2>11. ASSUME NEW s \in Readers, read'[s].pc # "done"
         PROVE  PlacesInv(read[s])' /\ AdmittedInv(read[s])' /\ SeenInv(s)'
    <3>1. CASE s = q
      <4>1. read'[q] = new /\ seen'[q] = {Entry(i)}
        BY <1>0, <1>5, <2>1 DEF TypeOK, ColumnsOK
      <4>2. PlacesInv(new)
        BY <2>7 DEF PlacesInv
      <4>3. PlacesInv(read[q])' /\ AdmittedInv(read[q])'
        BY <2>7, <2>8, <4>1, <4>2 DEF PlacesInv, AdmittedInv, Held, Published
      <4>4. SeenInv(q)'
        BY <2>7, <2>8, <4>1 DEF SeenInv, Entry
      <4> QED  BY <3>1, <4>3, <4>4
    <3>2. CASE s # q
      <4>1. read'[s] = read[s] /\ seen'[s] = seen[s]
        BY <1>0, <1>5, <2>1, <3>2 DEF TypeOK, ColumnsOK
      <4>2. PlacesInv(read[s]) /\ AdmittedInv(read[s]) /\ SeenInv(s)
        BY <2>11, <4>1 DEF Inv, ReaderInv
      <4> QED
        BY <2>8, <4>1, <4>2 DEF PlacesInv, AdmittedInv, SeenInv, Held, Published, Entry
    <3> QED  BY <3>1, <3>2
  <2> QED  BY <2>9, <2>10, <2>11 DEF Inv, ReaderInv
<1> QED  BY <1>1a, <1>4, <1>5

\* What a handler under way knows.
LEMMA UnderWay ==
  ASSUME Inv, NEW q \in Readers, read[q].pc # "done"
  PROVE  /\ read[q] \in Reader /\ read[q].id \in Ids
         /\ PlacesInv(read[q]) /\ AdmittedInv(read[q]) /\ SeenInv(q)
  BY DEF Inv, TypeInv, TypeOK, ReaderInv, PlacesInv

\* Past the middleware the route begins, with the context that it published.
LEMMA EnterStep ==
  ASSUME Inv, NEW q \in Readers, NEW context \in BOOLEAN, read[q].pc = "auth",
         Enter(q, context),
         ~Optional(q) /\ Published => read[q].token = "scoped",
         context => config.auth = "jwt" /\ read[q].token = "scoped"
  PROVE  Inv'
<1>0. /\ read[q] \in Reader /\ PlacesInv(read[q]) /\ AdmittedInv(read[q])
  BY UnderWay
<1>1. CASE Status(q, 400)
  BY <1>1, StatusStep
<1>2. CASE /\ ~(read[q].op = "verify" /\ read[q].sent = Nil)
           /\ Go(q, [read[q] EXCEPT !.context = context,
                                    !.pc = IF read[q].op = "get" THEN "manifest" ELSE "exists"])
  <2> DEFINE place == IF read[q].op = "get" THEN "manifest" ELSE "exists"
             mid == [read[q] EXCEPT !.context = context]
             new == [mid EXCEPT !.pc = place]
  <2>1. Go(q, new)
    BY <1>0, <1>2 DEF Reader
  <2>2. place \in {"manifest", "exists"} /\ (place = "manifest" <=> read[q].op = "get")
    OBVIOUS
  <2> HIDE DEF place
  <2>3. /\ mid \in Reader /\ mid.context = context /\ mid.id = read[q].id
        /\ mid.op = read[q].op /\ mid.sent = read[q].sent /\ mid.token = read[q].token
    BY <1>0 DEF Reader
  <2> HIDE DEF mid
  <2>4. /\ new \in Reader /\ new.pc = place /\ new.context = context /\ new.id = read[q].id
        /\ new.op = read[q].op /\ new.sent = read[q].sent /\ new.token = read[q].token
    BY <2>2, <2>3 DEF Reader
  <2> HIDE DEF new
  <2>5. PlacesInv(new)
    BY <1>0, <1>2, <2>2, <2>4 DEF PlacesInv
  <2>6. AdmittedInv(new)
    BY <2>4 DEF AdmittedInv, Optional
  <2> QED  BY <2>1, <2>2, <2>4, <2>5, <2>6, GoStep
<1> QED  BY <1>1, <1>2 DEF Enter

LEMMA AuthenticateStep ==
  ASSUME Inv, NEW q \in Readers, Authenticate(q)
  PROVE  Inv'
<1>1. read[q].pc = "auth"
  BY DEF Authenticate
<1>2. ASSUME Optional(q),
             \E context \in {FALSE, config.auth = "jwt" /\ read[q].token = "scoped"} :
               Enter(q, context)
      PROVE  Inv'
  <2>1. PICK context \in {FALSE, config.auth = "jwt" /\ read[q].token = "scoped"} :
          Enter(q, context)
    BY <1>2
  <2>2. context \in BOOLEAN /\ (context => config.auth = "jwt" /\ read[q].token = "scoped")
    OBVIOUS
  <2> QED  BY <1>1, <1>2, <2>1, <2>2, EnterStep
<1>3. ASSUME ~Optional(q), Mandatory(q)
      PROVE  Inv'
  <2>1. CASE Status(q, 401) \/ Status(q, 403)
    BY <2>1, StatusStep
  <2>2. CASE (Published => read[q].token = "scoped") /\ Enter(q, FALSE)
    <3> DEFINE no == FALSE
    <3>1. no \in BOOLEAN /\ ~no /\ Enter(q, no)
      BY <2>2
    <3> HIDE DEF no
    <3> QED  BY <1>1, <2>2, <3>1, EnterStep
  <2> QED  BY <1>3, <2>1, <2>2 DEF Mandatory
<1> QED  BY <1>2, <1>3 DEF Authenticate

LEMMA ReadManifestStep ==
  ASSUME Inv, NEW q \in Readers, ReadManifest(q)
  PROVE  Inv'
<1> DEFINE entry == manifests[read[q].id]
           no == FALSE
<1>1. read[q].pc = "manifest"
  BY DEF ReadManifest
<1>2. /\ read[q] \in Reader /\ read[q].id \in Ids
      /\ PlacesInv(read[q]) /\ AdmittedInv(read[q]) /\ SeenInv(q)
  BY <1>1, UnderWay
<1>3. entry # Nil => entry \in Stored /\ entry.data \in Blobs
  BY <1>2 DEF Inv, TypeInv, TypeOK, Stored
<1>4. CASE Status(q, 404)
  BY <1>4, StatusStep
<1>5. CASE entry # Nil /\ Answer(q, entry.data, Nil, no, 200)
  <2>1. no \in BOOLEAN
    OBVIOUS
  <2> HIDE DEF no
  <2> QED  BY <1>3, <1>5, <2>1, AnswerStep
<1>6. CASE /\ entry # Nil /\ config.gated
           /\ Go(q, [read[q] EXCEPT !.pc = "predicate", !.data = entry.data])
  <2> DEFINE mid == [read[q] EXCEPT !.pc = "predicate"]
             new == [mid EXCEPT !.data = entry.data]
  <2>1. Go(q, new)
    BY <1>2, <1>6 DEF Reader
  <2>2. /\ mid \in Reader /\ mid.pc = "predicate" /\ mid.id = read[q].id
        /\ mid.op = read[q].op /\ mid.sent = read[q].sent /\ mid.token = read[q].token
        /\ mid.context = read[q].context
    BY <1>2 DEF Reader
  <2> HIDE DEF mid
  <2>3. /\ new \in Reader /\ new.pc = "predicate" /\ new.id = read[q].id
        /\ new.op = read[q].op /\ new.sent = read[q].sent /\ new.token = read[q].token
        /\ new.context = read[q].context /\ new.data = entry.data
    BY <1>3, <1>6, <2>2 DEF Reader
  <2> HIDE DEF new
  <2>4. PlacesInv(new)
    BY <1>1, <1>2, <1>6, <2>3 DEF PlacesInv
  <2>5. AdmittedInv(new)
    BY <1>1, <1>2, <2>3 DEF AdmittedInv
  <2>6. \E e \in seen[q] : e.manifest # Nil /\ e.manifest.data = new.data
    BY <1>2, <1>6, <2>3 DEF SeenInv, Entry
  <2> QED  BY <1>1, <2>1, <2>3, <2>4, <2>5, <2>6, GoStep
<1> QED  BY <1>4, <1>5, <1>6 DEF ReadManifest

LEMMA AskPredicateStep ==
  ASSUME Inv, NEW q \in Readers, AskPredicate(q)
  PROVE  Inv'
<1> DEFINE no == FALSE
<1>1. read[q] \in Reader
  BY UnderWay DEF AskPredicate
<1>2. CASE Status(q, 404)
  BY <1>2, StatusStep
<1>3. CASE Answer(q, read[q].data, Nil, no, 200)
  <2>1. no \in BOOLEAN /\ read[q].data \in Blobs \cup {Nil}
    BY <1>1 DEF Reader
  <2> HIDE DEF no
  <2> QED  BY <1>3, <2>1, AnswerStep
<1> QED  BY <1>2, <1>3 DEF AskPredicate

LEMMA FindManifestStep ==
  ASSUME Inv, NEW q \in Readers, FindManifest(q)
  PROVE  Inv'
<1>1. read[q].pc = "exists"
  BY DEF FindManifest
<1>2. /\ read[q] \in Reader /\ PlacesInv(read[q]) /\ AdmittedInv(read[q])
  BY <1>1, UnderWay
<1>3. CASE Status(q, 404) \/ Status(q, 400)
  BY <1>3, StatusStep
<1>4. CASE read[q].op = "receipts" /\ Go(q, [read[q] EXCEPT !.pc = "receipt"])
  <2> DEFINE new == [read[q] EXCEPT !.pc = "receipt"]
  <2>1. /\ new \in Reader /\ new.pc = "receipt" /\ new.id = read[q].id
        /\ new.op = read[q].op /\ new.sent = read[q].sent /\ new.token = read[q].token
        /\ new.context = read[q].context
    BY <1>2 DEF Reader
  <2> HIDE DEF new
  <2>2. PlacesInv(new)
    BY <1>1, <1>2, <1>4, <2>1 DEF PlacesInv
  <2>3. AdmittedInv(new)
    BY <1>1, <1>2, <2>1 DEF AdmittedInv
  <2>4. Go(q, new)
    BY <1>4 DEF new
  <2> QED  BY <1>1, <2>1, <2>2, <2>3, <2>4, GoStep
<1>5. CASE LET ok == VerifyReceipt(read[q].sent, host[q]) IN
           Answer(q, Nil, IF ok THEN read[q].sent ELSE Nil, ok, 200)
  <2> DEFINE ok == VerifyReceipt(read[q].sent, host[q])
             got == IF ok THEN read[q].sent ELSE Nil
  <2>1. ok \in BOOLEAN
    BY DEF VerifyReceipt
  <2>2. got \in Receipts \cup {Nil}
    BY <1>2 DEF Reader
  <2>3. Answer(q, Nil, got, ok, 200)
    BY <1>5
  <2> HIDE DEF got, ok
  <2> QED  BY <2>1, <2>2, <2>3, AnswerStep
<1> QED  BY <1>3, <1>4, <1>5 DEF FindManifest

LEMMA ReadReceiptStep ==
  ASSUME Inv, NEW q \in Readers, ReadReceipt(q)
  PROVE  Inv'
<1>1. read[q].pc = "receipt" /\ read[q].id \in Ids
  BY UnderWay DEF ReadReceipt
<1>2. receipts[read[q].id] \in Receipts \cup {Nil}
  BY <1>1 DEF Inv, TypeInv, ColumnsOK
<1>3. CASE Status(q, 404)
  BY <1>3, StatusStep
<1>4. CASE Answer(q, Nil, receipts[read[q].id],
                  /\ receipts[read[q].id] # Nil /\ Concerns(receipts[read[q].id], read[q].id)
                  /\ VerifyReceipt(receipts[read[q].id], host[q]), 200)
  <2> DEFINE ok == /\ receipts[read[q].id] # Nil /\ Concerns(receipts[read[q].id], read[q].id)
                   /\ VerifyReceipt(receipts[read[q].id], host[q])
             got == receipts[read[q].id]
  <2>1. ok \in BOOLEAN /\ got \in Receipts \cup {Nil} /\ Answer(q, Nil, got, ok, 200)
    BY <1>2, <1>4
  <2> HIDE DEF got, ok
  <2> QED  BY <2>1, AnswerStep
<1> QED  BY <1>3, <1>4 DEF ReadReceipt

LEMMA RouteStep ==
  ASSUME Inv, NEW q \in Readers, Route(q)
  PROVE  Inv'
<1>1. CASE FailRead(q)
  BY <1>1, StatusStep DEF FailRead
<1> QED
  BY <1>1, GetStep, AuthenticateStep, ReadManifestStep, AskPredicateStep, FindManifestStep,
     ReadReceiptStep
  DEF Route

LEMMA UnchangedStep == Inv /\ UNCHANGED all => Inv'
<1> SUFFICES ASSUME Inv, UNCHANGED all PROVE Inv'
  OBVIOUS
<1>1. UNCHANGED <<manifests, bindings, call, config, secret, starts, host, issued, receipts,
                  read, seen>>
  BY DEF all, store, others
<1>2. TypeInv'
  BY <1>1 DEF Inv, TypeInv, TypeOK, CallArguments, ColumnsOK
<1>3. ReceiptsInv'
  BY <1>1 DEF Inv, ReceiptsInv
<1>4. (\A q \in Readers : ReaderInv(q))'
  BY <1>1, ReadersKeep DEF Inv, ReaderInv, SeenInv, Entry
<1> QED  BY <1>2, <1>3, <1>4 DEF Inv

LEMMA StepInv == Inv /\ [NextRetrieval]_all => Inv'
  BY WriterStep, RouteStep, StopStep, UnchangedStep DEF NextRetrieval

LEMMA Invariance == SpecRetrieval => []Inv
  BY InitInv, StepInv, PTL DEF SpecRetrieval

\* Every variable keeps its type, and a receipt is stored exactly with a manifest
\* that has been signed, under the id that it names, whatever writers and
\* restarts come in between.
THEOREM TypeCorrect == SpecRetrieval => []TypeOK
<1>1. Inv => TypeOK
  BY DEF Inv, TypeInv
<1> QED  BY <1>1, Invariance, PTL

-----------------------------------------------------------------------------
(* The action properties: what an answer says, by the step that gives it. *)

CurrentAnswer(q) ==
    LET old == read[q]
        new == read'[q]
    IN
    /\ new.status = 200 /\ old.op = "get" =>
         \E e \in seen[q] : e.manifest # Nil /\ e.manifest.data = new.data
    /\ new.status = 200 /\ old.op = "receipts" =>
         \E e \in seen[q] : e.manifest # Nil /\ e.receipt # Nil /\ e.receipt = new.got
    /\ new.status = 404 /\ ~(Optional(q) /\ Withheld(q)) =>
         \E e \in seen[q] : e.manifest = Nil \/ (old.op = "receipts" /\ e.receipt = Nil)

OurAnswer(q) ==
    read'[q].verified =>
      \E r \in issued : r.id = read[q].id /\ SignedPart(read'[q].got) = SignedPart(r)

ConfiguredAnswer(q) ==
    config.secret /\ read[q].op = "receipts" /\ read'[q].status = 200 => read'[q].verified

AuthorisedAnswer(q) ==
    ~MayFetch(q) =>
      /\ read'[q].data = Nil /\ read'[q].got = Nil
      /\ read'[q].status \in IF Optional(q) THEN {404, 500} ELSE {401, 403}

Sound(q) == CurrentAnswer(q) /\ OurAnswer(q) /\ ConfiguredAnswer(q) /\ AuthorisedAnswer(q)

LEMMA AnswerFields ==
  ASSUME Inv, NEW q \in Readers, NEW data \in Blobs \cup {Nil}, NEW got \in Receipts \cup {Nil},
         NEW verified \in BOOLEAN, NEW status \in {200, 303, 400, 401, 403, 404, 500},
         Answer(q, data, got, verified, status)
  PROVE  /\ read'[q].data = data /\ read'[q].got = got /\ read'[q].verified = verified
         /\ read'[q].status = status
<1>1. read'[q] = [Unread EXCEPT !.data = data, !.got = got, !.verified = verified,
                                !.status = status]
  BY DEF Answer, Inv, TypeInv, TypeOK
<1> QED  BY <1>1, UnreadType DEF Reader

LEMMA StatusFields ==
  ASSUME Inv, NEW q \in Readers, NEW s \in {400, 401, 403, 404, 500}, Status(q, s)
  PROVE  read'[q].data = Nil /\ read'[q].got = Nil /\ ~read'[q].verified /\ read'[q].status = s
<1> DEFINE no == FALSE
<1>1. no \in BOOLEAN /\ ~no /\ Answer(q, Nil, Nil, no, s)
  BY DEF Status
<1> HIDE DEF no
<1> QED  BY <1>1, AnswerFields

\* What a handler past the middleware may do, and for whom.
LEMMA Admitted ==
  ASSUME Inv, NEW q \in Readers, read[q].pc \notin {"done", "auth"}, ~MayFetch(q)
  PROVE  Optional(q) /\ Withheld(q) /\ config.gated /\ read[q].op = "get"
<1>1. PlacesInv(read[q]) /\ AdmittedInv(read[q])
  BY UnderWay
<1>2. Optional(q)
  BY <1>1 DEF MayFetch, Optional, AdmittedInv
<1> QED  BY <1>1, <1>2 DEF MayFetch, Optional, AdmittedInv, Withheld

LEMMA FailAnswer ==
  ASSUME Inv, NEW q \in Readers, FailRead(q)
  PROVE  Sound(q)
<1>1. read[q].pc \notin {"done", "auth"} /\ Status(q, 500)
  BY DEF FailRead
<1> QED
  BY <1>1, StatusFields, Admitted
  DEF Sound, CurrentAnswer, OurAnswer, ConfiguredAnswer, AuthorisedAnswer

LEMMA ManifestAnswer ==
  ASSUME Inv, NEW q \in Readers, ReadManifest(q), Answers(q)
  PROVE  Sound(q)
<1> DEFINE entry == manifests[read[q].id]
           no == FALSE
<1>1. read[q].pc = "manifest"
  BY DEF ReadManifest
<1>2. PlacesInv(read[q]) /\ SeenInv(q) /\ read[q].op = "get" /\ read[q] \in Reader
  BY <1>1, UnderWay DEF PlacesInv
<1>3. Entry(read[q].id) \in seen[q] /\ Entry(read[q].id).manifest = entry
  BY <1>2 DEF SeenInv, Entry
<1>4. CASE entry = Nil /\ Status(q, 404)
  BY <1>1, <1>2, <1>3, <1>4, StatusFields, Admitted
  DEF Sound, CurrentAnswer, OurAnswer, ConfiguredAnswer, AuthorisedAnswer
<1>5. CASE entry # Nil /\ ~config.gated /\ Answer(q, entry.data, Nil, no, 200)
  <2>1. entry \in Stored /\ entry.data \in Blobs
    BY <1>2, <1>5 DEF Inv, TypeInv, TypeOK, PlacesInv, Stored
  <2>2. no \in BOOLEAN /\ ~no
    OBVIOUS
  <2>3. MayFetch(q)
    BY <1>1, <1>5, Admitted
  <2> HIDE DEF no
  <2>4. read'[q].data = entry.data /\ ~read'[q].verified /\ read'[q].status = 200
    BY <1>5, <2>1, <2>2, AnswerFields
  <2> QED
    BY <1>2, <1>3, <1>5, <2>3, <2>4
    DEF Sound, CurrentAnswer, OurAnswer, ConfiguredAnswer, AuthorisedAnswer
<1>6. CASE Go(q, [read[q] EXCEPT !.pc = "predicate", !.data = entry.data])
  <2>1. read'[q].pc = "predicate"
    BY <1>2, <1>6 DEF Go, Inv, TypeInv, TypeOK, Reader
  <2> QED  BY <2>1 DEF Answers
<1> QED  BY <1>4, <1>5, <1>6 DEF ReadManifest

LEMMA PredicateAnswer ==
  ASSUME Inv, NEW q \in Readers, AskPredicate(q)
  PROVE  Sound(q)
<1> DEFINE no == FALSE
<1>1. read[q].pc = "predicate"
  BY DEF AskPredicate
<1>2. /\ read[q] \in Reader /\ read[q].op = "get" /\ config.gated
      /\ \E e \in seen[q] : e.manifest # Nil /\ e.manifest.data = read[q].data
  BY <1>1, UnderWay DEF PlacesInv, SeenInv
<1>3. CASE Withheld(q) /\ Status(q, 404)
  BY <1>1, <1>2, <1>3, StatusFields, Admitted
  DEF Sound, CurrentAnswer, OurAnswer, ConfiguredAnswer, AuthorisedAnswer, Optional
<1>4. CASE ~Withheld(q) /\ Answer(q, read[q].data, Nil, no, 200)
  <2>1. no \in BOOLEAN /\ ~no /\ read[q].data \in Blobs \cup {Nil}
    BY <1>2 DEF Reader
  <2>2. MayFetch(q)
    BY <1>1, <1>4, Admitted
  <2> HIDE DEF no
  <2>3. read'[q].data = read[q].data /\ ~read'[q].verified /\ read'[q].status = 200
    BY <1>4, <2>1, AnswerFields
  <2> QED
    BY <1>2, <2>2, <2>3
    DEF Sound, CurrentAnswer, OurAnswer, ConfiguredAnswer, AuthorisedAnswer
<1> QED  BY <1>3, <1>4 DEF AskPredicate

\* A receipt that somebody holds, and that verifies, has the signed part of an
\* issued one: with another id or uri its proof no longer fits it.
LEMMA HeldVerifies ==
  ASSUME Inv, NEW x \in Held, NEW p \in Processes, VerifyReceipt(x, p)
  PROVE  \E y \in issued : y.id = x.id /\ SignedPart(x) = SignedPart(y)
<1>1. x.proof.uri = x.uri /\ x.proof.id = x.id
  BY DEF VerifyReceipt
<1>2. \A y \in issued : y \in Receipts /\ y.uri = "ours" /\ y.proof.uri = "ours" /\ y.proof.id = y.id
  BY DEF Inv, TypeInv, TypeOK, ReceiptsInv, Genuine
<1>3. ASSUME NEW y \in issued, NEW i \in Ids, x = [y EXCEPT !.id = i]
      PROVE  x = y
  <2>1. x.proof = y.proof /\ x.id = i /\ y \in Receipts
    BY <1>2, <1>3 DEF Receipts
  <2>2. i = y.id
    BY <1>1, <1>2, <2>1
  <2> QED  BY <1>3, <2>1, <2>2 DEF Receipts
<1>4. ASSUME NEW y \in issued, x = [y EXCEPT !.uri = "other"]
      PROVE  FALSE
  <2>1. x.proof = y.proof /\ x.uri = "other"
    BY <1>2, <1>4 DEF Receipts
  <2> QED  BY <1>1, <1>2, <2>1
<1>5. ASSUME NEW y \in issued, x = [y EXCEPT !.rest = "altered"]
      PROVE  y.id = x.id /\ SignedPart(x) = SignedPart(y)
  BY <1>2, <1>5 DEF Receipts, SignedPart
<1> QED  BY <1>3, <1>4, <1>5 DEF Held, SignedPart

LEMMA ExistsAnswer ==
  ASSUME Inv, NEW q \in Readers, FindManifest(q), Answers(q)
  PROVE  Sound(q)
<1>1. read[q].pc = "exists"
  BY DEF FindManifest
<1>2. PlacesInv(read[q]) /\ SeenInv(q) /\ read[q].op # "get" /\ read[q] \in Reader
  BY <1>1, UnderWay DEF PlacesInv
<1>3. /\ Entry(read[q].id) \in seen[q] /\ Entry(read[q].id).manifest = manifests[read[q].id]
      /\ MayFetch(q)
  BY <1>1, <1>2, Admitted DEF SeenInv, Entry
<1>4. CASE manifests[read[q].id] = Nil /\ Status(q, 404)
  BY <1>2, <1>3, <1>4, StatusFields
  DEF Sound, CurrentAnswer, OurAnswer, ConfiguredAnswer, AuthorisedAnswer
<1>5. CASE Status(q, 400)
  BY <1>3, <1>5, StatusFields
  DEF Sound, CurrentAnswer, OurAnswer, ConfiguredAnswer, AuthorisedAnswer
<1>6. CASE Go(q, [read[q] EXCEPT !.pc = "receipt"])
  <2>1. read'[q].pc = "receipt"
    BY <1>2, <1>6 DEF Go, Inv, TypeInv, TypeOK, Reader
  <2> QED  BY <2>1 DEF Answers
<1>7. CASE /\ read[q].op = "verify" /\ Concerns(read[q].sent, read[q].id)
           /\ LET ok == VerifyReceipt(read[q].sent, host[q]) IN
                Answer(q, Nil, IF ok THEN read[q].sent ELSE Nil, ok, 200)
  <2> DEFINE ok == VerifyReceipt(read[q].sent, host[q])
             got == IF ok THEN read[q].sent ELSE Nil
  <2>1. ok \in BOOLEAN
    BY DEF VerifyReceipt
  <2>2. got \in Receipts \cup {Nil}
    BY <1>2 DEF Reader
  <2>3. Answer(q, Nil, got, ok, 200)
    BY <1>7
  <2>4. read[q].sent \in Held /\ host[q] \in Processes
    BY <1>1, <1>2, <1>7 DEF PlacesInv, Inv, TypeInv, TypeOK, Slots
  <2>5. ok => /\ \E r \in issued : r.id = read[q].id /\ SignedPart(read[q].sent) = SignedPart(r)
              /\ got = read[q].sent
    BY <1>7, <2>4, HeldVerifies DEF Concerns
  <2> HIDE DEF got, ok
  <2>6. read'[q].got = got /\ read'[q].verified = ok /\ read'[q].status = 200
    BY <2>1, <2>2, <2>3, AnswerFields
  <2> QED
    BY <1>2, <1>3, <1>7, <2>5, <2>6
    DEF Sound, CurrentAnswer, OurAnswer, ConfiguredAnswer, AuthorisedAnswer
<1> QED  BY <1>4, <1>5, <1>6, <1>7 DEF FindManifest

LEMMA ReceiptAnswer ==
  ASSUME Inv, NEW q \in Readers, ReadReceipt(q)
  PROVE  Sound(q)
<1> DEFINE r == receipts[read[q].id]
           ok == r # Nil /\ Concerns(r, read[q].id) /\ VerifyReceipt(r, host[q])
<1>1. read[q].pc = "receipt"
  BY DEF ReadReceipt
<1>2. SeenInv(q) /\ read[q].op = "receipts" /\ read[q].id \in Ids /\ read[q] \in Reader
  BY <1>1, UnderWay DEF PlacesInv
<1>3. /\ Entry(read[q].id) \in seen[q] /\ MayFetch(q)
      /\ Entry(read[q].id).manifest = manifests[read[q].id] /\ Entry(read[q].id).receipt = r
  BY <1>1, <1>2, Admitted DEF SeenInv, Entry
<1>4. CASE r = Nil /\ Status(q, 404)
  BY <1>2, <1>3, <1>4, StatusFields
  DEF Sound, CurrentAnswer, OurAnswer, ConfiguredAnswer, AuthorisedAnswer
<1>5. CASE r # Nil /\ Answer(q, Nil, r, ok, 200)
  <2>1. manifests[read[q].id] # Nil /\ r \in Receipts /\ r.id = read[q].id /\ r \in issued
    BY <1>2, <1>5 DEF Inv, TypeInv, TypeOK, ReceiptsInv
  <2>2. config.secret => ok
    <3>1. host[q] \in Processes /\ Genuine(r) /\ r.proof \in Proofs
      BY <2>1 DEF Inv, TypeInv, TypeOK, ReceiptsInv, Slots, Receipts
    <3>2. config.secret => r.proof.secret = secret[host[q]]
      BY <2>1, <3>1 DEF Inv, ReceiptsInv
    <3> QED  BY <1>5, <2>1, <3>1, <3>2 DEF Genuine, Concerns, VerifyReceipt, Proofs
  <2>3. ok \in BOOLEAN
    OBVIOUS
  <2> HIDE DEF ok
  <2>4. read'[q].got = r /\ read'[q].verified = ok /\ read'[q].status = 200
    BY <1>5, <2>1, <2>3, AnswerFields
  <2> QED
    BY <1>2, <1>3, <1>5, <2>1, <2>2, <2>4
    DEF Sound, CurrentAnswer, OurAnswer, ConfiguredAnswer, AuthorisedAnswer
<1> QED  BY <1>4, <1>5 DEF ReadReceipt, NoReceipt

LEMMA RefusalAnswer ==
  ASSUME Inv, NEW q \in Readers, Authenticate(q), Answers(q)
  PROVE  Sound(q)
<1>1. read[q].pc = "auth"
  BY DEF Authenticate
<1>2. read[q] \in Reader
  BY <1>1, UnderWay
<1>3. ASSUME NEW context \in BOOLEAN, Enter(q, context)
      PROVE  Status(q, 400) /\ read[q].op = "verify"
  <2>1. CASE Go(q, [read[q] EXCEPT !.context = context,
                                   !.pc = IF read[q].op = "get" THEN "manifest" ELSE "exists"])
    <3>1. read'[q].pc \in {"manifest", "exists"}
      BY <1>2, <2>1 DEF Go, Inv, TypeInv, TypeOK, Reader
    <3> QED  BY <3>1 DEF Answers
  <2> QED  BY <1>3, <2>1 DEF Enter
<1>4. CASE Status(q, 400) /\ MayFetch(q)
  BY <1>4, StatusFields
  DEF Sound, CurrentAnswer, OurAnswer, ConfiguredAnswer, AuthorisedAnswer
<1>5. CASE ~Optional(q) /\ (Status(q, 401) \/ Status(q, 403))
  BY <1>5, StatusFields
  DEF Sound, CurrentAnswer, OurAnswer, ConfiguredAnswer, AuthorisedAnswer
<1>6. ASSUME Optional(q), \E context \in {FALSE, config.auth = "jwt" /\ read[q].token = "scoped"} :
                            Enter(q, context)
      PROVE  FALSE
  <2>1. PICK context \in {FALSE, config.auth = "jwt" /\ read[q].token = "scoped"} : Enter(q, context)
    BY <1>6
  <2>2. context \in BOOLEAN
    OBVIOUS
  <2> QED  BY <1>3, <1>6, <2>1, <2>2 DEF Optional
<1>7. ASSUME ~Optional(q), Published => read[q].token = "scoped", Enter(q, FALSE)
      PROVE  Status(q, 400) /\ MayFetch(q)
  <2> DEFINE no == FALSE
  <2>1. no \in BOOLEAN /\ Enter(q, no)
    BY <1>7
  <2> HIDE DEF no
  <2> QED  BY <1>3, <1>7, <2>1 DEF MayFetch
<1> QED  BY <1>4, <1>5, <1>6, <1>7 DEF Authenticate, Mandatory

\* Only the reader itself answers its request.
LEMMA WhoAnswers ==
  ASSUME Inv, [NextRetrieval]_all, NEW q \in Readers, Answers(q)
  PROVE  Sound(q)
<1>0. read[q].pc # "done" /\ read'[q].pc = "done" /\ read'[q].status # 0
  BY DEF Answers
<1>1. ASSUME read'[q] = read[q] \/ read'[q] = Unread
      PROVE  FALSE
  BY <1>0, <1>1 DEF Unread
<1>2. ASSUME NEW s \in Readers, Route(s), s # q
      PROVE  read'[q] = read[q]
  <2>0. read \in [Readers -> Reader]
    BY DEF Inv, TypeInv, TypeOK
  <2>1. ASSUME NEW new, Go(s, new)
        PROVE  read'[q] = read[q]
    BY <1>2, <2>0, <2>1 DEF Go
  <2>2. ASSUME NEW data, NEW got, NEW verified, NEW status, Answer(s, data, got, verified, status)
        PROVE  read'[q] = read[q]
    BY <1>2, <2>0, <2>2 DEF Answer
  <2>3. ASSUME NEW status, Status(s, status)
        PROVE  read'[q] = read[q]
    <3> DEFINE no == FALSE
    <3>1. Answer(s, Nil, Nil, no, status)
      BY <2>3 DEF Status
    <3> HIDE DEF no
    <3> QED  BY <2>2, <3>1
  <2>4. CASE Get(s)
    BY <1>2, <2>0, <2>4 DEF Get
  <2>5. ASSUME NEW context, Enter(s, context)
        PROVE  read'[q] = read[q]
    BY <2>1, <2>3, <2>5 DEF Enter
  <2>6. CASE Authenticate(s)
    BY <2>3, <2>5, <2>6 DEF Authenticate, Mandatory
  <2>7. CASE ReadManifest(s)
    BY <2>1, <2>2, <2>3, <2>7 DEF ReadManifest
  <2>8. CASE AskPredicate(s)
    BY <2>2, <2>3, <2>8 DEF AskPredicate
  <2>9. CASE FindManifest(s)
    BY <2>1, <2>2, <2>3, <2>9 DEF FindManifest
  <2>10. CASE ReadReceipt(s)
    BY <2>2, <2>3, <2>10 DEF ReadReceipt
  <2>11. CASE FailRead(s)
    BY <2>3, <2>11 DEF FailRead
  <2> QED
    BY <1>2, <2>4, <2>6, <2>7, <2>8, <2>9, <2>10, <2>11 DEF Route
<1>3. CASE Route(q)
  <2>1. ~Get(q)
    BY <1>0 DEF Get
  <2> QED
    BY <1>3, <2>1, FailAnswer, ManifestAnswer, PredicateAnswer, ExistsAnswer, ReceiptAnswer,
       RefusalAnswer
    DEF Route
<1>4. ASSUME NEW r \in Requests,
             Arrive(r) \/ Upload(r) \/ SignReceipt(r) \/ Withdraw(r) \/ FailWrite(r)
      PROVE  read' = read
  BY <1>4 DEF Arrive, Upload, SignReceipt, Withdraw, FailWrite
<1>5. ASSUME NEW p \in Processes, StopProcess(p)
      PROVE  read'[q] = read[q] \/ read'[q] = Unread
  BY <1>5 DEF StopProcess
<1>6. CASE UNCHANGED all
  BY <1>1, <1>6 DEF all
<1> QED  BY <1>1, <1>2, <1>3, <1>4, <1>5, <1>6 DEF NextRetrieval

LEMMA EveryAnswerSound ==
  Inv /\ [NextRetrieval]_all => [\A q \in Readers : Answers(q) => Sound(q)]_all
  BY WhoAnswers

\* What a fetch answers was stored under the id at one moment while the request
\* was served, and a 404 to a caller who may read means the manifest, or its
\* receipt, was missing at one: the handlers of manifests.ts and receipts.ts,
\* while uploads, signatures, deletions and restarts go on beside them.
THEOREM EveryReadIsCurrent == SpecRetrieval => ReadsAreCurrent
<1>1. Inv /\ [NextRetrieval]_all =>
        [\A q \in Readers : Answers(q) =>
           LET old == read[q]
               new == read'[q]
           IN
           /\ new.status = 200 /\ old.op = "get" =>
                \E e \in seen[q] : e.manifest # Nil /\ e.manifest.data = new.data
           /\ new.status = 200 /\ old.op = "receipts" =>
                \E e \in seen[q] : e.manifest # Nil /\ e.receipt # Nil /\ e.receipt = new.got
           /\ new.status = 404 /\ ~(Optional(q) /\ Withheld(q)) =>
                \E e \in seen[q] : e.manifest = Nil \/ (old.op = "receipts" /\ e.receipt = Nil)]_all
  BY EveryAnswerSound DEF Sound, CurrentAnswer
<1> QED  BY <1>1, Invariance, PTL DEF SpecRetrieval, ReadsAreCurrent

\* "verified" is said only of a receipt whose repository, manifest, anchor and
\* proof are those of one that a process issued for the manifest of the path,
\* whatever its other fields: verifyReceipt of the receipts routes.
THEOREM EveryVerifiedReceiptIsOurs == SpecRetrieval => VerifiedIsOurs
<1>1. Inv /\ [NextRetrieval]_all =>
        [\A q \in Readers : Answers(q) /\ read'[q].verified =>
           \E r \in issued : r.id = read[q].id /\ SignedPart(read'[q].got) = SignedPart(r)]_all
  BY EveryAnswerSound DEF Sound, OurAnswer
<1> QED  BY <1>1, Invariance, PTL DEF SpecRetrieval, VerifiedIsOurs

\* With a configured secret every stored receipt verifies, whichever process
\* signed it, whichever is asked and however often they were restarted.
THEOREM EveryConfiguredReceiptVerifies == SpecRetrieval => ConfiguredReceiptsVerify
<1>1. Inv /\ [NextRetrieval]_all =>
        [\A q \in Readers :
           Answers(q) /\ config.secret /\ read[q].op = "receipts" /\ read'[q].status = 200 =>
             read'[q].verified]_all
  BY EveryAnswerSound DEF Sound, ConfiguredAnswer
<1> QED  BY <1>1, Invariance, PTL DEF SpecRetrieval, ConfiguredReceiptsVerify

\* A caller who may not fetch is sent neither bytes nor a receipt, and cannot
\* tell from the answer whether there is one: the auth, requireAuthScope and
\* optionalAuth middlewares with the isManifestAuthRequired predicate.
THEOREM NobodyElseLearns == SpecRetrieval => OnlyForTheAuthorised
<1>1. Inv /\ [NextRetrieval]_all =>
        [\A q \in Readers : Answers(q) /\ ~MayFetch(q) =>
           /\ read'[q].data = Nil /\ read'[q].got = Nil
           /\ read'[q].status \in IF Optional(q) THEN {404, 500} ELSE {401, 403}]_all
  BY EveryAnswerSound DEF Sound, AuthorisedAnswer
<1> QED  BY <1>1, Invariance, PTL DEF SpecRetrieval, OnlyForTheAuthorised

-----------------------------------------------------------------------------
(* The store under the fetch routes. *)

\* Several processes that stop one by one, and readers beside them, are to the
\* clients of the store routes one repository: no step breaks the contract.
THEOREM ContractKept == SpecRetrieval => Spec
<1>1. InitRetrieval => Init
  BY DEF InitRetrieval
<1>2. [NextRetrieval]_all => [Next]_vars
  <2>1. ASSUME NEW r \in Requests,
               Arrive(r) \/ Upload(r) \/ SignReceipt(r) \/ Withdraw(r) \/ FailWrite(r)
        PROVE  Next
    BY <2>1 DEF Arrive, Upload, SignReceipt, Withdraw, FailWrite, Next
  <2>2. ASSUME NEW q \in Readers, Route(q)
        PROVE  UNCHANGED store
    <3>1. \A new : Go(q, new) => UNCHANGED store
      BY DEF Go
    <3>2. \A data, got, verified, s : Answer(q, data, got, verified, s) => UNCHANGED store
      BY DEF Answer
    <3>3. \A s : Status(q, s) => UNCHANGED store
      BY <3>2 DEF Status
    <3>4. \A context : Enter(q, context) => UNCHANGED store
      BY <3>1, <3>3 DEF Enter
    <3>5. CASE Get(q)
      BY <3>5 DEF Get
    <3>6. CASE Authenticate(q)
      BY <3>3, <3>4, <3>6 DEF Authenticate, Mandatory
    <3>7. CASE ReadManifest(q) \/ AskPredicate(q) \/ FindManifest(q) \/ ReadReceipt(q) \/ FailRead(q)
      BY <3>1, <3>2, <3>3, <3>7
      DEF ReadManifest, AskPredicate, FindManifest, ReadReceipt, FailRead
    <3> QED  BY <2>2, <3>5, <3>6, <3>7 DEF Route
  <2>3. ASSUME NEW p \in Processes, StopProcess(p)
        PROVE  Next
    <3> DEFINE lost == {r \in Requests : host[r] = p}
    <3>1. call' = [r \in Requests |-> IF r \in lost THEN Answered(0) ELSE call[r]]
      BY <2>3 DEF StopProcess
    <3> HIDE DEF lost
    <3>2. lost \in SUBSET Requests
      BY DEF lost
    <3> QED  BY <2>3, <3>1, <3>2 DEF StopProcess, Restart, Next
  <2>4. CASE UNCHANGED all
    BY <2>4 DEF all, store, vars
  <2> QED  BY <2>1, <2>2, <2>3, <2>4 DEF NextRetrieval, store, vars
<1> QED  BY <1>1, <1>2, PTL DEF SpecRetrieval, Spec
=============================================================================
