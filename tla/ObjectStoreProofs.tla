------------------------- MODULE ObjectStoreProofs -------------------------
(***************************************************************************)
(* Proofs about ObjectStore, for any number of calls, keys and saves, any  *)
(* page and batch size and both services.                                  *)
(***************************************************************************)
EXTENDS ObjectStore, FiniteSetTheorems, WellFoundedInduction, TLAPS

(* Sets of keys have a first and a last element. *)

LEMMA Least ==
  ASSUME NEW S \in SUBSET Nat, S # {}
  PROVE  \E m \in S : \A j \in S : m <= j
<1> DEFINE R == {pair \in Nat \X Nat : pair[1] < pair[2]}
<1>1. IsWellFoundedOn(R, Nat)
  BY NatLessThanWellFounded DEF OpToRel
<1> HIDE DEF R
<1>2. PICK m \in S : \A j \in S : ~ (<<j, m>> \in R)
  BY <1>1, WFMin
<1>3. ASSUME NEW j \in S PROVE m <= j
  <2>1. j \in Nat /\ m \in Nat
    OBVIOUS
  <2>2. <<j, m>> \notin R
    BY <1>2
  <2> QED
    BY <2>1, <2>2 DEF R
<1> QED
  BY <1>3

LEMMA Greatest ==
  ASSUME NEW S \in SUBSET Keys, S # {}
  PROVE  \E m \in S : \A j \in S : j <= m
<1> DEFINE T == {LastKey - k : k \in S}
<1>1. T \in SUBSET Nat /\ T # {}
  <2>1. PICK k \in S : TRUE
    OBVIOUS
  <2>2. LastKey - k \in T
    BY <2>1
  <2> QED
    BY <2>2, ConstantsAssumption DEF Keys
<1>2. PICK t \in T : \A j \in T : t <= j
  BY <1>1, Least
<1>3. PICK m \in S : t = LastKey - m
  BY <1>2
<1>4. ASSUME NEW j \in S PROVE j <= m
  <2>1. LastKey - j \in T
    OBVIOUS
  <2> QED
    BY <1>2, <1>3, <2>1, ConstantsAssumption DEF Keys
<1> QED
  BY <1>4

LEMMA FiniteKeys ==
  ASSUME NEW S \in SUBSET Keys
  PROVE  IsFiniteSet(S) /\ Cardinality(S) \in Nat
<1>1. IsFiniteSet(Keys)
  BY FS_Interval, ConstantsAssumption DEF Keys
<1> QED
  BY <1>1, FS_Subset, FS_CardinalityType

-----------------------------------------------------------------------------
(* The first keys of a set are an initial segment of it, and some are taken. *)

LEMMA FirstIsInitial ==
  ASSUME NEW S \in SUBSET Keys, NEW n \in Nat,
         NEW k \in First(n, S), NEW j \in S, j <= k
  PROVE  j \in First(n, S)
<1> DEFINE Upto(i) == {l \in S : l <= i}
<1>0. k \in S /\ k \in Int /\ \A l \in S : l \in Int
  BY ConstantsAssumption DEF First, Keys
<1>1. Upto(j) \in SUBSET Upto(k)
  <2>1. ASSUME NEW l \in S, l <= j PROVE l <= k
    BY <2>1, <1>0
  <2> QED
    BY <2>1
<1>2. Upto(k) \in SUBSET Keys
  BY DEF First
<1>3. /\ Cardinality(Upto(j)) <= Cardinality(Upto(k))
      /\ Cardinality(Upto(j)) \in Nat /\ Cardinality(Upto(k)) \in Nat
  BY <1>1, <1>2, FiniteKeys, FS_Subset
<1>4. Cardinality(Upto(k)) <= n
  BY DEF First
<1>5. Cardinality(Upto(j)) <= n
  BY <1>3, <1>4
<1> QED
  BY <1>5 DEF First

LEMMA FirstIsSome ==
  ASSUME NEW S \in SUBSET Keys, NEW n \in Nat, n >= 1, S # {}
  PROVE  First(n, S) # {}
<1>1. PICK m \in S : \A j \in S : m <= j
  BY Least, ConstantsAssumption DEF Keys
<1>2. {j \in S : j <= m} = {m}
  <2>1. \A j \in S : j \in Int
    BY ConstantsAssumption DEF Keys
  <2>2. m <= m /\ \A j \in S : j <= m => j = m
    BY <1>1, <2>1
  <2> QED
    BY <2>2
<1>3. Cardinality({j \in S : j <= m}) <= n
  BY <1>2, FS_Singleton
<1> QED
  BY <1>3 DEF First

\* Where a page ends: everything up to there is on this page or was before it.
LEMMA PageEnds ==
  ASSUME NEW c \in Clients, NEW n \in 1..PageSize, NEW page,
         page = First(n, Following(c)), page # Following(c)
  PROVE  /\ page \in SUBSET Following(c)
         /\ NextToken(c, page) \in page
         /\ \A j \in page : j <= NextToken(c, page)
         /\ \A k \in Following(c) : k <= NextToken(c, page) => k \in page
<1>1. Following(c) \in SUBSET Keys /\ page \in SUBSET Following(c) /\ page \in SUBSET Keys
  BY DEF Following, First
<1>2. n \in Nat /\ n >= 1
  BY ConstantsAssumption
<1>3. page # {}
  BY <1>1, <1>2, FirstIsSome
<1>4. NextToken(c, page) \in page /\ \A j \in page : j <= NextToken(c, page)
  <2>1. \E m \in page : \A j \in page : j <= m
    BY <1>1, <1>3, Greatest
  <2> QED
    BY <2>1 DEF NextToken
<1>5. \A k \in Following(c) : k <= NextToken(c, page) => k \in page
  BY <1>1, <1>2, <1>4, FirstIsInitial
<1> QED
  BY <1>1, <1>4, <1>5

-----------------------------------------------------------------------------
(* The inductive invariant: what each call knows about the bucket stays true *)
(* whatever other calls do, because save numbers only grow.                  *)

\* No number is known that has not been saved.
Bounded(c) ==
    /\ call[c].meta <= saves
    /\ call[c].found <= saves
    /\ call[c].cutoff \in SUBSET (1..saves)

\* Each place belongs to one operation, and to a key where it has one.
AtPlace(c) ==
    /\ call[c].pc = "put" => call[c].op = "save"
    /\ call[c].pc \in {"head", "get"} => call[c].op = "load"
    /\ call[c].pc \in {"exists", "delete"} => call[c].op = "delete"
    /\ call[c].pc \in {"list", "purge"} => call[c].op = "clean"
    /\ call[c].pc \in {"put", "head", "get", "exists", "delete"} => call[c].key \in Keys
    /\ call[c].pc # "done" => ~call[c].ok

\* Between the two requests of a load the object may only have been replaced by
\* a later one, or be gone.
LoadInv(c) ==
    /\ call[c].pc = "get" /\ backend = "gcp" =>
         /\ call[c].meta # 0
         /\ objects[call[c].key] = 0 \/ call[c].meta <= objects[call[c].key]
    /\ Answered(c, "load") =>
         /\ call[c].meta = 0 <=> call[c].data = 0
         /\ call[c].meta <= call[c].data
         /\ backend = "aws" => call[c].meta = call[c].data

\* A deletion remembers an object, and what is gone does not come back.
DeleteInv(c) ==
    /\ call[c].pc = "delete" => call[c].found # 0
    /\ Answered(c, "delete") /\ call[c].ok =>
         /\ call[c].key \in Keys /\ call[c].found # 0
         /\ objects[call[c].key] # call[c].found

\* Every old object is still ahead of the listing, or doomed.
CleanInv(c) ==
    /\ call[c].pc = "list" =>
         \A k \in Keys : k <= call[c].after /\ objects[k] \in call[c].cutoff
                           => k \in call[c].doomed
    /\ call[c].pc = "purge" /\ ~call[c].failed =>
         \A k \in Keys : objects[k] \in call[c].cutoff => k \in call[c].doomed
    /\ Answered(c, "clean") /\ ~call[c].failed =>
         \A k \in Keys : objects[k] \notin call[c].cutoff

Knows(c) == Bounded(c) /\ AtPlace(c) /\ LoadInv(c) /\ DeleteInv(c) /\ CleanInv(c)

Inv ==
    /\ TypeOK
    /\ \A k \in Keys : objects[k] <= saves
    /\ \A c \in Clients : Knows(c)

LEMMA InitInv == Init => Inv
<1> SUFFICES ASSUME Init PROVE Inv
  OBVIOUS
<1>1. TypeOK
  BY ConstantsAssumption
  DEF Init, TypeOK, Idle, Call, Places, Operations, Number, Keys
<1>2. \A k \in Keys : objects[k] <= saves
  BY DEF Init
<1>3. ASSUME NEW c \in Clients PROVE Knows(c)
  BY DEF Init, Knows, Idle, Bounded, AtPlace, LoadInv, DeleteInv, CleanInv, Answered
<1> QED
  BY <1>1, <1>2, <1>3 DEF Inv

\* The ways a step may change the bucket.
BucketMoves ==
    /\ saves' \in Number /\ saves <= saves'
    /\ objects' \in [Keys -> Number]
    /\ \A k \in Keys :
         \/ objects'[k] \in {0, objects[k]}
         \/ saves < objects'[k] /\ objects'[k] <= saves'

LEMMA BucketStays ==
  ASSUME Inv, UNCHANGED <<objects, saves>>
  PROVE  BucketMoves
  BY DEF Inv, TypeOK, BucketMoves, Number

\* What a call knows survives a step of another one.
LEMMA OthersKnow ==
  ASSUME Inv, BucketMoves, backend' = backend,
         NEW c \in Clients, call'[c] = call[c]
  PROVE  Knows(c)'
<1> DEFINE me == call[c]
<1>1. /\ me \in Call /\ Knows(c) /\ saves \in Nat /\ saves' \in Nat
      /\ \A k \in Keys : objects[k] \in Nat /\ objects'[k] \in Nat /\ objects[k] <= saves
      /\ me.meta \in Nat /\ me.found \in Nat
  BY ConstantsAssumption DEF Inv, TypeOK, BucketMoves, Number, Call
<1>2. Bounded(c)'
  BY <1>1 DEF Knows, Bounded, BucketMoves
<1>3. AtPlace(c)'
  BY <1>1 DEF Knows, AtPlace
<1>4. LoadInv(c)'
  BY <1>1 DEF Knows, LoadInv, AtPlace, Bounded, Answered, BucketMoves
<1>5. DeleteInv(c)'
  BY <1>1 DEF Knows, DeleteInv, AtPlace, Bounded, Answered, BucketMoves
<1>6. CleanInv(c)'
  BY <1>1 DEF Knows, CleanInv, Bounded, Answered, BucketMoves
<1> QED
  BY <1>2, <1>3, <1>4, <1>5, <1>6 DEF Knows

\* So a step of call c keeps the invariant if the bucket moves as it may and c
\* knows what it should afterwards.
LEMMA StepOf ==
  ASSUME Inv, NEW c \in Clients, NEW new \in Call, Become(c, new),
         BucketMoves, backend' = backend, aged' = aged,
         new.pc = "list" => \A k \in new.doomed : k <= new.after,
         Knows(c)'
  PROVE  Inv'
<1>1. call' \in [Clients -> Call] /\ call'[c] = new
  BY DEF Inv, TypeOK, Become
<1>2. ASSUME NEW d \in Clients, d # c PROVE call'[d] = call[d]
  BY <1>2 DEF Inv, TypeOK, Become
<1>3. saves \in Nat /\ saves' \in Nat /\ saves <= saves'
  BY ConstantsAssumption DEF Inv, TypeOK, BucketMoves, Number
<1>4. aged' \subseteq 1..saves'
  BY <1>3 DEF Inv, TypeOK
<1>5. TypeOK'
  BY <1>1, <1>2, <1>4 DEF Inv, TypeOK, BucketMoves
<1>6. \A k \in Keys : objects'[k] <= saves'
  BY <1>3, ConstantsAssumption DEF Inv, TypeOK, BucketMoves, Number
<1>7. ASSUME NEW d \in Clients PROVE Knows(d)'
  BY <1>2, OthersKnow
<1> QED
  BY <1>5, <1>6, <1>7 DEF Inv

LEMMA StartInv == ASSUME Inv, NEW c \in Clients, Start(c) PROVE Inv'
<1>1. BucketMoves /\ UNCHANGED <<backend, objects, saves, aged>>
  BY BucketStays DEF Start, Bucket
<1>2. /\ 0 \in Number /\ saves \in Nat /\ call \in [Clients -> Call]
      /\ aged \in SUBSET (1..MaxSaves) /\ aged \in SUBSET (1..saves)
  BY ConstantsAssumption DEF Inv, TypeOK, Number
<1>3. ASSUME NEW k \in Keys, NEW place \in {"put", "head", "get", "exists"},
             NEW op \in {"save", "load", "delete"},
             place = "put" => op = "save", place \in {"head", "get"} => op = "load",
             place = "exists" => op = "delete",
             place = "get" => backend # "gcp",
             Become(c, [Idle EXCEPT !.pc = place, !.op = op, !.key = k])
      PROVE  Inv'
  <2> DEFINE new == [Idle EXCEPT !.pc = place, !.op = op, !.key = k]
  <2>1. /\ new \in Call /\ call'[c] = new
        /\ new.pc = place /\ new.op = op /\ new.key = k
        /\ new.meta = 0 /\ new.found = 0 /\ ~new.ok /\ new.cutoff = {}
    BY <1>2, <1>3 DEF Become, Places, Operations, Call, Idle
  <2> HIDE DEF new
  <2>2. Knows(c)'
    BY <1>1, <1>2, <1>3, <2>1
    DEF Knows, Bounded, AtPlace, LoadInv, DeleteInv, CleanInv, Answered
  <2> QED
    BY <1>1, <1>3, <2>1, <2>2, StepOf DEF new
<1>4. ASSUME Become(c, [Idle EXCEPT !.pc = "list", !.op = "clean", !.cutoff = aged])
      PROVE  Inv'
  <2> DEFINE new == [Idle EXCEPT !.pc = "list", !.op = "clean", !.cutoff = aged]
  <2>1. /\ new \in Call /\ call'[c] = new
        /\ new.pc = "list" /\ new.op = "clean" /\ new.cutoff = aged
        /\ new.meta = 0 /\ new.found = 0 /\ ~new.ok /\ new.doomed = {} /\ new.after = 0
    BY <1>2, <1>4 DEF Become, Places, Operations, Call, Idle
  <2> HIDE DEF new
  <2>2. \A k \in Keys : ~(k <= 0)
    BY ConstantsAssumption DEF Keys
  <2>3. Knows(c)'
    BY <1>1, <1>2, <2>1, <2>2
    DEF Knows, Bounded, AtPlace, LoadInv, DeleteInv, CleanInv, Answered
  <2> QED
    BY <1>1, <1>4, <2>1, <2>3, StepOf DEF new
<1> QED
  BY <1>3, <1>4 DEF Start

LEMMA SaveInv == ASSUME Inv, NEW c \in Clients, Save(c) PROVE Inv'
<1> USE DEF Places, Operations
<1> DEFINE new == [call[c] EXCEPT !.pc = "done"]
<1>1. /\ call[c] \in Call /\ call \in [Clients -> Call]
      /\ saves \in Nat /\ saves + 1 \in Number /\ Knows(c) /\ objects \in [Keys -> Number]
  BY ConstantsAssumption DEF Inv, TypeOK, Number, Save
<1>2. new \in Call /\ call'[c] = new /\ new.pc # "list"
  BY <1>1 DEF Call, Save, Become
<1>3. BucketMoves
  <2>1. objects' \in [Keys -> Number] /\ saves' = saves + 1
    BY <1>1 DEF Save
  <2>2. ASSUME NEW k \in Keys PROVE objects'[k] = objects[k] \/ objects'[k] = saves + 1
    BY <1>1 DEF Save
  <2> QED
    BY <1>1, <2>1, <2>2 DEF BucketMoves
<1>4. Knows(c)'
  BY <1>1, <1>2
  DEF Knows, Bounded, AtPlace, LoadInv, DeleteInv, CleanInv, Answered, Save, Call, Number
<1> QED
  BY <1>2, <1>3, <1>4, StepOf DEF Save

LEMMA LoadStepInv == ASSUME Inv, NEW c \in Clients, Load(c) PROVE Inv'
<1> DEFINE o == objects[call[c].key]
<1>1. BucketMoves /\ UNCHANGED <<backend, objects, saves, aged>>
  BY BucketStays DEF Load, Bucket
<1>2. /\ call[c] \in Call /\ call \in [Clients -> Call] /\ Knows(c)
      /\ call[c].pc \in {"head", "get"} /\ call[c].op = "load" /\ call[c].key \in Keys
      /\ saves \in Nat /\ 0 \in Number /\ o \in Number /\ o \in Nat /\ o <= saves
      /\ backend \in {"aws", "gcp"} /\ call[c].meta \in Nat /\ call[c].cutoff \in SUBSET (1..saves)
  BY ConstantsAssumption
  DEF Inv, TypeOK, Knows, Bounded, AtPlace, Number, Load, Call
<1>3. ASSUME NEW meta \in Number, NEW data \in Number, meta <= saves,
             meta = 0 <=> data = 0, meta <= data, backend = "aws" => meta = data,
             Finish(c, meta, data)
      PROVE  Inv'
  <2> DEFINE new == [call[c] EXCEPT !.pc = "done", !.meta = meta, !.data = data]
  <2>1. /\ new \in Call /\ call'[c] = new
        /\ new.pc = "done" /\ new.op = "load" /\ new.key = call[c].key
        /\ new.meta = meta /\ new.data = data /\ new.found = call[c].found
        /\ new.cutoff = call[c].cutoff
    BY <1>2, <1>3 DEF Finish, Become, Places, Call
  <2> HIDE DEF new
  <2>2. Knows(c)'
    BY <1>1, <1>2, <1>3, <2>1
    DEF Knows, Bounded, AtPlace, LoadInv, DeleteInv, CleanInv, Answered
  <2> QED
    BY <1>1, <1>3, <2>1, <2>2, StepOf DEF new, Finish
<1>4. CASE call[c].pc \in {"head", "get"} /\ o = 0 /\ Finish(c, 0, 0)
  BY <1>2, <1>3, <1>4
<1>5. CASE call[c].pc = "get" /\ o # 0 /\ AnswerLoad(c, o)
  <2>1. CASE backend = "gcp"
    <3>1. call[c].meta # 0 /\ call[c].meta <= o /\ call[c].meta <= saves
      BY <1>2, <1>5, <2>1 DEF Knows, LoadInv, Bounded
    <3>2. call[c].meta \in Number /\ Finish(c, call[c].meta, o)
      BY <1>2, <1>5, <2>1 DEF AnswerLoad, Call
    <3> QED
      BY <1>2, <1>3, <1>5, <2>1, <3>1, <3>2
  <2>2. CASE backend = "aws"
    BY <1>2, <1>3, <1>5, <2>2 DEF AnswerLoad
  <2> QED
    BY <1>2, <2>1, <2>2
<1>6. CASE /\ call[c].pc = "head" /\ o # 0
           /\ Become(c, [call[c] EXCEPT !.pc = "get", !.meta = o])
  <2> DEFINE new == [call[c] EXCEPT !.pc = "get", !.meta = o]
  <2>1. /\ new \in Call /\ call'[c] = new
        /\ new.pc = "get" /\ new.op = "load" /\ new.key = call[c].key
        /\ new.meta = o /\ new.found = call[c].found /\ new.ok = call[c].ok
        /\ new.cutoff = call[c].cutoff
    BY <1>2, <1>6 DEF Become, Places, Call
  <2> HIDE DEF new
  <2>2. Knows(c)'
    BY <1>1, <1>2, <1>6, <2>1
    DEF Knows, Bounded, AtPlace, LoadInv, DeleteInv, CleanInv, Answered
  <2> QED
    BY <1>1, <1>6, <2>1, <2>2, StepOf DEF new
<1> QED
  BY <1>4, <1>5, <1>6 DEF Load

\* A request of any kind that fails.
LEMMA RejectInv ==
  ASSUME Inv, NEW c \in Clients, call[c].pc # "done", Reject(c),
         UNCHANGED <<backend, objects, saves, aged>>
  PROVE  Inv'
<1> DEFINE new == [call[c] EXCEPT !.pc = "done", !.failed = TRUE, !.meta = 0, !.data = 0]
<1>1. BucketMoves
  BY BucketStays
<1>2. /\ call[c] \in Call /\ call \in [Clients -> Call] /\ Knows(c)
      /\ saves \in Nat /\ 0 \in Number
  BY ConstantsAssumption DEF Inv, TypeOK, Number
<1>3. /\ new \in Call /\ call'[c] = new
      /\ new.pc = "done" /\ new.failed /\ new.meta = 0 /\ new.data = 0
      /\ new.found = call[c].found /\ new.cutoff = call[c].cutoff /\ new.ok = call[c].ok
  BY <1>2 DEF Reject, Become, Places, Call
<1> HIDE DEF new
<1>4. Knows(c)'
  BY <1>1, <1>2, <1>3
  DEF Knows, Bounded, AtPlace, LoadInv, DeleteInv, CleanInv, Answered
<1> QED
  BY <1>1, <1>3, <1>4, StepOf DEF new, Reject

LEMMA FailInv == ASSUME Inv, NEW c \in Clients, Fail(c) PROVE Inv'
  BY RejectInv DEF Fail, Bucket

LEMMA CheckExistsInv == ASSUME Inv, NEW c \in Clients, CheckExists(c) PROVE Inv'
<1> DEFINE o == objects[call[c].key]
<1>1. BucketMoves /\ UNCHANGED <<backend, objects, saves, aged>>
  BY BucketStays DEF CheckExists, Bucket
<1>2. /\ call[c] \in Call /\ call \in [Clients -> Call] /\ Knows(c)
      /\ call[c].pc = "exists" /\ call[c].op = "delete" /\ call[c].key \in Keys
      /\ ~call[c].ok /\ o \in Number /\ o <= saves
      /\ saves \in Nat /\ call[c].cutoff \in SUBSET (1..saves)
  BY DEF Inv, TypeOK, Knows, Bounded, AtPlace, Number, CheckExists
<1>3. CASE o = 0
  <2> DEFINE new == [call[c] EXCEPT !.pc = "done"]
  <2>1. /\ new \in Call /\ call'[c] = new /\ Become(c, new)
        /\ new.pc = "done" /\ new.op = "delete" /\ ~new.ok
        /\ new.meta = call[c].meta /\ new.found = call[c].found
        /\ new.cutoff = call[c].cutoff
    BY <1>2, <1>3 DEF CheckExists, Become, Places, Call
  <2> HIDE DEF new
  <2>2. Knows(c)'
    BY <1>1, <1>2, <2>1
    DEF Knows, Bounded, AtPlace, LoadInv, DeleteInv, CleanInv, Answered
  <2> QED
    BY <1>1, <2>1, <2>2, StepOf
<1>4. CASE o # 0
  <2> DEFINE new == [call[c] EXCEPT !.pc = "delete", !.found = o]
  <2>1. /\ new \in Call /\ call'[c] = new /\ Become(c, new)
        /\ new.pc = "delete" /\ new.op = "delete" /\ new.key = call[c].key /\ ~new.ok
        /\ new.meta = call[c].meta /\ new.found = o /\ new.cutoff = call[c].cutoff
    BY <1>2, <1>4 DEF CheckExists, Become, Places, Call
  <2> HIDE DEF new
  <2>2. Knows(c)'
    BY <1>1, <1>2, <1>4, <2>1
    DEF Knows, Bounded, AtPlace, LoadInv, DeleteInv, CleanInv, Answered
  <2> QED
    BY <1>1, <2>1, <2>2, StepOf
<1> QED
  BY <1>3, <1>4

LEMMA DeleteStepInv == ASSUME Inv, NEW c \in Clients, Delete(c) PROVE Inv'
<1> DEFINE k == call[c].key
<1>1. /\ call[c] \in Call /\ call \in [Clients -> Call] /\ Knows(c)
      /\ call[c].pc = "delete" /\ call[c].op = "delete" /\ k \in Keys
      /\ call[c].found # 0 /\ saves \in Nat /\ saves' = saves /\ 0 \in Number
      /\ objects \in [Keys -> Number] /\ backend' = backend /\ aged' = aged
      /\ call[c].cutoff \in SUBSET (1..saves)
  BY ConstantsAssumption
  DEF Inv, TypeOK, Knows, Bounded, AtPlace, DeleteInv, Number, Delete
<1>2. CASE /\ objects' = [objects EXCEPT ![k] = 0]
           /\ Become(c, [call[c] EXCEPT !.pc = "done", !.ok = TRUE])
  <2> DEFINE new == [call[c] EXCEPT !.pc = "done", !.ok = TRUE]
  <2>1. /\ new \in Call /\ call'[c] = new
        /\ new.pc = "done" /\ new.op = "delete" /\ new.key = k
        /\ new.meta = call[c].meta /\ new.found = call[c].found
        /\ new.cutoff = call[c].cutoff
    BY <1>1, <1>2 DEF Become, Places, Call
  <2> HIDE DEF new
  <2>2. BucketMoves
    BY <1>1, <1>2 DEF BucketMoves, Inv, TypeOK, Number
  <2>3. objects'[k] = 0
    BY <1>1, <1>2
  <2>4. Knows(c)'
    BY <1>1, <2>1, <2>3
    DEF Knows, Bounded, AtPlace, LoadInv, DeleteInv, CleanInv, Answered
  <2> QED
    BY <1>1, <1>2, <2>1, <2>2, <2>4, StepOf DEF new
<1>3. CASE Reject(c) /\ UNCHANGED objects
  BY <1>1, <1>3, RejectInv
<1> QED
  BY <1>2, <1>3 DEF Delete

LEMMA ListPageInv == ASSUME Inv, NEW c \in Clients, ListPage(c) PROVE Inv'
<1>1. BucketMoves /\ UNCHANGED <<backend, objects, saves, aged>>
  BY BucketStays DEF ListPage, Bucket
<1>2. /\ call[c] \in Call /\ call \in [Clients -> Call] /\ Knows(c)
      /\ call[c].pc = "list" /\ call[c].op = "clean" /\ ~call[c].ok
      /\ saves \in Nat /\ call[c].cutoff \in SUBSET (1..saves)
      /\ call[c].after \in Nat /\ call[c].doomed \in SUBSET Keys
      /\ \A k \in call[c].doomed : k <= call[c].after
  <2>1. call[c].pc = "list"
    BY DEF ListPage
  <2>2. call \in [Clients -> Call] /\ call[c] \in Call /\ Knows(c) /\ saves \in Nat
    BY ConstantsAssumption DEF Inv, TypeOK, Number
  <2>3. \A k \in call[c].doomed : k <= call[c].after
    BY <2>1 DEF Inv, TypeOK
  <2>4. call[c].after \in Nat /\ call[c].doomed \in SUBSET Keys
    BY <2>2 DEF Call, Keys
  <2> QED
    BY <2>1, <2>2, <2>3, <2>4 DEF Knows, Bounded, AtPlace
<1>3. PICK n \in 1..PageSize :
        LET page == First(n, Following(c))
            doomed == call[c].doomed \cup {k \in page : objects[k] \in call[c].cutoff}
        IN Become(c, IF GoesOn(c, page)
                     THEN [call[c] EXCEPT !.after = NextToken(c, page), !.doomed = doomed]
                     ELSE [call[c] EXCEPT !.pc = "purge", !.doomed = doomed])
  BY DEF ListPage
<1> DEFINE page == First(n, Following(c))
           found == {k \in page : objects[k] \in call[c].cutoff}
           doomed == call[c].doomed \cup found
<1>4. page \in SUBSET Keys /\ page \in SUBSET Following(c) /\ doomed \in SUBSET Keys
  BY <1>2 DEF First, Following
\* An old object after the last page is one the list has still to return.
<1>5. ASSUME NEW k \in Keys, objects[k] \in call[c].cutoff
      PROVE  (k <= call[c].after /\ k \in call[c].doomed) \/ k \in Following(c)
  <2>1. objects[k] # 0
    BY <1>2, <1>5
  <2>2. k \in Nat
    BY DEF Keys
  <2> QED
    BY <1>2, <1>5, <2>1, <2>2 DEF Knows, CleanInv, Following
<1>6. CASE GoesOn(c, page)
  <2> DEFINE new == [call[c] EXCEPT !.after = NextToken(c, page), !.doomed = doomed]
  <2>0. Become(c, new)
    BY <1>3, <1>6
  <2>1. /\ NextToken(c, page) \in page
        /\ \A j \in page : j <= NextToken(c, page)
        /\ \A k \in Following(c) : k <= NextToken(c, page) => k \in page
    BY <1>6, PageEnds DEF GoesOn
  <2>2. NextToken(c, page) \in Keys /\ call[c].after < NextToken(c, page)
    BY <1>2, <1>4, <2>1 DEF Following, Keys
  <2> HIDE DEF page
  <2>3. /\ new \in Call /\ call'[c] = new
        /\ new.pc = "list" /\ new.op = "clean" /\ ~new.ok
        /\ new.meta = call[c].meta /\ new.found = call[c].found
        /\ new.cutoff = call[c].cutoff
        /\ new.after = NextToken(c, page) /\ new.doomed = doomed
    BY <1>2, <1>4, <2>0, <2>2 DEF Become, Call
  <2>4. \A k \in doomed : k <= NextToken(c, page)
    <3>1. \A k \in doomed : k \in Nat
      BY <1>4 DEF Keys
    <3> QED
      BY <1>2, <2>1, <2>2, <3>1 DEF Keys
  <2>5. \A k \in Keys : k <= NextToken(c, page) /\ objects[k] \in call[c].cutoff
                          => k \in doomed
    BY <1>5, <2>1
  <2> HIDE DEF new, doomed
  <2>6. Knows(c)'
    BY <1>1, <1>2, <2>3, <2>5
    DEF Knows, Bounded, AtPlace, LoadInv, DeleteInv, CleanInv, Answered
  <2> QED
    BY <1>1, <2>0, <2>3, <2>4, <2>6, StepOf
<1>7. CASE ~GoesOn(c, page)
  <2> DEFINE new == [call[c] EXCEPT !.pc = "purge", !.doomed = doomed]
  <2>0. Become(c, new) /\ page = Following(c)
    BY <1>3, <1>7 DEF GoesOn
  <2> HIDE DEF page
  <2>1. /\ new \in Call /\ call'[c] = new
        /\ new.pc = "purge" /\ new.op = "clean" /\ ~new.ok
        /\ new.meta = call[c].meta /\ new.found = call[c].found
        /\ new.cutoff = call[c].cutoff /\ new.doomed = doomed
    BY <1>2, <1>4, <2>0 DEF Become, Call, Places
  <2>2. \A k \in Keys : objects[k] \in call[c].cutoff => k \in doomed
    BY <1>5, <2>0
  <2> HIDE DEF new, doomed
  <2>3. Knows(c)'
    BY <1>1, <1>2, <2>1, <2>2
    DEF Knows, Bounded, AtPlace, LoadInv, DeleteInv, CleanInv, Answered
  <2> QED
    BY <1>1, <2>0, <2>1, <2>3, StepOf
<1> QED
  BY <1>6, <1>7

LEMMA PurgeInv ==
  ASSUME Inv, NEW c \in Clients, call[c].pc = "purge",
         NEW batch \in SUBSET Keys, Purge(c, batch), UNCHANGED <<backend, saves, aged>>
  PROVE  Inv'
<1>1. PICK gone \in SUBSET batch :
        /\ objects' = [k \in Keys |-> IF k \in gone THEN 0 ELSE objects[k]]
        /\ Become(c, [call[c] EXCEPT !.doomed = call[c].doomed \ batch,
                                     !.failed = call[c].failed \/ gone # batch])
  BY DEF Purge
<1> DEFINE new == [call[c] EXCEPT !.doomed = call[c].doomed \ batch,
                                  !.failed = call[c].failed \/ gone # batch]
<1>2. /\ call[c] \in Call /\ call \in [Clients -> Call] /\ Knows(c)
      /\ call[c].op = "clean" /\ ~call[c].ok
      /\ saves \in Nat /\ call[c].cutoff \in SUBSET (1..saves)
      /\ objects \in [Keys -> Number] /\ 0 \in Number
  BY ConstantsAssumption DEF Inv, TypeOK, Knows, Bounded, AtPlace, Number
<1>3. /\ new \in Call /\ call'[c] = new
      /\ new.pc = "purge" /\ new.op = "clean" /\ ~new.ok
      /\ new.meta = call[c].meta /\ new.found = call[c].found
      /\ new.cutoff = call[c].cutoff
      /\ new.doomed = call[c].doomed \ batch
      /\ ~new.failed => ~call[c].failed /\ gone = batch
  BY <1>1, <1>2 DEF Become, Call
<1> HIDE DEF new
<1>4. BucketMoves
  <2>1. \A k \in Keys : objects'[k] \in {0, objects[k]}
    BY <1>1
  <2> QED
    BY <1>1, <1>2, <2>1 DEF BucketMoves, Inv, TypeOK, Number
\* What has been deleted is old no more: the cutoff has no 0 in it.
<1>5. ASSUME ~new.failed, NEW k \in Keys, objects'[k] \in call[c].cutoff
      PROVE  k \in call[c].doomed \ batch
  <2>1. k \notin gone /\ objects'[k] = objects[k]
    BY <1>1, <1>2, <1>5
  <2>2. k \in call[c].doomed
    BY <1>2, <1>3, <1>5, <2>1 DEF Knows, CleanInv
  <2> QED
    BY <1>3, <1>5, <2>1, <2>2
<1>6. Knows(c)'
  BY <1>2, <1>3, <1>5
  DEF Knows, Bounded, AtPlace, LoadInv, DeleteInv, CleanInv, Answered
<1> QED
  BY <1>1, <1>3, <1>4, <1>6, StepOf DEF new

LEMMA PurgeSomeInv == ASSUME Inv, NEW c \in Clients, PurgeSome(c) PROVE Inv'
<1>1. call[c].doomed \in SUBSET Keys
  BY DEF Inv, TypeOK, Call
<1>2. First(BatchSize, call[c].doomed) \in SUBSET Keys
  BY <1>1 DEF First
<1>3. \A k \in call[c].doomed : {k} \in SUBSET Keys
  BY <1>1
<1> QED
  BY <1>2, <1>3, PurgeInv DEF PurgeSome

LEMMA PurgeEndsInv == ASSUME Inv, NEW c \in Clients, PurgeEnds(c) PROVE Inv'
<1> DEFINE new == [call[c] EXCEPT !.pc = "done"]
<1>1. BucketMoves /\ UNCHANGED <<backend, objects, saves, aged>>
  BY BucketStays DEF PurgeEnds, Bucket
<1>2. /\ call[c] \in Call /\ call \in [Clients -> Call] /\ Knows(c)
      /\ call[c].pc = "purge" /\ call[c].op = "clean" /\ call[c].doomed = {}
      /\ ~call[c].ok /\ call[c].cutoff \in SUBSET (1..saves)
  BY DEF Inv, TypeOK, Knows, Bounded, AtPlace, PurgeEnds
<1>3. /\ new \in Call /\ call'[c] = new /\ Become(c, new)
      /\ new.pc = "done" /\ new.op = "clean" /\ ~new.ok /\ new.failed = call[c].failed
      /\ new.meta = call[c].meta /\ new.found = call[c].found
      /\ new.cutoff = call[c].cutoff
  BY <1>2 DEF PurgeEnds, Become, Places, Call
<1> HIDE DEF new
<1>4. Knows(c)'
  BY <1>1, <1>2, <1>3
  DEF Knows, Bounded, AtPlace, LoadInv, DeleteInv, CleanInv, Answered
<1> QED
  BY <1>1, <1>3, <1>4, StepOf

\* Ageing changes no call and no object.
LEMMA AgeInv == ASSUME Inv, Age PROVE Inv'
<1>1. UNCHANGED <<backend, objects, saves, call>>
  BY DEF Age
<1>2. aged' \subseteq 1..saves'
  <2>1. PICK n \in Stored \ aged : aged' = aged \cup {n}
    BY DEF Age
  <2>2. n \in 1..saves
    BY <2>1, ConstantsAssumption DEF Stored, Inv, TypeOK, Number
  <2> QED
    BY <1>1, <2>1, <2>2 DEF Inv, TypeOK
<1>3. TypeOK'
  BY <1>1, <1>2 DEF Inv, TypeOK
<1>4. ASSUME NEW c \in Clients PROVE Knows(c)'
  BY <1>1, BucketStays, OthersKnow
<1> QED
  BY <1>1, <1>3, <1>4 DEF Inv

LEMMA StepInv == Inv /\ [Next]_vars => Inv'
<1> SUFFICES ASSUME Inv, [Next]_vars PROVE Inv'
  OBVIOUS
<1>1. ASSUME NEW c \in Clients, Step(c) PROVE Inv'
  BY <1>1, SaveInv, LoadStepInv, CheckExistsInv, DeleteStepInv, ListPageInv,
     PurgeSomeInv, PurgeEndsInv DEF Step
<1>2. ASSUME UNCHANGED vars PROVE Inv'
  <2>1. UNCHANGED <<backend, objects, saves, aged, call>>
    BY <1>2 DEF vars
  <2>2. TypeOK'
    BY <2>1 DEF Inv, TypeOK
  <2>3. ASSUME NEW c \in Clients PROVE Knows(c)'
    BY <2>1, BucketStays, OthersKnow
  <2> QED
    BY <2>1, <2>2, <2>3 DEF Inv
<1> QED
  BY <1>1, <1>2, StartInv, FailInv, AgeInv DEF Next

LEMMA Invariance == Spec => []Inv
  BY InitInv, StepInv, PTL DEF Spec

-----------------------------------------------------------------------------
\* The types, and that a listing does not come back to a key it means to delete.
THEOREM TypeCorrect == Spec => []TypeOK
<1>1. Inv => TypeOK
  BY DEF Inv
<1> QED
  BY <1>1, Invariance, PTL

\* loadData: what is answered is from one save with S3, and the bytes are never
\* older than their content type with GCS.
THEOREM LoadsStayOrdered == Spec => []LoadsAreOrdered
<1>1. Inv => LoadsAreOrdered
  BY DEF Inv, Knows, LoadInv, LoadsAreOrdered
<1> QED
  BY <1>1, Invariance, PTL

\* deleteData: when it has answered true, the object it found never comes back.
THEOREM DeletedStaysGone == Spec => []DeletedIsGone
<1>1. Inv => DeletedIsGone
  BY DEF Inv, Knows, DeleteInv, DeletedIsGone
<1> QED
  BY <1>1, Invariance, PTL

\* deleteDataOlderThan: a clean-up without failures leaves no object that was too
\* old when it began, whatever other calls do to the bucket while it lists pages
\* and deletes batches.
THEOREM CleanupsAreComplete == Spec => []CleanupIsComplete
<1>1. Inv => CleanupIsComplete
  BY DEF Inv, Knows, CleanInv, CleanupIsComplete
<1> QED
  BY <1>1, Invariance, PTL
=============================================================================
