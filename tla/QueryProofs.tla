---------------------------- MODULE QueryProofs ----------------------------
(***************************************************************************)
(* Proofs about Query, for any clients, limits, algorithms, redirects and  *)
(* sizes.                                                                  *)
(***************************************************************************)
EXTENDS Query, TLAPS

(* The invariant: one part for each stretch of a request's way. *)

\* What the limiter and the middleware have let through.
FrontInv ==
    /\ pc = "limit" => config.limiter # "off"
    /\ pc = "raw" => HasRawBody(call.route)
    /\ config.limiter # "off" =>
         \A c \in Clients : reached[c] <= hits[c] /\ reached[c] <= Limit
    /\ OnlyAuthorised

\* Until its handler begins a request holds nothing.
Unstarted ==
    pc \in {"json", "limit", "auth", "raw", "handler"} =>
        /\ hop = 0 /\ fetches = 0 /\ body = "closed" /\ timer = "off"
        /\ extraction = "none" /\ value = "none"

\* The routes that come to a place, and what they have done before.
RouteInv ==
    /\ pc \in Inside => call.route \in QueryRoutes
    /\ pc \in {"validate", "fetch", "headers", "read"} => call.route = "byReference"
    /\ pc \in {"extract", "choose", "find"} /\ call.route = "byReference" => downloaded

\* A redirect is counted when it is followed, a fetch when it is made.
FetchInv ==
    /\ pc = "fetch" => vetted
    /\ fetches <= hop + 1
    /\ pc \in {"validate", "fetch"} => fetches <= hop

BodyInv ==
    /\ BodiesAreReleased
    /\ pc \notin {"headers", "read", "done"} => body = "closed"

ValueInv ==
    /\ pc # "done" => extraction # "error"
    /\ pc \in {"validate", "fetch", "headers", "read", "extract"} =>
         extraction = "none" /\ value = "none"
    /\ pc = "choose" =>
         /\ value \in {"none", "extracted"}
         /\ extraction = "value" <=> value = "extracted"
         /\ wants.alg \in Extractors => extraction \in {"value", "null"}
    /\ HintNeverOverrides

Inv ==
    /\ TypeOK /\ FrontInv /\ Unstarted /\ RouteInv /\ FetchInv /\ BodyInv
    /\ ValueInv /\ TimerIsCleared

\* What is shown of every step that answers.
Documents == IsAnswered => DocumentedStatus(status')
Earns == IsAnswered /\ call.route = "byReference" => EarnedStatus(status')
AnswersWell == Documents /\ Earns

LEMMA InitInv == Init => Inv
<1> SUFFICES ASSUME Init PROVE Inv
  OBVIOUS
<1> USE DEF Init, InitApp, Inside, NoWants
<1>1. TypeOK
  <2>1. hits \in [Clients -> 0..(Limit + 1)] /\ reached \in [Clients -> Nat]
    BY LimitAssumption
  <2>2. call \in [client : Clients, route : Routes]
    BY DEF Routes, OpenRoutes
  <2>3. wants \in Wants
    BY DEF Wants
  <2>4. hop \in 0..MaxRedirects /\ total \in 0..MaxBytes /\ fetches \in Nat
    BY QueryAssumption
  <2> QED
    BY <2>1, <2>2, <2>3, <2>4 DEF TypeOK, Responses
<1>2. FrontInv
  BY LimitAssumption DEF FrontInv, OnlyAuthorised
<1>3. Unstarted /\ RouteInv /\ FetchInv /\ BodyInv /\ ValueInv
  BY DEF Unstarted, RouteInv, FetchInv, BodyInv, BodiesAreReleased, ValueInv, HintNeverOverrides
<1>4. TimerIsCleared
  BY DEF TimerIsCleared
<1> QED
  BY <1>1, <1>2, <1>3, <1>4 DEF Inv

-----------------------------------------------------------------------------
(* On the way to the handlers *)

\* A request that arrives holds nothing yet, which is what the invariant asks of it.
LEMMA ArriveStep == Inv /\ ArriveAnew => Inv' /\ AnswersWell
<1> SUFFICES ASSUME Inv, NEW c \in Clients, NEW route \in Routes, ArriveAnew, Arrive(c, route)
             PROVE  Inv' /\ AnswersWell
  BY DEF ArriveAnew
<1> USE DEF Arrive, ArriveAnew, NoWants, Inside
<1>1. TypeOK'
  <2>1. call' \in [client : Clients, route : Routes]
    OBVIOUS
  <2>2. wants' \in Wants
    BY DEF Wants
  <2>3. hop' \in 0..MaxRedirects /\ total' \in 0..MaxBytes /\ fetches' \in Nat
    BY QueryAssumption
  <2>4. config' \in Configs /\ hits' \in [Clients -> 0..(Limit + 1)] /\ reached' \in [Clients -> Nat]
    BY DEF Inv, TypeOK
  <2> QED
    BY <2>1, <2>2, <2>3, <2>4 DEF TypeOK, Responses
<1>2. FrontInv'
  BY DEF Inv, FrontInv, OnlyAuthorised
<1>3. Unstarted' /\ RouteInv' /\ FetchInv' /\ BodyInv' /\ ValueInv'
  BY DEF Unstarted, RouteInv, FetchInv, BodyInv, BodiesAreReleased, ValueInv, HintNeverOverrides
<1>4. TimerIsCleared' /\ AnswersWell
  BY DEF TimerIsCleared, AnswersWell, Documents, Earns, IsAnswered
<1> QED
  BY <1>1, <1>2, <1>3, <1>4 DEF Inv

LEMMA WindowStep ==
  ASSUME Inv, NEW c \in Clients, NextWindow(c), UNCHANGED queryVars
  PROVE  Inv' /\ AnswersWell
<1> USE DEF NextWindow, queryVars, link, download, clock, lookup, Inside
<1>1. TypeOK'
  BY LimitAssumption DEF Inv, TypeOK
<1>2. FrontInv'
  BY LimitAssumption DEF Inv, TypeOK, FrontInv, OnlyAuthorised
<1>3. Unstarted' /\ RouteInv' /\ FetchInv' /\ BodyInv' /\ ValueInv'
  BY DEF Inv, Unstarted, RouteInv, FetchInv, BodyInv, BodiesAreReleased, ValueInv, HintNeverOverrides
<1>4. TimerIsCleared' /\ AnswersWell
  BY DEF Inv, TimerIsCleared, AnswersWell, Documents, Earns, IsAnswered
<1> QED
  BY <1>1, <1>2, <1>3, <1>4 DEF Inv

\* A process that starts holds nothing.
LEMMA RestartStep == Inv /\ Restart /\ UNCHANGED queryVars => Inv' /\ AnswersWell
<1> SUFFICES ASSUME Inv, Restart, UNCHANGED queryVars PROVE Inv' /\ AnswersWell
  OBVIOUS
<1> USE DEF Restart, queryVars, link, download, clock, lookup, Inside
<1>1. TypeOK'
  BY LimitAssumption DEF Inv, TypeOK
<1>2. FrontInv'
  BY LimitAssumption DEF Inv, TypeOK, FrontInv, OnlyAuthorised
<1>3. Unstarted' /\ RouteInv' /\ FetchInv' /\ BodyInv' /\ ValueInv'
  BY DEF Inv, Unstarted, RouteInv, FetchInv, BodyInv, BodiesAreReleased, ValueInv, HintNeverOverrides
<1>4. TimerIsCleared' /\ AnswersWell
  BY DEF Inv, TimerIsCleared, AnswersWell, Documents, Earns, IsAnswered
<1> QED
  BY <1>1, <1>2, <1>3, <1>4 DEF Inv

LEMMA DocumentedHandlers ==
  ASSUME NEW route \in Routes, NEW s \in HandlerAnswers(route)
  PROVE  s \in Documented(route) \/ (s = 504 /\ route = "byReference")
<1>1. CASE route \in QueryRoutes
  <2>1. HandlerAnswers(route) = QueryAnswers(route)
    BY <1>1 DEF HandlerAnswers, QueryRoutes, StoreRoutes, FetchRoutes, OpenRoutes
  <2>2. CASE route = "getByBinding"
    BY <2>1, <2>2 DEF QueryAnswers, Documented
  <2>3. CASE route = "postByBinding"
    BY <2>1, <2>3 DEF QueryAnswers, Documented
  <2>4. CASE route = "byContent"
    BY <2>1, <2>4 DEF QueryAnswers, Documented
  <2>5. CASE route = "byReference"
    BY <2>1, <2>5 DEF QueryAnswers, Documented
  <2> QED
    BY <1>1, <2>2, <2>3, <2>4, <2>5 DEF QueryRoutes
<1>2. CASE route \in StoreRoutes
  <2>1. HandlerAnswers(route) = StoreAnswers(route)
    BY <1>2 DEF HandlerAnswers, QueryRoutes, StoreRoutes, FetchRoutes, OpenRoutes
  <2>2. CASE route = "postManifest"
    BY <2>1, <2>2 DEF StoreAnswers, Documented
  <2>3. CASE route = "deleteManifest"
    BY <2>1, <2>3 DEF StoreAnswers, Documented
  <2>4. CASE route = "bindings"
    BY <2>1, <2>4 DEF StoreAnswers, Documented
  <2> QED
    BY <1>2, <2>2, <2>3, <2>4 DEF StoreRoutes
<1>3. CASE route \in FetchRoutes
  <2>1. HandlerAnswers(route) = FetchAnswers(route)
    BY <1>3 DEF HandlerAnswers, QueryRoutes, StoreRoutes, FetchRoutes, OpenRoutes
  <2> QED
    BY <1>3, <2>1 DEF FetchRoutes, FetchAnswers, Documented
<1>4. CASE route \in OpenRoutes
  <2>1. HandlerAnswers(route) = ServiceAnswers
    BY <1>4 DEF HandlerAnswers, QueryRoutes, StoreRoutes, FetchRoutes, OpenRoutes
  <2> QED
    BY <1>4, <2>1 DEF OpenRoutes, ServiceAnswers, Documented
<1> QED
  BY <1>1, <1>2, <1>3, <1>4 DEF Routes

\* A step in front of the handlers disturbs nothing of theirs.
LEMMA EarlyStep ==
  ASSUME Inv, UNCHANGED <<call, queryVars>>,
         pc \in {"json", "limit", "auth", "raw", "handler"},
         pc' \in {"done", "limit", "auth", "raw", "handler"},
         pc' = "done" /\ call.route = "byReference" => status' \notin {200, 504}
  PROVE  /\ Unstarted' /\ RouteInv' /\ FetchInv' /\ BodyInv' /\ ValueInv'
         /\ Earns /\ TimerIsCleared'
<1> USE DEF queryVars, link, download, clock, lookup, Inside
<1>1. Unstarted' /\ RouteInv'
  BY DEF Inv, Unstarted, RouteInv
<1>2. FetchInv' /\ BodyInv'
  BY DEF Inv, Unstarted, FetchInv, BodyInv, BodiesAreReleased
<1>3. ValueInv' /\ Earns /\ TimerIsCleared'
  BY DEF Inv, Unstarted, ValueInv, HintNeverOverrides, Earns, IsAnswered, EarnedStatus,
     TimerIsCleared
<1> QED
  BY <1>1, <1>2, <1>3

LEMMA RoutedFacts ==
  ASSUME Inv, Routed, UNCHANGED call
  PROVE  /\ pc' \in {"done", "handler", "auth"}
         /\ pc' = "done" => status' = 404 /\ call.route \in {"unknown", "openapi"}
         /\ pc' # "done" => status' = status
         /\ pc' = "handler" => call.route \in OpenRoutes
BY DEF Routed, AnswerEarly, Pass, OpenRoutes

LEMMA ParseJsonStep == Inv /\ ParseJson /\ UNCHANGED queryVars => Inv' /\ AnswersWell
<1> SUFFICES ASSUME Inv, ParseJson, UNCHANGED queryVars PROVE Inv' /\ AnswersWell
  OBVIOUS
<1>1. /\ pc = "json" /\ UNCHANGED <<config, hits, call, granted>>
      /\ pc' \in {"done", "limit", "auth", "handler"} /\ reached' = reached
      /\ pc' = "limit" => config.limiter # "off"
      /\ pc' = "handler" => call.route \in OpenRoutes
      /\ pc' # "done" => status' = status
      /\ pc' = "done" => \/ status' \in {400, 413, 500}
                         \/ call.route \in {"health", "openapi", "unknown"} /\ status' \in {200, 404}
  BY RoutedFacts DEF Inv, TypeOK, ParseJson, AnswerEarly, Pass, Counted, Routed
<1>2. TypeOK'
  BY <1>1 DEF Inv, TypeOK, queryVars, link, download, clock, lookup
<1>3. FrontInv'
  BY <1>1 DEF Inv, FrontInv, OnlyAuthorised, OpenRoutes
<1>4. Documents
  BY <1>1 DEF Documents, IsAnswered, DocumentedStatus, Documented
<1>5. pc' = "done" /\ call.route = "byReference" => status' \notin {200, 504}
  BY <1>1
<1> QED
  BY <1>1, <1>2, <1>3, <1>4, <1>5, EarlyStep DEF Inv, AnswersWell

LEMMA CountRequestStep == Inv /\ CountRequest /\ UNCHANGED queryVars => Inv' /\ AnswersWell
<1> SUFFICES ASSUME Inv, CountRequest, UNCHANGED queryVars PROVE Inv' /\ AnswersWell
  OBVIOUS
<1>1. /\ pc = "limit" /\ UNCHANGED <<config, call, granted>> /\ config.limiter # "off"
      /\ call.client \in Clients
  BY DEF Inv, TypeOK, FrontInv, CountRequest
<1>2. CASE StoreFails /\ UNCHANGED <<hits, reached>>
  <2>1. pc' = "done" /\ status' = 500
    BY <1>2 DEF StoreFails, AnswerEarly
  <2>2. TypeOK'
    BY <1>1, <1>2, <2>1 DEF Inv, TypeOK, queryVars, link, download, clock, lookup
  <2>3. FrontInv' /\ Documents
    BY <1>1, <1>2, <2>1 DEF Inv, FrontInv, OnlyAuthorised, Documents, IsAnswered, DocumentedStatus, Documented
  <2> QED
    BY <1>1, <2>1, <2>2, <2>3, EarlyStep DEF Inv, AnswersWell
<1>3. CASE /\ hits' = [hits EXCEPT ![call.client] = IF @ > Limit THEN @ ELSE @ + 1]
           /\ hits'[call.client] > Limit
           /\ AnswerEarly(429) /\ UNCHANGED reached
  <2>1. pc' = "done" /\ status' = 429
    BY <1>3 DEF AnswerEarly
  <2>2. TypeOK'
    BY <1>1, <1>3, <2>1, LimitAssumption DEF Inv, TypeOK, queryVars, link, download, clock, lookup
  <2>3. FrontInv' /\ Documents
    BY <1>1, <1>3, <2>1, LimitAssumption
       DEF Inv, TypeOK, FrontInv, OnlyAuthorised, Documents, IsAnswered, DocumentedStatus
  <2> QED
    BY <1>1, <2>1, <2>2, <2>3, EarlyStep DEF Inv, AnswersWell
<1>4. CASE /\ hits' = [hits EXCEPT ![call.client] = IF @ > Limit THEN @ ELSE @ + 1]
           /\ ~(hits'[call.client] > Limit)
           /\ Routed
  <2>1. /\ pc' \in {"done", "handler", "auth"}
        /\ pc' = "done" => status' = 404 /\ call.route \in {"unknown", "openapi"}
        /\ pc' # "done" => status' = status
        /\ pc' = "handler" => call.route \in OpenRoutes
    BY <1>1, <1>4, RoutedFacts
  <2>2. reached' = [reached EXCEPT ![call.client] = @ + 1]
    BY <1>1, <1>4 DEF Routed
  <2>3. TypeOK'
    BY <1>1, <1>4, <2>1, <2>2, LimitAssumption
       DEF Inv, TypeOK, queryVars, link, download, clock, lookup
  <2>4. FrontInv'
    <3>1. \A c \in Clients : reached'[c] <= hits'[c] /\ reached'[c] <= Limit
      BY <1>1, <1>4, <2>2, LimitAssumption DEF Inv, TypeOK, FrontInv
    <3> QED
      BY <1>1, <2>1, <3>1 DEF FrontInv, OnlyAuthorised
  <2>5. Documents
    BY <1>1, <2>1 DEF Documents, IsAnswered, DocumentedStatus, Documented
  <2> QED
    BY <1>1, <2>1, <2>3, <2>4, <2>5, EarlyStep DEF Inv, AnswersWell
<1> QED
  BY <1>2, <1>3, <1>4 DEF CountRequest

LEMMA AuthenticateStep == Inv /\ Authenticate /\ UNCHANGED queryVars => Inv' /\ AnswersWell
<1> SUFFICES ASSUME Inv, Authenticate, UNCHANGED queryVars PROVE Inv' /\ AnswersWell
  OBVIOUS
<1>1. /\ pc = "auth" /\ UNCHANGED <<config, hits, reached, call>>
      /\ call.route \in Routes
  BY DEF Inv, TypeOK, Authenticate
<1>2. \/ pc' = "done" /\ status' = 401 /\ granted' = granted
      \/ /\ pc' = "done" /\ status' = 403
         /\ granted' \in Scopes \cup {"none", "unset"}
      \/ /\ pc' = (IF HasRawBody(call.route) THEN "raw" ELSE "handler") /\ status' = status
         /\ \/ granted' = "unset" /\ config.auth # "jwt"
            \/ granted' = Scope(call.route)
      \/ pc' = "handler" /\ status' = status /\ granted' = granted /\ call.route = "getManifest"
  <2>1. CASE config.auth = "none" /\ AfterAuth("unset")
    BY <2>1 DEF AfterAuth, Permits, Pass, AnswerEarly
  <2>2. CASE config.auth = "custom" /\ AfterAuth("unset")
    BY <2>2 DEF AfterAuth, Permits, Pass, AnswerEarly
  <2>3. ASSUME NEW scope \in Scopes \cup {"none"}, AfterAuth(scope)
        PROVE  \/ pc' = "done" /\ status' = 403 /\ granted' = scope
               \/ /\ pc' = (IF HasRawBody(call.route) THEN "raw" ELSE "handler")
                  /\ status' = status /\ granted' = Scope(call.route)
    BY <2>3 DEF AfterAuth, Permits, Pass, AnswerEarly, Scopes
  <2> QED
    BY <2>1, <2>2, <2>3 DEF Authenticate, AnswerEarly, Pass
<1>3. Scope(call.route) \in Scopes
  BY DEF Scope, Scopes
<1>4. TypeOK'
  BY <1>1, <1>2, <1>3 DEF Inv, TypeOK, queryVars, link, download, clock, lookup
<1>5. FrontInv'
  BY <1>1, <1>2 DEF Inv, FrontInv, OnlyAuthorised
<1>6. Documents
  BY <1>1, <1>2 DEF Documents, IsAnswered, DocumentedStatus, Documented, Routes, QueryRoutes, StoreRoutes, FetchRoutes
<1> QED
  BY <1>1, <1>2, <1>4, <1>5, <1>6, EarlyStep DEF Inv, AnswersWell

LEMMA ReadRawStep == Inv /\ ReadRaw /\ UNCHANGED queryVars => Inv' /\ AnswersWell
<1> SUFFICES ASSUME Inv, ReadRaw, UNCHANGED queryVars PROVE Inv' /\ AnswersWell
  OBVIOUS
<1>1. /\ pc = "raw" /\ UNCHANGED <<config, hits, reached, call, granted>>
      /\ \/ pc' = "handler" /\ status' = status
         \/ pc' = "done" /\ status' \in {413, 500}
  BY DEF ReadRaw, front, Pass, AnswerEarly
<1>2. TypeOK'
  BY <1>1 DEF Inv, TypeOK, queryVars, link, download, clock, lookup
<1>3. FrontInv'
  BY <1>1 DEF Inv, FrontInv, OnlyAuthorised
<1>4. Documents
  BY <1>1 DEF Inv, FrontInv, Documents, IsAnswered, DocumentedStatus, Documented, HasRawBody
<1> QED
  BY <1>1, <1>2, <1>3, <1>4, EarlyStep DEF Inv, AnswersWell

LEMMA HandleOtherStep == Inv /\ HandleOther /\ UNCHANGED queryVars => Inv' /\ AnswersWell
<1> SUFFICES ASSUME Inv, HandleOther, UNCHANGED queryVars PROVE Inv' /\ AnswersWell
  OBVIOUS
<1>1. /\ pc = "handler" /\ UNCHANGED <<config, hits, reached, call, granted>>
      /\ call.route \in Routes \ QueryRoutes
      /\ pc' = "done" /\ status' \in HandlerAnswers(call.route)
  BY DEF Inv, TypeOK, HandleOther, Handle, front, AnswerEarly
<1>2. call.route # "byReference" /\ status' \in Documented(call.route)
  BY <1>1, DocumentedHandlers DEF QueryRoutes
<1>3. TypeOK'
  <2>1. status' \in 200..504
    BY <1>2 DEF Documented
  <2> QED
    BY <1>1, <2>1 DEF Inv, TypeOK, queryVars, link, download, clock, lookup
<1>4. FrontInv'
  BY <1>1 DEF Inv, FrontInv, OnlyAuthorised
<1>5. Documents
  BY <1>1, <1>2 DEF Documents, IsAnswered, DocumentedStatus
<1> QED
  BY <1>1, <1>2, <1>3, <1>4, <1>5, EarlyStep DEF Inv, AnswersWell

-----------------------------------------------------------------------------
(* In the handlers of the query routes *)

LEMMA QueryHandlers ==
  ASSUME NEW route \in QueryRoutes
  PROVE  /\ HandlerAnswers(route) = QueryAnswers(route)
         /\ {200, 400, 500} \subseteq QueryAnswers(route)
         /\ route = "getByBinding" => 414 \in QueryAnswers(route)
         /\ route = "byContent" => 415 \in QueryAnswers(route)
         /\ route = "byReference" => {502, 504} \subseteq QueryAnswers(route)
<1>1. HandlerAnswers(route) = QueryAnswers(route)
  BY DEF HandlerAnswers, QueryRoutes, StoreRoutes, FetchRoutes, OpenRoutes
<1>2. CASE route = "getByBinding"
  BY <1>1, <1>2 DEF QueryAnswers
<1>3. CASE route = "postByBinding"
  BY <1>1, <1>3 DEF QueryAnswers
<1>4. CASE route = "byContent"
  BY <1>1, <1>4 DEF QueryAnswers
<1>5. CASE route = "byReference"
  BY <1>1, <1>5 DEF QueryAnswers
<1> QED
  BY <1>2, <1>3, <1>4, <1>5 DEF QueryRoutes

\* A step of a handler is inside it, leaves it with one of its answers, or rejects.
HandlerGoesOn ==
    /\ UNCHANGED front
    /\ pc \in Inside \cup {"handler"} /\ call.route \in QueryRoutes
    /\ \/ pc' \in Inside /\ status' = status /\ (pc # "handler" => UNCHANGED clock)
       \/ pc' = "done" /\ status' \in HandlerAnswers(call.route) /\ timer' = "off" /\ aborted' = aborted
       \/ pc = "handler" /\ pc' = "rejected" /\ status' = status /\ timer' = "off" /\ aborted' = aborted

LEMMA HandlerStep ==
  ASSUME Inv, HandlerGoesOn
  PROVE  FrontInv' /\ Unstarted' /\ Documents /\ TimerIsCleared'
<1> USE DEF HandlerGoesOn, front, Inside
<1>1. FrontInv'
  BY DEF Inv, FrontInv, OnlyAuthorised, QueryRoutes
<1>2. Unstarted' /\ TimerIsCleared'
  BY DEF Unstarted, TimerIsCleared
<1>3. Documents
  <2>1. call.route \in Routes
    BY DEF Inv, TypeOK
  <2> QED
    BY <2>1, DocumentedHandlers DEF Documents, IsAnswered, DocumentedStatus
<1> QED
  BY <1>1, <1>2, <1>3

LEMMA ThrowFacts ==
  ASSUME Inv, call.route \in QueryRoutes, NEW err \in {"size", "reference", "abort", "other"},
         Throw(err)
  PROVE  /\ pc' = "done" /\ timer' = "off" /\ aborted' = aborted
         /\ status' \in HandlerAnswers(call.route) /\ status' # 200
         /\ status' = 504 => aborted \/ err = "abort"
<1>1. /\ pc' = "done" /\ timer' = "off" /\ aborted' = aborted
      /\ status' = StatusOf(err)
  BY DEF Throw, Answer, AnswerEarly
<1>2. aborted \in BOOLEAN
  BY DEF Inv, TypeOK
<1>3. CASE call.route # "byReference"
  BY <1>1, <1>3, QueryHandlers DEF StatusOf
<1>4. CASE call.route = "byReference"
  <2>1. CASE err = "size"
    BY <1>1, <1>4, <2>1, QueryHandlers DEF StatusOf
  <2>2. CASE err # "size" /\ (aborted \/ err = "abort")
    <3>1. StatusOf(err) = 504
      BY <1>2, <1>4, <2>2 DEF StatusOf
    <3> QED
      BY <1>1, <1>4, <2>2, <3>1, QueryHandlers
  <2>3. CASE err = "reference" /\ ~aborted
    BY <1>1, <1>4, <2>3, QueryHandlers DEF StatusOf
  <2>4. CASE err = "other" /\ ~aborted
    BY <1>1, <1>4, <2>4, QueryHandlers DEF StatusOf
  <2> QED
    BY <2>1, <2>2, <2>3, <2>4
<1> QED
  BY <1>3, <1>4

\* What is left to show of a step of a handler.
LEMMA HandlerKeeps ==
  ASSUME Inv, HandlerGoesOn,
         wants' \in Wants, hop' \in 0..MaxRedirects, vetted' \in BOOLEAN, fetches' \in Nat,
         response' \in Responses, body' \in {"open", "closed"}, total' \in 0..MaxBytes,
         timer' \in {"off", "armed", "fired"}, downloaded' \in BOOLEAN, aborted' = aborted,
         extraction' \in {"none", "value", "null", "error"},
         value' \in {"none", "given", "extracted", "hint"},
         RouteInv', FetchInv', BodyInv', ValueInv', Earns
  PROVE  Inv' /\ AnswersWell
<1>1. status' \in {0} \cup 200..504
  <2>1. CASE status' = status
    BY <2>1 DEF Inv, TypeOK
  <2>2. CASE status' \in HandlerAnswers(call.route)
    <3>1. call.route \in Routes
      BY DEF Inv, TypeOK
    <3> QED
      BY <2>2, <3>1, DocumentedHandlers DEF Documented
  <2> QED
    BY <2>1, <2>2 DEF HandlerGoesOn
<1>2. TypeOK'
  BY <1>1 DEF Inv, TypeOK, HandlerGoesOn, front
<1> QED
  BY <1>2, HandlerStep DEF Inv, AnswersWell

LEMMA AskStep ==
  ASSUME Inv, UNCHANGED front, AskByBinding \/ AskByContent \/ AskByReference
  PROVE  Inv' /\ HandlerGoesOn /\ AnswersWell
<1> DEFINE Refused ==
             /\ pc' = "done" /\ status' \in HandlerAnswers(call.route) \ {200, 504}
             /\ timer' = "off" /\ UNCHANGED <<aborted, link, download, lookup>>
           Accepted ==
             \E place \in Inside, asked \in Wants, from \in {"none", "given"},
                clockNow \in {"off", "armed"} :
                /\ Accept(place, asked, from, clockNow)
                /\ \/ place = "find" /\ call.route # "byReference" /\ from = "given"
                   \/ place \in {"choose", "extract"} /\ call.route = "byContent" /\ from = "none"
                      /\ place = AfterBody(asked.alg)
                   \/ place = "validate" /\ call.route = "byReference" /\ from = "none"
<1>1. pc = "handler" /\ call.route \in QueryRoutes
  BY DEF AskByBinding, AskByContent, AskByReference, QueryRoutes
<1>2. Refused \/ Accepted \/ Reject
  <2>1. CASE AskByBinding
    <3>1. /\ 400 \in HandlerAnswers(call.route)
          /\ call.route = "getByBinding" => 414 \in HandlerAnswers(call.route)
      BY <1>1, QueryHandlers
    <3>2. NoWants \in Wants
      BY DEF NoWants, Wants
    <3>3. ASSUME Accept("find", NoWants, "given", "off") PROVE Accepted
      <4>1. "find" \in Inside /\ call.route # "byReference"
        BY <2>1 DEF AskByBinding, Inside
      <4> QED
        BY <3>2, <3>3, <4>1
    <3>4. Refuse(400) => Refused
      BY <3>1 DEF Refuse, Answer, AnswerEarly
    <3>5. call.route = "getByBinding" /\ Refuse(414) => Refused
      BY <3>1 DEF Refuse, Answer, AnswerEarly
    <3> QED
      BY <2>1, <3>3, <3>4, <3>5 DEF AskByBinding
  <2>2. CASE AskByContent
    <3>1. {400, 415} \subseteq HandlerAnswers(call.route)
      BY <1>1, <2>2, QueryHandlers DEF AskByContent
    <3>2. ASSUME NEW asked \in Wants, Accept(AfterBody(asked.alg), asked, "none", "off")
          PROVE  Accepted
      <4>1. AfterBody(asked.alg) \in {"choose", "extract"} /\ {"choose", "extract"} \subseteq Inside
        BY DEF AfterBody, Inside
      <4> QED
        BY <2>2, <3>2, <4>1 DEF AskByContent
    <3>3. Refuse(400) \/ Refuse(415) => Refused
      BY <3>1 DEF Refuse, Answer, AnswerEarly
    <3> QED
      BY <2>2, <3>2, <3>3 DEF AskByContent
  <2>3. CASE AskByReference
    <3>1. 400 \in HandlerAnswers(call.route)
      BY <1>1, QueryHandlers
    <3>2. Refuse(400) => Refused
      BY <3>1 DEF Refuse, Answer, AnswerEarly
    <3>3. ASSUME NEW asked \in Wants, Accept("validate", asked, "none", "armed")
          PROVE  Accepted
      <4>1. "validate" \in Inside
        BY DEF Inside
      <4> QED
        BY <2>3, <3>3, <4>1 DEF AskByReference
    <3> QED
      BY <2>3, <3>2, <3>3 DEF AskByReference
  <2> QED
    BY <2>1, <2>2, <2>3
<1>3. CASE Refused
  <2>1. HandlerGoesOn
    BY <1>1, <1>3 DEF HandlerGoesOn
  <2>2. RouteInv' /\ FetchInv' /\ BodyInv' /\ ValueInv' /\ Earns
    BY <1>1, <1>3 DEF Inv, RouteInv, FetchInv, BodyInv, BodiesAreReleased, ValueInv,
       HintNeverOverrides, Earns, IsAnswered, EarnedStatus, Inside, link, download, lookup
  <2> QED
    BY <1>3, <2>1, <2>2, HandlerKeeps DEF Inv, TypeOK, link, download, lookup
<1>4. CASE Accepted
  <2>1. PICK place \in Inside, asked \in Wants, from \in {"none", "given"},
             clockNow \in {"off", "armed"} :
               /\ Accept(place, asked, from, clockNow)
               /\ \/ place = "find" /\ call.route # "byReference" /\ from = "given"
                  \/ place \in {"choose", "extract"} /\ call.route = "byContent" /\ from = "none"
                     /\ place = AfterBody(asked.alg)
                  \/ place = "validate" /\ call.route = "byReference" /\ from = "none"
    BY <1>4
  <2>2. /\ pc' = place /\ status' = status /\ wants' = asked /\ value' = from /\ timer' = clockNow
        /\ UNCHANGED <<hop, vetted, fetches, response, body, total, downloaded, aborted, extraction>>
    BY <2>1 DEF Accept, Pass, link, download
  <2>3. HandlerGoesOn
    BY <1>1, <2>2 DEF HandlerGoesOn, front
  <2>4. RouteInv' /\ FetchInv' /\ BodyInv' /\ Earns
    BY <1>1, <2>1, <2>2 DEF Inv, Unstarted, RouteInv, FetchInv, BodyInv, BodiesAreReleased,
       Earns, IsAnswered, front, Inside
  <2>5. ValueInv'
    <3>1. place = "choose" => asked.alg \notin Extractors
      BY <2>1, QueryAssumption DEF AfterBody
    <3> QED
      BY <1>1, <2>1, <2>2, <3>1 DEF Inv, Unstarted, ValueInv, HintNeverOverrides, Inside
  <2> QED
    BY <2>1, <2>2, <2>3, <2>4, <2>5, HandlerKeeps DEF Inv, TypeOK
<1>5. CASE Reject
  <2>1. pc' = "rejected" /\ status' = status /\ UNCHANGED queryVars
    BY <1>5 DEF Reject, HandlerRejects, Pass
  <2>2. HandlerGoesOn
    BY <1>1, <2>1 DEF HandlerGoesOn, queryVars, clock, Inv, Unstarted
  <2>3. RouteInv' /\ FetchInv' /\ BodyInv' /\ ValueInv' /\ Earns
    BY <1>1, <2>1 DEF Inv, Unstarted, RouteInv, FetchInv, BodyInv, BodiesAreReleased, ValueInv,
       HintNeverOverrides, Earns, IsAnswered, Inside, queryVars, link, download, lookup, clock
  <2>4. /\ wants' \in Wants /\ hop' \in 0..MaxRedirects /\ vetted' \in BOOLEAN /\ fetches' \in Nat
        /\ response' \in Responses /\ body' \in {"open", "closed"} /\ total' \in 0..MaxBytes
        /\ timer' \in {"off", "armed", "fired"} /\ downloaded' \in BOOLEAN /\ aborted' = aborted
        /\ extraction' \in {"none", "value", "null", "error"}
        /\ value' \in {"none", "given", "extracted", "hint"}
    BY <2>1 DEF Inv, TypeOK, queryVars, link, download, lookup, clock
  <2> QED
    BY <2>2, <2>3, <2>4, HandlerKeeps
<1> QED
  BY <1>2, <1>3, <1>4, <1>5

(* The three ways on from a place of a handler: to the next, and out. *)

LEMMA GoToFacts ==
  ASSUME Inv, UNCHANGED front, pc \in Inside, NEW place \in Inside, GoTo(place)
  PROVE  HandlerGoesOn /\ pc' = place /\ timer' = timer /\ aborted' = aborted
BY DEF Inv, RouteInv, HandlerGoesOn, GoTo, Pass, clock

LEMMA AnswerFacts ==
  ASSUME Inv, UNCHANGED front, pc \in Inside, NEW s \in HandlerAnswers(call.route), Answer(s)
  PROVE  HandlerGoesOn /\ pc' = "done" /\ status' = s /\ timer' = "off" /\ aborted' = aborted
BY DEF Inv, RouteInv, HandlerGoesOn, Answer, AnswerEarly

LEMMA ErrorFacts ==
  ASSUME Inv, UNCHANGED front, pc \in Inside,
         NEW err \in {"size", "reference", "abort", "other"}, Throw(err)
  PROVE  /\ HandlerGoesOn /\ pc' = "done" /\ timer' = "off" /\ aborted' = aborted
         /\ status' # 200
         /\ (status' = 504 => aborted \/ err = "abort")
<1>1. call.route \in QueryRoutes
  BY DEF Inv, RouteInv
<1> QED
  BY <1>1, ThrowFacts DEF HandlerGoesOn

LEMMA AnswersInside ==
  ASSUME Inv, pc \in Inside
  PROVE  /\ {200, 400, 500} \subseteq HandlerAnswers(call.route)
         /\ pc \in {"validate", "fetch", "headers", "read"} =>
              call.route = "byReference" /\ 502 \in HandlerAnswers(call.route)
BY QueryHandlers DEF Inv, RouteInv

\* Whoever leaves a handler has only its answer, the count of its fetches and the body
\* of its download to account for.
LEMMA Leaving ==
  ASSUME Inv, HandlerGoesOn, pc' = "done", aborted' = aborted,
         status' = 504 => aborted \/ pc \in {"extract", "find"},
         status' = 200 /\ call.route = "byReference" => downloaded /\ extraction # "error",
         fetches' <= hop' + 1,
         body' = "open" => wants'.type = "other" /\ response' \in {"ok", "wrongType"}
  PROVE  RouteInv' /\ FetchInv' /\ BodyInv' /\ ValueInv' /\ Earns
<1>1. RouteInv' /\ FetchInv' /\ ValueInv'
  BY DEF RouteInv, FetchInv, ValueInv, HintNeverOverrides, Inside
<1>2. BodyInv'
  BY DEF BodyInv, BodiesAreReleased
<1>3. Earns
  BY DEF Earns, IsAnswered, EarnedStatus
<1> QED
  BY <1>1, <1>2, <1>3

LEMMA ValidateStep == Inv /\ Validate /\ UNCHANGED front => Inv' /\ HandlerGoesOn /\ AnswersWell
<1> SUFFICES ASSUME Inv, Validate, UNCHANGED front PROVE Inv' /\ HandlerGoesOn /\ AnswersWell
  OBVIOUS
<1>1. /\ pc = "validate" /\ pc \in Inside /\ "fetch" \in Inside
      /\ UNCHANGED <<hop, fetches, response, body, total, downloaded, wants, extraction, value>>
  BY DEF Validate, Inside, download, lookup
<1>2. CASE GoTo("fetch") /\ vetted' = TRUE
  <2>1. HandlerGoesOn /\ pc' = "fetch" /\ timer' = timer /\ aborted' = aborted
    BY <1>1, <1>2, GoToFacts
  <2>2. RouteInv' /\ FetchInv' /\ BodyInv' /\ ValueInv' /\ Earns
    BY <1>1, <1>2, <2>1 DEF Inv, RouteInv, FetchInv, BodyInv, BodiesAreReleased, ValueInv,
       HintNeverOverrides, Earns, IsAnswered, Inside, front
  <2> QED
    BY <1>1, <1>2, <2>1, <2>2, HandlerKeeps DEF Inv, TypeOK
<1>3. CASE Throw("reference") /\ UNCHANGED vetted
  <2>1. /\ HandlerGoesOn /\ pc' = "done" /\ timer' = "off" /\ aborted' = aborted
        /\ status' # 200
        /\ (status' = 504 => aborted)
    BY <1>1, <1>3, ErrorFacts
  <2>2. RouteInv' /\ FetchInv' /\ BodyInv' /\ ValueInv' /\ Earns
    BY <1>1, <2>1, Leaving DEF Inv, FetchInv, BodyInv
  <2> QED
    BY <1>1, <1>3, <2>1, <2>2, HandlerKeeps DEF Inv, TypeOK
<1> QED
  BY <1>2, <1>3 DEF Validate

LEMMA FetchStep == Inv /\ Fetch /\ UNCHANGED front => Inv' /\ HandlerGoesOn /\ AnswersWell
<1> SUFFICES ASSUME Inv, Fetch, UNCHANGED front PROVE Inv' /\ HandlerGoesOn /\ AnswersWell
  OBVIOUS
<1>1. /\ pc = "fetch" /\ pc \in Inside /\ "headers" \in Inside
      /\ fetches' = fetches + 1 /\ fetches \in Nat /\ hop \in Nat
      /\ UNCHANGED <<hop, vetted, total, downloaded, wants, extraction, value>>
      /\ call.route = "byReference"
  BY QueryAssumption DEF Fetch, Inside, lookup, Inv, TypeOK, RouteInv
<1>2. CASE /\ \E err \in {"reference", "other"} : Throw(IF aborted THEN "abort" ELSE err)
           /\ UNCHANGED <<response, body>>
  <2>1. /\ HandlerGoesOn /\ pc' = "done" /\ timer' = "off" /\ aborted' = aborted
        /\ status' # 200
        /\ (status' = 504 => aborted)
    <3>1. CASE aborted
      BY <1>1, <1>2, <3>1, ErrorFacts
    <3>2. CASE ~aborted
      BY <1>1, <1>2, <3>2, ErrorFacts
    <3> QED
      BY <3>1, <3>2
  <2>2. RouteInv' /\ FetchInv' /\ BodyInv' /\ ValueInv' /\ Earns
    <3>1. fetches' <= hop' + 1 /\ body' = "closed"
      BY <1>1, <1>2 DEF Inv, FetchInv, BodyInv
    <3> QED
      BY <1>1, <1>2, <2>1, <3>1, Leaving
  <2> QED
    BY <1>1, <1>2, <2>1, <2>2, HandlerKeeps DEF Inv, TypeOK
<1>3. CASE \E kind \in Responses \ {"none"} :
             GoTo("headers") /\ response' = kind /\ body' = "open"
  <2>1. HandlerGoesOn /\ pc' = "headers" /\ timer' = timer /\ aborted' = aborted
    BY <1>1, <1>3, GoToFacts
  <2>2. RouteInv' /\ FetchInv' /\ BodyInv' /\ ValueInv' /\ Earns
    BY <1>1, <1>3, <2>1 DEF Inv, RouteInv, FetchInv, BodyInv, BodiesAreReleased, ValueInv,
       HintNeverOverrides, Earns, IsAnswered, Inside, front
  <2> QED
    BY <1>1, <1>3, <2>1, <2>2, HandlerKeeps DEF Inv, TypeOK
<1> QED
  BY <1>2, <1>3 DEF Fetch

LEMMA RedirectedStep == Inv /\ Redirected /\ UNCHANGED front => Inv' /\ HandlerGoesOn /\ AnswersWell
<1> SUFFICES ASSUME Inv, Redirected, UNCHANGED front PROVE Inv' /\ HandlerGoesOn /\ AnswersWell
  OBVIOUS
<1>1. /\ pc = "headers" /\ pc \in Inside /\ "validate" \in Inside
      /\ fetches \in Nat /\ hop \in 0..MaxRedirects
      /\ UNCHANGED <<fetches, response, total, downloaded, wants, extraction, value>>
      /\ body' = "closed" /\ call.route = "byReference"
  BY DEF Redirected, Follow, Inside, lookup, Inv, TypeOK, RouteInv
<1>2. CASE GoTo("validate") /\ hop < MaxRedirects /\ hop' = hop + 1 /\ vetted' = FALSE
  <2>1. HandlerGoesOn /\ pc' = "validate" /\ timer' = timer /\ aborted' = aborted
    BY <1>1, <1>2, GoToFacts
  <2>2. hop' \in 0..MaxRedirects
    BY <1>1, <1>2, QueryAssumption
  <2>3. RouteInv' /\ FetchInv' /\ BodyInv' /\ ValueInv' /\ Earns
    BY <1>1, <1>2, <2>1 DEF Inv, RouteInv, FetchInv, BodyInv, BodiesAreReleased, ValueInv,
       HintNeverOverrides, Earns, IsAnswered, Inside, front
  <2>4. /\ vetted' \in BOOLEAN /\ fetches' \in Nat /\ body' \in {"open", "closed"}
        /\ timer' \in {"off", "armed", "fired"}
    BY <1>1, <1>2, <2>1 DEF Inv, TypeOK
  <2>5. /\ wants' \in Wants /\ response' \in Responses /\ total' \in 0..MaxBytes
        /\ downloaded' \in BOOLEAN /\ aborted' = aborted
        /\ extraction' \in {"none", "value", "null", "error"}
        /\ value' \in {"none", "given", "extracted", "hint"}
    BY <1>1, <2>1 DEF Inv, TypeOK
  <2> QED
    BY <2>1, <2>2, <2>3, <2>4, <2>5, HandlerKeeps
<1>3. CASE Throw("reference") /\ UNCHANGED <<hop, vetted>>
  <2>1. /\ HandlerGoesOn /\ pc' = "done" /\ timer' = "off" /\ aborted' = aborted
        /\ status' # 200
        /\ (status' = 504 => aborted)
    BY <1>1, <1>3, ErrorFacts
  <2>2. RouteInv' /\ FetchInv' /\ BodyInv' /\ ValueInv' /\ Earns
    BY <1>1, <1>3, <2>1, Leaving DEF Inv, FetchInv, BodyInv
  <2> QED
    BY <1>1, <1>3, <2>1, <2>2, HandlerKeeps DEF Inv, TypeOK
<1> QED
  BY <1>2, <1>3 DEF Redirected, Follow

LEMMA InspectStep == Inv /\ Inspect /\ UNCHANGED front => Inv' /\ HandlerGoesOn /\ AnswersWell
<1> SUFFICES ASSUME Inv, Inspect, UNCHANGED front PROVE Inv' /\ HandlerGoesOn /\ AnswersWell
  OBVIOUS
<1>1. /\ pc = "headers" /\ pc \in Inside /\ "read" \in Inside
      /\ UNCHANGED <<hop, vetted, fetches, response, total, downloaded, wants, extraction, value>>
  BY DEF Inspect, Inside, link, lookup
<1>2. CASE body' = "closed" /\ \E s \in {400, 502} : Answer(s)
  <2>1. PICK s \in {400, 502} : Answer(s)
    BY <1>2
  <2>2. s \in HandlerAnswers(call.route)
    BY <1>1, AnswersInside
  <2>3. /\ HandlerGoesOn /\ pc' = "done" /\ timer' = "off" /\ aborted' = aborted
        /\ status' \in {400, 502}
    BY <1>1, <2>1, <2>2, AnswerFacts
  <2>4. RouteInv' /\ FetchInv' /\ BodyInv' /\ ValueInv' /\ Earns
    BY <1>1, <1>2, <2>3, Leaving DEF Inv, FetchInv
  <2> QED
    BY <1>1, <1>2, <2>3, <2>4, HandlerKeeps DEF Inv, TypeOK
<1>3. CASE /\ response \in {"ok", "wrongType"} /\ wants.type = "other"
           /\ Throw("other") /\ UNCHANGED body
  <2>1. /\ HandlerGoesOn /\ pc' = "done" /\ timer' = "off" /\ aborted' = aborted
        /\ status' # 200
        /\ (status' = 504 => aborted)
    BY <1>1, <1>3, ErrorFacts
  <2>2. RouteInv' /\ FetchInv' /\ BodyInv' /\ ValueInv' /\ Earns
    BY <1>1, <1>3, <2>1, Leaving DEF Inv, FetchInv
  <2> QED
    BY <1>1, <1>3, <2>1, <2>2, HandlerKeeps DEF Inv, TypeOK
<1>4. CASE GoTo("read") /\ UNCHANGED body
  <2>1. HandlerGoesOn /\ pc' = "read" /\ timer' = timer /\ aborted' = aborted
    BY <1>1, <1>4, GoToFacts
  <2>2. RouteInv' /\ FetchInv' /\ BodyInv' /\ ValueInv' /\ Earns
    BY <1>1, <1>4, <2>1 DEF Inv, RouteInv, FetchInv, BodyInv, BodiesAreReleased, ValueInv,
       HintNeverOverrides, Earns, IsAnswered, Inside, front
  <2> QED
    BY <1>1, <1>4, <2>1, <2>2, HandlerKeeps DEF Inv, TypeOK
<1> QED
  BY <1>2, <1>3, <1>4 DEF Inspect, ReadFrom

LEMMA CancelFailsStep == Inv /\ CancelFails /\ UNCHANGED front => Inv' /\ HandlerGoesOn /\ AnswersWell
<1> SUFFICES ASSUME Inv, CancelFails, UNCHANGED front PROVE Inv' /\ HandlerGoesOn /\ AnswersWell
  OBVIOUS
<1>1. /\ pc = "headers" /\ pc \in Inside /\ body' = "closed"
      /\ UNCHANGED <<hop, vetted, fetches, response, total, downloaded, wants, extraction, value>>
  BY DEF CancelFails, Inside, link, lookup
<1>2. /\ HandlerGoesOn /\ pc' = "done" /\ timer' = "off" /\ aborted' = aborted
      /\ status' # 200
      /\ (status' = 504 => aborted)
  <2>1. CASE aborted
    BY <1>1, <2>1, ErrorFacts DEF CancelFails
  <2>2. CASE ~aborted
    BY <1>1, <2>2, ErrorFacts DEF CancelFails
  <2> QED
    BY <2>1, <2>2
<1>3. RouteInv' /\ FetchInv' /\ BodyInv' /\ ValueInv' /\ Earns
  BY <1>1, <1>2, Leaving DEF Inv, FetchInv
<1> QED
  BY <1>1, <1>2, <1>3, HandlerKeeps DEF Inv, TypeOK

LEMMA ReadChunkStep == Inv /\ ReadChunk /\ UNCHANGED front => Inv' /\ HandlerGoesOn /\ AnswersWell
<1> SUFFICES ASSUME Inv, UNCHANGED front, ReadChunk, NEW n \in 1..MaxChunk,
                    \/ /\ TooMuch(n)
                       /\ Throw("size") /\ body' = "closed" /\ UNCHANGED total
                    \/ /\ ~TooMuch(n)
                       /\ GoTo("read") /\ total' = total + n /\ UNCHANGED body
             PROVE  Inv' /\ HandlerGoesOn /\ AnswersWell
  BY DEF ReadChunk
<1>1. /\ pc = "read" /\ pc \in Inside /\ call.route = "byReference"
      /\ UNCHANGED <<hop, vetted, fetches, response, downloaded, wants, extraction, value>>
  BY DEF ReadChunk, Inside, link, lookup, Inv, RouteInv
<1>2. CASE Throw("size") /\ body' = "closed" /\ UNCHANGED total
  <2>1. /\ HandlerGoesOn /\ pc' = "done" /\ timer' = "off" /\ aborted' = aborted
        /\ status' # 200
        /\ (status' = 504 => aborted)
    BY <1>1, <1>2, ErrorFacts
  <2>2. RouteInv' /\ FetchInv' /\ BodyInv' /\ ValueInv' /\ Earns
    BY <1>1, <1>2, <2>1, Leaving DEF Inv, FetchInv
  <2> QED
    BY <1>1, <1>2, <2>1, <2>2, HandlerKeeps DEF Inv, TypeOK
<1>3. CASE ~TooMuch(n) /\ GoTo("read") /\ total' = total + n /\ UNCHANGED body
  <2>1. HandlerGoesOn /\ pc' = "read" /\ timer' = timer /\ aborted' = aborted
    BY <1>1, <1>3, GoToFacts
  <2>2. RouteInv' /\ FetchInv' /\ BodyInv' /\ ValueInv' /\ Earns
    BY <1>1, <1>3, <2>1 DEF Inv, RouteInv, FetchInv, BodyInv, BodiesAreReleased, ValueInv,
       HintNeverOverrides, Earns, IsAnswered, Inside, front
  <2>3. total' \in 0..MaxBytes
    BY <1>3, QueryAssumption DEF Inv, TypeOK, TooMuch
  <2> QED
    BY <1>1, <1>3, <2>1, <2>2, <2>3, HandlerKeeps DEF Inv, TypeOK
<1> QED
  BY <1>2, <1>3

LEMMA ReadEndStep == Inv /\ ReadEnd /\ UNCHANGED front => Inv' /\ HandlerGoesOn /\ AnswersWell
<1> SUFFICES ASSUME Inv, ReadEnd, UNCHANGED front PROVE Inv' /\ HandlerGoesOn /\ AnswersWell
  OBVIOUS
<1>1. /\ pc = "read" /\ pc \in Inside /\ body' = "closed" /\ downloaded' = TRUE
      /\ UNCHANGED <<hop, vetted, fetches, response, total, wants, extraction, value>>
  BY DEF ReadEnd, Inside, link, lookup
<1>2. AfterBody(wants.alg) \in {"choose", "extract"} /\ AfterBody(wants.alg) \in Inside
  BY DEF AfterBody, Inside
<1>3. HandlerGoesOn /\ pc' = AfterBody(wants.alg) /\ timer' = timer /\ aborted' = aborted
  BY <1>1, <1>2, GoToFacts DEF ReadEnd
<1>4. RouteInv' /\ FetchInv' /\ BodyInv' /\ Earns
  BY <1>1, <1>2, <1>3 DEF Inv, RouteInv, FetchInv, BodyInv, BodiesAreReleased,
     Earns, IsAnswered, Inside, front
<1>5. ValueInv'
  <2>1. pc' = "choose" => wants.alg \notin Extractors
    BY <1>3, QueryAssumption DEF AfterBody
  <2> QED
    BY <1>1, <1>2, <1>3, <2>1 DEF Inv, ValueInv, HintNeverOverrides
<1> QED
  BY <1>1, <1>2, <1>3, <1>4, <1>5, HandlerKeeps DEF Inv, TypeOK

LEMMA ReadFailsStep == Inv /\ ReadFails /\ UNCHANGED front => Inv' /\ HandlerGoesOn /\ AnswersWell
<1> SUFFICES ASSUME Inv, ReadFails, UNCHANGED front PROVE Inv' /\ HandlerGoesOn /\ AnswersWell
  OBVIOUS
<1>1. /\ pc = "read" /\ pc \in Inside /\ body' = "closed" /\ call.route = "byReference"
      /\ UNCHANGED <<hop, vetted, fetches, response, total, downloaded, wants, extraction, value>>
  BY DEF ReadFails, Inside, link, lookup, Inv, RouteInv
<1>2. /\ HandlerGoesOn /\ pc' = "done" /\ timer' = "off" /\ aborted' = aborted
      /\ status' # 200
      /\ (status' = 504 => aborted)
  <2>1. CASE aborted
    BY <1>1, <2>1, ErrorFacts DEF ReadFails
  <2>2. CASE ~aborted
    BY <1>1, <2>2, ErrorFacts DEF ReadFails
  <2> QED
    BY <2>1, <2>2
<1>3. RouteInv' /\ FetchInv' /\ BodyInv' /\ ValueInv' /\ Earns
  BY <1>1, <1>2, Leaving DEF Inv, FetchInv
<1> QED
  BY <1>1, <1>2, <1>3, HandlerKeeps DEF Inv, TypeOK

LEMMA ExtractStep == Inv /\ Extract /\ UNCHANGED front => Inv' /\ HandlerGoesOn /\ AnswersWell
<1> SUFFICES ASSUME Inv, Extract, UNCHANGED front PROVE Inv' /\ HandlerGoesOn /\ AnswersWell
  OBVIOUS
<1>1. /\ pc = "extract" /\ pc \in Inside /\ "choose" \in Inside
      /\ UNCHANGED <<hop, vetted, fetches, response, body, total, downloaded, wants>>
  BY DEF Extract, Inside, link, download
<1>2. /\ extraction = "none" /\ value = "none" /\ body = "closed" /\ fetches <= hop + 1
      /\ call.route = "byReference" => downloaded
  BY <1>1 DEF Inv, ValueInv, BodyInv, FetchInv, RouteInv
<1>3. CASE /\ GoTo("choose")
           /\ \/ extraction' = "value" /\ value' = "extracted"
              \/ extraction' = "null" /\ UNCHANGED value
              \/ wants.alg \notin Extractors /\ UNCHANGED <<extraction, value>>
  <2>1. HandlerGoesOn /\ pc' = "choose" /\ timer' = timer /\ aborted' = aborted
    BY <1>1, <1>3, GoToFacts
  <2>2. RouteInv' /\ FetchInv' /\ BodyInv' /\ Earns
    BY <1>1, <1>2, <2>1 DEF Inv, RouteInv, FetchInv, BodyInv, BodiesAreReleased,
       Earns, IsAnswered, Inside, front
  <2>3. ValueInv'
    BY <1>1, <1>2, <1>3, <2>1 DEF ValueInv, HintNeverOverrides
  <2> QED
    BY <1>1, <1>2, <1>3, <2>1, <2>2, <2>3, HandlerKeeps DEF Inv, TypeOK
<1>4. CASE \E err \in PluginErrors :
             Throw(err) /\ extraction' = "error" /\ UNCHANGED value
  <2>1. /\ HandlerGoesOn /\ pc' = "done" /\ timer' = "off" /\ aborted' = aborted
        /\ status' # 200
    BY <1>1, <1>4, ErrorFacts DEF PluginErrors
  <2>2. RouteInv' /\ FetchInv' /\ BodyInv' /\ ValueInv' /\ Earns
    BY <1>1, <1>2, <2>1, Leaving
  <2> QED
    BY <1>1, <1>4, <2>1, <2>2, HandlerKeeps DEF Inv, TypeOK
<1> QED
  BY <1>3, <1>4 DEF Extract

LEMMA ChooseStep == Inv /\ Choose /\ UNCHANGED front => Inv' /\ HandlerGoesOn /\ AnswersWell
<1> SUFFICES ASSUME Inv, Choose, UNCHANGED front PROVE Inv' /\ HandlerGoesOn /\ AnswersWell
  OBVIOUS
<1>1. /\ pc = "choose" /\ pc \in Inside /\ "find" \in Inside
      /\ UNCHANGED <<hop, vetted, fetches, response, body, total, downloaded, wants, extraction>>
  BY DEF Choose, Inside, link, download
<1>2. /\ extraction # "error" /\ body = "closed" /\ fetches <= hop + 1
      /\ call.route = "byReference" => downloaded
  BY <1>1 DEF Inv, ValueInv, BodyInv, FetchInv, RouteInv
<1>3. value' = FallBack /\ FallBack \in {"none", "extracted", "hint"}
  BY <1>1 DEF Choose, FallBack, Inv, ValueInv
<1>4. CASE value' = "none" /\ Answer(200)
  <2>1. 200 \in HandlerAnswers(call.route)
    BY <1>1, AnswersInside
  <2>2. HandlerGoesOn /\ pc' = "done" /\ status' = 200 /\ timer' = "off" /\ aborted' = aborted
    BY <1>1, <1>4, <2>1, AnswerFacts
  <2>3. RouteInv' /\ FetchInv' /\ BodyInv' /\ ValueInv' /\ Earns
    BY <1>1, <1>2, <2>2, Leaving
  <2> QED
    BY <1>1, <1>4, <2>2, <2>3, HandlerKeeps DEF Inv, TypeOK
<1>5. CASE value' # "none" /\ GoTo("find")
  <2>1. HandlerGoesOn /\ pc' = "find" /\ timer' = timer /\ aborted' = aborted
    BY <1>1, <1>5, GoToFacts
  <2>2. RouteInv' /\ FetchInv' /\ BodyInv' /\ Earns
    BY <1>1, <1>2, <2>1 DEF Inv, RouteInv, FetchInv, BodyInv, BodiesAreReleased,
       Earns, IsAnswered, Inside, front
  <2>3. ValueInv'
    BY <1>1, <1>2, <1>3, <1>5, <2>1 DEF Inv, ValueInv, HintNeverOverrides, FallBack
  <2> QED
    BY <1>1, <1>3, <2>1, <2>2, <2>3, HandlerKeeps DEF Inv, TypeOK
<1> QED
  BY <1>4, <1>5 DEF Choose

LEMMA FindStep == Inv /\ Find /\ UNCHANGED front => Inv' /\ HandlerGoesOn /\ AnswersWell
<1> SUFFICES ASSUME Inv, Find, UNCHANGED front PROVE Inv' /\ HandlerGoesOn /\ AnswersWell
  OBVIOUS
<1>1. /\ pc = "find" /\ pc \in Inside
      /\ UNCHANGED <<hop, vetted, fetches, response, body, total, downloaded>>
      /\ UNCHANGED <<wants, extraction, value>>
  BY DEF Find, Inside, link, download, lookup
<1>2. /\ extraction # "error" /\ body = "closed" /\ fetches <= hop + 1
      /\ call.route = "byReference" => downloaded
  BY <1>1 DEF Inv, ValueInv, BodyInv, FetchInv, RouteInv
<1>3. HandlerGoesOn /\ pc' = "done" /\ timer' = "off" /\ aborted' = aborted
  <2>1. CASE Answer(200)
    <3>1. 200 \in HandlerAnswers(call.route)
      BY <1>1, AnswersInside
    <3> QED
      BY <1>1, <2>1, <3>1, AnswerFacts
  <2>2. CASE \E err \in PluginErrors : Throw(err)
    BY <1>1, <2>2, ErrorFacts DEF PluginErrors
  <2> QED
    BY <2>1, <2>2 DEF Find
<1>4. RouteInv' /\ FetchInv' /\ BodyInv' /\ ValueInv' /\ Earns
  BY <1>1, <1>2, <1>3, Leaving
<1> QED
  BY <1>1, <1>3, <1>4, HandlerKeeps DEF Inv, TypeOK

\* The timer fires only in a handler, where no part of the invariant looks at it.
LEMMA TimeoutStep == Inv /\ Timeout => Inv' /\ AnswersWell
<1> SUFFICES ASSUME Inv, Timeout PROVE Inv' /\ AnswersWell
  OBVIOUS
<1> USE DEF Timeout, appVars, front, link, download, lookup
<1>1. pc \notin {"done", "rejected", "json", "limit", "auth", "raw", "handler"}
  BY DEF Inv, Unstarted, TimerIsCleared
<1>2. TypeOK'
  BY DEF Inv, TypeOK
<1>3. FrontInv' /\ Unstarted' /\ RouteInv' /\ FetchInv'
  BY <1>1 DEF Inv, FrontInv, OnlyAuthorised, Unstarted, RouteInv, FetchInv
<1>4. BodyInv' /\ ValueInv'
  BY DEF Inv, BodyInv, BodiesAreReleased, ValueInv, HintNeverOverrides
<1>5. TimerIsCleared' /\ AnswersWell
  BY <1>1 DEF Inv, TimerIsCleared, AnswersWell, Documents, Earns, IsAnswered
<1> QED
  BY <1>2, <1>3, <1>4, <1>5 DEF Inv

-----------------------------------------------------------------------------
(* The theorems *)

LEMMA StepInv == Inv /\ [Next]_vars => Inv' /\ AnswersWell
<1> SUFFICES ASSUME Inv, [Next]_vars PROVE Inv' /\ AnswersWell
  OBVIOUS
<1>1. CASE ArriveAnew
  BY <1>1, ArriveStep
<1>2. CASE (\E c \in Clients : NextWindow(c)) /\ UNCHANGED queryVars
  BY <1>2, WindowStep
<1>3. CASE (FrontStep \/ Restart) /\ UNCHANGED queryVars
  BY <1>3, ParseJsonStep, CountRequestStep, AuthenticateStep, ReadRawStep, HandleOtherStep,
     RestartStep DEF FrontStep, Middleware
<1>4. CASE Local
  BY <1>4, AskStep, ValidateStep, RedirectedStep, InspectStep, CancelFailsStep, ExtractStep,
     ChooseStep, FindStep DEF Local
<1>5. CASE Timeout
  BY <1>5, TimeoutStep
<1>6. CASE Remote
  BY <1>6, FetchStep, ReadChunkStep, ReadEndStep, ReadFailsStep DEF Remote
<1>7. CASE UNCHANGED vars
  <2> USE <1>7 DEF vars, appVars, front, queryVars, link, download, clock, lookup
  <2>1. TypeOK'
    BY DEF Inv, TypeOK
  <2>2. FrontInv' /\ Unstarted' /\ RouteInv' /\ FetchInv'
    BY DEF Inv, FrontInv, OnlyAuthorised, Unstarted, RouteInv, FetchInv
  <2>3. BodyInv' /\ ValueInv'
    BY DEF Inv, BodyInv, BodiesAreReleased, ValueInv, HintNeverOverrides
  <2>4. TimerIsCleared' /\ AnswersWell
    BY DEF Inv, TimerIsCleared, AnswersWell, Documents, Earns, IsAnswered
  <2> QED
    BY <2>1, <2>2, <2>3, <2>4 DEF Inv
<1> QED
  BY <1>1, <1>2, <1>3, <1>4, <1>5, <1>6, <1>7 DEF Next

LEMMA Invariance == QuerySpec => []Inv
<1>1. Inv /\ [Next]_vars => Inv'
  BY StepInv
<1> QED
  BY InitInv, <1>1, PTL DEF QuerySpec

\* The types, among them that no more than MaxBytes is kept of a download and no more than
\* MaxRedirects redirects are followed.
THEOREM TypeCorrect == QuerySpec => []TypeOK
<1>1. Inv => TypeOK
  BY DEF Inv
<1> QED
  BY <1>1, Invariance, PTL

\* Every answer on a query or store route is one openapi.yaml gives for it, but for the
\* limiter's 429, the 504 of byReference and the JSON parser's on routes without a body.
THEOREM AnswersDocumented == QuerySpec => AnswersAreDocumented
<1>1. Inv /\ [Next]_vars => [IsAnswered => DocumentedStatus(status')]_appVars
  BY StepInv DEF AnswersWell, Documents
<1> QED
  BY <1>1, Invariance, PTL DEF QuerySpec, AnswersAreDocumented

\* However requests and windows interleave, no client gets past its limit.
THEOREM LimitHolds == QuerySpec => []LimitIsKept
<1>1. Inv => LimitIsKept
  BY DEF Inv, FrontInv, LimitIsKept
<1> QED
  BY <1>1, Invariance, PTL

\* Nothing of a guarded route runs for a caller without its scope.
THEOREM AuthorisedOnly == QuerySpec => []OnlyAuthorised
<1>1. Inv => OnlyAuthorised
  BY DEF Inv, FrontInv
<1> QED
  BY <1>1, Invariance, PTL

\* Every hop is validated before it is fetched, and the hops are bounded.
THEOREM FetchesVetted == QuerySpec => []FetchesAreVetted
<1>1. Inv => FetchesAreVetted
  BY QueryAssumption DEF Inv, TypeOK, FetchInv, FetchesAreVetted
<1> QED
  BY <1>1, Invariance, PTL

\* No body of a download outlives its request, but for the one exception.
THEOREM BodiesReleased == QuerySpec => []BodiesAreReleased
<1>1. Inv => BodiesAreReleased
  BY DEF Inv, BodyInv
<1> QED
  BY <1>1, Invariance, PTL

\* No timer outlives its request.
THEOREM TimerCleared == QuerySpec => []TimerIsCleared
<1>1. Inv => TimerIsCleared
  BY DEF Inv
<1> QED
  BY <1>1, Invariance, PTL

\* A 504 by reference means that the timer fired, or that the extractor or the store
\* failed; a 200 means that the asset was read.
THEOREM StatusEarned == QuerySpec => StatusIsEarned
<1>1. Inv /\ [Next]_vars => [IsAnswered /\ call.route = "byReference" => EarnedStatus(status')]_vars
  BY StepInv DEF AnswersWell, Earns
<1> QED
  BY <1>1, Invariance, PTL DEF QuerySpec, StatusIsEarned

\* A hint is looked up only where the asset yields nothing.
THEOREM HintsComeSecond == QuerySpec => []HintNeverOverrides
<1>1. Inv => HintNeverOverrides
  BY DEF Inv, ValueInv
<1> QED
  BY <1>1, Invariance, PTL

-----------------------------------------------------------------------------
(* The refinement *)

LEMMA InitImplements == Init => Front!InitApp
BY DEF Init, InitApp, Front!InitApp, PlaceInApp, Inside, Front!Configs, Configs, Front!Limiters, Limiters

LEMMA SameTables ==
  /\ Front!Routes = Routes /\ Front!Scopes = Scopes /\ Front!QueryRoutes = QueryRoutes
  /\ \A route : /\ Front!HasRawBody(route) = HasRawBody(route)
                /\ Front!Scope(route) = Scope(route)
                /\ Front!Counted(route) = Counted(route)
                /\ Front!HandlerAnswers(route) = HandlerAnswers(route)
<1>1. Front!Routes = Routes /\ Front!Scopes = Scopes /\ Front!QueryRoutes = QueryRoutes
  BY DEF Front!Routes, Front!QueryRoutes, Front!StoreRoutes, Front!FetchRoutes, Front!OpenRoutes,
         Routes, QueryRoutes, StoreRoutes, FetchRoutes, OpenRoutes, Front!Scopes, Scopes
<1>2. ASSUME NEW route
      PROVE  /\ Front!HasRawBody(route) = HasRawBody(route)
             /\ Front!Scope(route) = Scope(route)
             /\ Front!Counted(route) = Counted(route)
  BY <1>1 DEF Front!HasRawBody, HasRawBody, Front!Scope, Scope,
         Front!Counted, Counted
<1>3. ASSUME NEW route
      PROVE  Front!HandlerAnswers(route) = HandlerAnswers(route)
  BY DEF Front!HandlerAnswers, Front!QueryRoutes, Front!StoreRoutes, Front!FetchRoutes,
         Front!OpenRoutes, Front!QueryAnswers, Front!StoreAnswers, Front!FetchAnswers,
         Front!ServiceAnswers, HandlerAnswers, QueryRoutes, StoreRoutes, FetchRoutes, OpenRoutes,
         QueryAnswers, StoreAnswers, FetchAnswers, ServiceAnswers
<1> QED
  BY <1>1, <1>2, <1>3

\* Outside the handlers of the query routes App is in the same place.
LEMMA SamePlace ==
  /\ pc \notin Inside => PlaceInApp = pc
  /\ pc' \notin Inside => PlaceInApp' = pc'
BY DEF PlaceInApp

LEMMA OutsideFacts ==
  ASSUME Inv, FrontStep
  PROVE  pc \notin Inside /\ pc' \notin Inside
BY DEF FrontStep, Middleware, ParseJson, CountRequest, StoreFails, Authenticate, AfterAuth, ReadRaw,
     HandleOther, Handle, AnswerEarly, Pass, Inside, Routed

LEMMA FrontImplements ==
  ASSUME Inv, FrontStep
  PROVE  Front!NextApp
<1> PlaceInApp = pc /\ PlaceInApp' = pc'
  BY OutsideFacts, SamePlace
<1>1. \A s : AnswerEarly(s) => Front!AnswerEarly(s)
  BY DEF AnswerEarly, Front!AnswerEarly
<1>2. \A place : Pass(place) => Front!Pass(place)
  BY DEF Pass, Front!Pass
<1>3. Routed => Front!Routed
  BY <1>1, <1>2 DEF Routed, Front!Routed
<1>4. CASE ParseJson
  BY <1>1, <1>2, <1>3, <1>4, SameTables
     DEF ParseJson, Front!ParseJson, Front!NextApp, Front!Middleware
<1>5. CASE CountRequest
  BY <1>1, <1>2, <1>3, <1>5
     DEF CountRequest, StoreFails, Front!CountRequest, Front!StoreFails, Front!NextApp, Front!Middleware
<1>6. \A scope : AfterAuth(scope) => Front!AfterAuth(scope)
  BY <1>1, <1>2, SameTables DEF AfterAuth, Front!AfterAuth, Permits, Front!Permits
<1>7. CASE Authenticate
  BY <1>1, <1>2, <1>6, <1>7, SameTables
     DEF Authenticate, Front!Authenticate, Front!NextApp, Front!Middleware
<1>8. CASE ReadRaw
  BY <1>1, <1>2, <1>8 DEF ReadRaw, Front!ReadRaw, front, Front!front, Front!NextApp, Front!Middleware
<1>9. CASE Handle
  BY <1>1, <1>9, SameTables DEF Handle, Front!Handle, front, Front!front, Front!NextApp
<1> QED
  BY <1>4, <1>5, <1>7, <1>8, <1>9 DEF FrontStep, Middleware, HandleOther

\* A handler of a query route is one step of App: the last, whether it answers or rejects.
LEMMA HandlerImplements ==
  ASSUME Inv, HandlerGoesOn
  PROVE  [Front!NextApp]_(Front!appVars)
<1>1. PlaceInApp = "handler"
  BY DEF HandlerGoesOn, PlaceInApp
<1>2. CASE pc' \in Inside /\ status' = status
  <2>1. PlaceInApp' = "handler"
    BY <1>2 DEF PlaceInApp
  <2> QED
    BY <1>1, <1>2, <2>1 DEF HandlerGoesOn, front, Front!appVars, Front!front
<1>3. CASE pc' = "done" /\ status' \in HandlerAnswers(call.route)
  <2>1. PlaceInApp' = "done"
    BY <1>3 DEF PlaceInApp, Inside
  <2>2. Front!Handle
    BY <1>1, <1>3, <2>1, SameTables DEF HandlerGoesOn, front, Front!front, Front!Handle, Front!AnswerEarly
  <2> QED
    BY <2>2 DEF Front!NextApp
<1>4. CASE pc = "handler" /\ pc' = "rejected" /\ status' = status
  <2>1. PlaceInApp' = "rejected"
    BY <1>4 DEF PlaceInApp, Inside
  <2>2. Front!HandlerRejects
    BY <1>1, <1>4, <2>1, SameTables DEF HandlerGoesOn, front, Front!front, Front!HandlerRejects, Front!Pass
  <2> QED
    BY <2>2 DEF Front!NextApp
<1> QED
  BY <1>2, <1>3, <1>4 DEF HandlerGoesOn

LEMMA StepImplements == Inv /\ [Next]_vars => [Front!NextApp]_(Front!appVars)
<1> SUFFICES ASSUME Inv, [Next]_vars PROVE [Front!NextApp]_(Front!appVars)
  OBVIOUS
<1>1. CASE ArriveAnew
  <2>1. PICK c \in Clients, route \in Routes : Arrive(c, route)
    BY <1>1 DEF ArriveAnew
  <2>2. PlaceInApp = "done" /\ PlaceInApp' = "json"
    BY <2>1 DEF Arrive, PlaceInApp, Inside
  <2>3. Front!Arrive(c, route)
    BY <2>1, <2>2 DEF Arrive, Front!Arrive
  <2> QED
    BY <2>3, SameTables DEF Front!NextApp
<1>2. CASE (\E c \in Clients : NextWindow(c)) /\ UNCHANGED queryVars
  <2>1. PICK c \in Clients : NextWindow(c)
    BY <1>2
  <2>2. PlaceInApp' = PlaceInApp
    BY <2>1 DEF NextWindow, PlaceInApp
  <2>3. Front!NextWindow(c)
    BY <2>1, <2>2 DEF NextWindow, Front!NextWindow
  <2> QED
    BY <2>3 DEF Front!NextApp
<1>3. CASE FrontStep \/ Restart
  <2>1. CASE Restart
    <3>1. PlaceInApp = "rejected" /\ PlaceInApp' = "done"
      BY <2>1 DEF Restart, PlaceInApp, Inside
    <3>2. Front!Restart
      BY <2>1, <3>1 DEF Restart, Front!Restart
    <3> QED
      BY <3>2 DEF Front!NextApp
  <2> QED
    BY <1>3, <2>1, FrontImplements
<1>4. CASE Local
  BY <1>4, AskStep, ValidateStep, RedirectedStep, InspectStep, CancelFailsStep, ExtractStep,
     ChooseStep, FindStep, HandlerImplements DEF Local
<1>5. CASE Timeout \/ UNCHANGED vars
  <2>1. UNCHANGED appVars
    BY <1>5 DEF Timeout, vars
  <2>2. PlaceInApp' = PlaceInApp
    BY <2>1 DEF appVars, PlaceInApp
  <2> QED
    BY <2>1, <2>2 DEF appVars, front, Front!appVars, Front!front
<1>6. CASE Remote
  BY <1>6, FetchStep, ReadChunkStep, ReadEndStep, ReadFailsStep, HandlerImplements DEF Remote
<1> QED
  BY <1>1, <1>2, <1>3, <1>4, <1>5, <1>6 DEF Next

\* To a caller the query routes, with their downloads, hops and timers, are the one step
\* App makes of every handler.
THEOREM Refinement == QuerySpec => ImplementsApp
<1>1. Inv /\ [Next]_vars => [Front!NextApp]_(Front!appVars)
  BY StepImplements
<1> QED
  BY InitImplements, Invariance, <1>1, PTL DEF QuerySpec, ImplementsApp, Front!Spec
=============================================================================
