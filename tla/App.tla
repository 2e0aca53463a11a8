--------------------------------- MODULE App ---------------------------------
(***************************************************************************)
(* What createServer (src/src/index.ts) puts in front of the handlers: the *)
(* JSON body parser, the rate limiter, authentication, the scope of the    *)
(* route, the parser of a raw body, and the handler last.  A request       *)
(* awaits something in each, and any of them may answer it instead.        *)
(* The handlers are one step here, "handler": module Query has those of    *)
(* the query routes in full, SqlServer and MongoServer those of the store  *)
(* routes, Retrieval those of the fetch routes.                            *)
(***************************************************************************)
EXTENDS Naturals

CONSTANTS
    Clients,    \* the keys the limiter tells callers apart by
    Limit       \* requests of one client per window

ASSUME LimitAssumption == Limit \in Nat

VARIABLES
    config,     \* the options createServer was called with
    hits,       \* the limiter's count for each client, no further than one past Limit
    reached,    \* history: with a limiter, how many requests of the client passed to the
                \* routers in this window, or since the counts were lost
    pc,         \* what the request awaits; "rejected" is the end of one nobody answers
    call,       \* whose request it is, and for which route
    granted,    \* res.locals[AUTH_SCOPES_LOCALS_KEY]
    status      \* the answer

front == <<config, hits, reached, call, granted>>
appVars == <<front, pc, status>>

QueryRoutes == {"getByBinding", "postByBinding", "byContent", "byReference"}
OpenRoutes == {"health", "openapi", "wellKnown", "services", "unknown"}
StoreRoutes == {"postManifest", "deleteManifest", "bindings"}
FetchRoutes == {"getManifest", "receipts"}
Routes == QueryRoutes \cup StoreRoutes \cup FetchRoutes \cup OpenRoutes

\* No limiter, one that counts in the process, one whose store is shared.
Limiters == {"off", "memory", "shared"}

Configs == [auth : {"none", "jwt", "custom"}, limiter : Limiters, docs : BOOLEAN]

Scopes == {"fetch:manifests", "store:manifests", "store:bindings"}

\* The scope requireAuthScope asks for on each guarded route.
Scope(route) ==
    CASE route \in {"postManifest", "deleteManifest"} -> "store:manifests"
      [] route = "bindings" -> "store:bindings"
      [] OTHER -> "fetch:manifests"

\* Routes with express.raw.
HasRawBody(route) == route \in {"byContent", "postManifest"}

InitApp ==
    /\ config \in Configs
    /\ hits = [c \in Clients |-> 0] /\ reached = hits
    /\ pc = "done" /\ status = 0 /\ granted = "unset"
    /\ call \in [client : Clients, route : {"health"}]

-----------------------------------------------------------------------------
AnswerEarly(s) == pc' = "done" /\ status' = s

Pass(place) == pc' = place /\ UNCHANGED status

\* What the handlers answer by themselves, router by router.
QueryAnswers(route) ==
    CASE route = "getByBinding" -> {200, 400, 414, 500}
      [] route = "postByBinding" -> {200, 400, 500}
      [] route = "byContent" -> {200, 400, 415, 500}
      [] route = "byReference" -> {200, 400, 500, 502, 504}

StoreAnswers(route) ==
    CASE route = "postManifest" -> {200, 400, 500}
      [] route = "deleteManifest" -> {204, 404, 500}
      [] route = "bindings" -> {204, 400, 404, 500}

FetchAnswers(route) ==
    CASE route = "getManifest" -> {200, 303, 404, 500}
      [] route = "receipts" -> {200, 400, 404, 500}

\* The lists are there, and a status that cannot be had is an answer, too.
ServiceAnswers == {200}

HandlerAnswers(route) ==
    CASE route \in QueryRoutes -> QueryAnswers(route)
      [] route \in StoreRoutes -> StoreAnswers(route)
      [] route \in FetchRoutes -> FetchAnswers(route)
      [] route \in OpenRoutes -> ServiceAnswers

Arrive(c, route) ==
    /\ pc = "done"
    /\ call' = [client |-> c, route |-> route]
    /\ pc' = "json" /\ status' = 0 /\ granted' = "unset"
    /\ UNCHANGED <<config, hits, reached>>

\* The routers take the request over.
Routed ==
    /\ reached' = IF config.limiter = "off" THEN reached
                  ELSE [reached EXCEPT ![call.client] = @ + 1]
    /\ CASE call.route = "unknown" -> AnswerEarly(404)
         [] call.route = "openapi" -> AnswerEarly(404)
         [] call.route \in {"wellKnown", "services"} -> Pass("handler")
         [] OTHER -> Pass("auth")

\* Mutant: the discovery document is not put behind the limiter.
CountedUnderV1(route) == route # "wellKnown"

\* app.use of the limiter, for /v1 and for the discovery document.  The health
\* check, and with docs the API description, are answered before it.
Counted(route) == route \in Routes

\* express.json, which is mounted for every route and method: the body is awaited and
\* parsed, or the error handler answers.  A body that is no JSON, or none, passes.
ParseJson ==
    /\ pc = "json"
    /\ \/ UNCHANGED reached /\ \E s \in {400, 413, 500} : AnswerEarly(s)
       \/ /\ \/ call.route = "health"
             \/ call.route = "openapi" /\ config.docs
          /\ AnswerEarly(200) /\ UNCHANGED reached
       \/ /\ call.route # "health"
          /\ ~(call.route = "openapi" /\ config.docs)
          /\ IF config.limiter # "off" /\ Counted(call.route)
               THEN Pass("limit") /\ UNCHANGED reached
               ELSE Routed
    /\ UNCHANGED <<config, hits, call, granted>>

\* A shared store is a command sent to Redis, which may fail.
StoreFails == config.limiter = "shared" /\ AnswerEarly(500)

\* The limiter counts the request and lets it through, or answers it; the failure of
\* a store goes to the error handler.
CountRequest ==
    /\ pc = "limit"
    /\ \/ /\ hits' = [hits EXCEPT ![call.client] = IF @ > Limit THEN @ ELSE @ + 1]
          /\ IF hits'[call.client] > Limit THEN AnswerEarly(429) /\ UNCHANGED reached ELSE Routed
       \/ StoreFails /\ UNCHANGED <<hits, reached>>
    /\ UNCHANGED <<config, call, granted>>

\* windowMs have passed since the client's first request.
NextWindow(c) ==
    /\ hits[c] # 0
    /\ hits' = [hits EXCEPT ![c] = 0] /\ reached' = [reached EXCEPT ![c] = 0]
    /\ UNCHANGED <<config, pc, call, granted, status>>

\* Mutant: any scope will do.
SomeScope(route, scope) == scope # "none"

\* requireAuthScope: scopes that were not published are the middleware's business.
Permits(route, scope) == scope \in {"unset", Scope(route)}

AfterAuth(scope) ==
    /\ granted' = scope
    /\ IF Permits(call.route, scope)
         THEN Pass(IF HasRawBody(call.route) THEN "raw" ELSE "handler")
         ELSE AnswerEarly(403)

\* The auth middleware: none configured, a verified token with one scope or none,
\* one of the operator's own.  GET /manifests/:id may have an optional chain, or a
\* redirect in front of it: see Retrieval.
Authenticate ==
    /\ pc = "auth"
    /\ \/ config.auth # "none" /\ AnswerEarly(401) /\ UNCHANGED granted
       \/ config.auth = "none" /\ AfterAuth("unset")
       \/ config.auth # "none" /\ \E scope \in Scopes \cup {"none"} : AfterAuth(scope)
       \/ config.auth = "custom" /\ AfterAuth("unset")
       \/ call.route = "getManifest" /\ UNCHANGED granted /\ Pass("handler")
    /\ UNCHANGED <<config, hits, reached, call>>

\* express.raw of the route: the body is buffered, or is too large, or breaks off.
ReadRaw ==
    /\ pc = "raw"
    /\ Pass("handler") \/ AnswerEarly(413) \/ AnswerEarly(500)
    /\ UNCHANGED front

Handle ==
    /\ pc = "handler"
    /\ \E s \in HandlerAnswers(call.route) : AnswerEarly(s)
    /\ UNCHANGED front

\* The handler of a query route may reject: what it does with the parameters before its
\* try can throw, and Express 4 does not look at the promise.
HandlerRejects ==
    /\ pc = "handler" /\ call.route \in QueryRoutes
    /\ Pass("rejected")
    /\ UNCHANGED front

\* Nothing handles the rejection, so Node ends the process; it is started again, and
\* has forgotten the counts it kept itself.
Restart ==
    /\ pc = "rejected"
    /\ pc' = "done" /\ status' = 0 /\ granted' = "unset"
    /\ IF config.limiter = "memory"
         THEN hits' = [c \in Clients |-> 0] /\ reached' = hits'
         ELSE UNCHANGED <<hits, reached>>
    /\ UNCHANGED <<config, call>>

Middleware == ParseJson \/ CountRequest \/ Authenticate \/ ReadRaw

NextApp ==
    \/ \E c \in Clients, route \in Routes : Arrive(c, route)
    \/ \E c \in Clients : NextWindow(c)
    \/ Middleware
    \/ Handle \/ HandlerRejects
    \/ Restart

Spec == InitApp /\ [][NextApp]_appVars

-----------------------------------------------------------------------------
(* Properties *)

\* openapi.yaml: the answers of each operation.
Documented(route) ==
    CASE route = "getByBinding" -> {200, 400, 401, 403, 414, 500}
      [] route = "postByBinding" -> {200, 400, 401, 403, 413, 500}
      [] route = "byContent" -> {200, 400, 401, 403, 413, 415, 500}
      [] route = "byReference" -> {200, 400, 401, 403, 413, 502, 500}
      [] route = "postManifest" -> {200, 400, 401, 403, 413, 500}
      [] route = "bindings" -> {204, 400, 401, 403, 404, 413, 500}
      [] route = "deleteManifest" -> {204, 401, 403, 404, 500}
      [] OTHER -> 200..504

\* A step that answers the request.
IsAnswered == pc \notin {"done", "rejected"} /\ pc' = "done"

\* A status openapi.yaml gives for the route, or one of three it leaves out: the
\* limiter's 429, the 504 of byReference, and the JSON parser's 400 and 413 on the two
\* routes for which it names no body: getByBinding (413) and deleteManifest.
DocumentedStatus(s) ==
    \/ s \in Documented(call.route)
    \/ s = 429 /\ pc = "limit"
    \/ s = 504 /\ call.route = "byReference" /\ pc \notin {"json", "limit", "auth"}
    \/ s \in {400, 413} /\ pc = "json" /\ call.route \in {"getByBinding", "deleteManifest"}

\* Whatever goes wrong on the way, in the parsers, the limiter, the middleware or
\* the handler, a client of the query and store routes is answered as openapi.yaml says,
\* but for the answers named above, each of which comes from one place only.
AnswersAreDocumented == [][IsAnswered => DocumentedStatus(status')]_appVars

\* No client gets more than Limit requests to the routers in a window, whichever
\* routes under /v1 it mixes with the discovery document, and whatever the answers.
LimitIsKept == config.limiter # "off" => \A c \in Clients : reached[c] <= Limit

\* On a guarded route neither a raw body is read nor a handler run for a caller
\* whose published scopes lack the route's, and with JWTs there are always some.
OnlyAuthorised ==
    /\ pc \notin {"done", "json", "limit", "auth"}
    /\ call.route \notin OpenRoutes \cup {"getManifest"}
    => \/ granted = Scope(call.route)
       \/ granted = "unset" /\ config.auth # "jwt"
=============================================================================
