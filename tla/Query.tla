-------------------------------- MODULE Query --------------------------------
(***************************************************************************)
(* The query routes (src/src/routes/query.ts) behind the middleware of     *)
(* App: a soft binding is given, extracted from an uploaded asset, or      *)
(* extracted from an asset the server downloads, and looked up.  For the   *)
(* download there is a timer that aborts it after 30 seconds, and a remote *)
(* side that may answer anything, late or never.  The handlers of two      *)
(* requests share no state, so one is modelled at a time.                  *)
(***************************************************************************)
EXTENDS App

CONSTANTS
    Algs,           \* algorithm names clients ask for
    Extractors,     \* the `extractors` option: the names among them with an extractor,
                    \* all registered once, when the server is made
    NoAlg,          \* no `alg` parameter
    Regions,        \* what clients send as `region`: see ParsesAsRegion
    MaxRedirects,   \* MAX_REFERENCE_REDIRECTS
    MaxBytes,       \* maxReferenceSize, in units of the smallest chunk
    MaxChunk        \* the largest chunk the remote side sends at once

ASSUME QueryAssumption ==
    /\ Extractors \subseteq Algs /\ NoAlg \notin Algs
    /\ MaxRedirects \in Nat /\ MaxBytes \in Nat /\ MaxChunk \in Nat \ {0}

VARIABLES
    wants,      \* the request: an algorithm to extract with, a hint, the type it declares
    hop,        \* redirectCount
    vetted,     \* whether validateReferenceUrl has passed the current URL
    fetches,    \* history: how often the handler has called fetch
    response,   \* what the headers of the current response say
    body,       \* "open" while a response body is neither read, cancelled nor aborted
    total,      \* bytes read of it
    timer,      \* the abort timer
    aborted,    \* controller.signal.aborted
    downloaded, \* history: whether the whole asset has been read
    extraction, \* history: what the extractor made of the asset
    value       \* where bindingValue comes from

link == <<hop, vetted, fetches>>
download == <<response, body, total, downloaded>>
clock == <<timer, aborted>>
lookup == <<wants, extraction, value>>
queryVars == <<link, download, clock, lookup>>
vars == <<appVars, queryVars>>

Responses == {"none", "redirect", "badLocation", "noLocation", "error", "tooLong",
              "wrongType", "ok"}

\* assetType is absent, a string, or something else that is not falsy: the body is
\* JSON, and nothing looks at its type.
Wants == [alg : Algs \cup {NoAlg}, hint : BOOLEAN, type : {"absent", "string", "other"}]

\* Places inside the handlers, past the try.
Inside == {"validate", "fetch", "headers", "read", "extract", "choose", "find"}

NoWants == [alg |-> NoAlg, hint |-> FALSE, type |-> "absent"]

Init ==
    /\ InitApp
    /\ wants = NoWants /\ extraction = "none" /\ value = "none"
    /\ hop = 0 /\ vetted = FALSE /\ fetches = 0
    /\ response = "none" /\ body = "closed" /\ total = 0 /\ downloaded = FALSE
    /\ timer = "off" /\ aborted = FALSE

-----------------------------------------------------------------------------
(* The answer *)

\* Mutant: the timer is cleared on the way to a success only.
AnswerLeavingTimer(s) ==
    /\ AnswerEarly(s)
    /\ timer' = IF s = 200 THEN "off" ELSE timer
    /\ UNCHANGED aborted

\* Every way out passes the finally that clears the timer, if there is one.
Answer(s) ==
    /\ AnswerEarly(s)
    /\ timer' = "off"
    /\ UNCHANGED aborted

\* Mutant: whatever the remote side does wrong is a timeout.
StatusOfAnyFetch(err) ==
    CASE err = "size" -> 400
      [] err = "reference" -> 400
      [] OTHER -> 504

\* Mutant: a data store that cannot be reached is a bad gateway.
StatusOfGateway(err) == IF call.route = "byReference" THEN 504 ELSE 502

\* The catch: by reference, which error it was and whether the signal was aborted
\* meanwhile; on the other routes any error is a failure of the service.
StatusOf(err) ==
    IF call.route # "byReference" THEN 500 ELSE
    CASE err = "size" -> 400
      [] err # "size" /\ (aborted \/ err = "abort") -> 504
      [] err = "reference" /\ ~aborted -> 400
      [] OTHER -> 500

Throw(err) == Answer(StatusOf(err))

GoTo(place) == Pass(place) /\ UNCHANGED clock

-----------------------------------------------------------------------------
(* Regions of interest (src/src/utils/regionOfInterest.ts) *)

\* A region of interest and the fields it must have, by its type.
RequiredFields ==
    [spatial |-> {"kind", "unit", "origin.x", "origin.y"}, temporal |-> {"start", "end"},
     frame |-> {"start", "end"}, textual |-> {"selector.fragment"},
     identified |-> {"identifier", "value"}]

ValidRegion(item) ==
    item.type \in DOMAIN RequiredFields /\ RequiredFields[item.type] \subseteq item.fields

\* parseRegionOfInterest accepts no region, or an array of valid ones.
ParsesAsRegion(region) ==
    region.kind = "absent" \/ (region.kind = "array" /\ \A item \in region.items : ValidRegion(item))

-----------------------------------------------------------------------------
(* The handlers begin *)

\* The variables of the last handler are no more.
ArriveAnew ==
    /\ \E c \in Clients, route \in Routes : Arrive(c, route)
    /\ wants' = NoWants /\ extraction' = "none" /\ value' = "none"
    /\ hop' = 0 /\ vetted' = FALSE /\ fetches' = 0
    /\ response' = "none" /\ body' = "closed" /\ total' = 0 /\ downloaded' = FALSE
    /\ timer' = "off" /\ aborted' = FALSE

Accept(place, asked, from, clockNow) ==
    /\ Pass(place)
    /\ wants' = asked /\ value' = from /\ timer' = clockNow
    /\ UNCHANGED <<link, download, aborted, extraction>>

\* Mutant: the return is missing in front of the answer.
RefuseAndGoOn(s) ==
    /\ pc' = "find" /\ status' = s
    /\ UNCHANGED <<link, download, clock, lookup>>

Refuse(s) == Answer(s) /\ UNCHANGED <<link, download, lookup>>

\* parseInt of a maxResults, or `>` of an assetLength, that does not convert throws
\* in front of the try.
Reject == HandlerRejects /\ UNCHANGED queryVars

AfterBody(alg) == IF alg = NoAlg THEN "choose" ELSE "extract"

\* Over GET a value may be too long; both need value and alg, of which alg is not
\* looked at again.
AskByBinding ==
    /\ pc = "handler" /\ call.route \in {"getByBinding", "postByBinding"}
    /\ \/ Reject
       \/ Refuse(400)
       \/ call.route = "getByBinding" /\ Refuse(414)
       \/ Accept("find", NoWants, "given", "off")

\* The type of the content, an empty body or one the JSON parser took, maxResults.
AskByContent ==
    /\ pc = "handler" /\ call.route = "byContent"
    /\ \/ Reject
       \/ \E s \in {400, 415} : Refuse(s)
       \/ \E asked \in Wants :
            asked.type = "string" /\ Accept(AfterBody(asked.alg), asked, "none", "off")

\* Missing fields, maxResults and assetLength, then the region; then the timer starts.
AskByReference ==
    /\ pc = "handler" /\ call.route = "byReference"
    /\ \/ Reject
       \/ Refuse(400)
       \/ \E region \in Regions, asked \in Wants :
            IF ParsesAsRegion(region) THEN Accept("validate", asked, "none", "armed")
                                      ELSE Refuse(400)

-----------------------------------------------------------------------------
(* The download *)

\* The responses whose body is cancelled: redirects, and those that are refused.
CancelsBody ==
    \/ response \in {"redirect", "badLocation", "noLocation", "error", "tooLong"}
    \/ response = "wrongType" /\ wants.type = "string"

\* setTimeout(() => controller.abort(), REFERENCE_TIMEOUT_MS): it fires while the
\* handler awaits something, the cancelling of a body among it.
Timeout ==
    /\ timer = "armed" /\ pc # "choose" /\ (pc = "headers" => CancelsBody)
    /\ timer' = "fired" /\ aborted' = TRUE
    /\ UNCHANGED <<appVars, link, download, lookup>>

\* validateReferenceUrl: the URL is accepted, or refused with a message that
\* names the URL, HTTPS, the IP address or the hostname.  It knows no signal.
Validate ==
    /\ pc = "validate"
    /\ \/ GoTo("fetch") /\ vetted' = TRUE
       \/ Throw("reference") /\ UNCHANGED vetted
    /\ UNCHANGED <<hop, fetches, download, lookup>>

\* fetch: any answer, a failure, whose message may name the URL, or, once aborted, an
\* AbortError.
Fetch ==
    /\ pc = "fetch"
    /\ fetches' = fetches + 1
    /\ \/ /\ \E err \in {"reference", "other"} : Throw(IF aborted THEN "abort" ELSE err)
          /\ UNCHANGED <<response, body>>
       \/ /\ ~aborted
          /\ \E kind \in Responses \ {"none"} :
               GoTo("headers") /\ response' = kind /\ body' = "open"
    /\ UNCHANGED <<hop, vetted, total, downloaded, lookup>>

\* Mutant: only the first URL is validated.
FollowUnvetted ==
    /\ body' = "closed"
    /\ \/ /\ hop < MaxRedirects
          /\ GoTo("fetch") /\ hop' = hop + 1 /\ vetted' = FALSE
       \/ /\ hop = MaxRedirects
          /\ Throw("reference") /\ UNCHANGED <<hop, vetted>>

\* Mutant: the body of a redirect is left alone.
FollowLeavingBody ==
    \/ /\ hop < MaxRedirects
       /\ GoTo("validate") /\ hop' = hop + 1 /\ vetted' = FALSE /\ UNCHANGED body
    \/ /\ hop = MaxRedirects
       /\ Throw("reference") /\ UNCHANGED <<hop, vetted, body>>

\* The last redirect allowed has been followed, or the next URL is looked at.
Follow ==
    /\ body' = "closed"
    /\ \/ /\ hop < MaxRedirects
          /\ GoTo("validate") /\ hop' = hop + 1 /\ vetted' = FALSE
       \/ /\ hop = MaxRedirects
          /\ Throw("reference") /\ UNCHANGED <<hop, vetted>>

\* A location that is no URL counts after the bound has been tested.
Redirected ==
    /\ pc = "headers"
    /\ \/ response = "redirect" /\ Follow
       \/ /\ response = "badLocation"
          /\ body' = "closed" /\ Throw("reference") /\ UNCHANGED <<hop, vetted>>
    /\ UNCHANGED <<fetches, response, total, downloaded, lookup>>

\* Mutant: the timer is cleared once the headers are there.
ReadFromDisarmed == Pass("read") /\ timer' = "off" /\ UNCHANGED <<aborted, body>>

ReadFrom == GoTo("read") /\ UNCHANGED body

\* Any other response is refused on its status, its length or its type, or read.
\* assetType.split on what is no string throws, and leaves the body as it is.
Inspect ==
    /\ pc = "headers"
    /\ \/ /\ response \in {"error", "noLocation"}
          /\ body' = "closed" /\ Answer(502)
       \/ /\ \/ response = "tooLong"
             \/ response = "wrongType" /\ wants.type = "string"
          /\ body' = "closed" /\ Answer(400)
       \/ /\ response \in {"ok", "wrongType"} /\ wants.type = "other"
          /\ Throw("other") /\ UNCHANGED body
       \/ /\ \/ response = "ok" /\ wants.type # "other"
             \/ response = "wrongType" /\ wants.type = "absent"
          /\ ReadFrom
    /\ UNCHANGED <<link, response, total, downloaded, lookup>>

\* await response.body?.cancel(): the connection has broken, or was aborted.
CancelFails ==
    /\ pc = "headers" /\ CancelsBody
    /\ body' = "closed"
    /\ Throw(IF aborted THEN "abort" ELSE "other")
    /\ UNCHANGED <<link, response, total, downloaded, lookup>>

\* Mutant: the limit is compared before the chunk is counted.
TooMuchAlready(n) == total > MaxBytes

TooMuch(n) == total + n > MaxBytes

\* readBoundedBody: a chunk, the end, a failure; the reader is cancelled on the
\* way out of each error.
ReadChunk ==
    /\ pc = "read" /\ ~aborted
    /\ \E n \in 1..MaxChunk :
         \/ /\ TooMuch(n)
            /\ Throw("size") /\ body' = "closed" /\ UNCHANGED total
         \/ /\ ~TooMuch(n)
            /\ GoTo("read") /\ total' = total + n /\ UNCHANGED body
    /\ UNCHANGED <<link, response, downloaded, lookup>>

ReadEnd ==
    /\ pc = "read" /\ ~aborted
    /\ body' = "closed"
    /\ downloaded' = TRUE
    /\ GoTo(AfterBody(wants.alg))
    /\ UNCHANGED <<link, response, total, lookup>>

ReadFails ==
    /\ pc = "read"
    /\ body' = "closed"
    /\ Throw(IF aborted THEN "abort" ELSE "other")
    /\ UNCHANGED <<link, response, total, downloaded, lookup>>

-----------------------------------------------------------------------------
(* Extraction and lookup *)

\* The errors of a plugin's own: with any message at all, and an AbortError where a
\* request of its own was aborted.
PluginErrors == {"reference", "abort", "other"}

\* extractSoftBinding: an extractor finds a value, or nothing, or throws; an algorithm
\* without one yields nothing.
Extract ==
    /\ pc = "extract"
    /\ \/ /\ wants.alg \in Extractors
          /\ \/ GoTo("choose") /\ extraction' = "value" /\ value' = "extracted"
             \/ GoTo("choose") /\ extraction' = "null" /\ UNCHANGED value
             \/ \E err \in PluginErrors :
                  Throw(err) /\ extraction' = "error" /\ UNCHANGED value
       \/ wants.alg \notin Extractors /\ GoTo("choose") /\ UNCHANGED <<extraction, value>>
    /\ UNCHANGED <<link, download, wants>>

\* Mutant: a client that knows the value is taken at its word.
PreferHint == IF wants.hint THEN "hint" ELSE value

\* The hint serves when the asset yields nothing.
FallBack == IF value = "none" /\ wants.hint THEN "hint" ELSE value

\* Without any value there are no matches.
Choose ==
    /\ pc = "choose"
    /\ value' = FallBack
    /\ IF value' = "none" THEN Answer(200) ELSE GoTo("find")
    /\ UNCHANGED <<link, download, wants, extraction>>

\* dataStore.findByBinding
Find ==
    /\ pc = "find"
    /\ \/ Answer(200)
       \/ \E err \in PluginErrors : Throw(err)
    /\ UNCHANGED <<link, download, lookup>>

\* What the handlers do by themselves.
Local ==
    /\ \/ AskByBinding \/ AskByContent \/ AskByReference \/ Validate \/ Redirected
       \/ Inspect \/ CancelFails \/ Extract \/ Choose \/ Find
    /\ UNCHANGED front

\* The other routes, and the way to all of them.
HandleOther == call.route \notin QueryRoutes /\ Handle

FrontStep == Middleware \/ HandleOther

Remote == (Fetch \/ ReadChunk \/ ReadEnd \/ ReadFails) /\ UNCHANGED front

Next ==
    \/ ArriveAnew
    \/ (\E c \in Clients : NextWindow(c)) /\ UNCHANGED queryVars
    \/ (FrontStep \/ Restart) /\ UNCHANGED queryVars
    \/ Local
    \/ Timeout
    \/ Remote

\* The event loop runs the middleware and the handler; the client's body, the limiter's
\* store, the resolver, extractor and data store answer, and the timer fires.  The
\* remote side promises nothing, but an aborted fetch or read rejects.
Fairness ==
    /\ WF_vars(FrontStep /\ UNCHANGED queryVars)
    /\ WF_vars(Local)
    /\ WF_vars(Timeout)
    /\ WF_vars(aborted /\ pc \in {"fetch", "read"} /\ Remote)

QuerySpec == Init /\ [][Next]_vars
FairSpec == QuerySpec /\ Fairness

-----------------------------------------------------------------------------
(* Properties *)

TypeOK ==
    /\ config \in Configs
    /\ hits \in [Clients -> 0..(Limit + 1)] /\ reached \in [Clients -> Nat]
    /\ pc \in {"done", "rejected", "json", "limit", "auth", "raw", "handler"} \cup Inside
    /\ call \in [client : Clients, route : Routes]
    /\ granted \in Scopes \cup {"unset", "none"}
    /\ wants \in Wants
    /\ hop \in 0..MaxRedirects /\ vetted \in BOOLEAN /\ fetches \in Nat
    /\ response \in Responses
    /\ body \in {"open", "closed"}
    /\ total \in 0..MaxBytes
    /\ timer \in {"off", "armed", "fired"} /\ aborted \in BOOLEAN
    /\ downloaded \in BOOLEAN
    /\ extraction \in {"none", "value", "null", "error"}
    /\ value \in {"none", "given", "extracted", "hint"}
    /\ status \in {0} \cup 200..504

\* No URL is fetched that has not been validated, on any hop, and no request
\* makes more fetches than the first and MaxRedirects redirects.
FetchesAreVetted ==
    /\ pc = "fetch" => vetted
    /\ fetches <= MaxRedirects + 1

\* No response body stays open, not behind a redirect that was followed, and not
\* behind any answer, early or late: except where assetType is not a string, when the
\* 500 leaves the body of the download unread and uncancelled.
BodiesAreReleased ==
    pc \notin {"headers", "read"} /\ body = "open" =>
        wants.type = "other" /\ response \in {"ok", "wrongType"}

\* No answer leaves the timer running, to abort nothing 30 seconds later.
TimerIsCleared == pc \in {"done", "rejected", "json", "handler"} => timer = "off"

\* Until the download is over the remote side alone cannot cause a 504: the timer must
\* have fired.  After it a 504 is also what an AbortError of the extractor's or the
\* store's own becomes.
EarnedStatus(s) ==
    /\ s = 504 => aborted \/ pc \in {"extract", "find"}
    /\ s = 200 => downloaded /\ extraction # "error"

\* By reference a 504 is answered only for one of those reasons, and matches only for
\* an asset that was read to its end, by an extractor that did not fail.
StatusIsEarned == [][IsAnswered /\ call.route = "byReference" => EarnedStatus(status')]_vars

\* What is looked up is what the asset yields, and a hint only if it yields nothing:
\* there is no algorithm, no extractor for it, or nothing to be found.
HintNeverOverrides ==
    pc = "find" =>
        /\ extraction = "value" <=> value = "extracted"
        /\ value = "hint" => wants.hint /\ (wants.alg \in Extractors => extraction = "null")

\* To a caller, a handler of a query route is one step of App: it answers once, with
\* one of the answers of its route, or rejects, and touches nothing else.
PlaceInApp == IF pc \in Inside THEN "handler" ELSE pc
Front == INSTANCE App WITH pc <- PlaceInApp
ImplementsApp == Front!Spec

\* Every request is answered, even if the remote side never answers or never
\* stops sending: except one whose handler rejects before its try.
EveryRequestAnswered == (pc \notin {"done", "rejected"}) ~> (pc \in {"done", "rejected"})

\* "Reference download timed out": a 504 says that the download did.  (Not so: see
\* by_reference_504.)
TimeoutMeansDownload == pc = "done" /\ status = 504 => ~downloaded
=============================================================================
