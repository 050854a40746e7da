------------------------------ MODULE HttpEdge ------------------------------
(***************************************************************************)
(* One request on its way through rushwind-http: the middlewares HttpEdge  *)
(* wraps around a router, the guards around a protected subtree, the       *)
(* handler, and the answer on its way back out.                            *)
(*                                                                         *)
(* chain is the request's path, outermost layer first; depth is where it   *)
(* has got to.  Only a handler awaits, so only there can the budget run    *)
(* out or the client go away.  Requests share nothing in this crate: one   *)
(* request over every configuration shows what any of them can do.         *)
(***************************************************************************)
EXTENDS Naturals, Sequences, FiniteSets, SequencesExt

CONSTANTS Configs,      \* the edge of a document, the guards of its subtree, the extractor
          Requests,     \* what a client may send
          ClaimsOf,     \* credential -> the engine's verdict, with the claims of a "valid" one
          Permits,      \* <<subject, project>> -> "yes", "no", or an error's "status401", "status403"
          None, MaxTouches

VARIABLES
  config, request,
  depth,       \* how many layers the request is inside of
  phase,       \* "in", "handling", "out", "unwinding", "answered", "aborted"
  handler,     \* "idle", "running", "returned", "panicked", "dropped"
  extensions,  \* what the layers inserted into the request
  response,
  log,         \* the line of the logging layer
  touched      \* effects the handler has had

edgeVars == <<config, request, depth, phase, handler, extensions, response, log, touched>>

-----------------------------------------------------------------------------
(* The error envelope: reasons and the classes that anchor their status.   *)
Status == [BadRequest |-> 400, Unauthorized |-> 401, Forbidden |-> 403, NotFound |-> 404,
           Conflict |-> 409, TooManyRequests |-> 429, Internal |-> 500, NotImplemented |-> 501,
           Unavailable |-> 503, DeadlineExceeded |-> 504]

FromStorage == [missing |-> "NotFound", invalid |-> "BadRequest", conflict |-> "Conflict",
                unsupported |-> "NotImplemented", timeout |-> "DeadlineExceeded", backend |-> "Internal"]

FromAuthn(verdict) == IF verdict = "invalid" THEN "Unauthorized" ELSE "Internal"
FromAuthz(error) == IF error = "status401" THEN "Unauthorized" ELSE "Forbidden"

\* No response headers yet: None is an absent header.
Bare(status, from) ==
  [status |-> status, from |-> from, id |-> None, origin |-> None, credentials |-> FALSE,
   methods |-> {}, headers |-> {}, expose |-> {}]
Rejection(code, from) == Bare(Status[code], from)

-----------------------------------------------------------------------------
(* The stack.  A document switches default layers off and names a CORS     *)
(* policy by lists; wrap adds each enabled layer outside those before it.  *)
CorsOptionsFrom(wire) ==
  [origins |-> ToSet(wire.origins), credentials |-> wire.credentials,
   methods |-> ToSet(wire.methods), headers |-> ToSet(wire.headers)]

EdgeOf(wire) ==
  [recovery |-> "recovery" \notin wire.off, request_id |-> "request_id" \notin wire.off,
   logging |-> "logging" \notin wire.off, timeout |-> wire.timeout,
   cors |-> IF wire.cors = None THEN None ELSE CorsOptionsFrom(wire.cors),
   compat |-> wire.cors # None /\ wire.compat]

edge == EdgeOf(config.wire)

Around(layer, enabled, inner) == IF enabled THEN <<layer>> \o inner ELSE inner

Wrap(router) ==
  Around("recovery", edge.recovery,
    Around("request_id", edge.request_id,
      Around("logging", edge.logging,
        Around("cors", edge.cors # None, Around("timeout", edge.timeout, router)))))

AuthzOutside(guards, router) ==
  Around("authz", guards.authz # None, Around("authn", guards.authn, router))

ApplyGuards(guards, router) ==
  Around("authn", guards.authn, Around("authz", guards.authz # None, router))

Route(c, path) == IF path = "protected" THEN ApplyGuards(c.guards, <<"handler">>) ELSE <<"handler">>
chain == Wrap(Route(config, request.path))
Layer == chain[depth + 1]
InsideOf(layer) == \E i \in 1..depth : chain[i] = layer

EdgeInit ==
  /\ config \in Configs /\ request \in Requests
  /\ depth = 0 /\ phase = "in" /\ handler = "idle"
  /\ extensions = [id |-> None, claims |-> None]
  /\ response = None
  /\ log = [opened |-> FALSE, id |-> None, status |-> None]
  /\ touched = 0

Inward == depth' = depth + 1 /\ UNCHANGED <<phase, response>>
Answer(r) == phase' = "out" /\ response' = r /\ UNCHANGED depth
Entering(layer) == phase = "in" /\ Layer = layer /\ UNCHANGED <<config, request, handler, touched>>

EnterRecovery == Entering("recovery") /\ Inward /\ UNCHANGED <<extensions, log>>
EnterTimeout == Entering("timeout") /\ Inward /\ UNCHANGED <<extensions, log>>

\* An id that is not visible ASCII reads as absent.
EnterRequestId ==
  /\ Entering("request_id") /\ Inward
  /\ extensions' = [extensions EXCEPT !.id = IF request.id = "sent" THEN "sent" ELSE "minted"]
  /\ UNCHANGED log

EnterLogging ==
  /\ Entering("logging") /\ Inward
  /\ log' = [log EXCEPT !.opened = TRUE, !.id = extensions.id]
  /\ UNCHANGED extensions

-----------------------------------------------------------------------------
(* CORS.  A header name is <<name, case>>; "lower" and "mixed" spell one   *)
(* name, "odd" is a name with a character outside letters, digits, '-'.    *)
Preflight == request.method = "OPTIONS"
Simple == {"GET", "HEAD", "POST"}
Safelisted == {<<"accept", "lower">>}
Lower(h) == <<h[1], IF h[2] = "odd" THEN "odd" ELSE "lower">>

DefaultAllowMethods == {"GET", "HEAD", "POST", "PUT", "PATCH", "DELETE", "OPTIONS"}
DefaultAllowHeaders == {<<h, "lower">> : h \in {"content-type", "authorization", "x-request-id"}}
Parsed(headers) == {h \in headers : h[2] # "mixed"}
ParseOrDefault(configured, parsed, defaults) == IF configured = {} THEN defaults ELSE parsed

\* rushwind-http's policy as the tower-http layer answers by it: every
\* OPTIONS request is a preflight, and is answered with the lists.
ToLayer(cors) ==
  [any |-> "*" \in cors.origins, echo |-> "*" \in cors.origins /\ cors.credentials,
   methods |-> ParseOrDefault(cors.methods, cors.methods, DefaultAllowMethods),
   headers |-> ParseOrDefault(cors.headers, Parsed(cors.headers), DefaultAllowHeaders),
   expose |-> {"x-request-id"}]

TowerOrigin(cors, origin) ==
  LET layer == ToLayer(cors)
  IN  CASE layer.echo -> origin
        [] layer.any /\ ~layer.echo -> "*"
        [] OTHER -> IF origin \in cors.origins THEN origin ELSE None

TowerStamp(cors, r) ==
  [r EXCEPT !.origin = TowerOrigin(cors, request.origin), !.credentials = cors.credentials]

TowerPreflight(cors) ==
  [TowerStamp(cors, Bare(200, "cors")) EXCEPT !.methods = ToLayer(cors).methods,
                                              !.headers = ToLayer(cors).headers]

\* The gorilla-compatible layer.
FromOptions(cors) ==
  [methods |-> cors.methods,
   headers |-> Safelisted \cup {Lower(h) : h \in {x \in cors.headers : x[2] # "odd"}},
   origins |-> IF "*" \in cors.origins THEN {"*"} ELSE cors.origins,
   credentials |-> cors.credentials]

IsOriginAllowed(state, origin) ==
  /\ origin # None
  /\ state.origins = {} \/ {origin, "*"} \cap state.origins # {}

ReturnOrigin(state, origin) == IF state.origins \in {{}, {"*"}} THEN "*" ELSE origin

CompatStamp(state, r) ==
  [r EXCEPT !.origin = ReturnOrigin(state, request.origin), !.credentials = state.credentials]

\* Names that do not canonicalize are skipped, as the safelisted ones are.
Reflected == {Lower(h) : h \in {x \in request.wants : x[2] # "odd"}} \ Safelisted

CompatPreflight(state) ==
  CASE request.wanted = None -> Bare(400, "cors")
    [] request.wanted # None /\ request.wanted \notin state.methods -> Bare(405, "cors")
    [] request.wanted \in state.methods /\ ~(Reflected \subseteq state.headers) -> Bare(403, "cors")
    [] OTHER -> [CompatStamp(state, Bare(200, "cors"))
                   EXCEPT !.headers = Reflected, !.methods = {request.wanted} \ Simple]

CompatRun(cors) ==
  LET state == FromOptions(cors)
  IN  IF IsOriginAllowed(state, request.origin) THEN CompatPreflight(state) ELSE Bare(200, "cors")

EnterCors ==
  /\ Entering("cors")
  /\ IF Preflight
     THEN Answer(IF edge.compat THEN CompatRun(edge.cors) ELSE TowerPreflight(edge.cors))
     ELSE Inward
  /\ UNCHANGED <<extensions, log>>

LeaveCors(r) ==
  LET cors == edge.cors
  IN  IF edge.compat
      THEN IF IsOriginAllowed(FromOptions(cors), request.origin) THEN CompatStamp(FromOptions(cors), r) ELSE r
      ELSE [TowerStamp(cors, r) EXCEPT !.expose = ToLayer(cors).expose]

-----------------------------------------------------------------------------
(* The guards of a subtree.                                                *)
Claims == ClaimsOf[request.credential]

EnterAuthn ==
  /\ Entering("authn")
  /\ IF Claims.verdict # "valid"
     THEN Answer(Rejection(FromAuthn(Claims.verdict), "authn")) /\ UNCHANGED extensions
     ELSE Inward /\ extensions' = [extensions EXCEPT !.claims = Claims]
  /\ UNCHANGED log

\* The project axis: fixed, read from a claim, or empty; an absent claim,
\* like an absent subject, is the empty string.
ProjectOf(point, claims) == IF point = "claim" THEN claims.tenant ELSE IF point = "none" THEN "" ELSE point

Authorize(claims) == Permits[<<claims.sub, ProjectOf(config.guards.authz, claims)>>]

EnterAuthz ==
  /\ Entering("authz")
  /\ IF extensions.claims = None
     THEN Answer(Rejection("Unauthorized", "authz"))
     ELSE CASE Authorize(extensions.claims) = "yes" -> Inward
            [] Authorize(extensions.claims) = "no" -> Answer(Rejection("Forbidden", "authz"))
            [] OTHER -> Answer(Rejection(FromAuthz(Authorize(extensions.claims)), "authz"))
  /\ UNCHANGED <<extensions, log>>

-----------------------------------------------------------------------------
(* The handler: its extractor, its effects, and the ways it ends.          *)
Authenticated == config.extractor = "required" => extensions.claims # None
RouteMethod == "GET"

EnterHandler ==
  /\ phase = "in" /\ Layer = "handler"
  /\ CASE request.method # RouteMethod -> Answer(Bare(405, "router")) /\ UNCHANGED handler
       [] request.method = RouteMethod /\ ~Authenticated ->
            Answer(Rejection("Unauthorized", "extractor")) /\ UNCHANGED handler
       [] OTHER -> handler' = "running" /\ phase' = "handling" /\ UNCHANGED <<depth, response>>
  /\ UNCHANGED <<config, request, extensions, log, touched>>

Touch ==
  /\ handler = "running" /\ touched < MaxTouches
  /\ touched' = touched + 1
  /\ UNCHANGED <<config, request, depth, phase, handler, extensions, response, log>>

Return ==
  /\ handler = "running" /\ phase = "handling"
  /\ handler' = "returned"
  /\ \E r \in {Bare(200, "handler")} \cup {Rejection(FromStorage[e], "handler") : e \in DOMAIN FromStorage} :
       Answer(r)
  /\ UNCHANGED <<config, request, extensions, log, touched>>

Panic ==
  /\ handler = "running" /\ phase = "handling"
  /\ handler' = "panicked" /\ phase' = "unwinding"
  /\ UNCHANGED <<config, request, depth, extensions, response, log, touched>>

\* The timer drops the inner future: the handler ends at its await.
TimeUp ==
  /\ phase = "handling" /\ InsideOf("timeout")
  /\ handler' = "dropped"
  /\ depth' = SelectInSeq(chain, LAMBDA layer : layer = "timeout") - 1
  /\ phase' = "out" /\ response' = Rejection("DeadlineExceeded", "timeout")
  /\ UNCHANGED <<config, request, extensions, log, touched>>

\* The client closes its connection: the server drops the whole future.
ClientGone ==
  /\ phase = "handling"
  /\ phase' = "aborted" /\ handler' = "dropped"
  /\ UNCHANGED <<config, request, depth, extensions, response, log, touched>>

-----------------------------------------------------------------------------
(* The way out: each layer the request is inside of sees the answer, or    *)
(* the unwinding.                                                          *)
Leaving == chain[depth]

Leave ==
  /\ phase = "out" /\ depth > 0
  /\ depth' = depth - 1
  /\ response' = CASE Leaving = "cors" -> LeaveCors(response)
                   [] Leaving = "request_id" -> [response EXCEPT !.id = extensions.id]
                   [] OTHER -> response
  /\ log' = IF Leaving = "logging" THEN [log EXCEPT !.status = response.status] ELSE log
  /\ UNCHANGED <<config, request, phase, handler, extensions, touched>>

Send ==
  /\ phase = "out" /\ depth = 0
  /\ phase' = "answered"
  /\ UNCHANGED <<config, request, depth, handler, extensions, response, log, touched>>

Unwind ==
  /\ phase = "unwinding"
  /\ IF depth > 0 /\ Leaving = "recovery"
     THEN phase' = "out" /\ response' = Rejection("Internal", "recovery") /\ depth' = depth - 1
     ELSE IF depth > 0 THEN depth' = depth - 1 /\ UNCHANGED <<phase, response>>
                       ELSE phase' = "aborted" /\ UNCHANGED <<depth, response>>
  /\ UNCHANGED <<config, request, handler, extensions, log, touched>>

\* What the server itself does, against what handler and client may do.
Layers == \/ EnterRecovery \/ EnterTimeout \/ EnterRequestId \/ EnterLogging \/ EnterCors
          \/ EnterAuthn \/ EnterAuthz \/ EnterHandler \/ Leave \/ Send \/ Unwind
EdgeNext == Layers \/ Touch \/ Return \/ Panic \/ TimeUp \/ ClientGone

-----------------------------------------------------------------------------
Guarded == request.path = "protected" /\ config.guards.authn
Entitled ==
  /\ Claims.verdict = "valid"
  /\ config.guards.authz # None =>
       Permits[<<Claims.sub, ProjectOf(config.guards.authz, Claims)>>] = "yes"

(* with_authn inserts the claims, with_authorization reads them, and the   *)
(* extractor reads them again: behind both guards a handler runs exactly   *)
(* for the callers who hold a valid credential and the permission, and     *)
(* nobody who is entitled is turned away by a guard or an extractor.       *)
GuardsDecide ==
  Guarded =>
    /\ handler # "idle" => Entitled
    /\ response # None /\ response.from \in {"authn", "authz", "extractor"} => ~Entitled

(* What a browser on another origin makes of an answer.  with_credentials  *)
(* is refused together with "*", the one pair compat can emit.             *)
Reads(with_credentials) ==
  /\ response.origin \in {request.origin, "*"}
  /\ with_credentials => response.credentials /\ response.origin # "*"
Granted ==
  /\ response.status = 200 /\ Reads(FALSE)
  /\ request.wanted \in response.methods \cup Simple
  /\ {Lower(h) : h \in request.wants} \subseteq response.headers \cup Safelisted

Listed(cors) == \/ request.origin \in cors.origins \/ "*" \in cors.origins
                \/ edge.compat /\ cors.origins = {}

(* A page of another origin reads an answer exactly if its origin is       *)
(* configured, whichever layer answered: the handler, a guard, the budget; *)
(* with credentials exactly if those are configured too.  Left out is the  *)
(* answer to a panic, which is made outside CORS, and compat's "*" next to *)
(* credentials.  A preflight is granted for nothing that is not listed.    *)
OriginsReadWhatTheyMay ==
  LET cors == edge.cors
  IN  (phase = "answered" /\ cors # None /\ request.origin # None /\ response.from # "recovery") =>
        IF Preflight
        THEN Granted =>
               /\ Listed(cors)
               /\ \/ request.wanted \in Simple \cup cors.methods
                  \/ cors.methods = {} /\ request.wanted \in DefaultAllowMethods
               /\ \A h \in request.wants :
                    \/ Lower(h) \in Safelisted \cup {Lower(x) : x \in cors.headers}
                    \/ cors.headers = {} /\ Lower(h) \in DefaultAllowHeaders
        ELSE /\ Reads(FALSE) <=> Listed(cors)
             /\ (edge.compat /\ (cors.origins = {} \/ "*" \in cors.origins)) \/
                  (Reads(TRUE) <=> Listed(cors) /\ cors.credentials)

(* The id the client gets, the one in the log line and the one the handler *)
(* saw are the same, the line's status is the one sent, and a panic is the *)
(* only thing that leaves an answer without its id or its line (both       *)
(* layers are inside the recovery, so the unwinding passes them).          *)
AnswersCorrelate ==
  (phase = "answered" /\ response.from # "recovery") =>
    /\ edge.request_id => response.id = extensions.id /\ extensions.id # None
    /\ edge.logging =>
         log.status = response.status /\ (edge.request_id => log.id = response.id)

(* An answer is the last thing a request does: once it is on its way no    *)
(* handler runs on, and the answer is 504 by the budget only if the        *)
(* handler was cut, 500 by the recovery only if it panicked.               *)
CutMeansCut ==
  phase \in {"out", "answered", "aborted"} =>
    /\ handler # "running"
    /\ response # None =>
         /\ response.from = "timeout" <=> handler = "dropped"
         /\ response.from = "recovery" <=> handler = "panicked"
         /\ Preflight /\ edge.cors # None => handler = "idle"

(* With a budget set, a handler that hangs is answered all the same.       *)
Ended == phase \in {"answered", "aborted"}
Bounded == edge.timeout \/ handler # "running"
=============================================================================
