------------------------------- MODULE MCEdge -------------------------------
(***************************************************************************)
(* Instances for TLC of what takes requests in: the layers of the HTTP     *)
(* edge, the security engines its guards ask, the binder and the CRUD      *)
(* endpoints behind it, and the assembly that mounts them all.  As they    *)
(* share no state one run explores them one at a time: turn is the one     *)
(* that runs.  The pure functions are judged in initial states.            *)
(***************************************************************************)
EXTENDS Integers, Sequences, FiniteSets, TLC

CONSTANTS None, NoPayload, c1, c2,
          EdgeCases,   \* pairs of a set of configurations and a set of requests
          ClaimsOf, Permits, MaxTouches,
          Docs, Known, Features, MaxRequests,
          Names, Secrets, SessionIds, MaxNow, MaxSkew, MaxMints, MaxEdits, Wide,   \* Authn
          Policies, PermissionsOf, RolesOf, RulesOf, Subjects, Wanted, Installers, MaxInstalls   \* Authz

VARIABLES
  turn,
  config, request, depth, phase, handler, extensions, response, log, touched,
  doc, stage, todo, made, hooks, bound, routes, result, scripts, announced,
  handle, app, requests, served, faults,
  options, source, store, now, minted, handshake, edits,
  engine, permissions, user_roles, rules, install, installs, latest, answer,
  route, parsing, unparsed, message, filled, status, reason, called,
  rows, next_id, adrift, open, asked

-----------------------------------------------------------------------------
(* Stacks and requests: every subset of the layers with every guard, and   *)
(* every CORS policy with a stack around it.                               *)
Cors(origins, credentials, methods, headers) ==
  [origins |-> origins, credentials |-> credentials, methods |-> methods, headers |-> headers]
CorsPolicies == {Cors(o, c, m, h) :
               o \in {<<>>, <<"here">>, <<"there", "here">>, <<"*", "here">>}, c \in BOOLEAN,
               m \in {<<>>, <<"GET", "PUT">>}, h \in {<<>>, <<<<"captcha", "lower">>, <<"token", "mixed">>>>}}

Wire(off, cors, compat, timeout) == [off |-> off, cors |-> cors, compat |-> compat, timeout |-> timeout]
Guards == {[authn |-> n, authz |-> z] : n \in BOOLEAN, z \in {None, "none", "claim", "east"}}
Config(wire, guards, extractor) == [wire |-> wire, guards |-> guards, extractor |-> extractor]

OneCors == Cors(<<"here">>, TRUE, <<>>, <<>>)
StackConfigs ==
  {Config(Wire(off, c, FALSE, t), [authn |-> TRUE, authz |-> "claim"], "required") :
     off \in SUBSET {"recovery", "request_id", "logging"}, c \in {None, OneCors}, t \in BOOLEAN}
  \cup {Config(Wire({}, c, FALSE, TRUE), g, x) :
          c \in {None, OneCors}, g \in Guards, x \in {"none", "required", "optional"}}
CorsConfigs ==
  {Config(Wire({}, c, k, TRUE), [authn |-> TRUE, authz |-> None], "none") :
     c \in CorsPolicies, k \in BOOLEAN}

Request(method, path, origin, id, credential, wanted, wants) ==
  [method |-> method, path |-> path, origin |-> origin, id |-> id, credential |-> credential,
   wanted |-> wanted, wants |-> wants]
StackRequests ==
  {Request(m, p, "here", i, k, "GET", {}) :
     m \in {"GET", "POST", "OPTIONS"}, p \in {"public", "protected"}, i \in {"sent", "opaque"},
     k \in {"ann", "bob", "anonymous", "bad", "broken"}}
CorsRequests ==
  {Request("GET", "protected", o, None, k, None, {}) : o \in {None, "here", "there"}, k \in {"ann", "bad"}}
  \cup {Request("OPTIONS", "protected", o, "sent", "bad", w, h) :
          o \in {None, "here", "there"}, w \in {None, "GET", "PUT", "PATCH"},
          h \in {{}, {<<"captcha", "lower">>}}}
  \cup {Request("OPTIONS", "protected", o, "sent", "bad", "PUT", h) :
          o \in {"here", "there"},
          h \in {{<<"token", "lower">>}, {<<"accept", "lower">>, <<"captcha", "mixed">>},
                 {<<"under_score", "odd">>}, {<<"authorization", "lower">>}, {<<"other", "lower">>}}}

Claim(verdict, sub, tenant) == [verdict |-> verdict, sub |-> sub, tenant |-> tenant]
MCClaims ==
  [ann |-> Claim("valid", "ann", "east"), bob |-> Claim("valid", "bob", ""),
   anonymous |-> Claim("valid", "", "east"),
   bad |-> Claim("invalid", "", ""), broken |-> Claim("misconfigured", "", "")]
MCPermits ==
  [k \in {"ann", "bob", ""} \X {"", "east"} |->
     CASE k = <<"ann", "east">> -> "yes" [] k = <<"bob", "">> -> "yes"
       [] k = <<"bob", "east">> -> "status401" [] k[1] = "" -> "status403" [] OTHER -> "no"]
MCCases == {<<StackConfigs, StackRequests>>, <<CorsConfigs, CorsRequests>>}

\* No value is a header of this text, switches are on or off, no origin is the
\* wildcard, and a credential has claims.
ASSUME EdgeAssumption ==
  /\ None \notin {"*", "sent", "minted"}
  /\ \A case \in EdgeCases :
       /\ \A c \in case[1] : c.wire.timeout \in BOOLEAN /\ c.guards.authn \in BOOLEAN
       /\ \A r \in case[2] : r.origin # "*" /\ ClaimsOf[r.credential] # None

E == INSTANCE HttpEdge WITH
       Configs <- UNION {case[1] : case \in EdgeCases},
       Requests <- UNION {case[2] : case \in EdgeCases}

-----------------------------------------------------------------------------
(* Documents: a full one, one with a reference to nothing, one with two    *)
(* projects on a point, one without identity, one of other servers.        *)
Guard(n, z) == [authn |-> n, authz |-> z, project |-> FALSE, project_claim |-> FALSE]
Pack(name, guards) == [name |-> name, guards |-> guards]
Http(packs, mounts) == [kind |-> "http", packs |-> packs, mounts |-> mounts]
Other(kind, jobs) == [kind |-> kind, packs |-> <<>>, mounts |-> {}, jobs |-> jobs]

Plain ==
  [storage |-> {<<"db", "memory">>}, authn |-> {<<"jwt", "jwt">>}, authz |-> {<<"rbac", "rbac">>},
   broker |-> {}, cache |-> {}, circuitbreaker |-> {}, limiter |-> {}, ai |-> {}, oss |-> {},
   metrics |-> {<<"m", "prometheus">>}, config |-> <<>>, script |-> {<<"rules", "lua">>},
   health |-> {<<"h", "health">>}, tracer |-> {},
   endpoint |-> <<[nest |-> "/users", api |-> "crud", guards |-> Guard("jwt", None)]>>,
   server |-> <<Http(<<Pack("api", Guard("jwt", "rbac"))>>, {"health", "metrics"}), Http(<<Pack("open", Guard(None, None))>>, {})>>,
   registry |-> {<<"etcd", "etcd">>}, registrar |-> TRUE, identity |-> TRUE]
Guarded(g) == [Plain EXCEPT !.server = <<Http(<<Pack("api", g)>>, {})>>]
MCDocs ==
  {Plain, [Plain EXCEPT !.server = <<Http(<<Pack("open", Guard("jwt", None)), Pack("open", Guard(None, None))>>, {})>>],
   Guarded(Guard("jwks", None)), Guarded(Guard(None, "acl")),
   Guarded([Guard("jwt", "rbac") EXCEPT !.project = TRUE, !.project_claim = TRUE]),
   [Plain EXCEPT !.storage = {}, !.tracer = {<<"otlp", "otlp">>}],
   [Plain EXCEPT !.storage = {}, !.health = {}, !.endpoint = <<>>],
   [Plain EXCEPT !.script = {<<"rules", "lua">>, <<"rates", "cel">>}, !.identity = FALSE, !.endpoint = <<>>],
   [Plain EXCEPT !.broker = {<<"a", "mqtt">>, <<"b", "kafka">>}, !.cache = {<<"c", "local">>},
                 !.limiter = {<<"l", "bbr">>}, !.circuitbreaker = {<<"cb", "sres">>}, !.ai = {<<"chat", "openai">>},
                 !.oss = {<<"files", "s3">>}, !.config = <<"file", "env">>,
                 !.metrics = {<<"m", "otel">>}, !.authz = {}, !.script = {}, !.endpoint = <<>>,
                 !.server = <<Other("cron", {"sweep"}), Other("mqtt", {})>>],
   [Plain EXCEPT !.server = <<Other("cron", {"nothing"})>>, !.endpoint = <<>>, !.registrar = FALSE],
   [Plain EXCEPT !.server = <<>>, !.registry = {<<"x", "unknown">>}, !.endpoint = <<>>],
   [Plain EXCEPT !.server = <<Other("mqtt", {})>>, !.registrar = FALSE, !.endpoint = <<>>]}

MCKnown ==
  {<<"storage", "memory">>, <<"authn", "jwt">>, <<"authz", "rbac">>, <<"broker", "mqtt">>,
   <<"broker", "kafka">>, <<"cache", "local">>, <<"limiter", "bbr">>, <<"circuitbreaker", "sres">>,
   <<"ai", "openai">>, <<"oss", "s3">>, <<"config", "env">>, <<"config", "file">>,
   <<"metrics", "otel">>, <<"script", "lua">>, <<"script", "cel">>, <<"pack", "api">>,
   <<"pack", "open">>, <<"job", "sweep">>, <<"server", "mqtt">>, <<"registry", "etcd">>}

\* Lists are lists, and a document names one registry at most.
IsList(s) == s \in Seq({s[i] : i \in DOMAIN s})
ASSUME DocumentAssumption ==
  \A d \in Docs :
    /\ IsList(d.config) /\ IsList(d.endpoint) /\ IsList(d.server)
    /\ \A i \in DOMAIN d.server : IsList(d.server[i].packs)
    /\ \A e, f \in d.registry : e = f

A == INSTANCE Assembly

-----------------------------------------------------------------------------
(* Names for the tokens and tables; policies with a cycle of memberships.  *)
N == INSTANCE Authn WITH request <- handshake

\* A plain subject, and one that holds the separators of two schemes.
Letters(s) == [i \in DOMAIN s |-> <<"letter", s[i]>>]   \* as Authn!Letter
MCNames == {Letters(<<"a">>), Letters(<<"a", ".", ":", "b">>)}
MCSecrets == {Letters(<<"p">>), Letters(<<"q">>)}
MCSessionIds == {Letters(<<"s">>), Letters(<<"t">>)}

\* Names and passwords are text, names of letters only.
ASSUME HandshakeAssumption ==
  /\ \A name \in Names : IsList(name) /\ \A i \in DOMAIN name : name[i][1] = "letter"
  /\ \A secret \in Secrets : IsList(secret)
  /\ MaxNow \in Nat /\ MaxSkew \in Nat

\* Memberships with a cycle, a half-policy that does not deserialize, and
\* rules that deny inside what another allows.
Permission(resource, action) == [resource |-> resource, action |-> action]
Rule(subject, action, resource, effect) ==
  [subject |-> subject, action |-> action, resource |-> resource, effect |-> effect]
Star == <<"*">>
Ann == <<"a">>
Bob == <<"b">>
Role == <<"r">>
Top == <<"t">>
Ring == (Ann :> <<Role>>) @@ (Role :> <<Top>>) @@ (Top :> <<Role>>)
Flat == (Ann :> <<Top>>) @@ (Bob :> <<Role>>)
MCPermissions ==
  [ring |-> (Top :> <<Permission(<<"d", "*">>, Star)>>),
   flat |-> (Role :> <<Permission(<<"*", "1">>, <<"r">>)>>),
   broken |-> NoPayload]
MCRoles == [ring |-> Ring, flat |-> Flat, broken |-> Flat]
MCRules ==
  [ring |-> <<Rule(Ann, Star, Star, ""), Rule(Star, <<"w">>, <<"d", "*">>, "deny")>>,
   flat |-> <<Rule(Star, <<"r">>, <<"*", "1">>, "deny"), Rule(Bob, Star, <<"d", "1">>, "allow")>>,
   broken |-> NoPayload]
MCSubjects == {Ann, Bob}
MCWanted == << <<<<"r">>, <<"d", "1">>>>, <<<<"w">>, <<"d", "2">>>> >>

\* A payload that deserializes is a finite map to lists, or a list; a pattern
\* has its wildcard first, last or nowhere: elsewhere it is a literal.
Globs(pattern) ==
  /\ IsList(pattern)
  /\ \A i, j \in DOMAIN pattern :
       pattern[i] = "*" => i \in {1, Len(pattern)} /\ (pattern[j] = "*" => i = j)
ASSUME PolicyAssumption ==
  /\ "none" \notin Policies
  /\ \A p \in Policies :
       /\ RolesOf[p] # NoPayload =>
            IsFiniteSet(DOMAIN RolesOf[p]) /\ \A x \in DOMAIN RolesOf[p] : IsList(RolesOf[p][x])
       /\ PermissionsOf[p] # NoPayload =>
            \A r \in DOMAIN PermissionsOf[p] : \A i \in DOMAIN PermissionsOf[p][r] :
               Globs(PermissionsOf[p][r][i].action) /\ Globs(PermissionsOf[p][r][i].resource)
       /\ RulesOf[p] # NoPayload => IsList(RulesOf[p])
  /\ IsList(Wanted) /\ Wanted # <<>>
  /\ \A i \in DOMAIN Wanted : IsList(Wanted[i][1]) /\ IsList(Wanted[i][2])
  /\ Wide \in Nat /\ Wide >= 2

Z == INSTANCE Authz WITH Wildcard <- Star

-----------------------------------------------------------------------------
(* Requests to a generated route: every pair of a small vocabulary, twice. *)
Seg(name) == [name |-> name, key |-> None]
Keyed(name, key) == [name |-> name, key |-> key]
Raw == {<<<<Seg("n")>>, "1">>, <<<<Seg("n")>>, "bad">>, <<<<Seg("s")>>, "v">>, <<<<Seg("sField")>>, "w">>, <<<<Seg("s")>>, "">>,
        <<<<Keyed("s", "k")>>, "w">>, <<<<Seg("a")>>, "1">>, <<<<Seg("a")>>, "">>, <<<<Seg("b")>>, "2">>, <<<<Seg("c")>>, "1">>,
        <<<<Seg("c"), Seg("x")>>, "1">>, <<<<Seg("c"), Seg("x")>>, "">>, <<<<Seg("c"), Seg("other")>>, "1">>,
        <<<<Seg("list")>>, "1">>, <<<<Keyed("list", "[]")>>, "2">>, <<<<Seg("list")>>, "">>,
        <<<<Keyed("map", "k")>>, "1">>, <<<<Seg("map"), Seg("k")>>, "2">>, <<<<Seg("map")>>, "1">>,
        <<<<Seg("map"), Keyed("k", "l"), Seg("k")>>, "1">>, <<<<Keyed("map", "k"), Keyed("k", "k")>>, "1">>,
        <<<<Keyed("map", "[]")>>, "1">>, <<<<Seg("map"), Seg("k"), Keyed("k", "l")>>, "1">>, <<<<Seg("unknown")>>, "1">>, <<<<Seg("s"), Seg("x")>>, "1">>}
Blank == [n |-> None, s |-> None, a |-> None, b |-> None, c |-> None, list |-> <<>>, map |-> <<>>]
Bodied == [Blank EXCEPT !.a = "1", !.list = <<"1">>, !.s = "body"]
Capture == <<<<Seg("s")>>, <<"captured">>>>
Asking(star, types, sentBody, query, captures, authn, reply) ==
  [body_star |-> star, types |-> types, registered |-> {"json", "form"}, body |-> sentBody, query |-> query,
   captures |-> captures, authn |-> authn, reply |-> reply]
Json(m) == [state |-> "whole", json |-> m, form |-> <<>>]
Form(pairs) == [state |-> "whole", json |-> Blank, form |-> pairs]
Not(state) == [state |-> state, json |-> Blank, form |-> <<>>]
AllRequests ==
  {Asking(FALSE, <<>>, Not("empty"), <<p, q>>, <<Capture>>, "passes", "ok") : p, q \in Raw}
  \cup {Asking(TRUE, <<"json">>, Json(Bodied), <<p, q>>, <<>>, "passes", "ok") : p, q \in Raw}
  \cup {Asking(TRUE, <<"other", "form">>, Form(<<p>>), <<q>>, <<Capture>>, "passes", "ok") : p, q \in Raw}
  \cup {Asking(FALSE, <<>>, Not("empty"), <<p>>, <<Capture>>, a, r) : p \in Raw, a \in {"passes", "refused"}, r \in {"ok", "error", "unknown_type"}}
  \cup {Asking(TRUE, t, Not(b), <<>>, <<>>, "refused", "ok") :
          t \in {<<>>, <<"json">>, <<"proto", "json">>, <<"proto">>, <<"form">>}, b \in {"empty", "cut", "broken"}}

-----------------------------------------------------------------------------
(* Two callers of the CRUD endpoints over one row of each of two owners.   *)
Body(ok, owner, id) == [ok |-> ok, owner |-> owner, id |-> id]
Ask(verb, id, viewer, b) == [verb |-> verb, id |-> id, viewer |-> viewer, body |-> b]
AllAsks ==
  {Ask(v, 1, w, Body(TRUE, None, None)) : v \in {"get", "delete", "update"}, w \in {"all", "east"}}
  \cup {Ask("update", i, "east", Body(ok, "west", 2)) : i \in {None, 1, 2}, ok \in BOOLEAN}
  \cup {Ask("upsert", i, "east", Body(TRUE, "west", 2)) : i \in {0, 1}} \cup {Ask("upsert", 1, "east", Body(TRUE, None, None))}
  \cup {Ask("create", None, "east", Body(ok, "east", i)) : ok \in BOOLEAN, i \in {None, 0, 1}}
Texts == {None, "1", "word"}

B == INSTANCE Endpoints WITH
       Requests <- AllRequests, Instants <- -9..9,
       request <- route, stage <- parsing, todo <- unparsed, bound <- filled,
       Callers <- {c1, c2}, Ids <- 1..4, Owners <- {"east", "west"}, Asks <- AllAsks, MaxAsks <- 2,
       Params <- [q : {None, "doc", "word"}, token : {None, "t"}, offset : Texts, page : Texts, size : Texts, limit : Texts,
                  filter : Texts, fields : {None, <<"">>, <<"id", "name", "">>},
                  sort : {None, <<<<"name", "asc">>, <<"id", "desc">>>>, <<<<"name", "up">>>>, <<<<"name", None>>>>}]

-----------------------------------------------------------------------------
requestVars == <<config, request, depth, phase, handler, extensions, response, log, touched>>
buildVars == <<doc, stage, todo, made, hooks, bound, routes, result, scripts, announced,
               handle, app, requests, served, faults>>
authnVars == <<options, source, store, now, minted, handshake, edits>>
authzVars == <<engine, permissions, user_roles, rules, install, installs, latest, answer>>
binderVars == <<route, parsing, unparsed, message, filled, status, reason, called>>
crudVars == <<rows, next_id, adrift, open, asked>>
allVars == <<turn, requestVars, buildVars, authnVars, authzVars, binderVars, crudVars>>

(* A part whose turn it is not rests in one of its initial states.         *)
MCInit ==
  /\ turn \in {"edge", "assembly", "authn", "authz", "binder", "crud", "pure"}
  /\ (turn = "assembly" \/ doc = Plain) /\ A!AssemblyInit
  /\ N!AuthnInit /\ (turn = "authn" \/ options.kind = "noop")
  /\ N!Live /\ options.kind # "basicauth" => options.table = source   \* never looked at
  /\ Z!AuthzInit /\ (turn = "authz" \/ engine.kind = "noop")
  /\ (turn = "binder" \/ route = Asking(TRUE, <<>>, Not("empty"), <<>>, <<>>, "refused", "ok")) /\ B!BinderInit
  /\ (turn = "crud" \/ rows = [i \in 1..4 |-> None]) /\ B!CrudInit
  /\ IF turn = "edge"
     THEN \E case \in EdgeCases : config \in case[1] /\ request \in case[2]
     ELSE /\ config = Config(Wire({}, None, FALSE, TRUE), [authn |-> FALSE, authz |-> None], "none")
          /\ request = Request("GET", "protected", None, None, "bad", None, {})
  /\ E!EdgeInit

InEdge(step) == turn = "edge" /\ step /\ UNCHANGED <<turn, buildVars, authnVars, authzVars, binderVars, crudVars>>
InAssembly(step) == turn = "assembly" /\ step /\ UNCHANGED <<turn, requestVars, authnVars, authzVars, binderVars, crudVars>>
InAuthn(step) == turn = "authn" /\ step /\ UNCHANGED <<turn, requestVars, buildVars, authzVars, binderVars, crudVars>>
InAuthz(step) == turn = "authz" /\ step /\ UNCHANGED <<turn, requestVars, buildVars, authnVars, binderVars, crudVars>>
InBinder(step) == turn = "binder" /\ step /\ UNCHANGED <<turn, requestVars, buildVars, authnVars, authzVars, crudVars>>
InCrud(step) == turn = "crud" /\ step /\ UNCHANGED <<turn, requestVars, buildVars, authnVars, authzVars, binderVars>>

MCNext ==
  \/ InEdge(E!EdgeNext) \/ InAssembly(A!AssemblyNext)
  \/ InAuthn(N!AuthnNext) \/ InAuthz(Z!AuthzNext)
  \/ InBinder(B!BinderNext) \/ InCrud(B!CrudNext)

(* Layers and the timer run; handlers, clients and callers do as they      *)
(* like, and a connection that outlived the drain may never end.           *)
MCSpec == MCInit /\ [][MCNext]_allVars /\ WF_allVars(InEdge(E!Layers)) /\ WF_allVars(InEdge(E!TimeUp))

-----------------------------------------------------------------------------
(* A handler runs only for a caller its guards admit, a browser shows an   *)
(* answer only to an origin that may read it, an answer carries its        *)
(* request's id, and a handler that was cut off does nothing more.         *)
EdgeDecides ==
  turn = "edge" => E!GuardsDecide /\ E!OriginsReadWhatTheyMay /\ E!AnswersCorrelate /\ E!CutMeansCut

(* What is mounted is what the document says, what is announced is bound,  *)
(* and the before-stop hooks follow the drain.                             *)
AssemblyHolds ==
  turn = "assembly" => A!MountedAsWritten /\ A!AnnouncedMeansBound /\ A!HooksFollowTheDrain

(* The verdict on a handshake is right at a moment of the request, a list  *)
(* shows what the last policy grants, taken whole; and role closure,       *)
(* patterns, rules and claim getters do what their definitions say.        *)
VerdictsAreCurrent ==
  /\ turn = "authn" => N!AnswersAreCurrent
  /\ turn = "authz" => Z!ListShowsTheLastPolicy
  /\ turn = "pure" => N!NumbersReadBack /\ Z!DecisionsMatchTheirDefinition

(* A bound message is the one the request wrote, with the captures of the  *)
(* path over it, times read back, and a list query asks for the window,    *)
(* filter, order and fields its parameters name (Endpoints.tla).           *)
RequestsAsWritten ==
  /\ turn = "binder" => B!MessageAsWritten /\ B!CapturesWin
  /\ turn = "pure" => B!TimesReadBack /\ B!QueriesAsAsked

(* An answered CRUD call changed what it says it changed, get, update and  *)
(* delete in their viewer's scope, and only one that was cut off or timed  *)
(* out changes a row after its answer; and with_timeout bounds the handler and what is inside it: with  *)
(* a budget every request ends, hang as its handler may.                   *)
EffectsMatchAnswers ==
  /\ B!EffectMatchesAnswer
  /\ []<>(turn = "edge" => E!Ended \/ ~E!Bounded)
=============================================================================
