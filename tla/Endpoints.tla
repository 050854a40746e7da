----------------------------- MODULE Endpoints -----------------------------
(***************************************************************************)
(* The two kinds of endpoint a server mounts: generated routes and CRUD.   *)
(*                                                                         *)
(* One request of a generated route: the bind layer picks a codec and      *)
(* binds body and query, the auth layer stands behind it, the route's tail *)
(* binds the path variables, calls the service and serializes its reply.   *)
(* The message is a field-to-value function; a pair is a dotted path and   *)
(* the values collected under it.  A path segment is a name in either of a *)
(* field's spellings and, for one written name[key] or name[], what stands *)
(* in the brackets.  The contract: n a number, s a string, a and b the     *)
(* scalars and c (a message with a field x) the message of one oneof, list *)
(* a list of numbers, map a map from keys to numbers.                      *)
(*                                                                         *)
(* The CRUD endpoints over one repository: a request is parsed, makes at   *)
(* most one repository call under the viewer its headers name, and is      *)
(* answered.  Requests of several callers interleave at the repository.    *)
(* The repository is the contract's, as the memory engine keeps it: rows   *)
(* with an owner each, the viewer's rows for every call but upsert, which  *)
(* no engine scopes.                                                       *)
(***************************************************************************)
EXTENDS Integers, Sequences, FiniteSets, TLC, SequencesExt

CONSTANTS
  None,
  Requests,    \* [body_star, types, registered, body, query, captures, authn, reply];
               \* body: [state, json, form], state "empty", "cut", "broken" or "whole"
  Instants,    \* pure inputs: instants in quarter seconds around the epoch
  Callers, Ids, Owners,
  Asks,        \* [verb, id, viewer, body]; id None is no integer, one outside Ids no key; body [ok, owner, id]
  Params,      \* the list parameters judged
  MaxAsks      \* bound: requests made to the CRUD endpoints

VARIABLES
  request,
  stage,       \* "body", "form", "query", "auth", "path", "call", "done"
  todo,        \* the pairs the stage has still to bind
  message,     \* the dynamic message
  bound,       \* history: the pairs bound so far
  status, reason,
  called,      \* the message the service was called with
  rows,        \* the repository: an id's row [owner, text] or None
  next_id,     \* Table::next_id
  adrift,      \* calls nobody waits for, whose statement may still run
  open,        \* each caller's CRUD request, None or [ask, stage, status]
  asked

binderVars == <<request, stage, todo, message, bound, status, reason, called>>
crudVars == <<rows, next_id, adrift, open, asked>>

-----------------------------------------------------------------------------
(* Fields, by both spellings; a suffix in brackets is tried when the name  *)
(* as it stands is no field, and then whatever the field's kind.           *)
Spelled == ("n" :> "n") @@ ("s" :> "s") @@ ("sField" :> "s") @@ ("a" :> "a") @@ ("b" :> "b") @@
           ("c" :> "c") @@ ("list" :> "list") @@ ("map" :> "map")
get_field_descriptor(segment) ==
  IF segment.name \in DOMAIN Spelled THEN Spelled[segment.name] ELSE None

Choice == {"a", "b", "c"}                                \* the oneof
Unset == [n |-> None, s |-> None, a |-> None, b |-> None, c |-> None, list |-> <<>>, map |-> <<>>]

(* Leaves: a string takes any text, a number only a numeral.               *)
Numeric == {"n", "list", "map", "x"}
Parses(field, text) == field \notin Numeric \/ text \in {"1", "2"}

(* The key of a map entry: what is between the first bracket and the last, *)
(* which ends the text, or what follows the one dot.                       *)
Bracketed(segment) == IF segment.key = "[]" THEN "" ELSE segment.key
parse_url_query_map_key(path) ==
  LET last == Last(path)
  IN  IF Len(path) = 2 /\ path[1].key # None
      THEN IF last.key = None THEN None ELSE Bracketed(path[1]) \o "]." \o last.name \o "[" \o Bracketed(last)
      ELSE IF last.key # None THEN Bracketed(last)
      ELSE IF Len(path) = 2 THEN last.name ELSE None

Failed == [ok |-> FALSE]
Done(m) == [ok |-> TRUE, message |-> m]
Set(m, field, value) ==
  IF field \in Choice THEN [f \in DOMAIN m |-> IF f = field THEN value ELSE IF f \in Choice THEN None ELSE m[f]]
  ELSE [m EXCEPT ![field] = value]

populate_map_field(m, path, values) ==
  LET key == parse_url_query_map_key(path)
  IN  IF key = None \/ ~Parses("map", Last(values)) THEN Failed
      ELSE Done([m EXCEPT !.map = (key :> Last(values)) @@ m.map])

ReplacesTheList(m, values) ==
  IF \E i \in DOMAIN values : ~Parses("list", values[i]) THEN Failed ELSE Done([m EXCEPT !.list = values])
populate_repeated_field(m, values) ==
  IF \E i \in DOMAIN values : ~Parses("list", values[i]) THEN Failed
  ELSE Done([m EXCEPT !.list = m.list \o values])

(* A member of the oneof is refused when another one is set, even for an   *)
(* empty value; an empty value is skipped, after the value count.          *)
OneofTaken(m, field) == field \in Choice /\ \E f \in Choice \ {field} : m[f] # None

populate_field(m, field, values) ==
  IF OneofTaken(m, field) \/ Len(values) > 1 THEN Failed
  ELSE IF values[1] = "" THEN Done(m)
  ELSE IF ~Parses(field, values[1]) THEN Failed
  ELSE IF field = "c" THEN Failed                        \* a message outside the whitelist
  ELSE Done(Set(m, field, values[1]))

(* The message field is allocated on the way down, which clears the other  *)
(* members of its oneof; a field it does not have is skipped like any.     *)
populate_child(m, path, values) ==
  LET child == IF m.c = None THEN [x |-> None] ELSE m.c
  IN  IF path[2].name # "x" THEN Done(Set(m, "c", child))
      ELSE IF Len(path) > 2 \/ Len(values) > 1 THEN Failed
      ELSE IF values[1] = "" THEN Done(Set(m, "c", child))
      ELSE IF ~Parses("x", values[1]) THEN Failed
      ELSE Done(Set(m, "c", [x |-> values[1]]))

populate_field_values(m, path, values) ==
  LET field == get_field_descriptor(path[1])
  IN  CASE field = None -> Done(m)
        [] field = "map" ->
             populate_map_field(m, IF Len(path) > 2 THEN <<path[2]>> ELSE path, values)
        [] field = "c" /\ Len(path) > 1 -> populate_child(m, path, values)
        [] field \notin {None, "map", "c"} /\ Len(path) > 1 -> Failed
        [] field = "list" /\ Len(path) = 1 -> populate_repeated_field(m, values)
        [] OTHER -> populate_field(m, field, values)

(* Repeated keys of a query or a form gather under their first place.      *)
collect_pairs(raw) ==
  LET Places == {i \in DOMAIN raw : \A j \in 1..(i - 1) : raw[j][1] # raw[i][1]}
      Of(i) == SelectSeq(raw, LAMBDA p : p[1] = raw[i][1])
  IN  [k \in 1..Cardinality(Places) |->
         LET i == SetToSortSeq(Places, <)[k]
         IN  <<raw[i][1], [j \in DOMAIN Of(i) |-> Of(i)[j][2]]>>]

(* The codec: the first content type whose subtype is known and registered.*)
resolve_codec(r) ==
  LET fit == SelectSeq(r.types, LAMBDA t : t \in {"json", "form", "proto"} /\ t \in r.registered)
  IN  IF fit = <<>> THEN None ELSE fit[1]

-----------------------------------------------------------------------------
BinderInit ==
  /\ request \in Requests
  /\ stage = "body" /\ todo = <<>> /\ message = Unset /\ bound = <<>>
  /\ status = None /\ reason = None /\ called = None

Answer(code, why) ==
  /\ stage' = "done" /\ status' = code /\ reason' = why
  /\ UNCHANGED <<request, todo, message, bound>>
Query == collect_pairs(request.query)

(* The body, on routes that take one: the codec is settled before a byte   *)
(* is read; an empty body binds nothing, a proto body is passed unbound.   *)
bind_body ==
  /\ stage = "body" /\ todo = <<>> /\ UNCHANGED <<called>>
  /\ IF ~request.body_star
     THEN stage' = "query" /\ todo' = Query /\ UNCHANGED <<request, message, bound, status, reason>>
     ELSE CASE resolve_codec(request) = None -> Answer(400, "CODEC")
            [] resolve_codec(request) # None /\ request.body.state = "cut" -> Answer(400, "CODEC")
            [] resolve_codec(request) = "json" /\ request.body.state = "broken" -> Answer(400, "CODEC")
            [] resolve_codec(request) = "form" /\ request.body.state = "whole"
               /\ request.body.form # <<>> ->
                 /\ stage' = "form" /\ todo' = collect_pairs(request.body.form)
                 /\ UNCHANGED <<request, message, bound, status, reason>>
            [] OTHER ->
                 /\ message' = IF resolve_codec(request) = "json" /\ request.body.state = "whole" THEN request.body.json ELSE message
                 /\ stage' = "query" /\ todo' = Query
                 /\ UNCHANGED <<request, bound, status, reason>>

(* One pair of the form body, of the query or of the path; the first that  *)
(* fails ends the request.                                                 *)
bind_form ==
  /\ stage \in {"form", "query", "path"} /\ todo # <<>> /\ UNCHANGED called
  /\ LET pair == Head(todo)
         after == populate_field_values(message, pair[1], pair[2])
     IN  IF ~after.ok THEN Answer(400, "CODEC")
         ELSE /\ message' = after.message /\ todo' = Tail(todo) /\ bound' = Append(bound, pair)
              /\ UNCHANGED <<request, stage, status, reason>>
bind_run ==
  /\ stage \in {"form", "query"} /\ todo = <<>>
  /\ IF stage = "form" THEN stage' = "query" /\ todo' = Query ELSE stage' = "auth" /\ todo' = <<>>
  /\ UNCHANGED <<request, message, bound, status, reason, called>>

(* The auth layer stands between the bind layer and the tail.              *)
auth ==
  /\ stage = "auth" /\ UNCHANGED called
  /\ IF request.authn = "refused" THEN Answer(401, "UNAUTHORIZED")
     ELSE /\ stage' = "path" /\ todo' = request.captures
          /\ UNCHANGED <<request, message, bound, status, reason>>
call ==
  /\ stage = "path" /\ todo = <<>>
  /\ called' = message
  /\ stage' = "call" /\ UNCHANGED <<request, todo, message, bound, status, reason>>
reply ==
  /\ stage = "call" /\ UNCHANGED called
  /\ CASE request.reply = "error" -> Answer(409, "SERVICE")
       [] request.reply = "unknown_type" -> Answer(500, "")
       [] OTHER -> Answer(200, None)

BinderNext == bind_body \/ bind_form \/ bind_run \/ auth \/ call \/ reply

-----------------------------------------------------------------------------
(* What the pairs say, read declaratively.                                 *)
FieldOf(pair) == get_field_descriptor(pair[1][1])
Places(P(_)) == {i \in DOMAIN bound : P(bound[i])}
Latest(is) == CHOOSE i \in is : \A j \in is : j <= i
Start == IF resolve_codec(request) = "json" /\ request.body_star /\ request.body.state = "whole"
         THEN request.body.json ELSE Unset
ScalarAsWritten(field) ==
  LET is == Places(LAMBDA p : FieldOf(p) = field /\ p[2] # <<"">>)
      other == Places(LAMBDA p : FieldOf(p) \in Choice \ {field} /\ (Len(p[1]) > 1 \/ p[2] # <<"">>))
  IN  message[field] = (IF is # {} /\ (field \notin Choice \/ \A j \in other : j < Latest(is)) THEN bound[Latest(is)][2][1]
                        ELSE IF field \in Choice /\ other # {} THEN None ELSE Start[field])
ChildAsWritten ==
  LET is == Places(LAMBDA p : FieldOf(p) = "c" /\ Len(p[1]) > 1)
      xs == {i \in is : bound[i][1][2].name = "x" /\ bound[i][2] # <<"">>}
  IN  message.c = (IF is = {} THEN Start.c
                   ELSE [x |-> IF xs # {} THEN bound[Latest(xs)][2][1]
                               ELSE IF Start.c # None THEN Start.c.x ELSE None])
ListAsWritten ==
  message.list = Start.list \o FlattenSeq([k \in DOMAIN bound |-> IF FieldOf(bound[k]) = "list" THEN bound[k][2] ELSE <<>>])
MapAsWritten ==
  LET KeyOf(p) == IF Len(p[1]) = 1 THEN Bracketed(p[1][1])
                  ELSE IF p[1][2].key = None THEN p[1][2].name
                  ELSE IF p[1][1].key = None \/ Len(p[1]) > 2 THEN Bracketed(p[1][2]) ELSE "k].k[k"
      WrittenTo(key) == Places(LAMBDA p : FieldOf(p) = "map" /\ KeyOf(p) = key)
      keys == {KeyOf(bound[i]) : i \in Places(LAMBDA p : FieldOf(p) = "map")}
  IN  /\ DOMAIN message.map = DOMAIN Start.map \cup keys
      /\ \A key \in keys : message.map[key] = Last(bound[Latest(WrittenTo(key))][2])

(* A scalar member of the oneof is never taken once another member is set. *)
OneofRefuses ==
  \A j \in DOMAIN bound : FieldOf(bound[j]) \in Choice /\ Len(bound[j][1]) = 1 =>
    /\ \A f \in Choice \ {FieldOf(bound[j])} : Start[f] = None
    /\ \A i \in 1..(j - 1) :
         FieldOf(bound[i]) \in Choice \ {FieldOf(bound[j])} => Len(bound[i][1]) = 1 /\ bound[i][2] = <<"">>

(* The message says what the request said, whichever spelling, order and   *)
(* place each pair came in: a scalar is its last value that is not empty,  *)
(* a list gathers body, query and path, a map keeps the last of each key   *)
(* (beyond two segments the second one's brackets are the key),            *)
(* a message field is reached through its dots, and no two members of the  *)
(* oneof are ever set together.                                            *)
MessageAsWritten ==
  stage # "body" =>
  /\ \A field \in {"n", "s", "a", "b"} : ScalarAsWritten(field)
  /\ OneofRefuses /\ ChildAsWritten /\ ListAsWritten /\ MapAsWritten
  /\ Cardinality({f \in Choice : message[f] # None}) <= 1

(* The service is called with the template's own captures: neither body    *)
(* nor query can put another value in a path variable's place; and it is   *)
(* never called for a caller the auth layer refuses.                       *)
CapturesWin ==
  called # None =>
    /\ request.authn # "refused"
    /\ \A i \in DOMAIN request.captures :
         called[FieldOf(request.captures[i])] = request.captures[i][2][1]

(* Leaves with a conversion of their own.  A timestamp is the seconds and  *)
(* the rest of the distance from the epoch, both truncated towards it; a   *)
(* duration counts its parts' units together and puts the sign on both.    *)
Quarter == 4
Truncated(a) == IF a < 0 THEN -((-a) \div Quarter) ELSE a \div Quarter
parse_timestamp(t) == [seconds |-> Truncated(t), nanos |-> t - Quarter * Truncated(t)]
Signed(negative, total) ==
  [seconds |-> IF negative THEN -(total \div Quarter) ELSE total \div Quarter,
   nanos |-> IF negative THEN -(total % Quarter) ELSE total % Quarter]
Units == ("q" :> 1) @@ ("s" :> 4) @@ ("m" :> 240)
go_parse_duration(negative, parts, max) ==
  LET total == FoldLeft(LAMBDA sum, p : sum + p.whole * Units[p.unit] + (p.tenths * Units[p.unit]) \div 10, 0, parts)
  IN  IF parts = <<>> \/ total > max THEN None ELSE Signed(negative, total)

(* Times read back: the instant and the length a text names are those of   *)
(* the message, and the two parts never have opposite signs.               *)
Parts == {<<>>} \cup {<<[whole |-> w, tenths |-> f, unit |-> u]>> : w \in 0..3, f \in {0, 5, 9}, u \in DOMAIN Units}
               \cup {<<[whole |-> 1, tenths |-> 0, unit |-> u], [whole |-> 2, tenths |-> 5, unit |-> v]>> :
                       u, v \in DOMAIN Units}
SameSign(t) == ~(t.seconds < 0 /\ t.nanos > 0) /\ ~(t.seconds > 0 /\ t.nanos < 0)
LengthOf(parts) == FoldLeft(LAMBDA sum, p : sum + p.whole * 10 * Units[p.unit] + p.tenths * Units[p.unit], 0, parts)
TimesReadBack ==
  /\ \A t \in Instants : LET m == parse_timestamp(t) IN m.seconds * Quarter + m.nanos = t /\ SameSign(m)
  /\ \A negative \in BOOLEAN, parts \in Parts :
       LET m == go_parse_duration(negative, parts, 500)
           length == (IF negative THEN -1 ELSE 1) * (m.seconds * Quarter + m.nanos)
       IN  IF parts = <<>> \/ LengthOf(parts) >= 5010 THEN m = None
           ELSE SameSign(m) /\ 10 * length <= LengthOf(parts) /\ LengthOf(parts) < 10 * (length + Len(parts))

-----------------------------------------------------------------------------
(* build_list_query, over parameters that are None or texts, sort a list   *)
(* of terms and fields one of names: a document wins over everything; a    *)
(* token over an offset over a page; the size is size, else limit, else    *)
(* 20; whatever is looked at must read. An empty mask shows every field.   *)
Bad == [ok |-> FALSE]
limit_of(p) == LET raw == IF p.size # None THEN p.size ELSE p.limit IN IF raw = None THEN "20" ELSE raw
Reads(text) == text # "word"
PagingOf(p) ==
  CASE p.token # None -> [kind |-> "token", at |-> p.token]
    [] p.token = None /\ p.offset # None -> [kind |-> "offset", at |-> p.offset]
    [] OTHER -> [kind |-> "page", at |-> IF p.page = None THEN "1" ELSE p.page]
build_list_query(p) ==
  IF p.q # None THEN IF Reads(p.q) THEN [ok |-> TRUE, document |-> p.q] ELSE Bad
  ELSE LET paging == PagingOf(p)
           sort == IF p.sort = None THEN <<>> ELSE p.sort
       IN  IF ~Reads(limit_of(p)) \/ (paging.kind # "token" /\ ~Reads(paging.at))
                 \/ p.filter = "word" \/ \E i \in DOMAIN sort : sort[i][2] \notin {"asc", "desc"} THEN Bad
           ELSE [ok |-> TRUE, paging |-> paging, limit |-> limit_of(p), filter |-> p.filter, sort |-> sort,
                 mask |-> IF p.fields = None THEN {} ELSE Range(p.fields) \ {""}]

-----------------------------------------------------------------------------
(* The repository's answers, and the status each error is told with.       *)
At(id) == IF id \in Ids THEN rows[id] ELSE None
Sees(viewer, id) == At(id) # None /\ (viewer = "all" \/ At(id).owner = viewer)
error_response(error) ==
  CASE error = "not_found" -> 404 [] error = "invalid" -> 400 [] error = "conflict" -> 409
    [] error = "unsupported" -> 501 [] OTHER -> 500

\* Bound: there is room for the keys MaxAsks creates may draw.
CrudInit ==
  /\ rows \in [Ids -> {None} \cup {[owner |-> o, text |-> "old"] : o \in Owners}]
  /\ \A i \in Ids : rows[i] = None \/ i + MaxAsks \in Ids
  /\ next_id = 1 /\ adrift = {}
  /\ open = [c \in Callers |-> None] /\ asked = 0

Request(c, ask) ==
  /\ open[c] = None /\ asked < MaxAsks /\ asked' = asked + 1
  /\ open' = [open EXCEPT ![c] = [ask |-> ask, stage |-> "parse", status |-> None]]
  /\ UNCHANGED <<rows, next_id, adrift>>

(* The parse: the path's id, then the body against the schema; either      *)
(* failure is answered without a call.                                     *)
Parsed(ask) ==
  /\ ask.verb \in {"get", "update", "upsert", "delete"} => ask.id # None
  /\ ask.verb \in {"create", "update", "upsert"} => ask.body.ok
Parse(c) ==
  /\ open[c] # None /\ open[c].stage = "parse"
  /\ open' = [open EXCEPT ![c].stage = IF Parsed(open[c].ask) THEN "call" ELSE "answered",
                          ![c].status = IF Parsed(open[c].ask) THEN None ELSE error_response("invalid")]
  /\ UNCHANGED <<rows, next_id, adrift, asked>>

(* The row of the one repository call: the path's, whatever id the body    *)
(* carries; a create takes the body's if it is a key, else the next free.  *)
Free == {n \in Ids : n >= next_id /\ rows[n] = None}
NextId == CHOOSE n \in Free : \A m \in Free : n <= m
TargetOfBody(ask) == IF ask.body.id \in Ids THEN ask.body.id ELSE IF ask.verb # "create" THEN ask.id ELSE NextId
Target(ask) == IF ask.verb # "create" THEN ask.id ELSE IF ask.body.id \in Ids THEN ask.body.id ELSE NextId

(* A patch keeps what it does not name, the owner too; any other row is    *)
(* new, an upsert's over a row its viewer cannot see included.             *)
Written(ask, id) ==
  [owner |-> IF ask.verb # "create" /\ Sees(ask.viewer, id) /\ ask.body.owner = None THEN rows[id].owner ELSE ask.body.owner,
   text |-> ask.verb]

\* A patch may not move the key; an upsert needs one.
Contradicts(ask) ==
  \/ ask.verb = "update" /\ ask.body.id \notin {None, ask.id}
  \/ ask.verb = "upsert" /\ ask.id \notin Ids
Verdict(ask) ==
  CASE Contradicts(ask) -> "invalid"
    [] ask.verb \in {"get", "update", "delete"} /\ ~Contradicts(ask) /\ ~Sees(ask.viewer, ask.id) -> "not_found"
    [] ask.verb = "create" /\ At(ask.body.id) # None -> "conflict"
    [] OTHER -> "done"
SuccessOf(ask) == CASE ask.verb = "create" -> 201 [] ask.verb = "delete" -> 204 [] OTHER -> 200

Runs(ask) ==
  IF Verdict(ask) # "done" \/ ask.verb = "get" THEN UNCHANGED <<rows, next_id>>
  ELSE LET id == Target(ask)
       IN  /\ rows' = [rows EXCEPT ![id] = IF ask.verb = "delete" THEN None ELSE Written(ask, id)]
           /\ next_id' = IF ask.verb = "create" /\ ask.body.id \notin Ids THEN id + 1 ELSE next_id
Settles(c, code) ==
  open' = [open EXCEPT ![c].stage = "answered", ![c].status = code] /\ UNCHANGED asked
Call(c) ==
  /\ open[c] # None /\ open[c].stage = "call"
  /\ LET ask == open[c].ask
     IN  /\ Runs(ask)
         /\ Settles(c, IF Verdict(ask) = "done" THEN SuccessOf(ask) ELSE error_response(Verdict(ask)))
  /\ UNCHANGED adrift

(* The engine refuses the call; or gives up on it, or the budget of        *)
(* with_timeout drops the handler at the await: then a statement that was  *)
(* sent may still run.                                                     *)
CallFails(c) ==
  /\ open[c] # None /\ open[c].stage = "call" /\ UNCHANGED <<rows, next_id>>
  /\ \/ Settles(c, error_response("unsupported")) /\ UNCHANGED adrift
     \/ /\ \E code \in {error_response("timeout"), 504} : Settles(c, code)
        /\ adrift' = adrift \cup {[by |-> c, nth |-> asked, ask |-> open[c].ask]}
Lands(a) ==
  /\ a \in adrift /\ adrift' = adrift \ {a}
  /\ Runs(a.ask) /\ UNCHANGED <<open, asked>>

Gone(c) ==
  /\ open[c] # None /\ open[c].stage = "answered"
  /\ open' = [open EXCEPT ![c] = None] /\ UNCHANGED <<rows, next_id, adrift, asked>>

CrudNext ==
  \/ \E c \in Callers : (\E ask \in Asks : Request(c, ask)) \/ Parse(c) \/ Call(c) \/ CallFails(c) \/ Gone(c)
  \/ \E a \in adrift : Lands(a)

-----------------------------------------------------------------------------
(* The answer tells the effect.  A success touched the row the path names  *)
(* and no other - for create a free one, the body's if it names one -,     *)
(* left it as the verb and the body say, and gave a viewer's get, update   *)
(* or delete only a row of its own (a patch may give that away); an error  *)
(* left every row as it was at the time.  Nothing else touches a row but   *)
(* a call told 500 or 504, which may land later, whole and by the same     *)
(* rules; and 400 is told of a request that does not parse, before any     *)
(* call, or whose body contradicts the path.                               *)
Settled(c) == open[c] # None /\ open[c].stage # "answered" /\ open[c]'.stage = "answered"
Did(ask) ==
  \E id \in Ids :
    /\ \A other \in Ids \ {id} : rows'[other] = rows[other]
    /\ IF ask.verb # "create" THEN id = ask.id ELSE rows[id] = None /\ (ask.body.id \in Ids => id = ask.body.id)
    /\ ask.verb \in {"get", "update", "delete"} => Sees(ask.viewer, id)
    /\ CASE ask.verb = "get" -> rows' = rows
         [] ask.verb = "delete" -> rows'[id] = None
         [] OTHER -> /\ rows'[id] # None /\ rows'[id].text = ask.verb
                     /\ ask.body.owner # None => rows'[id].owner = ask.body.owner
                     /\ ask.verb = "update" /\ ask.body.owner = None => rows'[id].owner = rows[id].owner
EffectMatchesAnswer ==
  [][/\ \A c \in Callers : Settled(c) =>
          LET ask == open[c].ask
              code == open[c]'.status
          IN  /\ IF code < 400 THEN Did(ask) ELSE rows' = rows
              /\ open[c].stage = "parse" => code = 400
              /\ code = 400 => open[c].stage = "parse" \/ Contradicts(ask)
     /\ rows' # rows => (\E c \in Callers : Settled(c)) \/ \E a \in adrift \ adrift' : Did(a.ask)]_crudVars

(* What a list asks for: a document is all that counts when there is one.  *)
(* Else a token is never set aside for an offset or a page, nor an offset  *)
(* for a page; the window is size, or limit, or 20; filter, order and mask *)
(* are the given ones; and one parameter that counts and does not read     *)
(* refuses the request: one that is set aside may be anything.             *)
QueriesAsAsked ==
  \A p \in Params :
    LET q == build_list_query(p)
        Given(n) == p[n] # None
        Aside(n) == CASE n = "offset" -> Given("token") [] n = "page" -> Given("token") \/ Given("offset")
                      [] n = "limit" -> Given("size") [] OTHER -> FALSE
        Counts(n) == Given(n) /\ ~Aside(n)
    IN  IF Given("q") THEN q = (IF Reads(p.q) THEN [ok |-> TRUE, document |-> p.q] ELSE Bad)
        ELSE /\ q.ok <=> /\ \A n \in {"offset", "page", "size", "limit", "filter"} : Counts(n) => Reads(p[n])
                         /\ Given("sort") => \A i \in DOMAIN p.sort : p.sort[i][2] \in {"asc", "desc"}
             /\ q.ok =>
                  /\ \A n \in {"token", "offset", "page"} : Counts(n) => q.paging = [kind |-> n, at |-> p[n]]
                  /\ \A n \in {"size", "limit"} : Counts(n) => q.limit = p[n]
                  /\ ~Given("size") /\ ~Given("limit") => q.limit = "20"
                  /\ q.filter = p.filter
                  /\ q.mask = IF Given("fields") THEN {p.fields[i] : i \in DOMAIN p.fields} \ {""} ELSE {}
                  /\ q.sort = IF Given("sort") THEN p.sort ELSE <<>>
=============================================================================
