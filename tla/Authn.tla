------------------------------- MODULE Authn --------------------------------
(***************************************************************************)
(* The authentication engines behind rushwind-authn: hmac, jwt, basicauth, *)
(* apikey, presharedkey, session and noop, one of them per behaviour, with *)
(* the gate that runs it on a handshake's headers.                         *)
(*                                                                         *)
(* A string is a sequence of atoms: letters, separators, a decimal time, a *)
(* keyed digest.  The static table of an engine is fixed when it is built; *)
(* source is what the application's callback answers from, and changes     *)
(* under the engine.  Time is in seconds; a request may be overtaken by    *)
(* the clock, by an edit of the source and by a logout.                    *)
(***************************************************************************)
EXTENDS Integers, Sequences, FiniteSets, SequencesExt

CONSTANTS Names,          \* subjects, key IDs and API keys: sequences of letters
          Secrets,        \* passwords, HMAC secrets
          SessionIds,     \* what the CSPRNG may return
          None,
          MaxNow, MaxSkew, MaxMints, MaxEdits,
          Wide            \* the width standing for 64 bits in the claim getters

VARIABLES
  options,   \* the engine: its kind and what its builder was given
  source,    \* what the application's callback knows
  store,     \* the session store
  now,       \* Unix seconds
  minted,    \* credentials create_identity returned, with whom and when
  request,   \* the one request of a behaviour, requests sharing nothing
  edits

authnVars == <<options, source, store, now, minted, request, edits>>

-----------------------------------------------------------------------------
(* Strings.                                                                *)
Letter(c) == <<"letter", c>>
Dot == Letter(".")
Colon == Letter(":")
Garbage == <<Letter("?")>>
Time(t) == <<"time", t>>
Digest(secret, message) == <<"digest", secret, message>>
Token(alg, key, sub, nbf, exp) == <<"jwt", alg, key, sub, nbf, exp>>

Before(s, mark) == SubSeq(s, 1, SelectInSeq(s, LAMBDA x : x = mark) - 1)
After(s, mark) == SubSeq(s, SelectInSeq(s, LAMBDA x : x = mark) + 1, Len(s))
Has(s, mark) == \E i \in DOMAIN s : s[i] = mark

Ok(sub) == [err |-> "none", sub |-> sub]
Err(e) == [err |-> e, sub |-> <<>>]

(* The subject claim as create_identity reads it: get_subject, or empty    *)
(* when the claim is missing or not a string.                              *)
Claimed == Names \cup {<<>>}

-----------------------------------------------------------------------------
(* What an engine is built with.  A table gives a name its secret, or      *)
(* None; live says a callback was installed.                               *)
Tables == [Names -> Secrets \cup {None}]
ParseAlgorithm(name) == name \in {"HS256", "EdDSA"}
Family(k) == IF k \in {"EdDSA", "pair"} THEN "ed" ELSE "hmac"
JwtKeys == {"secret", "pair", None}

HmacOptions == [kind : {"hmac"}, live : BOOLEAN, table : Tables]
BasicAuthOptions == [kind : {"basicauth"}, live : BOOLEAN, table : Tables]
ApiKeyOptions == [kind : {"apikey"}, live : BOOLEAN, table : Tables]
PresharedKeyOptions == [kind : {"presharedkey"}, table : Tables]
SessionOptions == [kind : {"session"}]
NoopOptions == [kind : {"noop"}]
JwtOptions == [kind : {"jwt"}, alg : {a \in {"HS256", "EdDSA", "ES512", "none"} : ParseAlgorithm(a)},
               enc : JwtKeys, dec : JwtKeys]

Options == HmacOptions \cup BasicAuthOptions \cup ApiKeyOptions \cup PresharedKeyOptions
             \cup SessionOptions \cup NoopOptions \cup JwtOptions

Lookup(name) ==
  IF name \notin Names THEN None
  ELSE IF options.live THEN source[name] ELSE options.table[name]

-----------------------------------------------------------------------------
(* create_identity: the credential, or an error.                           *)
HmacCredential(kid, secret, at) ==
  kid \o <<Dot, Time(at), Dot, Digest(secret, kid \o <<Dot, Time(at)>>)>>

HmacMint(sub) ==
  IF sub = <<>> THEN Err("InvalidSubject")
  ELSE IF Lookup(sub) = None THEN Err("MissingKeyFunc")
  ELSE Ok(HmacCredential(sub, Lookup(sub), now))

BasicMint(sub) ==
  IF sub = <<>> THEN Err("InvalidSubject")
  ELSE IF options.table[sub] = None THEN Err("MissingKeyFunc")
  ELSE Ok(sub \o <<Colon>> \o options.table[sub])

JwtMint(sub, nbf, exp) ==
  IF options.enc = None THEN Err("MissingKeyFunc")
  ELSE IF Family(options.enc) # Family(options.alg) THEN Err("SignTokenFailed")
  ELSE Ok(<<Token(options.alg, options.enc, sub, nbf, exp)>>)

ApiKeyMint(sub) == Ok(sub)
NoopMint == Ok(<<>>)
Preshared == {name \in Names : options.table[name] # None}
RandomKeys == IF Preshared = {} THEN {<<>>} ELSE Preshared

Keep(result, sub) ==
  minted' = IF result.err # "none" THEN minted
            ELSE minted \cup {[credential |-> result.sub, sub |-> sub, at |-> now,
                               secret |-> IF options.kind = "hmac" THEN Lookup(sub) ELSE None]}

(* What a running request may have seen: the callback's table, the store   *)
(* and the clock, as they have been since it began.                        *)
Running == request.pc \in {"check", "resolve"}
Witness(s, t) == request' = IF Running THEN [request EXCEPT !.saw = @ \cup {<<s, t>>}] ELSE request

Minting ==
  /\ Cardinality(minted) < MaxMints
  /\ UNCHANGED <<options, source, now, edits>>

Mint(sub) ==
  /\ Minting /\ options.kind # "session"
  /\ CASE options.kind = "hmac" -> Keep(HmacMint(sub), sub)
       [] options.kind = "basicauth" -> Keep(BasicMint(sub), sub)
       [] options.kind = "apikey" -> Keep(ApiKeyMint(sub), sub)
       [] options.kind = "noop" -> Keep(NoopMint, sub)
       [] options.kind = "presharedkey" -> \E key \in RandomKeys : Keep(Ok(key), sub)
       [] OTHER -> \E nbf \in {0, 1}, exp \in {1, MaxNow} : Keep(JwtMint(sub, nbf, exp), sub)
  /\ UNCHANGED <<store, request>>

(* A session ID is one no session ever had.                                *)
Put(id, sub) == [i \in DOMAIN store \cup {id} |-> IF i = id THEN sub ELSE store[i]]
SessionMint(sub) ==
  /\ Minting /\ options.kind = "session"
  /\ \E id \in SessionIds :
       /\ id \notin DOMAIN store
       /\ ~ \E m \in minted : m.credential = id
       /\ store' = Put(id, sub)
       /\ Keep(Ok(id), sub)
  /\ Witness(source, store')

-----------------------------------------------------------------------------
(* A request's headers, in order: the name as the engine compares it, and  *)
(* the value, empty, without a space, or a scheme and the rest.            *)
Value(scheme, token) == [form |-> "pair", scheme |-> scheme, token |-> token]
Plain(form) == [form |-> form, scheme |-> "", token |-> <<>>]

Scheme == CASE options.kind = "basicauth" -> "Basic" [] options.kind = "session" -> "" [] OTHER -> "Bearer"
CredentialHeader == IF options.kind = "session" THEN "session-id" ELSE "authorization"

(* The first header of the name counts; authenticate collapses every       *)
(* failure to find a credential in it.                                     *)
FirstHeader(headers) ==
  LET first == SelectInSeq(headers, LAMBDA h : h.name = CredentialHeader)
  IN  IF first = 0 THEN Plain("empty") ELSE headers[first].value
AuthFromHeaders(value) ==
  IF value.form # "pair" \/ value.scheme # Scheme THEN Err("MissingBearerToken") ELSE Ok(value.token)
SessionFromHeaders(value) ==
  IF value.form = "empty" THEN Err("MissingBearerToken") ELSE Ok(value.token)
Extracted(headers) ==
  IF options.kind = "session" THEN SessionFromHeaders(FirstHeader(headers))
  ELSE AuthFromHeaders(FirstHeader(headers))

Credentials ==
  {m.credential : m \in minted} \cup {<<>>, Garbage, <<Token("RS256", "foreign", <<>>, 0, MaxNow)>>}

Field(name, value) == [name |-> name, value |-> value]
Offers == {<<Field(CredentialHeader, Value(Scheme, c))>> : c \in Credentials \ {<<>>}}
Unfit ==
  {Field(CredentialHeader, Plain("empty")), Field(CredentialHeader, Value("Digest", Garbage)),
   Field("x-other", Value(Scheme, Garbage))}
    \cup (IF options.kind = "session" THEN {} ELSE {Field(CredentialHeader, Plain("word"))})

Behind(field, headers) == <<field>> \o headers
Headers == {<<>>} \cup Offers \cup {<<b>> : b \in Unfit} \cup {Behind(b, h) : b \in Unfit, h \in Offers}

(* AuthenticationGate::inspect on the engine's result.                     *)
Status(err) ==
  IF err \in {"InvalidType", "UnsupportedSigningMethod", "MissingKeyFunc", "SignTokenFailed", "GetKeyFailed"}
  THEN "500" ELSE "401"
Inspect(result) == IF result.err = "none" THEN "continue" ELSE Status(result.err)

Idle == [pc |-> "idle", token |-> <<>>, result |-> Err("none"), verdict |-> "continue",
         times |-> {}, saw |-> {}]
Answered(r, result) ==
  [r EXCEPT !.pc = "answered", !.result = result, !.verdict = Inspect(result)]

Begin(headers) ==
  /\ request.pc = "idle"
  /\ LET found == Extracted(headers)
         started == [Idle EXCEPT !.pc = "check", !.times = {now}, !.saw = {<<source, store>>}]
     IN  request' = IF found.err # "none" THEN Answered(started, found)
                    ELSE [started EXCEPT !.token = found.sub]
  /\ UNCHANGED <<options, source, store, now, minted, edits>>

(* hmac: structure and freshness first, then the callback's secret.        *)
Distance(a, b) == IF a > b THEN a - b ELSE b - a
KeyId(t) == Before(t, Dot)
Stamp(t) == Before(After(t, Dot), Dot)
Signature(t) == After(After(t, Dot), Dot)
Structured(t) ==
  /\ Has(t, Dot) /\ Has(After(t, Dot), Dot)
  /\ KeyId(t) # <<>> /\ Stamp(t) # <<>> /\ Signature(t) # <<>>
  /\ Len(Stamp(t)) = 1 /\ Stamp(t)[1][1] = "time"

FreshForwardOnly(t) == now - Stamp(t)[1][2] <= MaxSkew
Fresh(t) == Distance(now, Stamp(t)[1][2]) <= MaxSkew

HmacCheck ==
  /\ options.kind = "hmac" /\ request.pc = "check"
  /\ request' = IF ~Structured(request.token) THEN Answered(request, Err("InvalidToken"))
                ELSE IF ~Fresh(request.token) THEN Answered(request, Err("TokenExpired"))
                ELSE [request EXCEPT !.pc = "resolve"]
  /\ UNCHANGED <<options, source, store, now, minted, edits>>

HmacResolve ==
  /\ request.pc = "resolve"
  /\ LET kid == KeyId(request.token)
         secret == Lookup(kid)
         signed == Signature(request.token) = <<Digest(secret, kid \o <<Dot>> \o Stamp(request.token))>>
     IN  request' = Answered(request, IF secret # None /\ signed THEN Ok(kid) ELSE Err("Unauthenticated"))
  /\ UNCHANGED <<options, source, store, now, minted, edits>>

(* jsonwebtoken::decode, from how the engine calls it: algorithm and key   *)
(* family, signature, then exp and nbf with no leeway.                     *)
Decode(t) ==
  IF Len(t) # 1 \/ t[1][1] # "jwt" THEN "Malformed"
  ELSE IF t[1][2] # options.alg \/ Family(options.dec) # Family(options.alg) THEN "InvalidAlgorithm"
  ELSE IF t[1][3] # options.dec THEN "InvalidSignature"
  ELSE IF t[1][6] < now THEN "ExpiredSignature"
  ELSE IF t[1][5] > now THEN "ImmatureSignature" ELSE "none"

JwtVerdict(t) ==
  IF options.dec = None THEN Err("MissingKeyFunc")
  ELSE CASE Decode(t) = "none" -> Ok(t[1][4])
         [] Decode(t) = "ExpiredSignature" -> Err("TokenExpired")
         [] Decode(t) = "InvalidSignature" -> Err("SignTokenFailed")
         [] Decode(t) = "InvalidAlgorithm" -> Err("UnsupportedSigningMethod")
         [] OTHER -> Err("InvalidToken")

(* basicauth: split at the first colon, then callback or table.            *)
BasicVerdict(t) ==
  IF t = Garbage \/ ~Has(t, Colon) THEN Err("InvalidToken")
  ELSE IF Lookup(Before(t, Colon)) # None /\ Lookup(Before(t, Colon)) = After(t, Colon)
  THEN Ok(Before(t, Colon)) ELSE Err("Unauthenticated")

(* apikey: a key's claims are named by its entry in the table.             *)
ApiKeyVerdict(t) == IF Lookup(t) # None THEN Ok(Lookup(t)) ELSE Err("Unauthenticated")
PresharedVerdict(t) == IF t \in Preshared THEN Ok(<<>>) ELSE Err("Unauthenticated")
SessionVerdict(t) ==
  IF t \in DOMAIN store THEN Ok(store[t]) ELSE Err("Unauthenticated")

NoopVerdict(t) == Ok(<<>>)

OneStepCheck ==
  /\ options.kind # "hmac" /\ request.pc = "check"
  /\ LET t == request.token
     IN  request' = Answered(request,
           CASE options.kind = "jwt" -> JwtVerdict(t)
             [] options.kind = "basicauth" -> BasicVerdict(t)
             [] options.kind = "apikey" -> ApiKeyVerdict(t)
             [] options.kind = "presharedkey" -> PresharedVerdict(t)
             [] options.kind = "session" -> SessionVerdict(t)
             [] OTHER -> NoopVerdict(t))
  /\ UNCHANGED <<options, source, store, now, minted, edits>>

-----------------------------------------------------------------------------
(* The application: edits what its callback knows, logs a session out, or  *)
(* puts a session under an ID it chose.                                    *)
Rotate(name, secret) ==
  /\ options.kind \in {"hmac", "basicauth", "apikey"} /\ options.live
  /\ edits < MaxEdits /\ edits' = edits + 1
  /\ source[name] # secret
  /\ source' = [source EXCEPT ![name] = secret]
  /\ Witness(source', store)
  /\ UNCHANGED <<options, store, now, minted>>

Without(id) == [i \in DOMAIN store \ {id} |-> store[i]]
Logout(id) ==
  /\ options.kind = "session"
  /\ edits < MaxEdits /\ edits' = edits + 1
  /\ store' = Without(id)
  /\ Witness(source, store')
  /\ UNCHANGED <<options, source, now, minted>>

StoreSet(id, sub) ==
  /\ options.kind = "session"
  /\ edits < MaxEdits /\ edits' = edits + 1
  /\ store' = Put(id, sub)
  /\ Witness(source, store')
  /\ UNCHANGED <<options, source, now, minted>>

(* The wall clock moves on, or is set back.                                *)
Clock ==
  /\ options.kind \in {"hmac", "jwt"}
  /\ now' \in {now - 1, now + 1} \cap (0 .. MaxNow)
  /\ request' = IF Running THEN [request EXCEPT !.times = @ \cup {now'}] ELSE request
  /\ UNCHANGED <<options, source, store, minted, edits>>

(* A callback may know other than the table; without one there is nothing  *)
(* to know.                                                                *)
Live == options.kind \in {"hmac", "basicauth", "apikey"} /\ options.live
AuthnInit ==
  /\ options \in Options
  /\ source \in IF Live THEN Tables ELSE {[name \in Names |-> None]}
  /\ store = << >> /\ now = 0 /\ minted = {} /\ request = Idle /\ edits = 0
AuthnNext ==
  \/ \E sub \in Claimed : Mint(sub) \/ SessionMint(sub)
  \/ \E headers \in Headers : Begin(headers)
  \/ HmacCheck \/ HmacResolve \/ OneStepCheck
  \/ \E name \in Names, secret \in Secrets \cup {None} : Rotate(name, secret)
  \/ \E id \in SessionIds : Logout(id)
  \/ \E id \in SessionIds, sub \in Names : StoreSet(id, sub)
  \/ Clock

AuthnSpec == AuthnInit /\ [][AuthnNext]_authnVars

-----------------------------------------------------------------------------
(* Whom a credential proves at a moment, told from who minted it and from  *)
(* what was in force, not from its text.  A name that holds a separator of *)
(* its scheme has no credential that reads back, and is left out.          *)
Separates(name) == Has(name, IF options.kind = "hmac" THEN Dot ELSE Colon)
InForce(table) == IF options.live THEN table ELSE options.table

Proves(t, table, sessions, at) ==
  CASE options.kind = "hmac" ->
         {m.sub : m \in {m \in minted : m.credential = t /\ m.secret = InForce(table)[m.sub]
                                          /\ at \in m.at - MaxSkew .. m.at + MaxSkew}}
    [] options.kind = "jwt" ->
         {m.sub : m \in {m \in minted : m.credential = t /\ options.dec = options.enc
                                          /\ at \in t[1][5] .. t[1][6]}}
    [] options.kind = "basicauth" ->
         {name \in Names : InForce(table)[name] # None /\ t = name \o <<Colon>> \o InForce(table)[name]}
    [] options.kind = "apikey" -> {InForce(table)[name] : name \in Names \cap {t}} \ {None}
    [] options.kind = "presharedkey" -> IF t \in Preshared THEN {<<>>} ELSE {}
    [] options.kind = "session" -> {sessions[id] : id \in DOMAIN sessions \cap {t}}
    [] OTHER -> {<<>>}

(* An answer is right for some moment between the request's beginning and  *)
(* its end: a handshake is let in only as whom its credential proved under *)
(* a table, a store and a time in force then, and is turned away only when *)
(* it did not.  So a logged-out session, a rotated secret and a stamp that *)
(* left the window (both ways) are refused by every later request, while   *)
(* what create_identity minted keeps authenticating until then (the        *)
(* authenticate_token of the seven engines, AuthenticationGate).           *)
AnswersAreCurrent ==
  request.pc = "answered" /\ request.token # <<>> =>
    LET moments == request.saw \X request.times
        proved(m) == Proves(request.token, m[1][1], m[1][2], m[2])
        plain(m) == \A name \in proved(m) : ~Separates(name)
    IN  (\A m \in moments : plain(m)) =>
          IF request.verdict = "continue"
          THEN \E m \in moments : request.result.sub \in proved(m)
          ELSE \E m \in moments : proved(m) = {}

-----------------------------------------------------------------------------
(* The claim bag: a JSON object and the typed getters over it.  A JSON     *)
(* value is a record with its type tag.  Numbers carry the representation  *)
(* serde_json gives them: "i64" and "u64" hold an integer, "f64" a number  *)
(* of halves, so that truncation shows.                                    *)
InvalidType == "InvalidType"

Power[n \in 0 .. Wide] == IF n = 0 THEN 1 ELSE 2 * Power[n - 1]

Whole(n) ==
    [type |-> "number", rep |-> IF n < Power[Wide - 1] THEN "i64" ELSE "u64", n |-> n]
Halves(n) == [type |-> "number", rep |-> "f64", n |-> n]

Read(v) == [err |-> "none", value |-> v]
NotOfType == [err |-> InvalidType, value |-> <<>>]

(* A float cast to an integer loses its fraction toward zero and           *)
(* saturates; an integer cast wraps.                                       *)
Truncated(halves) == IF halves >= 0 THEN halves \div 2 ELSE -((-halves) \div 2)
Least(width, signed) == IF signed THEN -(Power[width - 1]) ELSE 0
Greatest(width, signed) == IF signed THEN Power[width - 1] - 1 ELSE Power[width] - 1
Saturated(n, width, signed) ==
    IF n < Least(width, signed) THEN Least(width, signed)
    ELSE IF n > Greatest(width, signed) THEN Greatest(width, signed) ELSE n
Wrapped(n, width, signed) ==
    ((n - Least(width, signed)) % Power[width]) + Least(width, signed)

(* get_expiration_time, get_not_before, get_issued_at.  A number beyond    *)
(* the signed range goes through its float form; zero is no date.          *)
Date(secs) == [some |-> secs # 0, secs |-> secs]
ParseNumericDate(v) ==
    CASE v.type = "missing" -> Read(Date(0))
      [] v.type = "number" ->
            Read(Date(IF v.rep = "i64" THEN v.n
                       ELSE Saturated(IF v.rep = "u64" THEN v.n ELSE Truncated(v.n), Wide, TRUE)))
      [] OTHER -> NotOfType

(* raw_number and the twelve numeric getters, by width and sign.           *)
Cast(v, width, signed) ==
    IF v.rep = "f64" THEN Saturated(Truncated(v.n), width, signed)
    ELSE Wrapped(v.n, width, signed)

NumericGetter(v, width, signed) ==
    CASE v.type \in {"missing", "null"} -> Read(0)
      [] v.type = "number" -> Read(Cast(v, width, signed))
      [] OTHER -> NotOfType

Numbers == {Whole(n) : n \in Least(Wide, TRUE) .. Greatest(Wide, FALSE)}
              \cup {Halves(n) : n \in 4 * Least(Wide, TRUE) .. 4 * Greatest(Wide, FALSE)}

(* Every number whose whole part fits the getter's type reads back as that *)
(* whole part, whichever representation carried it; out of range, integers *)
(* agree modulo the width and floats stop at the nearest bound (claims.rs, *)
(* numeric_getter and the module's parsing contract).                      *)
NumbersReadBack ==
    \A v \in Numbers, width \in 1 .. Wide, signed \in BOOLEAN :
        LET read == NumericGetter(v, width, signed).value
            whole == IF v.rep = "f64" THEN Truncated(v.n) ELSE v.n
            fits == whole >= Least(width, signed) /\ whole <= Greatest(width, signed)
        IN  /\ fits => read = whole
            /\ read >= Least(width, signed) /\ read <= Greatest(width, signed)
            /\ v.rep # "f64" => (read - whole) % Power[width] = 0
            /\ v.rep = "f64" /\ ~fits =>
                  read = IF whole < 0 THEN Least(width, signed) ELSE Greatest(width, signed)
            /\ ParseNumericDate(v).value.some <=> whole # 0
=============================================================================
