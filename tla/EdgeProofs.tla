----------------------------- MODULE EdgeProofs -----------------------------
(***************************************************************************)
(* Theorems about what takes requests in.  The http edge: whatever stack   *)
(* of layers, CORS policy, guards, claims and permissions a request meets, *)
(* EdgeDecides holds.  The assembly, from "The stages of build()" on:      *)
(* whatever the document, the factories and the features, AssemblyHolds.   *)
(***************************************************************************)
EXTENDS MCEdge, FiniteSetTheorems, TLAPS

-----------------------------------------------------------------------------
(* The stack of layers.                                                    *)

Rank == [recovery |-> 1, request_id |-> 2, logging |-> 3, cors |-> 4, timeout |-> 5,
         authn |-> 6, authz |-> 7, handler |-> 8]

\* A stack around the handler: its layers from the outermost in, each of them
\* ranked r or deeper, and present as `has` says.
Stack(s, r, has) ==
  /\ s \in Seq(DOMAIN Rank) /\ Len(s) > 0 /\ s[Len(s)] = "handler"
  /\ \A i, j \in 1..Len(s) : i < j => Rank[s[i]] < Rank[s[j]]
  /\ \A i \in 1..Len(s) : Rank[s[i]] >= r
  /\ \A layer \in DOMAIN Rank : layer \in has <=> \E i \in 1..Len(s) : s[i] = layer

With(has, layer, enabled) == IF enabled THEN has \cup {layer} ELSE has

\* Wrapping puts a layer outside of what is there.
LEMMA AroundStacks ==
  ASSUME NEW s, NEW r \in Nat, NEW has, Stack(s, r, has), NEW layer \in DOMAIN Rank,
         Rank[layer] < r, NEW enabled \in BOOLEAN
  PROVE  Stack(E!Around(layer, enabled, s), Rank[layer], With(has, layer, enabled))
<1>r. \A l \in DOMAIN Rank : Rank[l] \in Nat  BY DEF Rank
<1>1. CASE ~enabled  BY <1>1, <1>r DEF Stack, E!Around, With
<1>2. CASE enabled
 <2> DEFINE t == <<layer>> \o s
 <2>1. E!Around(layer, enabled, s) = t  BY <1>2 DEF E!Around
 <2>2. s \in Seq(DOMAIN Rank) /\ Len(s) \in Nat /\ <<layer>> \in Seq(DOMAIN Rank)  BY DEF Stack
 <2>3. /\ t \in Seq(DOMAIN Rank) /\ Len(t) = Len(s) + 1 /\ t[1] = layer
       /\ \A i \in 1..Len(s) : t[i + 1] = s[i]  BY <2>2
 <2> HIDE DEF t
 <2>4. t[Len(t)] = "handler"  BY <2>2, <2>3 DEF Stack
 <2>5. \A i \in 2..Len(t) : i - 1 \in 1..Len(s) /\ t[i] = s[i - 1]
  <3> TAKE i \in 2..Len(t)
  <3>1. i - 1 \in 1..Len(s) /\ (i - 1) + 1 = i  BY <2>2, <2>3
  <3> QED  BY <2>3, <3>1
 <2>6. \A i \in 2..Len(t) : Rank[t[i]] >= r /\ t[i] \in DOMAIN Rank  BY <2>2, <2>5 DEF Stack
 <2>7. \A i, j \in 1..Len(t) : i < j => Rank[t[i]] < Rank[t[j]]
  <3> SUFFICES ASSUME NEW i \in 1..Len(t), NEW j \in 1..Len(t), i < j
               PROVE  Rank[t[i]] < Rank[t[j]]  OBVIOUS
  <3>1. j \in 2..Len(t)  BY <2>2, <2>3
  <3>2. CASE i = 1  BY <3>1, <3>2, <2>3, <2>6, <1>r
  <3>3. CASE i # 1
   <4>1. i \in 2..Len(t) /\ i - 1 < j - 1  BY <2>2, <2>3, <3>3
   <4> QED  BY <4>1, <3>1, <2>5 DEF Stack
  <3> QED  BY <3>2, <3>3
 <2>8. \A i \in 1..Len(t) : Rank[t[i]] >= Rank[layer]
  <3> TAKE i \in 1..Len(t)
  <3>1. CASE i = 1  BY <3>1, <2>3, <1>r
  <3>2. CASE i # 1
   <4>1. i \in 2..Len(t)  BY <2>2, <2>3, <3>2
   <4> QED  BY <4>1, <2>6, <1>r
  <3> QED  BY <3>1, <3>2
 <2>9. ASSUME NEW l \in DOMAIN Rank
       PROVE  l \in has \cup {layer} <=> \E i \in 1..Len(t) : t[i] = l
  <3>1. ASSUME NEW i \in 1..Len(s), s[i] = l
        PROVE  \E k \in 1..Len(t) : t[k] = l
   <4>1. i + 1 \in 1..Len(t) /\ t[i + 1] = l  BY <2>2, <2>3, <3>1
   <4> QED  BY <4>1
  <3>2. 1 \in 1..Len(t)  BY <2>2, <2>3
  <3>3. ASSUME NEW i \in 1..Len(t), t[i] = l
        PROVE  l \in has \cup {layer}
   <4>1. CASE i = 1  BY <4>1, <3>3, <2>3
   <4>2. CASE i # 1
    <5>1. i \in 2..Len(t)  BY <2>2, <2>3, <4>2
    <5> QED  BY <5>1, <3>3, <2>5 DEF Stack
   <4> QED  BY <4>1, <4>2
  <3> QED  BY <3>1, <3>2, <3>3, <2>3 DEF Stack
 <2>10. Stack(t, Rank[layer], has \cup {layer})
  <3>1. Len(t) > 0  BY <2>2, <2>3
  <3> QED  BY <3>1, <2>3, <2>4, <2>7, <2>8, <2>9 DEF Stack
 <2> QED  BY <1>2, <2>1, <2>10 DEF With
<1> QED  BY <1>1, <1>2

\* Which layers a request passes.
Guarding == request.path = "protected"
Passes ==
  {layer \in DOMAIN Rank :
     /\ layer = "recovery" => E!edge.recovery
     /\ layer = "request_id" => E!edge.request_id
     /\ layer = "logging" => E!edge.logging
     /\ layer = "cors" => E!edge.cors # None
     /\ layer = "timeout" => E!edge.timeout
     /\ layer = "authn" => Guarding /\ config.guards.authn
     /\ layer = "authz" => Guarding /\ config.guards.authz # None}

Switches == config.wire.timeout \in BOOLEAN /\ config.guards.authn \in BOOLEAN

LEMMA ChainStacks ==
  ASSUME Switches
  PROVE  Stack(E!chain, 1, Passes)
<1> DEFINE b1 == Guarding /\ config.guards.authz # None
           b2 == Guarding /\ config.guards.authn
           b3 == E!edge.timeout
           b4 == E!edge.cors # None
           b5 == E!edge.logging
           b6 == E!edge.request_id
           b7 == E!edge.recovery
           s0 == <<"handler">>
           s1 == E!Around("authz", b1, s0)
           s2 == E!Around("authn", b2, s1)
           s3 == E!Around("timeout", b3, s2)
           s4 == E!Around("cors", b4, s3)
           s5 == E!Around("logging", b5, s4)
           s6 == E!Around("request_id", b6, s5)
           s7 == E!Around("recovery", b7, s6)
           h1 == With({"handler"}, "authz", b1)
           h2 == With(h1, "authn", b2)
           h3 == With(h2, "timeout", b3)
           h4 == With(h3, "cors", b4)
           h5 == With(h4, "logging", b5)
           h6 == With(h5, "request_id", b6)
           h7 == With(h6, "recovery", b7)
<1>a. E!chain = s7  BY DEF E!chain, E!Wrap, E!Route, E!ApplyGuards, E!Around, Guarding
<1>b. /\ b1 \in BOOLEAN /\ b2 \in BOOLEAN /\ b3 \in BOOLEAN /\ b4 \in BOOLEAN
      /\ b5 \in BOOLEAN /\ b6 \in BOOLEAN /\ b7 \in BOOLEAN  BY DEF Switches, E!edge, E!EdgeOf
<1>c. /\ Rank["recovery"] = 1 /\ Rank["request_id"] = 2 /\ Rank["logging"] = 3 /\ Rank["cors"] = 4
      /\ Rank["timeout"] = 5 /\ Rank["authn"] = 6 /\ Rank["authz"] = 7 /\ Rank["handler"] = 8
      /\ DOMAIN Rank = {"recovery", "request_id", "logging", "cors", "timeout", "authn", "authz", "handler"}
  BY DEF Rank
<1>d. h7 = Passes  BY <1>c DEF Guarding, Passes, With
<1>0. Stack(s0, 8, {"handler"})  BY <1>c DEF Stack
<1> HIDE DEF s0, b1, b2, b3, b4, b5, b6, b7
<1>1. Stack(s1, 7, h1)
 <2>1. Rank["authz"] < 8 /\ "authz" \in DOMAIN Rank  BY <1>c
 <2>2. Stack(E!Around("authz", b1, s0), Rank["authz"], With({"handler"}, "authz", b1))
   BY <1>0, <1>b, <2>1, AroundStacks
 <2> QED  BY <2>2, <1>c
<1> HIDE DEF s1, h1
<1>2. Stack(s2, 6, h2)
 <2>1. Rank["authn"] < 7 /\ "authn" \in DOMAIN Rank  BY <1>c
 <2>2. Stack(E!Around("authn", b2, s1), Rank["authn"], With(h1, "authn", b2))  BY <1>1, <1>b, <2>1, AroundStacks
 <2> QED  BY <2>2, <1>c
<1> HIDE DEF s2, h2
<1>3. Stack(s3, 5, h3)  BY <1>2, <1>b, <1>c, AroundStacks
<1> HIDE DEF s3, h3
<1>4. Stack(s4, 4, h4)  BY <1>3, <1>b, <1>c, AroundStacks, SMTT(60)
<1> HIDE DEF s4, h4
<1>5. Stack(s5, 3, h5)  BY <1>4, <1>b, <1>c, AroundStacks, SMTT(60)
<1> HIDE DEF s5, h5
<1>6. Stack(s6, 2, h6)  BY <1>5, <1>b, <1>c, AroundStacks
<1> HIDE DEF s6, h6
<1>7. Stack(s7, 1, h7)  BY <1>6, <1>b, <1>c, AroundStacks
<1> QED  BY <1>a, <1>7, <1>d, SMTT(60)

\* A request keeps its configuration, so its chain stays as it is.
LEMMA ChainStays ==
  ASSUME config' = config, request' = request
  PROVE  /\ E!chain' = E!chain /\ Passes' = Passes /\ E!edge' = E!edge
         /\ E!Preflight' = E!Preflight /\ E!Claims' = E!Claims /\ E!Entitled' = E!Entitled
         /\ E!Guarded' = E!Guarded
BY DEF E!chain, Passes, Guarding, E!edge, E!Preflight, E!Claims, E!Entitled, E!Guarded, E!Wrap

Placed == Stack(E!chain, 1, Passes) /\ depth \in Nat /\ depth < Len(E!chain)

LEMMA RankIsNat == \A layer \in DOMAIN Rank : Rank[layer] \in Nat
BY DEF Rank

\* A request is inside of exactly the layers of its chain that rank before the
\* one it stands at.
LEMMA InsideIsBefore ==
  ASSUME Placed, NEW layer \in DOMAIN Rank
  PROVE  /\ E!InsideOf(layer) <=> layer \in Passes /\ Rank[layer] < Rank[E!Layer]
         /\ E!Layer \in Passes
<1>1. /\ depth + 1 \in 1..Len(E!chain) /\ Len(E!chain) \in Nat
      /\ \A i \in 1..Len(E!chain) : E!chain[i] \in DOMAIN Rank /\ Rank[E!chain[i]] \in Nat
  BY RankIsNat DEF Placed, Stack
<1>2. ASSUME NEW i \in 1..depth, E!chain[i] = layer
      PROVE  layer \in Passes /\ Rank[layer] < Rank[E!Layer]  BY <1>1, <1>2 DEF Placed, Stack, E!Layer
<1>3. ASSUME layer \in Passes, Rank[layer] < Rank[E!Layer]
      PROVE  \E i \in 1..depth : E!chain[i] = layer
 <2>1. PICK i \in 1..Len(E!chain) : E!chain[i] = layer  BY <1>3 DEF Placed, Stack
 <2>2. CASE i = depth + 1  BY <1>1, <1>3, <2>1, <2>2 DEF E!Layer
 <2>3. CASE i > depth + 1
  <3>1. Rank[E!chain[depth + 1]] < Rank[E!chain[i]]  BY <1>1, <2>3 DEF Placed, Stack
  <3> QED  BY <1>1, <1>3, <2>1, <3>1 DEF E!Layer
 <2>4. CASE i < depth + 1  BY <2>1, <2>4, <1>1 DEF Placed
 <2> QED  BY <1>1, <2>2, <2>3, <2>4
<1>4. E!Layer \in Passes  BY <1>1 DEF Placed, Stack, E!Layer
<1> QED  BY <1>2, <1>3, <1>4 DEF E!InsideOf

\* One layer further in, unless it was the handler.
LEMMA InwardIsInside ==
  ASSUME Placed, E!Layer # "handler", depth' = depth + 1, E!chain' = E!chain, Passes' = Passes
  PROVE  /\ Placed'
         /\ \A layer : E!InsideOf(layer)' <=> E!InsideOf(layer) \/ E!Layer = layer
<1>1. depth + 1 # Len(E!chain) /\ Len(E!chain) \in Nat  BY DEF Placed, Stack, E!Layer
<1>2. Placed'  BY <1>1 DEF Placed
<1>3. 1..(depth + 1) = (1..depth) \cup {depth + 1}  BY DEF Placed
<1>4. ASSUME NEW layer
      PROVE  E!InsideOf(layer)' <=> E!InsideOf(layer) \/ E!Layer = layer  BY <1>3 DEF E!InsideOf, E!Layer
<1> QED  BY <1>2, <1>4

\* One layer further out.
LEMMA LeavingIsOutside ==
  ASSUME Placed, depth > 0, depth' = depth - 1, E!chain' = E!chain, Passes' = Passes
  PROVE  /\ Placed'
         /\ \A layer : E!InsideOf(layer)' <=> E!InsideOf(layer) /\ E!Leaving # layer
         /\ E!Leaving \in DOMAIN Rank
<1>1. depth \in 1..Len(E!chain) /\ Len(E!chain) \in Nat /\ depth - 1 \in Nat  BY DEF Placed, Stack
<1>2. Placed'  BY <1>1 DEF Placed
<1>3. 1..depth = (1..(depth - 1)) \cup {depth} /\ depth \notin 1..(depth - 1)  BY <1>1
<1>4. \A i \in 1..(depth - 1) : E!chain[i] # E!chain[depth]
 <2> TAKE i \in 1..(depth - 1)
 <2>1. i \in 1..Len(E!chain) /\ i < depth  BY <1>1
 <2>2. Rank[E!chain[i]] < Rank[E!chain[depth]] /\ E!chain[i] \in DOMAIN Rank  BY <1>1, <2>1 DEF Placed, Stack
 <2> QED  BY <2>2, RankIsNat
<1>5. ASSUME NEW layer
      PROVE  E!InsideOf(layer)' <=> E!InsideOf(layer) /\ E!Leaving # layer  BY <1>3, <1>4 DEF E!InsideOf, E!Leaving
<1>6. E!Leaving \in DOMAIN Rank  BY <1>1 DEF Placed, Stack, E!Leaving
<1> QED  BY <1>2, <1>5, <1>6

\* Where the timer cuts in: just outside of the timeout layer, inside of those
\* before it.
LEMMA TimeUpIsOutside ==
  ASSUME Placed, E!InsideOf("timeout"), E!chain' = E!chain, Passes' = Passes, E!TimeUp
  PROVE  /\ Placed'
         /\ \A layer \in DOMAIN Rank : Rank[layer] < 5 /\ E!InsideOf(layer) => E!InsideOf(layer)'
<1> DEFINE Places == {i \in 1..Len(E!chain) : E!chain[i] = "timeout"}
           k == E!SelectInSeq(E!chain, LAMBDA layer : layer = "timeout")
<1>1. PICK i \in 1..depth : E!chain[i] = "timeout"  BY DEF E!InsideOf
<1>2. i \in Places /\ Len(E!chain) \in Nat  BY <1>1 DEF Placed, Stack
<1>3. \A j \in Places : j = i
 <2> SUFFICES ASSUME NEW j \in Places PROVE j = i  OBVIOUS
 <2>1. CASE j < i
  <3>1. Rank[E!chain[j]] < Rank[E!chain[i]]  BY <1>2, <2>1 DEF Placed, Stack
  <3> QED  BY <3>1, <1>2, RankIsNat, SMTT(60) DEF Rank
 <2>2. CASE i < j
  <3>1. Rank[E!chain[i]] < Rank[E!chain[j]]  BY <1>2, <2>2 DEF Placed, Stack
  <3> QED  BY <3>1, <1>2, RankIsNat, SMTT(60) DEF Rank
 <2> QED  BY <1>2, <2>1, <2>2
<1>4. k = i  BY <1>2, <1>3 DEF E!SelectInSeq, E!Min
<1>5. depth' = i - 1  BY <1>4 DEF E!TimeUp
<1>6. ASSUME NEW layer \in DOMAIN Rank, Rank[layer] < 5, NEW j \in 1..depth, E!chain[j] = layer
      PROVE  E!InsideOf(layer)'
 <2>1. j \in 1..Len(E!chain) /\ depth \in Nat  BY <1>2 DEF Placed
 <2>2. ~(i < j)
  <3> SUFFICES ASSUME i < j PROVE FALSE  OBVIOUS
  <3>1. Rank[E!chain[i]] < Rank[E!chain[j]]  BY <1>2, <2>1 DEF Placed, Stack
  <3> QED  BY <3>1, <1>1, <1>6, RankIsNat DEF Rank
 <2>3. j # i  BY <1>1, <1>6 DEF Rank
 <2>4. j \in 1..(i - 1)  BY <1>1, <2>1, <2>2, <2>3
 <2> QED  BY <1>5, <1>6, <2>4 DEF E!InsideOf
<1>7. Placed'  BY <1>1, <1>5, <1>2 DEF Placed
<1> QED  BY <1>6, <1>7 DEF E!InsideOf

-----------------------------------------------------------------------------
(* Where a request can be, and with what.                                  *)

\* An answer is a record of these fields.
Answered(r) ==
  r = [status |-> r.status, from |-> r.from, id |-> r.id, origin |-> r.origin,
       credentials |-> r.credentials, methods |-> r.methods, headers |-> r.headers,
       expose |-> r.expose]

Inbound == phase \in {"in", "handling"}
Outbound == phase \in {"out", "answered"}

\* The handler runs in one phase only, behind every layer; who answers says how
\* the handler ended; and a preflight never gets past CORS.
PathInv ==
  /\ Placed /\ Switches /\ request.origin # "*" /\ E!Claims # None
  /\ phase \in {"in", "handling", "out", "unwinding", "answered", "aborted"}
  /\ phase = "in" => handler = "idle"
  /\ phase = "handling" <=> handler = "running"
  /\ phase = "handling" => E!Layer = "handler"
  /\ phase = "unwinding" => handler = "panicked"
  /\ phase = "answered" => depth = 0
  /\ IF Outbound
     THEN /\ Answered(response)
          /\ response.from = "timeout" <=> handler = "dropped"
          /\ response.from = "recovery" <=> handler = "panicked"
     ELSE response = None
  /\ E!Preflight /\ E!edge.cors # None => handler = "idle" /\ ~E!InsideOf("cors")
  /\ extensions = [id |-> extensions.id, claims |-> extensions.claims]
  /\ log = [opened |-> log.opened, id |-> log.id, status |-> log.status]

LEMMA PathInit == E!EdgeInit => PathInv
<1> SUFFICES ASSUME E!EdgeInit PROVE PathInv  OBVIOUS
<1>1. /\ depth = 0 /\ phase = "in" /\ handler = "idle" /\ response = None
      /\ extensions = [id |-> None, claims |-> None]
      /\ log = [opened |-> FALSE, id |-> None, status |-> None]  BY DEF E!EdgeInit
<1>2. Switches /\ request.origin # "*" /\ E!Claims # None  BY EdgeAssumption DEF E!EdgeInit, Switches, E!Claims
<1>3. Placed
 <2>1. Stack(E!chain, 1, Passes)  BY <1>2, ChainStacks
 <2> QED  BY <1>1, <2>1 DEF Placed, Stack
<1>4. ~E!InsideOf("cors")  BY <1>1 DEF E!InsideOf
<1> QED  BY <1>1, <1>2, <1>3, <1>4 DEF PathInv, Outbound

\* What a layer says on the way in is an answer of its own, before the handler.
LEMMA AnswerKeepsPath ==
  ASSUME PathInv, NEW r, Answered(r), r.from \notin {"timeout", "recovery"},
         phase = "in", UNCHANGED <<config, request, handler>>, E!Answer(r),
         extensions' = [id |-> extensions'.id, claims |-> extensions'.claims], log' = log
  PROVE  PathInv'
<1>1. /\ phase' = "out" /\ response' = r /\ depth' = depth
      /\ config' = config /\ request' = request /\ handler' = handler  BY DEF E!Answer
<1>2. /\ E!chain' = E!chain /\ Passes' = Passes /\ E!edge' = E!edge
      /\ E!Preflight' = E!Preflight /\ E!Claims' = E!Claims  BY <1>1, ChainStays
<1>3. Placed' /\ Switches' /\ (E!InsideOf("cors"))' = E!InsideOf("cors")
  BY <1>1, <1>2 DEF PathInv, Placed, Switches, E!InsideOf
<1> QED  BY <1>1, <1>2, <1>3 DEF PathInv, Outbound, Answered

LEMMA InwardKeepsPath ==
  ASSUME PathInv, E!Layer # "handler", E!Layer = "cors" => ~E!Preflight,
         phase = "in", UNCHANGED <<config, request, handler>>, E!Inward,
         extensions' = [id |-> extensions'.id, claims |-> extensions'.claims],
         log' = [opened |-> log'.opened, id |-> log'.id, status |-> log'.status]
  PROVE  PathInv'
<1>1. /\ phase' = "in" /\ response' = response /\ depth' = depth + 1
      /\ config' = config /\ request' = request /\ handler' = handler  BY DEF E!Inward
<1>2. /\ E!chain' = E!chain /\ Passes' = Passes /\ E!edge' = E!edge
      /\ E!Preflight' = E!Preflight /\ E!Claims' = E!Claims  BY <1>1, ChainStays
<1>3. Placed' /\ Switches' /\ (E!InsideOf("cors")' <=> E!InsideOf("cors") \/ E!Layer = "cors")
  BY <1>1, <1>2, InwardIsInside DEF PathInv, Switches
<1> QED  BY <1>1, <1>2, <1>3 DEF PathInv, Outbound

\* Who answers is written on the answer, stamped or not.
LEMMA BareAnswers ==
  ASSUME NEW code, NEW from
  PROVE  /\ Answered(E!Bare(code, from))
         /\ E!Bare(code, from).from = from /\ E!Bare(code, from).status = code
         /\ E!Bare(code, from).origin = None
BY DEF Answered, E!Bare

\* A stamp sets two headers of an answer and leaves the rest of it.
LEMMA StampsAreFields ==
  ASSUME NEW r, Answered(r), NEW u, NEW v
  PROVE  /\ Answered([r EXCEPT !.origin = u, !.credentials = v])
         /\ [r EXCEPT !.origin = u, !.credentials = v].from = r.from
         /\ Answered([r EXCEPT !.methods = u, !.headers = v])
         /\ [r EXCEPT !.methods = u, !.headers = v].from = r.from
<1> DEFINE o == [r EXCEPT !.origin = u]
           m == [r EXCEPT !.methods = u]
<1>1. Answered(o) /\ o.from = r.from  BY DEF Answered
<1>2. Answered(m) /\ m.from = r.from  BY DEF Answered
<1> HIDE DEF o, m
<1>3. Answered([o EXCEPT !.credentials = v]) /\ [o EXCEPT !.credentials = v].from = r.from  BY <1>1 DEF Answered
<1>4. Answered([m EXCEPT !.headers = v]) /\ [m EXCEPT !.headers = v].from = r.from  BY <1>2 DEF Answered
<1> QED  BY <1>3, <1>4 DEF o, m

\* What CORS answers a preflight with.
CorsAnswer == IF E!edge.compat THEN E!CompatRun(E!edge.cors) ELSE E!TowerPreflight(E!edge.cors)

LEMMA CorsAnswers == Answered(CorsAnswer) /\ CorsAnswer.from = "cors"
<1>1. ASSUME NEW cors
      PROVE  Answered(E!TowerPreflight(cors)) /\ E!TowerPreflight(cors).from = "cors"
 <2> DEFINE b == E!Bare(200, "cors")
            o == E!TowerOrigin(cors, request.origin)
            c == cors.credentials
            t == [b EXCEPT !.origin = o, !.credentials = c]
            m == E!ToLayer(cors).methods
            h == E!ToLayer(cors).headers
 <2>0. Answered(b) /\ b.from = "cors"  BY BareAnswers
 <2>a. E!TowerStamp(cors, b) = t  BY SMTT(60) DEF E!TowerStamp
 <2> HIDE DEF b, o, c, m, h
 <2>1. Answered(t) /\ t.from = "cors"  BY <2>0, StampsAreFields, ZenonT(60)
 <2> HIDE DEF t
 <2>2. Answered([t EXCEPT !.methods = m, !.headers = h]) /\ [t EXCEPT !.methods = m, !.headers = h].from = "cors"
   BY <2>1, StampsAreFields, ZenonT(60)
 <2>3. E!TowerPreflight(cors) = [t EXCEPT !.methods = m, !.headers = h]  BY <2>a DEF E!TowerPreflight, b, m, h
 <2> QED  BY <2>2, <2>3
<1>2. ASSUME NEW state
      PROVE  Answered(E!CompatPreflight(state)) /\ E!CompatPreflight(state).from = "cors"
 <2>1. CASE request.wanted = None  BY <2>1, BareAnswers DEF E!CompatPreflight
 <2>2. CASE request.wanted # None /\ request.wanted \notin state.methods
   BY <2>2, BareAnswers DEF E!CompatPreflight
 <2>3. CASE request.wanted # None /\ request.wanted \in state.methods /\ ~(E!Reflected \subseteq state.headers)
   BY <2>3, BareAnswers DEF E!CompatPreflight
 <2>4. CASE request.wanted # None /\ request.wanted \in state.methods /\ E!Reflected \subseteq state.headers
  <3>1. E!CompatPreflight(state) =
          [E!CompatStamp(state, E!Bare(200, "cors"))
             EXCEPT !.headers = E!Reflected, !.methods = {request.wanted} \ E!Simple]
    BY <2>4 DEF E!CompatPreflight
  <3> QED  BY <3>1 DEF E!CompatStamp, E!Bare, Answered
 <2> QED  BY <2>1, <2>2, <2>3, <2>4
<1>3. ASSUME NEW cors
      PROVE  Answered(E!CompatRun(cors)) /\ E!CompatRun(cors).from = "cors"
 <2>1. Answered(E!Bare(200, "cors")) /\ E!Bare(200, "cors").from = "cors"  BY BareAnswers
 <2> QED  BY <1>2, <2>1 DEF E!CompatRun
<1> QED  BY <1>1, <1>3 DEF CorsAnswer

LEMMA StampsKeepTheAnswer ==
  ASSUME NEW r, Answered(r)
  PROVE  /\ Answered(E!LeaveCors(r)) /\ E!LeaveCors(r).from = r.from
         /\ E!LeaveCors(r).status = r.status /\ E!LeaveCors(r).id = r.id
BY DEF E!LeaveCors, E!CompatStamp, E!TowerStamp, Answered

LEMMA LeaveKeepsTheAnswer ==
  ASSUME Answered(response), E!Leave
  PROVE  /\ Answered(response') /\ response'.from = response.from /\ response'.status = response.status
         /\ response'.id = IF E!Leaving = "request_id" THEN extensions.id ELSE response.id
<1>1. CASE E!Leaving = "cors"  BY <1>1, StampsKeepTheAnswer DEF E!Leave
<1>2. CASE E!Leaving = "request_id"  BY <1>2 DEF E!Leave, Answered
<1>3. CASE E!Leaving \notin {"cors", "request_id"}  BY <1>3 DEF E!Leave
<1> QED  BY <1>1, <1>2, <1>3

LEMMA BareKeepsPath ==
  ASSUME PathInv, NEW code, NEW from, from \notin {"timeout", "recovery"},
         phase = "in", UNCHANGED <<config, request, handler>>, E!Answer(E!Bare(code, from)),
         extensions' = [id |-> extensions'.id, claims |-> extensions'.claims], log' = log
  PROVE  PathInv'
<1> DEFINE r == E!Bare(code, from)
<1>1. Answered(r) /\ r.from = from  BY BareAnswers
<1> HIDE DEF r
<1> QED  BY <1>1, AnswerKeepsPath DEF r

\* What no step of a request changes.
EdgeFramed ==
  /\ config' = config /\ request' = request
  /\ E!chain' = E!chain /\ Passes' = Passes /\ E!edge' = E!edge
  /\ E!Preflight' = E!Preflight /\ E!Claims' = E!Claims /\ E!Entitled' = E!Entitled
  /\ E!Guarded' = E!Guarded /\ Switches' = Switches

LEMMA EdgeFrame == ASSUME E!EdgeNext PROVE EdgeFramed
<1>1. config' = config /\ request' = request
  BY DEF E!EdgeNext, E!Layers, E!EnterRecovery, E!EnterTimeout, E!EnterRequestId, E!EnterLogging,
         E!EnterCors, E!EnterAuthn, E!EnterAuthz, E!EnterHandler, E!Leave, E!Send, E!Unwind,
         E!Touch, E!Return, E!Panic, E!TimeUp, E!ClientGone, E!Entering
<1> QED  BY <1>1, ChainStays DEF EdgeFramed, Switches

LEMMA PathStep == PathInv /\ [E!EdgeNext]_requestVars => PathInv'
<1> SUFFICES ASSUME PathInv, [E!EdgeNext]_requestVars
             PROVE  PathInv'  OBVIOUS
<1>1. CASE E!EnterRecovery \/ E!EnterTimeout \/ E!EnterRequestId \/ E!EnterLogging
 <2>1. /\ E!Inward /\ phase = "in" /\ UNCHANGED <<config, request, handler>>
       /\ E!Layer \in {"recovery", "timeout", "request_id", "logging"}
   BY <1>1 DEF E!EnterRecovery, E!EnterTimeout, E!EnterRequestId, E!EnterLogging, E!Entering
 <2>2. extensions' = [id |-> extensions'.id, claims |-> extensions'.claims]
   BY <1>1 DEF E!EnterRecovery, E!EnterTimeout, E!EnterRequestId, E!EnterLogging, PathInv
 <2>3. log' = [opened |-> log'.opened, id |-> log'.id, status |-> log'.status]
   BY <1>1 DEF E!EnterRecovery, E!EnterTimeout, E!EnterRequestId, E!EnterLogging, PathInv
 <2> QED  BY <2>1, <2>2, <2>3, InwardKeepsPath
<1>2. CASE E!EnterCors
 <2>1. /\ phase = "in" /\ UNCHANGED <<config, request, handler, extensions, log>>
       /\ E!Layer = "cors"  BY <1>2 DEF E!EnterCors, E!Entering
 <2>2. /\ extensions' = [id |-> extensions'.id, claims |-> extensions'.claims]
       /\ log' = [opened |-> log'.opened, id |-> log'.id, status |-> log'.status]  BY <2>1 DEF PathInv
 <2>3. CASE E!Preflight
  <3>1. E!Answer(CorsAnswer)  BY <1>2, <2>3 DEF E!EnterCors, CorsAnswer
  <3> QED  BY <2>1, <2>2, <3>1, CorsAnswers, AnswerKeepsPath
 <2>4. CASE ~E!Preflight
  <3>1. E!Inward  BY <1>2, <2>4 DEF E!EnterCors
  <3> QED  BY <2>1, <2>2, <2>4, <3>1, InwardKeepsPath
 <2> QED  BY <2>3, <2>4
<1>3. CASE E!EnterAuthn
 <2>1. /\ phase = "in" /\ UNCHANGED <<config, request, handler, log>> /\ E!Layer = "authn"
   BY <1>3 DEF E!EnterAuthn, E!Entering
 <2>2. /\ extensions' = [id |-> extensions'.id, claims |-> extensions'.claims]
       /\ log' = [opened |-> log'.opened, id |-> log'.id, status |-> log'.status]
   BY <1>3, <2>1 DEF PathInv, E!EnterAuthn
 <2>3. CASE E!Answer(E!Rejection(E!FromAuthn(E!Claims.verdict), "authn"))
   BY <2>1, <2>2, <2>3, BareKeepsPath DEF E!Rejection
 <2>4. CASE E!Inward  BY <2>1, <2>2, <2>4, InwardKeepsPath
 <2> QED  BY <1>3, <2>3, <2>4 DEF E!EnterAuthn
<1>4. CASE E!EnterAuthz
 <2>1. /\ phase = "in" /\ UNCHANGED <<config, request, handler, extensions, log>>
       /\ E!Layer = "authz"  BY <1>4 DEF E!EnterAuthz, E!Entering
 <2>2. /\ extensions' = [id |-> extensions'.id, claims |-> extensions'.claims]
       /\ log' = [opened |-> log'.opened, id |-> log'.id, status |-> log'.status]  BY <2>1 DEF PathInv
 <2>3. ASSUME NEW code, E!Answer(E!Rejection(code, "authz"))
       PROVE  PathInv'  BY <2>1, <2>2, <2>3, BareKeepsPath DEF E!Rejection
 <2>4. CASE E!Inward  BY <2>1, <2>2, <2>4, InwardKeepsPath
 <2> QED  BY <1>4, <2>3, <2>4 DEF E!EnterAuthz
<1>5. CASE E!EnterHandler
 <2>1. /\ phase = "in" /\ UNCHANGED <<config, request, extensions, log, touched>>
       /\ E!Layer = "handler"  BY <1>5 DEF E!EnterHandler
 <2>2. /\ extensions' = [id |-> extensions'.id, claims |-> extensions'.claims]
       /\ log' = [opened |-> log'.opened, id |-> log'.id, status |-> log'.status]  BY <2>1 DEF PathInv
 <2>3. CASE E!Answer(E!Bare(405, "router")) /\ UNCHANGED handler  BY <2>1, <2>2, <2>3, BareKeepsPath
 <2>4. CASE E!Answer(E!Rejection("Unauthorized", "extractor")) /\ UNCHANGED handler
   BY <2>1, <2>2, <2>4, BareKeepsPath DEF E!Rejection
 <2>5. CASE handler' = "running" /\ phase' = "handling" /\ UNCHANGED <<depth, response>>
  <3>1. /\ E!chain' = E!chain /\ Passes' = Passes /\ E!edge' = E!edge
        /\ E!Preflight' = E!Preflight /\ E!Claims' = E!Claims  BY <2>1, ChainStays
  <3>2. ~(E!Preflight /\ E!edge.cors # None)
   <4> SUFFICES ASSUME E!Preflight, E!edge.cors # None PROVE FALSE  OBVIOUS
   <4>1. "cors" \in Passes /\ Rank["cors"] < Rank["handler"] /\ "cors" \in DOMAIN Rank  BY DEF Passes, Rank
   <4>2. E!InsideOf("cors")  BY <2>1, <4>1, InsideIsBefore DEF PathInv
   <4> QED  BY <4>2 DEF PathInv
  <3>3. Placed' /\ Switches' /\ E!Layer' = "handler"  BY <2>1, <2>5, <3>1 DEF PathInv, Placed, Switches, E!Layer
  <3> QED  BY <2>1, <2>2, <2>5, <3>1, <3>2, <3>3 DEF PathInv, Outbound
 <2> QED  BY <1>5, <2>3, <2>4, <2>5 DEF E!EnterHandler
<1>c. E!EdgeNext => EdgeFramed  BY EdgeFrame
\* Steps of the handler and of its client: no preflight is there.
<1>6. ASSUME E!EdgeNext, phase = "handling", handler' # "idle", UNCHANGED <<extensions, log>>,
             phase' # "in", (phase' = "handling") <=> (handler' = "running"),
             phase' = "unwinding" => handler' = "panicked", phase' # "answered", Placed',
             phase' \in {"handling", "out", "unwinding", "aborted"},
             phase' = "handling" => UNCHANGED depth,
             IF phase' = "out"
             THEN /\ Answered(response')
                  /\ response'.from = "timeout" <=> handler' = "dropped"
                  /\ response'.from = "recovery" <=> handler' = "panicked"
             ELSE UNCHANGED response
      PROVE  PathInv'
 <2>1. ~(E!Preflight /\ E!edge.cors # None) /\ E!Layer = "handler"  BY <1>6 DEF PathInv
 <2>2. phase' = "handling" => E!Layer' = "handler"  BY <1>6, <1>c, <2>1 DEF EdgeFramed, E!Layer
 <2>3. /\ Outbound' <=> phase' = "out"
       /\ response = None  BY <1>6 DEF PathInv, Outbound
 <2>4. Answered(response)' <=> Answered(response')  BY DEF Answered
 <2> QED  BY <1>6, <1>c, <2>1, <2>2, <2>3, <2>4 DEF EdgeFramed, PathInv
<1>7. CASE E!Touch
 <2>1. Placed'  BY <1>7, <1>c DEF EdgeFramed, E!EdgeNext, E!Touch, PathInv, Placed
 <2> QED  BY <1>6, <1>7, <2>1 DEF E!EdgeNext, E!Touch, PathInv
<1>8. CASE E!Return
 <2>1. Placed'  BY <1>8, <1>c DEF EdgeFramed, E!EdgeNext, E!Return, E!Answer, PathInv, Placed
 <2>2. PICK code : E!Answer(E!Bare(code, "handler"))  BY <1>8 DEF E!Return, E!Rejection
 <2>3. phase' = "out" /\ Answered(response') /\ response'.from = "handler"  BY <2>2, BareAnswers DEF E!Answer
 <2> QED  BY <1>6, <1>8, <2>1, <2>3 DEF E!EdgeNext, E!Return
<1>9. CASE E!Panic
 <2>1. Placed'  BY <1>9, <1>c DEF EdgeFramed, E!EdgeNext, E!Panic, PathInv, Placed
 <2> QED  BY <1>6, <1>9, <2>1 DEF E!EdgeNext, E!Panic
<1>10. CASE E!TimeUp
 <2>1. Placed'  BY <1>10, <1>c, TimeUpIsOutside DEF EdgeFramed, E!EdgeNext, E!TimeUp, PathInv
 <2>2. Answered(response') /\ response'.from = "timeout"  BY <1>10, BareAnswers DEF E!TimeUp, E!Rejection
 <2>3. /\ phase = "handling" /\ handler' = "dropped" /\ phase' = "out"
       /\ UNCHANGED <<extensions, log>> /\ E!EdgeNext  BY <1>10 DEF E!EdgeNext, E!TimeUp
 <2> QED  BY <1>6, <2>1, <2>2, <2>3
<1>11. CASE E!ClientGone
 <2>1. Placed'  BY <1>11, <1>c DEF EdgeFramed, E!EdgeNext, E!ClientGone, PathInv, Placed
 <2> QED  BY <1>6, <1>11, <2>1 DEF E!EdgeNext, E!ClientGone
<1>12. CASE E!Leave
 <2>1. E!EdgeNext /\ phase = "out" /\ depth > 0 /\ depth' = depth - 1 /\ UNCHANGED <<phase, handler, extensions>>
   BY <1>12 DEF E!EdgeNext, E!Layers, E!Leave
 <2>2. Placed' /\ (E!InsideOf("cors")' => E!InsideOf("cors"))
   BY <1>c, <2>1, LeavingIsOutside DEF EdgeFramed, PathInv
 <2>3. Answered(response) /\ Outbound /\ Outbound'  BY <2>1 DEF PathInv, Outbound
 <2>4. Answered(response') /\ response'.from = response.from  BY <1>12, <2>3, LeaveKeepsTheAnswer
 <2>5. log' = [opened |-> log'.opened, id |-> log'.id, status |-> log'.status]  BY <1>12 DEF E!Leave, PathInv
 <2>6. Answered(response)'  BY <2>4 DEF Answered
 <2> QED  BY <1>c, <2>1, <2>2, <2>3, <2>4, <2>5, <2>6 DEF EdgeFramed, PathInv
<1>13. CASE E!Send
 <2>1. /\ E!EdgeNext /\ phase = "out" /\ depth = 0 /\ phase' = "answered"
       /\ UNCHANGED <<depth, handler, extensions, response, log>>  BY <1>13 DEF E!EdgeNext, E!Layers, E!Send
 <2>2. Placed' /\ (E!InsideOf("cors")' <=> E!InsideOf("cors")) /\ (Answered(response)' <=> Answered(response))
   BY <1>c, <2>1 DEF EdgeFramed, PathInv, Placed, E!InsideOf, Answered
 <2> QED  BY <1>c, <2>1, <2>2 DEF EdgeFramed, PathInv, Outbound
<1>14. CASE E!Unwind
 <2>1. /\ E!EdgeNext /\ phase = "unwinding" /\ handler = "panicked"
       /\ UNCHANGED <<handler, extensions, log>>  BY <1>14 DEF E!EdgeNext, E!Layers, E!Unwind, PathInv
 <2>2. ~(E!Preflight /\ E!edge.cors # None) /\ depth \in Nat /\ response = None
   BY <2>1 DEF PathInv, Placed, Outbound
 <2>3. CASE phase' = "out" /\ response' = E!Rejection("Internal", "recovery") /\ depth' = depth - 1 /\ depth > 0
  <3>1. Placed'  BY <1>c, <2>1, <2>3, LeavingIsOutside DEF EdgeFramed, PathInv
  <3>2. Answered(response') /\ response'.from = "recovery" /\ (Answered(response)' <=> Answered(response'))
    BY <2>3, BareAnswers DEF E!Rejection, Answered
  <3> QED  BY <1>c, <2>1, <2>2, <2>3, <3>1, <3>2 DEF EdgeFramed, PathInv, Outbound
 <2>4. CASE depth > 0 /\ depth' = depth - 1 /\ UNCHANGED <<phase, response>>
  <3>1. Placed'  BY <1>c, <2>1, <2>4, LeavingIsOutside DEF EdgeFramed, PathInv
  <3> QED  BY <1>c, <2>1, <2>2, <2>4, <3>1 DEF EdgeFramed, PathInv, Outbound
 <2>5. CASE phase' = "aborted" /\ UNCHANGED <<depth, response>>
  <3>1. Placed'  BY <1>c, <2>1, <2>5, SMTT(60) DEF EdgeFramed, PathInv, Placed
  <3> QED  BY <1>c, <2>1, <2>2, <2>5, <3>1 DEF EdgeFramed, PathInv, Outbound
 <2> QED  BY <1>14, <2>2, <2>3, <2>4, <2>5 DEF E!Unwind
<1>15. CASE UNCHANGED requestVars
  BY <1>15 DEF requestVars, PathInv, Placed, Switches, Outbound, Answered, E!chain, Passes, Guarding,
               E!edge, E!Preflight, E!Claims, E!Layer, E!InsideOf, E!Wrap
<1> QED  BY <1>1, <1>2, <1>3, <1>4, <1>5, <1>7, <1>8, <1>9, <1>10, <1>11, <1>12, <1>13, <1>14, <1>15
         DEF E!EdgeNext, E!Layers

-----------------------------------------------------------------------------
(* The guards.                                                             *)
Permitted == Permits[<<E!Claims.sub, E!ProjectOf(config.guards.authz, E!Claims)>>] = "yes"

\* The claims a request carries are those of a valid credential, and whoever
\* is behind a guard has passed it.
GuardInv ==
  /\ extensions.claims # None => extensions.claims = E!Claims /\ E!Claims.verdict = "valid"
  /\ Inbound /\ E!InsideOf("authn") => extensions.claims # None
  /\ Inbound /\ E!InsideOf("authz") => Permitted
  /\ E!Guarded => /\ handler # "idle" => E!Entitled
                  /\ Outbound /\ response.from \in {"authn", "authz", "extractor"} => ~E!Entitled

LEMMA GuardInit == E!EdgeInit => GuardInv
<1> SUFFICES ASSUME E!EdgeInit PROVE GuardInv  OBVIOUS
<1>1. depth = 0 /\ handler = "idle" /\ phase = "in" /\ extensions.claims = None  BY DEF E!EdgeInit
<1>2. \A layer : ~E!InsideOf(layer)  BY <1>1 DEF E!InsideOf
<1> QED  BY <1>1, <1>2 DEF GuardInv, Outbound

\* A caller behind the guards of its chain is entitled.
LEMMA BehindTheGuards ==
  ASSUME PathInv, GuardInv, Inbound, E!Layer = "handler", E!Guarded
  PROVE  E!Entitled /\ extensions.claims # None
<1>1. "authn" \in DOMAIN Rank /\ "authz" \in DOMAIN Rank /\ Rank["authn"] < Rank["handler"]
      /\ Rank["authz"] < Rank["handler"]  BY DEF Rank
<1>2. "authn" \in Passes  BY DEF Passes, E!Guarded, Guarding, Rank
<1>3. E!InsideOf("authn")  BY <1>1, <1>2, InsideIsBefore DEF PathInv
<1>4. config.guards.authz # None => E!InsideOf("authz")
 <2> SUFFICES ASSUME config.guards.authz # None PROVE E!InsideOf("authz")  OBVIOUS
 <2>1. "authz" \in Passes  BY DEF Passes, E!Guarded, Guarding, Rank
 <2> QED  BY <1>1, <2>1, InsideIsBefore DEF PathInv
<1>5. extensions.claims # None /\ E!Claims.verdict = "valid"  BY <1>3 DEF GuardInv
<1>6. config.guards.authz # None => Permitted  BY <1>4 DEF GuardInv
<1> QED  BY <1>5, <1>6 DEF E!Entitled, Permitted

\* On the way out a guard has nothing to say.
LEMMA OutKeepsGuards ==
  ASSUME PathInv, GuardInv, E!EdgeNext, ~Inbound', extensions' = extensions,
         handler' = handler \/ handler # "idle",
         \/ ~Outbound'
         \/ response'.from \notin {"authn", "authz", "extractor"}
         \/ Outbound /\ response'.from = response.from
  PROVE  GuardInv'
<1>1. EdgeFramed  BY EdgeFrame
<1> QED  BY <1>1 DEF GuardInv, EdgeFramed

LEMMA GuardStep == PathInv /\ GuardInv /\ [E!EdgeNext]_requestVars => GuardInv'
<1> SUFFICES ASSUME PathInv, GuardInv, [E!EdgeNext]_requestVars
             PROVE  GuardInv'  OBVIOUS
<1>c. E!EdgeNext => EdgeFramed /\ (Permitted' = Permitted)  BY EdgeFrame DEF EdgeFramed, Permitted, E!ProjectOf
<1>i. ASSUME E!EdgeNext, E!Inward, phase = "in", E!Layer # "handler"
      PROVE  /\ \A layer : E!InsideOf(layer)' <=> E!InsideOf(layer) \/ E!Layer = layer
             /\ Inbound /\ Inbound' /\ ~Outbound'
  BY <1>c, <1>i, InwardIsInside DEF EdgeFramed, PathInv, E!Inward, Inbound, Outbound
<1>1. CASE E!EnterRecovery \/ E!EnterTimeout \/ E!EnterRequestId \/ E!EnterLogging
 <2>1. /\ E!EdgeNext /\ E!Inward /\ phase = "in" /\ UNCHANGED handler
       /\ E!Layer \in {"recovery", "timeout", "request_id", "logging"}
   BY <1>1 DEF E!EdgeNext, E!Layers, E!EnterRecovery, E!EnterTimeout, E!EnterRequestId, E!EnterLogging, E!Entering
 <2>2. extensions'.claims = extensions.claims
   BY <1>1 DEF E!EnterRecovery, E!EnterTimeout, E!EnterRequestId, E!EnterLogging, PathInv
 <2> QED  BY <1>c, <1>i, <2>1, <2>2 DEF GuardInv, EdgeFramed
<1>2. CASE E!EnterCors
 <2>1. /\ E!EdgeNext /\ phase = "in" /\ UNCHANGED <<handler, extensions>> /\ E!Layer = "cors"
   BY <1>2 DEF E!EdgeNext, E!Layers, E!EnterCors, E!Entering
 <2>2. CASE E!Answer(CorsAnswer)
  <3>1. response'.from = "cors" /\ ~Inbound'  BY <2>2, CorsAnswers DEF E!Answer, Inbound
  <3> QED  BY <2>1, <3>1, OutKeepsGuards
 <2>3. CASE E!Inward  BY <1>c, <1>i, <2>1, <2>3 DEF GuardInv, EdgeFramed
 <2> QED  BY <1>2, <2>2, <2>3 DEF E!EnterCors, CorsAnswer
<1>3. CASE E!EnterAuthn
 <2>1. /\ E!EdgeNext /\ phase = "in" /\ UNCHANGED handler /\ E!Layer = "authn" /\ handler = "idle"
   BY <1>3 DEF E!EdgeNext, E!Layers, E!EnterAuthn, E!Entering, PathInv
 <2>2. CASE E!Claims.verdict # "valid"
  <3>1. phase' = "out" /\ extensions' = extensions  BY <1>3, <2>2 DEF E!EnterAuthn, E!Answer
  <3> QED  BY <1>c, <2>1, <2>2, <3>1 DEF GuardInv, EdgeFramed, Inbound, E!Entitled
 <2>3. CASE E!Claims.verdict = "valid"
  <3>1. E!Inward /\ extensions'.claims = E!Claims  BY <1>3, <2>3 DEF E!EnterAuthn, PathInv
  <3>2. E!Claims # None  BY DEF PathInv
  <3> QED  BY <1>c, <1>i, <2>1, <2>3, <3>1, <3>2 DEF GuardInv, EdgeFramed
 <2> QED  BY <2>2, <2>3
<1>4. CASE E!EnterAuthz
 <2>1. /\ E!EdgeNext /\ phase = "in" /\ UNCHANGED <<handler, extensions>> /\ E!Layer = "authz" /\ handler = "idle"
   BY <1>4 DEF E!EdgeNext, E!Layers, E!EnterAuthz, E!Entering, PathInv
 <2>2. "authz" \in Passes /\ (E!Guarded => extensions.claims # None)
  <3>1. "authn" \in DOMAIN Rank /\ Rank["authn"] < Rank["authz"] /\ "authz" \in DOMAIN Rank  BY DEF Rank
  <3>2. "authz" \in Passes  BY <2>1, <3>1, InsideIsBefore DEF PathInv
  <3>3. E!Guarded => E!InsideOf("authn")
   <4> SUFFICES ASSUME E!Guarded PROVE E!InsideOf("authn")  OBVIOUS
   <4>1. "authn" \in Passes  BY DEF Passes, E!Guarded, Guarding, Rank
   <4> QED  BY <2>1, <3>1, <4>1, InsideIsBefore DEF PathInv
  <3> QED  BY <2>1, <3>2, <3>3 DEF GuardInv, Inbound
 <2>3. config.guards.authz # None  BY <2>2 DEF Passes
 <2>4. CASE phase' = "out"
  <3>1. E!Guarded => ~Permitted
   <4> SUFFICES ASSUME E!Guarded, Permitted PROVE FALSE  OBVIOUS
   <4>1. extensions.claims = E!Claims /\ extensions.claims # None  BY <2>2 DEF GuardInv
   <4>2. E!Authorize(extensions.claims) = "yes"  BY <4>1 DEF E!Authorize, Permitted
   <4> QED  BY <1>4, <2>1, <2>4, <4>1, <4>2 DEF E!EnterAuthz, E!Inward
  <3> QED  BY <1>c, <2>1, <2>3, <2>4, <3>1 DEF GuardInv, EdgeFramed, Inbound, E!Entitled, Permitted
 <2>5. CASE E!Inward
  <3>1. extensions.claims # None /\ E!Authorize(extensions.claims) = "yes"
    BY <1>4, <2>1, <2>5 DEF E!EnterAuthz, E!Inward, E!Answer
  <3>2. Permitted  BY <3>1 DEF GuardInv, E!Authorize, Permitted
  <3> QED  BY <1>c, <1>i, <2>1, <2>5, <3>1, <3>2 DEF GuardInv, EdgeFramed
 <2> QED  BY <1>4, <2>4, <2>5 DEF E!EnterAuthz, E!Answer
<1>5. CASE E!EnterHandler
 <2>1. /\ E!EdgeNext /\ phase = "in" /\ UNCHANGED extensions /\ E!Layer = "handler" /\ Inbound /\ response = None
   BY <1>5 DEF E!EdgeNext, E!Layers, E!EnterHandler, PathInv, Inbound, Outbound
 <2>2. CASE E!Answer(E!Bare(405, "router")) /\ UNCHANGED handler
  <3>1. response'.from = "router" /\ ~Inbound'  BY <2>2, BareAnswers DEF E!Answer, Inbound
  <3> QED  BY <2>1, <2>2, <3>1, OutKeepsGuards
 <2>3. CASE ~E!Authenticated /\ E!Answer(E!Rejection("Unauthorized", "extractor")) /\ UNCHANGED handler
  <3>1. ~E!Guarded  BY <2>1, <2>3, BehindTheGuards DEF E!Authenticated
  <3>2. ~Inbound'  BY <2>3 DEF E!Answer, Inbound
  <3> QED  BY <1>c, <2>1, <3>1, <3>2 DEF GuardInv, EdgeFramed
 <2>4. CASE handler' = "running" /\ phase' = "handling" /\ UNCHANGED <<depth, response>>
  <3>1. E!Guarded => E!Entitled  BY <2>1, BehindTheGuards
  <3>2. \A layer : E!InsideOf(layer)' <=> E!InsideOf(layer)  BY <1>c, <2>1, <2>4 DEF E!InsideOf, EdgeFramed
  <3> QED  BY <1>c, <2>1, <2>4, <3>1, <3>2 DEF GuardInv, EdgeFramed, Outbound
 <2> QED  BY <1>5, <2>2, <2>3, <2>4 DEF E!EnterHandler
<1>6. CASE E!Touch
 <2>1. \A layer : E!InsideOf(layer)' <=> E!InsideOf(layer)
   BY <1>c, <1>6 DEF E!InsideOf, EdgeFramed, E!Touch, E!EdgeNext
 <2> QED  BY <1>c, <1>6, <2>1 DEF GuardInv, EdgeFramed, E!Touch, E!EdgeNext, Inbound, Outbound
<1>7. CASE E!Return \/ E!TimeUp
 <2>1. response'.from \in {"handler", "timeout"} /\ phase' = "out"
  <3>1. CASE E!Return
   <4>1. PICK code : E!Answer(E!Bare(code, "handler"))  BY <3>1 DEF E!Return, E!Rejection
   <4> QED  BY <4>1, BareAnswers DEF E!Answer
  <3>2. CASE E!TimeUp  BY <3>2, BareAnswers DEF E!TimeUp, E!Rejection
  <3> QED  BY <1>7, <3>1, <3>2
 <2>2. E!EdgeNext /\ extensions' = extensions /\ handler # "idle"
   BY <1>7 DEF E!EdgeNext, E!Return, E!TimeUp, PathInv
 <2> QED  BY <2>1, <2>2, OutKeepsGuards DEF Inbound
<1>8. CASE E!Panic \/ E!ClientGone \/ E!Send
 <2>1. /\ E!EdgeNext /\ UNCHANGED <<extensions, response>> /\ (handler' = handler \/ handler # "idle")
       /\ phase' \in {"unwinding", "aborted", "answered"}
   BY <1>8 DEF E!EdgeNext, E!Layers, E!Panic, E!ClientGone, E!Send, PathInv
 <2>2. phase' = "answered" => phase = "out"  BY <1>8 DEF E!Panic, E!ClientGone, E!Send
 <2>3. ~Inbound' /\ (Outbound' => Outbound)  BY <2>1, <2>2 DEF Inbound, Outbound
 <2>4. response'.from = response.from  BY <2>1
 <2> QED  BY <2>1, <2>3, <2>4, OutKeepsGuards
<1>9. CASE E!Leave
 <2>1. E!EdgeNext /\ phase = "out" /\ UNCHANGED <<phase, handler, extensions>>
   BY <1>9 DEF E!EdgeNext, E!Layers, E!Leave
 <2>2. Answered(response) /\ Outbound /\ ~Inbound'  BY <2>1 DEF PathInv, Outbound, Inbound
 <2>3. response'.from = response.from  BY <1>9, <2>2, LeaveKeepsTheAnswer
 <2> QED  BY <2>1, <2>2, <2>3, OutKeepsGuards
<1>10. CASE E!Unwind
 <2>1. /\ E!EdgeNext /\ UNCHANGED <<handler, extensions>> /\ ~Inbound'
   BY <1>10 DEF E!EdgeNext, E!Layers, E!Unwind, Inbound
 <2>2. ~Outbound' \/ response'.from = "recovery"  BY <1>10, BareAnswers DEF E!Unwind, E!Rejection, Outbound
 <2> QED  BY <2>1, <2>2, OutKeepsGuards
<1>11. CASE UNCHANGED requestVars
  BY <1>11, ZenonT(60) DEF requestVars, GuardInv, Inbound, Permitted, E!Claims, E!Entitled, E!Guarded,
               Outbound, E!InsideOf, E!chain, E!Wrap, E!edge, E!ProjectOf
<1> QED  BY <1>1, <1>2, <1>3, <1>4, <1>5, <1>6, <1>7, <1>8, <1>9, <1>10, <1>11 DEF E!EdgeNext, E!Layers

-----------------------------------------------------------------------------
(* The id of a request and its line in the log.                            *)

\* A layer the request passed has done its part on the way in, and one it is
\* out of again has done its part on the way out.
TraceInv ==
  /\ Inbound =>
       /\ E!InsideOf("request_id") => extensions.id # None
       /\ E!InsideOf("logging") /\ "request_id" \in Passes => log.id = extensions.id
  /\ Outbound /\ response.from # "recovery" =>
       /\ "request_id" \in Passes =>
            extensions.id # None /\ (E!InsideOf("request_id") \/ response.id = extensions.id)
       /\ "logging" \in Passes =>
            /\ "request_id" \in Passes => log.id = extensions.id
            /\ E!InsideOf("logging") \/ log.status = response.status

LEMMA TraceInit == E!EdgeInit => TraceInv
<1> SUFFICES ASSUME E!EdgeInit PROVE TraceInv  OBVIOUS
<1>1. depth = 0 /\ phase = "in"  BY DEF E!EdgeInit
<1>2. \A layer : ~E!InsideOf(layer)  BY <1>1 DEF E!InsideOf
<1> QED  BY <1>1, <1>2 DEF TraceInv, Outbound

\* A step of the request that keeps it inside of its outer layers, and what
\* those wrote.
LEMMA AnswerKeepsTrace ==
  ASSUME PathInv, TraceInv, E!EdgeNext, Inbound, Rank[E!Layer] > 3, ~Inbound',
         UNCHANGED <<extensions, log>>,
         E!InsideOf("request_id") => E!InsideOf("request_id")',
         E!InsideOf("logging") => E!InsideOf("logging")'
  PROVE  TraceInv'
<1>1. EdgeFramed  BY EdgeFrame
<1>2. /\ "request_id" \in DOMAIN Rank /\ Rank["request_id"] = 2
      /\ "logging" \in DOMAIN Rank /\ Rank["logging"] = 3  BY DEF Rank
<1>3. E!Layer \in Passes /\ Rank[E!Layer] \in Nat  BY <1>2, InsideIsBefore, RankIsNat DEF PathInv, Passes
<1>4. /\ "request_id" \in Passes => E!InsideOf("request_id")
      /\ "logging" \in Passes => E!InsideOf("logging")  BY <1>2, <1>3, InsideIsBefore DEF PathInv
<1> QED  BY <1>1, <1>4 DEF TraceInv, EdgeFramed

LEMMA TraceStep == PathInv /\ TraceInv /\ [E!EdgeNext]_requestVars => TraceInv'
<1> SUFFICES ASSUME PathInv, TraceInv, [E!EdgeNext]_requestVars
             PROVE  TraceInv'  OBVIOUS
<1>c. E!EdgeNext => EdgeFramed  BY EdgeFrame
<1>i. ASSUME E!EdgeNext, E!Inward, phase = "in", E!Layer # "handler"
      PROVE  /\ \A layer : E!InsideOf(layer)' <=> E!InsideOf(layer) \/ E!Layer = layer
             /\ Inbound /\ Inbound' /\ ~Outbound'
  BY <1>c, <1>i, InwardIsInside DEF EdgeFramed, PathInv, E!Inward, Inbound, Outbound
<1>s. depth' = depth /\ E!EdgeNext => \A layer : E!InsideOf(layer) => E!InsideOf(layer)'
  BY <1>c DEF E!InsideOf, EdgeFramed
<1>r. /\ Rank["request_id"] = 2 /\ Rank["logging"] = 3 /\ Rank["cors"] = 4 /\ Rank["authn"] = 6
      /\ Rank["authz"] = 7 /\ Rank["handler"] = 8 /\ "request_id" \in DOMAIN Rank /\ "logging" \in DOMAIN Rank
  BY DEF Rank
<1>1. CASE E!EnterRecovery \/ E!EnterTimeout
 <2>1. /\ E!EdgeNext /\ E!Inward /\ phase = "in" /\ UNCHANGED <<extensions, log>>
       /\ E!Layer \in {"recovery", "timeout"}
   BY <1>1 DEF E!EdgeNext, E!Layers, E!EnterRecovery, E!EnterTimeout, E!Entering
 <2> QED  BY <1>c, <1>i, <2>1 DEF TraceInv, EdgeFramed
<1>2. CASE E!EnterRequestId
 <2>1. /\ E!EdgeNext /\ E!Inward /\ phase = "in" /\ E!Layer = "request_id"
       /\ extensions'.id # None
   BY <1>2, EdgeAssumption DEF E!EdgeNext, E!Layers, E!EnterRequestId, E!Entering, PathInv
 <2>2. ~E!InsideOf("logging")  BY <1>r, <2>1, InsideIsBefore DEF PathInv
 <2> QED  BY <1>c, <1>i, <2>1, <2>2 DEF TraceInv, EdgeFramed
<1>3. CASE E!EnterLogging
 <2>1. /\ E!EdgeNext /\ E!Inward /\ phase = "in" /\ E!Layer = "logging" /\ extensions' = extensions
       /\ log'.id = extensions.id  BY <1>3 DEF E!EdgeNext, E!Layers, E!EnterLogging, E!Entering, PathInv
 <2> QED  BY <1>c, <1>i, <2>1 DEF TraceInv, EdgeFramed
<1>4. CASE E!EnterCors \/ E!EnterAuthn \/ E!EnterAuthz
 <2>1. /\ E!EdgeNext /\ phase = "in" /\ log' = log /\ E!Layer \in {"cors", "authn", "authz"}
       /\ extensions'.id = extensions.id
   BY <1>4 DEF E!EdgeNext, E!Layers, E!EnterCors, E!EnterAuthn, E!EnterAuthz, E!Entering, PathInv
 <2>2. CASE E!Inward  BY <1>c, <1>i, <2>1, <2>2 DEF TraceInv, EdgeFramed
 <2>3. CASE phase' = "out" /\ depth' = depth /\ UNCHANGED <<extensions, log>>
   BY <1>r, <1>s, <2>1, <2>3, AnswerKeepsTrace DEF Inbound
 <2> QED  BY <1>4, <2>1, <2>2, <2>3 DEF E!EnterCors, E!EnterAuthn, E!EnterAuthz, E!Answer
<1>5. CASE E!EnterHandler
 <2>1. /\ E!EdgeNext /\ phase = "in" /\ UNCHANGED <<depth, extensions, log>> /\ E!Layer = "handler"
       /\ phase' \in {"out", "handling"}  BY <1>5 DEF E!EdgeNext, E!Layers, E!EnterHandler, E!Answer
 <2>2. CASE phase' = "out"  BY <1>r, <1>s, <2>1, <2>2, AnswerKeepsTrace DEF Inbound
 <2>3. CASE phase' = "handling"
  <3>1. \A layer : E!InsideOf(layer)' <=> E!InsideOf(layer)  BY <1>c, <2>1 DEF E!InsideOf, EdgeFramed
  <3> QED  BY <1>c, <2>1, <2>3, <3>1 DEF TraceInv, EdgeFramed, Inbound, Outbound
 <2> QED  BY <2>1, <2>2, <2>3
<1>6. CASE E!Touch
 <2>1. /\ E!EdgeNext /\ UNCHANGED <<depth, phase, extensions, response, log>>  BY <1>6 DEF E!EdgeNext, E!Touch
 <2>2. \A layer : E!InsideOf(layer)' <=> E!InsideOf(layer)  BY <1>c, <2>1 DEF E!InsideOf, EdgeFramed
 <2> QED  BY <1>c, <2>1, <2>2 DEF TraceInv, EdgeFramed, Inbound, Outbound
<1>7. CASE E!Return \/ E!Panic \/ E!ClientGone
 <2>1. /\ E!EdgeNext /\ phase = "handling" /\ UNCHANGED <<depth, extensions, log>> /\ E!Layer = "handler"
       /\ phase' \in {"out", "unwinding", "aborted"}
   BY <1>7 DEF E!EdgeNext, E!Return, E!Panic, E!ClientGone, E!Answer, PathInv
 <2> QED  BY <1>r, <1>s, <2>1, AnswerKeepsTrace DEF Inbound
<1>8. CASE E!TimeUp
 <2>1. /\ E!EdgeNext /\ phase = "handling" /\ UNCHANGED <<extensions, log>> /\ E!Layer = "handler"
       /\ phase' = "out"  BY <1>8 DEF E!EdgeNext, E!TimeUp, PathInv
 <2>2. /\ E!InsideOf("request_id") => E!InsideOf("request_id")'
       /\ E!InsideOf("logging") => E!InsideOf("logging")'
   BY <1>c, <1>r, <1>8, <2>1, TimeUpIsOutside DEF EdgeFramed, PathInv, E!TimeUp
 <2> QED  BY <1>r, <2>1, <2>2, AnswerKeepsTrace DEF Inbound
<1>9. CASE E!Leave
 <2>1. /\ E!EdgeNext /\ phase = "out" /\ depth > 0 /\ depth' = depth - 1 /\ UNCHANGED <<phase, extensions>>
       /\ Outbound /\ Outbound' /\ ~Inbound'  BY <1>9 DEF E!EdgeNext, E!Layers, E!Leave, Inbound, Outbound
 <2>2. \A layer : E!InsideOf(layer)' <=> E!InsideOf(layer) /\ E!Leaving # layer
   BY <1>c, <2>1, LeavingIsOutside DEF PathInv, EdgeFramed
 <2>3. /\ response'.from = response.from /\ response'.status = response.status
       /\ response'.id = IF E!Leaving = "request_id" THEN extensions.id ELSE response.id
   BY <1>9, <2>1, LeaveKeepsTheAnswer DEF PathInv
 <2>4. /\ log'.id = log.id
       /\ log'.status = IF E!Leaving = "logging" THEN response.status ELSE log.status  BY <1>9 DEF E!Leave, PathInv
 <2> QED  BY <1>c, <2>1, <2>2, <2>3, <2>4 DEF TraceInv, EdgeFramed
<1>10. CASE E!Send
 <2>1. E!EdgeNext /\ phase = "out" /\ phase' = "answered" /\ UNCHANGED <<depth, extensions, response, log>>
   BY <1>10 DEF E!EdgeNext, E!Layers, E!Send
 <2>2. \A layer : E!InsideOf(layer)' <=> E!InsideOf(layer)  BY <1>c, <2>1 DEF E!InsideOf, EdgeFramed
 <2> QED  BY <1>c, <2>1, <2>2 DEF TraceInv, EdgeFramed, Inbound, Outbound
<1>11. CASE E!Unwind
 <2>1. ~Inbound' /\ (~Outbound' \/ response'.from = "recovery")
   BY <1>11, BareAnswers DEF E!Unwind, E!Rejection, Outbound, Inbound
 <2> QED  BY <2>1 DEF TraceInv
<1>12. CASE UNCHANGED requestVars
  BY <1>12 DEF requestVars, TraceInv, Inbound, Outbound, E!InsideOf, E!chain, E!Wrap, E!edge, Passes, Guarding
<1> QED  BY <1>1, <1>2, <1>3, <1>4, <1>5, <1>6, <1>7, <1>8, <1>9, <1>10, <1>11, <1>12 DEF E!EdgeNext, E!Layers

-----------------------------------------------------------------------------
(* Origins: what CORS stamps on an answer, and on its own.                 *)
Wild(cors) == "*" \in cors.origins

LEMMA TowerOriginIs ==
  ASSUME NEW cors, NEW origin
  PROVE  E!TowerOrigin(cors, origin) =
           IF Wild(cors) THEN IF cors.credentials THEN origin ELSE "*"
           ELSE IF origin \in cors.origins THEN origin ELSE None
<1> DEFINE layer == E!ToLayer(cors)
<1>1. layer.any <=> Wild(cors)  BY DEF E!ToLayer, Wild
<1>2. layer.echo <=> Wild(cors) /\ cors.credentials  BY DEF E!ToLayer, Wild
<1>3. E!TowerOrigin(cors, origin) =
        CASE layer.echo -> origin
          [] layer.any /\ ~layer.echo -> "*"
          [] OTHER -> IF origin \in cors.origins THEN origin ELSE None  BY DEF E!TowerOrigin
<1> HIDE DEF layer
<1>4. CASE ~Wild(cors)  BY <1>1, <1>2, <1>3, <1>4
<1>5. CASE Wild(cors) /\ cors.credentials  BY <1>1, <1>2, <1>3, <1>5
<1>6. CASE Wild(cors) /\ ~cors.credentials  BY <1>1, <1>2, <1>3, <1>6
<1> QED  BY <1>4, <1>5, <1>6

\* The origin a page's answer comes back with.
PageOrigin ==
  IF E!edge.compat
  THEN IF E!IsOriginAllowed(E!FromOptions(E!edge.cors), request.origin)
       THEN E!ReturnOrigin(E!FromOptions(E!edge.cors), request.origin) ELSE None
  ELSE E!TowerOrigin(E!edge.cors, request.origin)

LEMMA CompatOrigin ==
  ASSUME NEW cors, request.origin # "*", None # "*"
  PROVE  /\ E!IsOriginAllowed(E!FromOptions(cors), request.origin) <=>
              request.origin # None /\ (request.origin \in cors.origins \/ Wild(cors) \/ cors.origins = {})
         /\ E!ReturnOrigin(E!FromOptions(cors), request.origin) =
              IF Wild(cors) \/ cors.origins = {} THEN "*" ELSE request.origin
         /\ E!FromOptions(cors).credentials = cors.credentials
         /\ E!FromOptions(cors).methods = cors.methods
         /\ E!FromOptions(cors).headers =
              E!Safelisted \cup {E!Lower(h) : h \in {x \in cors.headers : x[2] # "odd"}}
<1> DEFINE o == IF "*" \in cors.origins THEN {"*"} ELSE cors.origins
<1>1. E!FromOptions(cors).origins = o  BY DEF E!FromOptions
<1>2. E!IsOriginAllowed(E!FromOptions(cors), request.origin) <=>
        request.origin # None /\ (o = {} \/ {request.origin, "*"} \cap o # {})  BY <1>1 DEF E!IsOriginAllowed
<1>3. E!ReturnOrigin(E!FromOptions(cors), request.origin) = IF o \in {{}, {"*"}} THEN "*" ELSE request.origin
  BY <1>1 DEF E!ReturnOrigin
<1>4. /\ E!FromOptions(cors).methods = cors.methods
      /\ E!FromOptions(cors).headers =
           E!Safelisted \cup {E!Lower(h) : h \in {x \in cors.headers : x[2] # "odd"}}  BY DEF E!FromOptions
<1>5. E!FromOptions(cors).credentials = cors.credentials  BY DEF E!FromOptions
<1>6. (o = {} \/ {request.origin, "*"} \cap o # {}) <=>
        (request.origin \in cors.origins \/ Wild(cors) \/ cors.origins = {})  BY DEF Wild
<1>7. o \in {{}, {"*"}} <=> Wild(cors) \/ cors.origins = {}  BY DEF Wild
<1> HIDE DEF o
<1> QED  BY <1>2, <1>3, <1>4, <1>5, <1>6, <1>7

\* A page reads its answer exactly if its origin is listed, and with
\* credentials exactly if those are listed too.
LEMMA PagesReadWhatTheyMay ==
  ASSUME PathInv, request.origin # None, response.origin = PageOrigin,
         PageOrigin # None => response.credentials = E!edge.cors.credentials
  PROVE  /\ E!Reads(FALSE) <=> E!Listed(E!edge.cors)
         /\ (E!edge.compat /\ (E!edge.cors.origins = {} \/ "*" \in E!edge.cors.origins)) \/
              (E!Reads(TRUE) <=> E!Listed(E!edge.cors) /\ E!edge.cors.credentials)
<1> DEFINE cors == E!edge.cors
<1>1. request.origin # "*" /\ None # "*"  BY EdgeAssumption DEF PathInv
<1>2. E!Reads(FALSE) <=> PageOrigin \in {request.origin, "*"}  BY DEF E!Reads
<1>3. E!Reads(TRUE) <=> PageOrigin = request.origin /\ response.credentials  BY <1>1 DEF E!Reads
<1>4. E!Listed(cors) <=> request.origin \in cors.origins \/ Wild(cors) \/ (E!edge.compat /\ cors.origins = {})
  BY DEF E!Listed, Wild
<1>5. CASE ~E!edge.compat
 <2>1. PageOrigin = IF Wild(cors) THEN IF cors.credentials THEN request.origin ELSE "*"
                    ELSE IF request.origin \in cors.origins THEN request.origin ELSE None
   BY <1>5, TowerOriginIs DEF PageOrigin
 <2> HIDE DEF cors
 <2>2. E!Reads(FALSE) <=> E!Listed(cors)  BY <1>1, <1>2, <1>4, <1>5, <2>1
 <2>3. E!Reads(TRUE) <=> E!Listed(cors) /\ cors.credentials  BY <1>1, <1>3, <1>4, <1>5, <2>1 DEF cors
 <2> QED  BY <2>2, <2>3 DEF cors
<1>6. CASE E!edge.compat
 <2>1. PageOrigin = IF request.origin \in cors.origins \/ Wild(cors) \/ cors.origins = {}
                    THEN IF Wild(cors) \/ cors.origins = {} THEN "*" ELSE request.origin
                    ELSE None  BY <1>1, <1>6, CompatOrigin DEF PageOrigin
 <2> HIDE DEF cors
 <2>2. E!Reads(FALSE) <=> E!Listed(cors)  BY <1>1, <1>2, <1>4, <1>6, <2>1
 <2>3. cors.origins = {} \/ Wild(cors) \/ (E!Reads(TRUE) <=> E!Listed(cors) /\ cors.credentials)
   BY <1>1, <1>3, <1>4, <1>6, <2>1 DEF cors
 <2> QED  BY <1>6, <2>2, <2>3 DEF cors, Wild
<1> QED  BY <1>5, <1>6

LEMMA LowerIsLower == \A h : E!Lower(E!Lower(h)) = E!Lower(h)
BY DEF E!Lower

\* What the layer of rushwind-http answers a preflight with, field by field.
LEMMA TowerAnswerIs ==
  ASSUME NEW cors
  PROVE  LET a == E!TowerPreflight(cors)
         IN  /\ a.origin = E!TowerOrigin(cors, request.origin)
             /\ a.methods = E!ParseOrDefault(cors.methods, cors.methods, E!DefaultAllowMethods)
             /\ a.headers = E!ParseOrDefault(cors.headers, E!Parsed(cors.headers), E!DefaultAllowHeaders)
<1> DEFINE m == E!ToLayer(cors).methods
           h == E!ToLayer(cors).headers
           t == E!TowerStamp(cors, E!Bare(200, "cors"))
<1>1. m = E!ParseOrDefault(cors.methods, cors.methods, E!DefaultAllowMethods)  BY DEF E!ToLayer
<1>2. h = E!ParseOrDefault(cors.headers, E!Parsed(cors.headers), E!DefaultAllowHeaders)  BY DEF E!ToLayer
<1>3. t.origin = E!TowerOrigin(cors, request.origin)  BY DEF E!TowerStamp, E!Bare
<1>4. DOMAIN t = {"status", "from", "id", "origin", "credentials", "methods", "headers", "expose"}
  BY DEF E!TowerStamp, E!Bare
<1>5. E!TowerPreflight(cors) = [t EXCEPT !.methods = m, !.headers = h]  BY DEF E!TowerPreflight
<1> HIDE DEF m, h, t
<1> QED  BY <1>1, <1>2, <1>3, <1>4, <1>5

\* A preflight that is granted names an origin, a method and headers that are
\* listed.
LEMMA PreflightsGrantTheListed ==
  ASSUME PathInv, request.origin # None, E!Granted,
         response.status = CorsAnswer.status, response.origin = CorsAnswer.origin,
         response.methods = CorsAnswer.methods, response.headers = CorsAnswer.headers,
         NEW cors, cors = E!edge.cors
  PROVE  /\ E!Listed(cors)
         /\ \/ request.wanted \in E!Simple \cup cors.methods
            \/ cors.methods = {} /\ request.wanted \in E!DefaultAllowMethods
         /\ \A h \in request.wants :
              \/ E!Lower(h) \in E!Safelisted \cup {E!Lower(x) : x \in cors.headers}
              \/ cors.headers = {} /\ E!Lower(h) \in E!DefaultAllowHeaders
<1>1. request.origin # "*" /\ None # "*"  BY EdgeAssumption DEF PathInv
<1>2. /\ CorsAnswer.status = 200 /\ CorsAnswer.origin \in {request.origin, "*"}
      /\ request.wanted \in CorsAnswer.methods \cup E!Simple
      /\ \A h \in request.wants : E!Lower(h) \in CorsAnswer.headers \cup E!Safelisted  BY DEF E!Granted, E!Reads
<1>3. E!Listed(cors) <=> request.origin \in cors.origins \/ Wild(cors) \/ (E!edge.compat /\ cors.origins = {})
  BY DEF E!Listed, Wild
<1>4. CASE ~E!edge.compat
 <2>1. CorsAnswer = E!TowerPreflight(cors)  BY <1>4 DEF CorsAnswer
 <2>2. CorsAnswer.origin = IF Wild(cors) THEN IF cors.credentials THEN request.origin ELSE "*"
                           ELSE IF request.origin \in cors.origins THEN request.origin ELSE None
   BY <2>1, TowerAnswerIs, TowerOriginIs
 <2>3. CorsAnswer.methods = IF cors.methods = {} THEN E!DefaultAllowMethods ELSE cors.methods
   BY <2>1, TowerAnswerIs DEF E!ParseOrDefault
 <2>4. CorsAnswer.headers = IF cors.headers = {} THEN E!DefaultAllowHeaders ELSE E!Parsed(cors.headers)
   BY <2>1, TowerAnswerIs DEF E!ParseOrDefault
 <2>5. E!Listed(cors)  BY <1>1, <1>2, <1>3, <2>2
 <2>6. ASSUME NEW h \in request.wants, E!Lower(h) \notin E!Safelisted, cors.headers # {}
       PROVE  E!Lower(h) \in {E!Lower(x) : x \in cors.headers}
  <3>1. E!Lower(h) \in cors.headers  BY <1>2, <2>4, <2>6 DEF E!Parsed
  <3> QED  BY <3>1, LowerIsLower
 <2> QED  BY <1>2, <2>3, <2>4, <2>5, <2>6
<1>5. CASE E!edge.compat
 <2> DEFINE state == E!FromOptions(cors)
 <2>1. CorsAnswer = IF E!IsOriginAllowed(state, request.origin) THEN E!CompatPreflight(state) ELSE E!Bare(200, "cors")
   BY <1>5 DEF CorsAnswer, E!CompatRun
 <2>2. /\ E!IsOriginAllowed(state, request.origin) =>
            request.origin \in cors.origins \/ Wild(cors) \/ cors.origins = {}
       /\ state.methods = cors.methods
       /\ state.headers = E!Safelisted \cup {E!Lower(h) : h \in {x \in cors.headers : x[2] # "odd"}}
   BY <1>1, CompatOrigin
 <2> HIDE DEF state
 <2>3. E!IsOriginAllowed(state, request.origin)
  <3> SUFFICES ASSUME ~E!IsOriginAllowed(state, request.origin) PROVE FALSE  OBVIOUS
  <3>1. CorsAnswer.origin = None  BY <2>1, BareAnswers
  <3> QED  BY <1>1, <1>2, <3>1
 <2>4. E!Listed(cors)  BY <1>3, <1>5, <2>2, <2>3
 <2>5. CorsAnswer = E!CompatPreflight(state)  BY <2>1, <2>3
 <2>6. request.wanted # None /\ request.wanted \in state.methods /\ E!Reflected \subseteq state.headers
  <3>1. E!Bare(400, "cors").status # 200 /\ E!Bare(405, "cors").status # 200 /\ E!Bare(403, "cors").status # 200
    BY BareAnswers
  <3>2. CASE request.wanted = None  BY <1>2, <2>5, <3>1, <3>2 DEF E!CompatPreflight
  <3>3. CASE request.wanted # None /\ request.wanted \notin state.methods
    BY <1>2, <2>5, <3>1, <3>3 DEF E!CompatPreflight
  <3>4. CASE request.wanted # None /\ request.wanted \in state.methods /\ ~(E!Reflected \subseteq state.headers)
    BY <1>2, <2>5, <3>1, <3>4 DEF E!CompatPreflight
  <3> QED  BY <3>2, <3>3, <3>4
 <2>7. CorsAnswer.headers = E!Reflected
  <3> DEFINE t == E!CompatStamp(state, E!Bare(200, "cors"))
             w == {request.wanted} \ E!Simple
  <3>1. DOMAIN t = {"status", "from", "id", "origin", "credentials", "methods", "headers", "expose"}
    BY DEF E!CompatStamp, E!Bare
  <3>2. CorsAnswer = [t EXCEPT !.headers = E!Reflected, !.methods = w]  BY <2>5, <2>6 DEF E!CompatPreflight
  <3> HIDE DEF t, w
  <3> QED  BY <3>1, <3>2
 <2>8. \A h \in request.wants : E!Lower(h) \in E!Safelisted \cup {E!Lower(x) : x \in cors.headers}
   BY <1>2, <2>2, <2>6, <2>7
 <2> QED  BY <2>2, <2>4, <2>6, <2>8
<1> QED  BY <1>4, <1>5

\* CORS stamps a page's answer once it leaves the layer, and nothing else does;
\* a preflight keeps the answer it got.
CorsInv ==
  E!edge.cors # None /\ Outbound /\ response.from # "recovery" =>
    IF E!Preflight
    THEN /\ response.status = CorsAnswer.status /\ response.origin = CorsAnswer.origin
         /\ response.methods = CorsAnswer.methods /\ response.headers = CorsAnswer.headers
    ELSE IF E!InsideOf("cors") THEN response.origin = None
    ELSE /\ response.origin = PageOrigin
         /\ PageOrigin # None => response.credentials = E!edge.cors.credentials

\* Leaving CORS.
LEMMA StampIs ==
  ASSUME NEW r, Answered(r), r.origin = None, E!edge.cors # None
  PROVE  /\ E!LeaveCors(r).origin = PageOrigin
         /\ PageOrigin # None => E!LeaveCors(r).credentials = E!edge.cors.credentials
<1> DEFINE cors == E!edge.cors
           state == E!FromOptions(cors)
<1>d. DOMAIN r = {"status", "from", "id", "origin", "credentials", "methods", "headers", "expose"}  BY DEF Answered
<1>1. CASE ~E!edge.compat
 <2> DEFINE o == E!TowerOrigin(cors, request.origin)
            c == cors.credentials
            t == [r EXCEPT !.origin = o, !.credentials = c]
            x == E!ToLayer(cors).expose
 <2>1. E!LeaveCors(r) = [t EXCEPT !.expose = x] /\ PageOrigin = o
   BY <1>1 DEF E!LeaveCors, E!TowerStamp, PageOrigin
 <2> HIDE DEF o, x
 <2>2. t.origin = o /\ DOMAIN t = DOMAIN r  BY <1>d
 <2>3. t.credentials = c  BY <1>d
 <2> HIDE DEF t, cors, c
 <2>4. E!LeaveCors(r).origin = o  BY <2>1, <2>2, <1>d
 <2>5. E!LeaveCors(r).credentials = c  BY <2>1, <2>2, <2>3, <1>d
 <2> QED  BY <2>1, <2>4, <2>5 DEF c, cors
<1>2. CASE E!edge.compat /\ ~E!IsOriginAllowed(state, request.origin)  BY <1>2 DEF E!LeaveCors, PageOrigin
<1>3. CASE E!edge.compat /\ E!IsOriginAllowed(state, request.origin)
 <2> DEFINE o == E!ReturnOrigin(state, request.origin)
            c == state.credentials
 <2>1. E!LeaveCors(r) = [r EXCEPT !.origin = o, !.credentials = c] /\ PageOrigin = o
   BY <1>3 DEF E!LeaveCors, E!CompatStamp, PageOrigin
 <2>2. c = cors.credentials  BY DEF E!FromOptions
 <2> HIDE DEF o, c, cors, state
 <2>3. E!LeaveCors(r).origin = o  BY <1>d, <2>1
 <2>4. E!LeaveCors(r).credentials = c  BY <1>d, <2>1
 <2> QED  BY <2>1, <2>2, <2>3, <2>4 DEF cors
<1> QED  BY <1>1, <1>2, <1>3

LEMMA CorsInit == E!EdgeInit => CorsInv
BY DEF E!EdgeInit, CorsInv, Outbound

\* What the answers to pages and preflights depend on.
LEMMA CorsFrame ==
  ASSUME config' = config, request' = request
  PROVE  CorsAnswer' = CorsAnswer /\ PageOrigin' = PageOrigin
BY DEF CorsAnswer, PageOrigin, E!edge, E!CompatRun, E!IsOriginAllowed, E!CompatPreflight, E!Reflected,
       E!CompatStamp, E!ReturnOrigin, E!TowerPreflight, E!TowerStamp, E!TowerOrigin

\* Whoever answers inside of CORS leaves the stamp to it, and answers no
\* preflight.
LEMMA AnswerKeepsCors ==
  ASSUME PathInv, E!EdgeNext, Rank[E!Layer] > 4, Inbound \/ phase = "unwinding",
         Outbound' => response'.origin = None,
         ~E!InsideOf("cors") \/ E!InsideOf("cors")'
  PROVE  CorsInv'
<1>1. EdgeFramed  BY EdgeFrame
<1>2. "cors" \in DOMAIN Rank /\ Rank["cors"] = 4  BY DEF Rank
<1>3. E!edge.cors # None => "cors" \in Passes  BY <1>2 DEF Passes
<1>4. E!edge.cors # None => E!InsideOf("cors") /\ ~E!Preflight  BY <1>2, <1>3, InsideIsBefore DEF PathInv
<1> QED  BY <1>1, <1>4 DEF CorsInv, EdgeFramed

LEMMA CorsStep == PathInv /\ CorsInv /\ [E!EdgeNext]_requestVars => CorsInv'
<1> SUFFICES ASSUME PathInv, CorsInv, [E!EdgeNext]_requestVars
             PROVE  CorsInv'  OBVIOUS
<1>c. E!EdgeNext => EdgeFramed /\ CorsAnswer' = CorsAnswer /\ PageOrigin' = PageOrigin
  BY EdgeFrame, CorsFrame DEF EdgeFramed
<1>s. depth' = depth /\ E!EdgeNext => \A layer : E!InsideOf(layer)' <=> E!InsideOf(layer)
  BY <1>c DEF E!InsideOf, EdgeFramed
<1>r. Rank["cors"] = 4 /\ Rank["authn"] = 6 /\ Rank["authz"] = 7 /\ Rank["handler"] = 8 /\ "cors" \in DOMAIN Rank
  BY DEF Rank
<1>1. CASE phase' \notin {"out", "answered"}  BY <1>1 DEF CorsInv, Outbound
<1>2. CASE E!EnterCors /\ phase' = "out"
 <2>1. E!EdgeNext /\ E!Preflight /\ response' = CorsAnswer
   BY <1>2 DEF E!EdgeNext, E!Layers, E!EnterCors, E!Entering, E!Inward, E!Answer, CorsAnswer
 <2> QED  BY <1>c, <2>1 DEF CorsInv, EdgeFramed
<1>3. CASE (E!EnterAuthn \/ E!EnterAuthz \/ E!EnterHandler) /\ phase' = "out"
 <2>1. /\ E!EdgeNext /\ phase = "in" /\ E!Layer \in {"authn", "authz", "handler"}
   BY <1>3 DEF E!EdgeNext, E!Layers, E!EnterAuthn, E!EnterAuthz, E!EnterHandler, E!Entering
 <2>2. \E code, from : E!Answer(E!Bare(code, from))
   BY <1>3 DEF E!EnterAuthn, E!EnterAuthz, E!EnterHandler, E!Rejection, E!Inward, E!Entering
 <2>3. depth' = depth /\ response'.origin = None  BY <2>2, BareAnswers DEF E!Answer
 <2> QED  BY <1>r, <1>s, <2>1, <2>3, AnswerKeepsCors DEF Inbound
<1>4. CASE E!Return
 <2>1. E!EdgeNext /\ phase = "handling" /\ E!Layer = "handler"  BY <1>4 DEF E!EdgeNext, E!Return, PathInv
 <2>2. PICK code : E!Answer(E!Bare(code, "handler"))  BY <1>4 DEF E!Return, E!Rejection
 <2>3. depth' = depth /\ response'.origin = None  BY <2>2, BareAnswers DEF E!Answer
 <2> QED  BY <1>r, <1>s, <2>1, <2>3, AnswerKeepsCors DEF Inbound
<1>5. CASE E!TimeUp
 <2>1. E!EdgeNext /\ phase = "handling" /\ E!Layer = "handler"  BY <1>5 DEF E!EdgeNext, E!TimeUp, PathInv
 <2>2. E!InsideOf("cors") => E!InsideOf("cors")'
   BY <1>c, <1>r, <1>5, <2>1, TimeUpIsOutside DEF EdgeFramed, PathInv, E!TimeUp
 <2>3. response'.origin = None  BY <1>5, BareAnswers DEF E!TimeUp, E!Rejection
 <2> QED  BY <1>r, <2>1, <2>2, <2>3, AnswerKeepsCors DEF Inbound
<1>6. CASE E!Leave
 <2>1. /\ E!EdgeNext /\ phase = "out" /\ depth > 0 /\ depth' = depth - 1
       /\ Outbound /\ Outbound' /\ Answered(response)  BY <1>6 DEF E!EdgeNext, E!Layers, E!Leave, Outbound, PathInv
 <2>2. \A layer : E!InsideOf(layer)' <=> E!InsideOf(layer) /\ E!Leaving # layer
   BY <1>c, <2>1, LeavingIsOutside DEF PathInv, EdgeFramed
 <2>3. response'.from = response.from  BY <1>6, <2>1, LeaveKeepsTheAnswer
 <2>4. E!InsideOf(E!Leaving)  BY <2>1 DEF E!InsideOf, E!Leaving, PathInv, Placed
 <2>5. CASE E!Leaving # "cors"
  <3>1. /\ response'.status = response.status /\ response'.origin = response.origin
        /\ response'.methods = response.methods /\ response'.headers = response.headers
        /\ response'.credentials = response.credentials
   <4>1. CASE E!Leaving = "request_id"  BY <1>6, <2>1, <4>1 DEF E!Leave, Answered
   <4>2. CASE E!Leaving # "request_id"  BY <1>6, <2>5, <4>2 DEF E!Leave
   <4> QED  BY <4>1, <4>2
  <3> QED  BY <1>c, <2>1, <2>2, <2>3, <2>5, <3>1 DEF CorsInv, EdgeFramed
 <2>6. CASE E!Leaving = "cors"
  <3>1. response' = E!LeaveCors(response)  BY <1>6, <2>6 DEF E!Leave
  <3>2. E!edge.cors # None => ~E!Preflight  BY <2>4, <2>6 DEF PathInv
  <3>3. ASSUME E!edge.cors # None, response.from # "recovery"
        PROVE  /\ response'.origin = PageOrigin
               /\ PageOrigin # None => response'.credentials = E!edge.cors.credentials
   <4>1. response.origin = None  BY <2>1, <2>4, <2>6, <3>2, <3>3 DEF CorsInv
   <4> QED  BY <2>1, <3>1, <3>3, <4>1, StampIs
  <3>4. ~E!InsideOf("cors")' /\ EdgeFramed /\ PageOrigin' = PageOrigin  BY <1>c, <2>1, <2>2, <2>6
  <3> QED  BY <2>3, <3>2, <3>3, <3>4 DEF CorsInv, EdgeFramed
 <2> QED  BY <2>5, <2>6
<1>7. CASE E!Send
 <2>1. E!EdgeNext /\ phase = "out" /\ depth' = depth /\ response' = response
   BY <1>7 DEF E!EdgeNext, E!Layers, E!Send
 <2> QED  BY <1>c, <1>s, <2>1 DEF CorsInv, EdgeFramed, Outbound
<1>8. CASE E!Unwind
 <2>1. ~Outbound' \/ response'.from = "recovery"  BY <1>8, BareAnswers DEF E!Unwind, E!Rejection, Outbound
 <2> QED  BY <2>1 DEF CorsInv
<1>9. CASE UNCHANGED requestVars
 <2>1. UNCHANGED <<config, request, depth, phase, response>>  BY <1>9 DEF requestVars
 <2> QED  BY <2>1, CorsFrame, ChainStays DEF CorsInv, Outbound, E!InsideOf
<1>10. CASE E!EnterRecovery \/ E!EnterTimeout \/ E!EnterRequestId \/ E!EnterLogging
  BY <1>1, <1>10 DEF E!EnterRecovery, E!EnterTimeout, E!EnterRequestId, E!EnterLogging, E!Entering, E!Inward
<1>11. CASE E!Touch \/ E!Panic \/ E!ClientGone  BY <1>1, <1>11 DEF E!Touch, E!Panic, E!ClientGone, PathInv
<1>12. CASE E!EnterCors \/ E!EnterAuthn \/ E!EnterAuthz \/ E!EnterHandler
 <2>1. phase' \in {"in", "out", "handling"}
   BY <1>12 DEF E!EnterCors, E!EnterAuthn, E!EnterAuthz, E!EnterHandler, E!Entering, E!Inward, E!Answer
 <2> QED  BY <1>1, <1>2, <1>3, <1>12, <2>1
<1> QED  BY <1>4, <1>5, <1>6, <1>7, <1>8, <1>9, <1>10, <1>11, <1>12 DEF E!EdgeNext, E!Layers

-----------------------------------------------------------------------------
(* The parts together.  A step of another part leaves the request alone.   *)
EdgeInv == PathInv /\ GuardInv /\ TraceInv /\ CorsInv

LEMMA EdgeInvHolds == MCSpec => [](turn = "edge" => EdgeInv)
<1>1. MCInit => (turn = "edge" => EdgeInv)  BY PathInit, GuardInit, TraceInit, CorsInit DEF MCInit, EdgeInv
<1>2. (turn = "edge" => EdgeInv) /\ [MCNext]_allVars => (turn = "edge" => EdgeInv)'
 <2> SUFFICES ASSUME turn = "edge" => EdgeInv, [MCNext]_allVars, turn' = "edge"
              PROVE  EdgeInv'  OBVIOUS
 <2>1. turn = "edge" /\ [E!EdgeNext]_requestVars
   BY DEF MCNext, InEdge, InAssembly, InAuthn, InAuthz, InBinder, InCrud, allVars
 <2> QED  BY <2>1, PathStep, GuardStep, TraceStep, CorsStep DEF EdgeInv
<1> QED  BY <1>1, <1>2, PTL DEF MCSpec

LEMMA EdgeInvDecides == EdgeInv => E!GuardsDecide /\ E!OriginsReadWhatTheyMay /\ E!AnswersCorrelate /\ E!CutMeansCut
<1> SUFFICES ASSUME EdgeInv
             PROVE  E!GuardsDecide /\ E!OriginsReadWhatTheyMay /\ E!AnswersCorrelate /\ E!CutMeansCut  OBVIOUS
<1>0. PathInv /\ GuardInv /\ TraceInv /\ CorsInv  BY DEF EdgeInv
<1>1. E!GuardsDecide  BY <1>0 DEF GuardInv, PathInv, E!GuardsDecide
<1>2. phase = "answered" => \A layer : ~E!InsideOf(layer)  BY <1>0 DEF PathInv, E!InsideOf
<1>3. E!AnswersCorrelate
 <2>1. /\ "request_id" \in Passes <=> E!edge.request_id
       /\ "logging" \in Passes <=> E!edge.logging  BY DEF Passes, Rank
 <2> QED  BY <1>0, <1>2, <2>1 DEF TraceInv, E!AnswersCorrelate, Outbound
<1>4. E!CutMeansCut  BY <1>0 DEF PathInv, E!CutMeansCut, Outbound
<1>5. E!OriginsReadWhatTheyMay
 <2> DEFINE cors == E!edge.cors
 <2> SUFFICES ASSUME phase = "answered", cors # None, request.origin # None, response.from # "recovery"
              PROVE  IF E!Preflight
                     THEN E!Granted =>
                            /\ E!Listed(cors)
                            /\ \/ request.wanted \in E!Simple \cup cors.methods
                               \/ cors.methods = {} /\ request.wanted \in E!DefaultAllowMethods
                            /\ \A h \in request.wants :
                                 \/ E!Lower(h) \in E!Safelisted \cup {E!Lower(x) : x \in cors.headers}
                                 \/ cors.headers = {} /\ E!Lower(h) \in E!DefaultAllowHeaders
                     ELSE /\ E!Reads(FALSE) <=> E!Listed(cors)
                          /\ (E!edge.compat /\ (cors.origins = {} \/ "*" \in cors.origins)) \/
                               (E!Reads(TRUE) <=> E!Listed(cors) /\ cors.credentials)
   BY DEF E!OriginsReadWhatTheyMay
 <2>1. CASE E!Preflight
  <3>1. /\ response.status = CorsAnswer.status /\ response.origin = CorsAnswer.origin
        /\ response.methods = CorsAnswer.methods /\ response.headers = CorsAnswer.headers
    BY <1>0, <2>1 DEF CorsInv, Outbound
  <3> HIDE DEF cors
  <3> QED  BY <1>0, <2>1, <3>1, PreflightsGrantTheListed DEF cors
 <2>2. CASE ~E!Preflight
  <3>1. /\ response.origin = PageOrigin
        /\ PageOrigin # None => response.credentials = E!edge.cors.credentials
    BY <1>0, <1>2, <2>2 DEF CorsInv, Outbound
  <3> QED  BY <1>0, <2>2, <3>1, PagesReadWhatTheyMay
 <2> QED  BY <2>1, <2>2
<1> QED  BY <1>1, <1>3, <1>4, <1>5

(* Whatever the stacks, the policies of CORS, the claims and the           *)
(* permissions: a handler runs only for a caller its guards admit, a       *)
(* browser shows an answer only to an origin that may read it, an answer   *)
(* carries its request's id and line, and a handler that was cut off does  *)
(* nothing more.                                                           *)
THEOREM EdgeGuards == MCSpec => []EdgeDecides
<1>1. (turn = "edge" => EdgeInv) => EdgeDecides  BY EdgeInvDecides DEF EdgeDecides
<1> QED  BY <1>1, EdgeInvHolds, PTL

-----------------------------------------------------------------------------
(* The stages of build() and their order.                                  *)
Place == [storage |-> 1, authn |-> 2, authz |-> 3, broker |-> 4, cache |-> 5, circuitbreaker |-> 6,
          limiter |-> 7, ai |-> 8, oss |-> 9, metrics |-> 10, config |-> 11, script |-> 12,
          health |-> 13, tracer |-> 14, endpoint |-> 15, server |-> 16, registry |-> 17]

LEMMA StagesInPlace ==
  /\ Len(A!Order) = 17
  /\ \A i \in 1..17 : A!Order[i] \in DOMAIN Place /\ Place[A!Order[i]] = i
  /\ \A s \in DOMAIN Place : Place[s] \in 1..17 /\ A!Order[Place[s]] = s
BY DEF A!Order, Place

LEMMA NextInPlace ==
  ASSUME NEW s \in DOMAIN Place, s # "registry"
  PROVE  A!NextStage(s) \in DOMAIN Place /\ Place[A!NextStage(s)] = Place[s] + 1
<1> DEFINE I == {i \in 1..Len(A!Order) : A!Order[i] = s}
<1>1. I = {Place[s]}  BY StagesInPlace
<1>2. A!SelectInSeq(A!Order, LAMBDA x : x = s) = Place[s]  BY <1>1 DEF A!SelectInSeq, A!Min
<1>3. Place[s] \in 1..16  BY DEF Place
<1> QED  BY <1>2, <1>3, StagesInPlace DEF A!NextStage

-----------------------------------------------------------------------------
(* What every step of a build and of a run keeps.                          *)
Alive == result \in {"building", "ready"}
ResolvedIn(s, e, engines) ==
  {<<s, e[1]>>, <<IF s = "metrics" THEN "scrape" ELSE s, e[1]>>} \cap engines # {}
GuardsIn(g) ==
  /\ g.authn # None => <<"authn", g.authn>> \in made.engines
  /\ g.authz # None => <<"authz", g.authz>> \in made.engines

StageInv ==
  /\ doc \in Docs
  /\ stage \in DOMAIN Place
  /\ result \in {"building", "ready", "failed", "abandoned", "panicked"}
  /\ app \in {"idle", "serving", "draining", "hooks", "done"}
  /\ result # "building" => todo = {}
  /\ result = "ready" => stage = "registry"
  /\ app # "idle" => result = "ready"
  /\ stage = "registry" => todo \subseteq doc["registry"]
  /\ made = [engines |-> made.engines, seen |-> made.seen, sources |-> made.sources]

SectionInv ==
  /\ Alive => \A s \in A!Sections : \A e \in doc[s] :
       (Place[s] < Place[stage] \/ (s = stage /\ e \notin todo)) => ResolvedIn(s, e, made.engines)
  /\ \A engines \in made.seen, s \in A!Sections : \A e \in doc[s] : ResolvedIn(s, e, engines)
  /\ made.seen # {} => Place[stage] > Place["tracer"]

FirstSources(k) == [i \in 1..k |-> doc["config"][i]]
SourceInv ==
  /\ Place[stage] < Place["config"] => made.sources = <<>>
  /\ stage = "config" /\ result = "building" =>
       \E k \in 0..Len(doc["config"]) : todo = (k+1)..Len(doc["config"]) /\ made.sources = FirstSources(k)
  /\ Alive /\ Place[stage] > Place["config"] => made.sources = doc["config"]
  /\ made.seen # {} => made.sources = doc["config"]

EndpointInv ==
  /\ stage = "endpoint" /\ result = "building" =>
       \E k \in 0..Len(doc["endpoint"]) : /\ todo = (k+1)..Len(doc["endpoint"])
                                           /\ \A j \in 1..k : GuardsIn(doc["endpoint"][j].guards)
  /\ Alive /\ Place[stage] > Place["endpoint"] =>
       \A j \in 1..Len(doc["endpoint"]) : GuardsIn(doc["endpoint"][j].guards)

Backed(r) ==
  \/ r \in A!Mounts(r.server)
  \/ LET entries == {p.guards : p \in {q \in A!ToSet(doc["server"][r.server].packs) : q.name = r.name}}
                    \cup {e.guards : e \in {x \in A!ToSet(doc["endpoint"]) : x.nest = r.name}}
     IN  \E g \in entries : r.guards = A!Wrapped(g) /\ GuardsIn(g)
Built(k) ==
  /\ \A r \in routes : r.server \in 1..k
  /\ \A i \in 1..k : doc["server"][i].kind = "http" =>
       {r \in routes : r.server = i} = A!Mounted(i) /\ ~A!Clash(i)
ServerInv ==
  /\ Place[stage] < Place["server"] => bound = {} /\ routes = {}
  /\ stage = "server" /\ result = "building" =>
       \E k \in 0..Len(doc["server"]) : todo = (k+1)..Len(doc["server"]) /\ bound = 1..k /\ Built(k)
  /\ Alive /\ stage = "registry" =>
       /\ Built(Len(doc["server"]))
       /\ app \in {"idle", "serving"} => bound = 1..Len(doc["server"])
  /\ \A r \in routes : Backed(r)
  /\ ~Alive => bound = {}

AnnounceInv ==
  /\ announced = "live" /\ "landed" \notin faults => stage = "registry" /\ todo = {} /\ Alive
  /\ handle # "none" => stage = "registry" /\ todo = {} /\ Alive
  /\ "landed" \in faults => ~Alive
  /\ announced # "no" => "landed" \in faults \/ handle # "none"

ClosedAll == \A s \in DOMAIN scripts : scripts[s] = "closed"
Left == announced = "live" => "kept" \in faults
HooksOf == IF doc["script"] # {} THEN IF handle # "none" THEN <<"close_scripts", "deregister">> ELSE <<"close_scripts">>
           ELSE IF handle # "none" THEN <<"deregister">> ELSE <<>>
HookInv ==
  /\ Place[stage] <= Place["script"] => hooks = <<>>
  /\ Alive /\ Place[stage] > Place["script"] /\ app \in {"idle", "serving", "draining"} => hooks = HooksOf
  /\ app = "hooks" => /\ hooks \in {<<>>, <<"close_scripts">>, <<"deregister">>, <<"close_scripts", "deregister">>}
                      /\ hooks \in {<<>>, <<"deregister">>} => ClosedAll
                      /\ hooks \in {<<>>, <<"close_scripts">>} => Left
  /\ app = "done" => ClosedAll /\ Left

ScriptInv ==
  /\ scripts = [s \in {e[1] : e \in doc["script"]} |-> scripts[s]]
  /\ Alive /\ app \in {"idle", "serving", "draining"} => \A e \in doc["script"] :
       (Place[stage] > Place["script"] \/ (stage = "script" /\ e \notin todo)) => scripts[e[1]] = "ready"

RequestInv ==
  "cut" \notin faults => \A r \in requests : r[1] \in bound /\ app \in {"serving", "draining"}

-----------------------------------------------------------------------------
(* What the steps of build() have in common: they go on, or they end it.   *)
Building == result = "building" /\ UNCHANGED <<doc, app, requests, served>>
GoesOn == Building /\ UNCHANGED <<hooks, scripts, announced, handle, faults>>

FailStep ==
  /\ Building /\ todo # {}
  /\ result' \in {"failed", "abandoned", "panicked"} /\ todo' = {} /\ bound' = {}
  /\ UNCHANGED <<stage, made, hooks, routes, scripts, handle>>
  /\ (announced' = announced /\ faults' = faults) \/ (announced' = "live" /\ faults' = faults \cup {"landed"})

\* One entry e of a named section, as the engine x.
ResolveStep(e, x) ==
  /\ Building /\ e \in todo /\ todo' = todo \ {e}
  /\ stage \notin {"config", "endpoint", "server", "registry"}
  /\ x = <<stage, e[1]>> \/ (stage = "metrics" /\ x = <<"scrape", e[1]>>)
  /\ made' = [engines |-> made.engines \cup {x}, seen |-> made.seen, sources |-> made.sources]
  /\ IF stage = "script" THEN scripts' = [scripts EXCEPT ![e[1]] = "ready"] ELSE scripts' = scripts
  /\ UNCHANGED <<stage, hooks, bound, routes, result, announced, handle, faults>>

SourceStep(i) ==
  /\ GoesOn /\ stage = "config" /\ todo # {} /\ i = A!Min(todo) /\ todo' = todo \ {i}
  /\ made' = [engines |-> made.engines, seen |-> made.seen, sources |-> Append(made.sources, doc["config"][i])]
  /\ UNCHANGED <<stage, bound, routes, result>>

NextStep ==
  /\ Building /\ todo = {} /\ stage # "registry"
  /\ stage' = A!NextStage(stage) /\ todo' = A!Entries(A!NextStage(stage))
  /\ hooks' = IF stage = "script" /\ doc["script"] # {} THEN Append(hooks, "close_scripts") ELSE hooks
  /\ UNCHANGED <<made, bound, routes, result, scripts, announced, handle, faults>>

\* The packs and endpoints are handed what there is.
Hands == made' = [engines |-> made.engines, seen |-> made.seen \cup {made.engines}, sources |-> made.sources]

EndpointStep(i) ==
  /\ GoesOn /\ stage = "endpoint" /\ todo # {} /\ i = A!Min(todo) /\ todo' = todo \ {i}
  /\ A!GuardsResolve(doc["endpoint"][i].guards) /\ Hands
  /\ UNCHANGED <<stage, bound, routes, result>>

ServerStep(i) ==
  /\ GoesOn /\ stage = "server" /\ todo # {} /\ i = A!Min(todo) /\ todo' = todo \ {i}
  /\ Hands /\ bound' = bound \cup {i}
  /\ doc["server"][i].kind = "http" =>
       /\ \A p \in A!ToSet(doc["server"][i].packs) : A!GuardsResolve(p.guards)
       /\ ~A!Clash(i) /\ routes' = routes \cup A!Mounted(i)
  /\ doc["server"][i].kind # "http" => routes' = routes
  /\ UNCHANGED <<stage, result>>

AnnounceStep(e) ==
  /\ Building /\ stage = "registry" /\ e \in todo /\ todo' = todo \ {e}
  /\ announced' = "live" /\ handle' = "held" /\ hooks' = Append(hooks, "deregister")
  /\ UNCHANGED <<stage, made, bound, routes, result, scripts, faults>>

SkipStep(e) ==
  /\ GoesOn /\ stage = "registry" /\ e \in todo /\ todo' = todo \ {e}
  /\ UNCHANGED <<stage, made, bound, routes, result>>

FinishStep ==
  /\ GoesOn /\ stage = "registry" /\ todo = {} /\ result' = "ready"
  /\ UNCHANGED <<stage, todo, made, bound, routes>>

LEMMA LastInPlace == A!Last(A!Order) = "registry"
BY StagesInPlace DEF A!Last, A!Order

LEMMA Fails ==
  ASSUME NEW how \in {"failed", "abandoned", "panicked"}, result = "building", todo # {},
         A!Fail(how), UNCHANGED <<scripts, handle, app, requests, served>>,
         (announced' = announced /\ faults' = faults) \/ (announced' = "live" /\ faults' = faults \cup {"landed"})
  PROVE  FailStep
BY DEF A!Fail, FailStep, Building

LEMMA Resolves ==
  ASSUME StageInv, result = "building", NEW e \in todo, NEW x, A!Assembled(x), A!Take(e),
         stage \notin {"config", "endpoint", "server", "registry"},
         x = <<stage, e[1]>> \/ (stage = "metrics" /\ x = <<"scrape", e[1]>>),
         IF stage = "script" THEN scripts' = [scripts EXCEPT ![e[1]] = "ready"] ELSE scripts' = scripts,
         UNCHANGED <<announced, handle, faults, app, requests, served>>
  PROVE  ResolveStep(e, x)
<1>1. made' = [engines |-> made.engines \cup {x}, seen |-> made.seen, sources |-> made.sources]
  BY DEF A!Assembled, StageInv
<1> QED  BY <1>1 DEF A!Assembled, A!Take, ResolveStep, Building

Steps == \/ FailStep \/ NextStep \/ FinishStep
         \/ \E e \in todo : \E x : ResolveStep(e, x)
         \/ \E i : SourceStep(i) \/ EndpointStep(i) \/ ServerStep(i)
         \/ \E e \in todo : AnnounceStep(e) \/ SkipStep(e)

LEMMA BuildSteps ==
  ASSUME StageInv, A!Build \/ A!Abandon
  PROVE  Steps
<1> USE DEF Steps
<1>1. ASSUME A!ResolveFamily PROVE Steps
 <2>1. PICK family \in A!Families : A!Resolve(family)  BY <1>1 DEF A!ResolveFamily
 <2>2. result = "building" /\ stage = family /\ family \notin {"config", "endpoint", "server", "registry", "script", "metrics"}
   BY <2>1 DEF A!Resolve, A!At, A!Families
 <2>3. UNCHANGED <<scripts, announced, handle, faults, app, requests, served>>
   BY <2>1 DEF A!Resolve, A!StillAround, A!appVars
 <2>4. PICK e \in todo : (A!Take(e) /\ A!Assembled(<<family, e[1]>>)) \/ A!Fail("failed")  BY <2>1 DEF A!Resolve
 <2>5. CASE A!Fail("failed")  BY <2>5, <2>2, <2>3, Fails
 <2>6. CASE A!Take(e) /\ A!Assembled(<<family, e[1]>>)  BY <2>6, <2>2, <2>3, Resolves
 <2> QED  BY <2>4, <2>5, <2>6
<1>2. ASSUME A!ResolveMetrics PROVE Steps
 <2>2. result = "building" /\ stage = "metrics"  BY <1>2 DEF A!ResolveMetrics, A!At
 <2>3. UNCHANGED <<scripts, announced, handle, faults, app, requests, served>>
   BY <1>2 DEF A!ResolveMetrics, A!StillAround, A!appVars
 <2>4. PICK e \in todo : (A!Take(e) /\ A!Assembled(<<IF A!Registered("metrics", e[2]) THEN "metrics" ELSE "scrape", e[1]>>)) \/ A!Fail("failed")
   BY <1>2 DEF A!ResolveMetrics
 <2>5. CASE A!Fail("failed")  BY <2>5, <2>2, <2>3, <2>4, Fails
 <2>6. CASE A!Take(e) /\ A!Assembled(<<IF A!Registered("metrics", e[2]) THEN "metrics" ELSE "scrape", e[1]>>)
  <3> DEFINE x == <<IF A!Registered("metrics", e[2]) THEN "metrics" ELSE "scrape", e[1]>>
  <3>1. x = <<stage, e[1]>> \/ x = <<"scrape", e[1]>>  BY <2>2
  <3> HIDE DEF x
  <3>2. A!Take(e) /\ A!Assembled(x)  BY <2>6 DEF x
  <3>3. ResolveStep(e, x)  BY <3>1, <3>2, <2>2, <2>3, Resolves
  <3> QED  BY <3>3
 <2> QED  BY <2>4, <2>5, <2>6
<1>3. ASSUME A!AddSource PROVE Steps
 <2> DEFINE i == A!Min(todo)
 <2>1. result = "building" /\ stage = "config" /\ todo # {} /\ UNCHANGED <<scripts, announced, handle, faults, app, requests, served>>
   BY <1>3 DEF A!AddSource, A!At, A!StillAround, A!appVars
 <2>2. CASE A!Fail("failed")  BY <2>1, <2>2, Fails
 <2>3. CASE ~A!Fail("failed")
  <3>1. todo' = todo \ {i} /\ made' = [made EXCEPT !.sources = Append(@, doc["config"][i])]
        /\ UNCHANGED <<doc, stage, hooks, bound, routes, result>>  BY <1>3, <2>3 DEF A!AddSource, A!Take
  <3>2. made' = [engines |-> made.engines, seen |-> made.seen, sources |-> Append(made.sources, doc["config"][i])]
    BY <3>1 DEF StageInv
  <3>3. SourceStep(i)  BY <3>1, <3>2, <2>1 DEF SourceStep, GoesOn, Building
  <3> QED  BY <3>3
 <2> QED  BY <2>2, <2>3
<1>4. ASSUME A!InitScript PROVE Steps
 <2>1. result = "building" /\ stage = "script" /\ UNCHANGED <<announced, handle, faults, app, requests, served>>
   BY <1>4 DEF A!InitScript, A!At, A!appVars
 <2>2. PICK e \in todo : \/ A!Take(e) /\ A!Assembled(<<"script", e[1]>>) /\ scripts' = [scripts EXCEPT ![e[1]] = "ready"]
                         \/ A!Fail("failed") /\ UNCHANGED scripts  BY <1>4 DEF A!InitScript
 <2>3. CASE A!Fail("failed") /\ UNCHANGED scripts  BY <2>1, <2>2, <2>3, Fails
 <2>4. CASE A!Take(e) /\ A!Assembled(<<"script", e[1]>>) /\ scripts' = [scripts EXCEPT ![e[1]] = "ready"]
   BY <2>1, <2>4, Resolves
 <2> QED  BY <2>2, <2>3, <2>4
<1>5. ASSUME A!CheckObservers PROVE Steps
 <2>1. result = "building" /\ stage \in {"health", "tracer"} /\ UNCHANGED <<scripts, announced, handle, faults, app, requests, served>>
   BY <1>5 DEF A!CheckObservers, A!StillAround, A!appVars
 <2>2. PICK e \in todo : (A!Take(e) /\ A!Assembled(<<stage, e[1]>>)) \/ A!Fail("failed")
   BY <1>5 DEF A!CheckObservers
 <2>3. CASE A!Fail("failed")  BY <2>1, <2>2, <2>3, Fails
 <2>4. CASE A!Take(e) /\ A!Assembled(<<stage, e[1]>>)  BY <2>1, <2>4, Resolves
 <2> QED  BY <2>2, <2>3, <2>4
<1>6. ASSUME A!EndStage PROVE Steps
  BY <1>6, LastInPlace DEF A!EndStage, A!StillAround, A!appVars, NextStep, Building
<1>7. ASSUME A!MountEndpoint PROVE Steps
 <2> DEFINE i == A!Min(todo)
 <2>1. result = "building" /\ stage = "endpoint" /\ todo # {} /\ UNCHANGED <<scripts, announced, handle, faults, app, requests, served>>
   BY <1>7 DEF A!MountEndpoint, A!At, A!StillAround, A!appVars
 <2>2. CASE A!Fail("failed")  BY <2>1, <2>2, Fails
 <2>3. CASE ~A!Fail("failed")
  <3>1. todo' = todo \ {i} /\ made' = [made EXCEPT !.seen = @ \cup {made.engines}] /\ A!GuardsResolve(doc["endpoint"][i].guards)
        /\ UNCHANGED <<doc, stage, hooks, bound, routes, result>>  BY <1>7, <2>3 DEF A!MountEndpoint, A!Take
  <3>2. made' = [engines |-> made.engines, seen |-> made.seen \cup {made.engines}, sources |-> made.sources]
    BY <3>1 DEF StageInv
  <3>3. EndpointStep(i)  BY <3>1, <3>2, <2>1 DEF EndpointStep, GoesOn, Building, Hands
  <3> QED  BY <3>3
 <2> QED  BY <2>2, <2>3
<1>8. ASSUME A!BuildServer PROVE Steps
 <2> DEFINE i == A!Min(todo)
 <2>1. result = "building" /\ stage = "server" /\ todo # {} /\ UNCHANGED <<scripts, announced, handle, faults, app, requests, served>>
   BY <1>8 DEF A!BuildServer, A!At, A!StillAround, A!appVars
 <2>2. CASE A!Fail("failed") \/ A!Fail("panicked")  BY <2>1, <2>2, Fails
 <2>3. CASE ~(A!Fail("failed") \/ A!Fail("panicked"))
  <3>1. todo' = todo \ {i} /\ made' = [made EXCEPT !.seen = @ \cup {made.engines}] /\ A!Bind(i)
        /\ UNCHANGED <<doc, stage, hooks, result>>  BY <1>8, <2>3 DEF A!BuildServer, A!Take
  <3>2. made' = [engines |-> made.engines, seen |-> made.seen \cup {made.engines}, sources |-> made.sources]
    BY <3>1 DEF StageInv
  <3>3. doc["server"][i].kind = "http" =>
          /\ \A p \in A!ToSet(doc["server"][i].packs) : A!GuardsResolve(p.guards)
          /\ ~A!Clash(i)  BY <1>8, <2>3 DEF A!BuildServer
  <3>4. /\ doc["server"][i].kind = "http" => routes' = routes \cup A!Mounted(i)
        /\ doc["server"][i].kind # "http" => routes' = routes  BY <1>8, <2>3 DEF A!BuildServer
  <3>5. ServerStep(i)  BY <3>1, <3>2, <3>3, <3>4, <2>1 DEF ServerStep, GoesOn, Building, Hands, A!Bind
  <3> QED  BY <3>5
 <2> QED  BY <2>2, <2>3
<1>9. ASSUME A!Announce PROVE Steps
 <2>1. result = "building" /\ stage = "registry" /\ UNCHANGED <<scripts, app, requests, served>>
   BY <1>9 DEF A!Announce, A!At, A!appVars
 <2>2. PICK e \in todo :
        \/ /\ A!Take(e) /\ announced' = "live" /\ handle' = "held" /\ hooks' = Append(hooks, "deregister")
           /\ UNCHANGED <<doc, stage, made, bound, routes, result, faults>>
        \/ A!Fail("failed") /\ UNCHANGED <<announced, handle, faults>>
        \/ A!Fail("failed") /\ announced' = "live" /\ faults' = faults \cup {"landed"} /\ UNCHANGED handle
   BY <1>9 DEF A!Announce
 <2>3. CASE A!Fail("failed") /\ UNCHANGED <<announced, handle, faults>>  BY <2>1, <2>2, <2>3, Fails
 <2>4. CASE A!Fail("failed") /\ announced' = "live" /\ faults' = faults \cup {"landed"} /\ UNCHANGED handle
   BY <2>1, <2>2, <2>4, Fails
 <2>5. CASE /\ A!Take(e) /\ announced' = "live" /\ handle' = "held" /\ hooks' = Append(hooks, "deregister")
            /\ UNCHANGED <<doc, stage, made, bound, routes, result, faults>>
   BY <2>1, <2>5 DEF AnnounceStep, Building, A!Take
 <2> QED  BY <2>2, <2>3, <2>4, <2>5
<1>10. ASSUME A!Unannounced PROVE Steps
 <2>1. result = "building" /\ stage = "registry" /\ todo # {} /\ UNCHANGED <<scripts, announced, handle, faults, app, requests, served>>
   BY <1>10 DEF A!Unannounced, A!At, A!StillAround, A!appVars
 <2>2. CASE A!Fail("failed")  BY <2>1, <2>2, Fails
 <2>3. CASE ~A!Fail("failed")  BY <1>10, <2>1, <2>3 DEF A!Unannounced, A!Take, SkipStep, GoesOn, Building
 <2> QED  BY <2>2, <2>3
<1>11. ASSUME A!Finish PROVE Steps
  BY <1>11, LastInPlace DEF A!Finish, A!StillAround, A!appVars, FinishStep, GoesOn, Building
<1>12. ASSUME A!Abandon PROVE Steps
 <2>1. result = "building" /\ todo # {} /\ A!Fail("abandoned") /\ UNCHANGED <<scripts, handle, app, requests, served>>
   BY <1>12 DEF A!Abandon, A!appVars
 <2>2. (announced' = announced /\ faults' = faults) \/ (announced' = "live" /\ faults' = faults \cup {"landed"})
   BY <1>12 DEF A!Abandon
 <2> QED  BY <2>1, <2>2, Fails
<1> QED  BY <1>1, <1>2, <1>3, <1>4, <1>5, <1>6, <1>7, <1>8, <1>9, <1>10, <1>11, <1>12 DEF A!Build

-----------------------------------------------------------------------------
AppStep == A!Run \/ A!Arrive \/ A!Complete \/ A!Trigger \/ A!Shutdown \/ A!DropHandle \/ A!Lapse
AnyStep == Steps \/ AppStep \/ UNCHANGED A!assemblyVars

LEMMA AppStill ==
  ASSUME AppStep
  PROVE  UNCHANGED <<doc, stage, todo, made, routes, result>>
BY DEF AppStep, A!Run, A!Arrive, A!Complete, A!Trigger, A!Shutdown, A!Drained, A!DrainTimeout, A!BeginHooks,
       A!CloseScripts, A!Deregister, A!StopServers, A!DropHandle, A!Lapse, A!builtVars

LEMMA VarsStill ==
  ASSUME UNCHANGED A!assemblyVars
  PROVE  /\ UNCHANGED <<doc, stage, todo, made, routes, result>>
         /\ UNCHANGED <<hooks, bound, scripts, announced, handle, app, requests, faults>>
BY DEF A!assemblyVars

LEMMA PlaceIsOrder ==
  /\ \A s \in DOMAIN Place : Place[s] \in 1..17
  /\ \A s, t \in DOMAIN Place : Place[s] = Place[t] => s = t
  /\ {"storage", "metrics", "config", "script", "tracer", "endpoint", "server", "registry"} \subseteq DOMAIN Place
  /\ Place["storage"] = 1 /\ Place["metrics"] = 10 /\ Place["config"] = 11 /\ Place["script"] = 12
  /\ Place["tracer"] = 14 /\ Place["endpoint"] = 15 /\ Place["server"] = 16 /\ Place["registry"] = 17
<1>1. \A s, t \in DOMAIN Place : Place[s] = Place[t] => s = t  BY StagesInPlace
<1>2. /\ {"storage", "metrics", "config", "script", "tracer", "endpoint", "server", "registry"} \subseteq DOMAIN Place
      /\ Place["storage"] = 1 /\ Place["metrics"] = 10 /\ Place["config"] = 11 /\ Place["script"] = 12
      /\ Place["tracer"] = 14 /\ Place["endpoint"] = 15 /\ Place["server"] = 16 /\ Place["registry"] = 17
  BY DEF Place
<1> QED  BY <1>1, <1>2, StagesInPlace

LEMMA SectionPlaces ==
  \A s \in A!Sections : s \in DOMAIN Place /\ Place[s] < 13 /\ s \notin {"config", "endpoint", "server", "registry", "health", "tracer"}
<1> SUFFICES ASSUME NEW s \in A!Sections
             PROVE  s \in DOMAIN Place /\ Place[s] < 13 /\ s \notin {"config", "endpoint", "server", "registry", "health", "tracer"}
  OBVIOUS
<1>1. s \in A!ToSet(A!Order) /\ s \notin {"config", "endpoint", "server", "registry", "health", "tracer"}
  BY DEF A!Sections
<1>2. PICK i \in 1..17 : s = A!Order[i]  BY <1>1, StagesInPlace DEF A!ToSet, A!Order
<1>3. s \in DOMAIN Place  BY <1>2, StagesInPlace
<1>4. Place[s] < 13  BY <1>1, <1>3 DEF Place
<1> QED  BY <1>1, <1>3, <1>4

(* Lists: what is left of one from an index on.                            *)
LEMMA FirstLeft ==
  ASSUME NEW n \in Nat, NEW k \in 0..n, (k+1)..n # {}
  PROVE  /\ k < n /\ A!Min((k+1)..n) = k+1 /\ ((k+1)..n) \ {k+1} = (k+2)..n
<1>1. k < n  OBVIOUS
<1>2. k+1 \in (k+1)..n /\ \A y \in (k+1)..n : k+1 <= y  BY <1>1
<1>3. A!Min((k+1)..n) = k+1  BY <1>2 DEF A!Min
<1> QED  BY <1>1, <1>3

LEMMA NothingLeft ==
  ASSUME NEW n \in Nat, NEW k \in 0..n, (k+1)..n = {}
  PROVE  k = n
<1>1. n \notin (k+1)..n  OBVIOUS
<1> QED  BY <1>1

LEMMA ListsAre ==
  ASSUME doc \in Docs
  PROVE  \A s \in {"config", "endpoint", "server"} :
           /\ Len(doc[s]) \in Nat /\ DOMAIN doc[s] = 1..Len(doc[s]) /\ A!Entries(s) = 1..Len(doc[s])
           /\ doc[s] \in Seq({doc[s][i] : i \in DOMAIN doc[s]})
<1>1. IsList(doc["config"]) /\ IsList(doc["endpoint"]) /\ IsList(doc["server"])  BY DocumentAssumption
<1>2. \A s \in {"config", "endpoint", "server"} : doc[s] \in Seq({doc[s][i] : i \in DOMAIN doc[s]})
  BY <1>1 DEF IsList
<1>3. \A s \in {"config", "endpoint", "server"} : Len(doc[s]) \in Nat /\ DOMAIN doc[s] = 1..Len(doc[s])  BY <1>2
<1>4. \A s \in {"config", "endpoint", "server"} : A!Entries(s) = DOMAIN doc[s]  BY DEF A!Entries
<1> QED  BY <1>2, <1>3, <1>4

LEMMA StageKept ==
  ASSUME StageInv, AnyStep
  PROVE  StageInv'
<1> USE DEF StageInv
<1>1. CASE FailStep  BY <1>1 DEF FailStep, Building
<1>2. CASE NextStep
 <2>1. stage' \in DOMAIN Place  BY <1>2, NextInPlace DEF NextStep
 <2>2. stage' = "registry" => todo' \subseteq doc["registry"]  BY <1>2 DEF NextStep, A!Entries
 <2> QED  BY <1>2, <2>1, <2>2 DEF NextStep, Building
<1>3. CASE FinishStep  BY <1>3 DEF FinishStep, GoesOn, Building
<1>4. ASSUME NEW e \in todo, NEW x, ResolveStep(e, x) PROVE StageInv'  BY <1>4 DEF ResolveStep, Building
<1>5. ASSUME NEW i, SourceStep(i) PROVE StageInv'  BY <1>5 DEF SourceStep, GoesOn, Building
<1>6. ASSUME NEW i, EndpointStep(i) PROVE StageInv'  BY <1>6 DEF EndpointStep, Hands, GoesOn, Building
<1>7. ASSUME NEW i, ServerStep(i) PROVE StageInv'  BY <1>7 DEF ServerStep, Hands, GoesOn, Building
<1>8. ASSUME NEW e \in todo, AnnounceStep(e) PROVE StageInv'  BY <1>8 DEF AnnounceStep, Building
<1>9. ASSUME NEW e \in todo, SkipStep(e) PROVE StageInv'  BY <1>9 DEF SkipStep, GoesOn, Building
<1>10. CASE AppStep
  BY <1>10, AppStill DEF AppStep, A!Run, A!Arrive, A!Complete, A!Trigger, A!Shutdown, A!Drained, A!DrainTimeout, A!BeginHooks,
       A!CloseScripts, A!Deregister, A!StopServers, A!DropHandle, A!Lapse, A!appVars
<1>11. CASE UNCHANGED A!assemblyVars  BY <1>11, VarsStill
<1> QED  BY <1>1, <1>2, <1>3, <1>4, <1>5, <1>6, <1>7, <1>8, <1>9, <1>10, <1>11 DEF AnyStep, Steps

LEMMA MoreResolve ==
  ASSUME NEW s, NEW e, NEW S, NEW T, S \subseteq T, ResolvedIn(s, e, S)
  PROVE  ResolvedIn(s, e, T)
BY DEF ResolvedIn

LEMMA AllResolved ==
  ASSUME StageInv, SectionInv, Alive, Place[stage] > Place["tracer"]
  PROVE  \A s \in A!Sections : \A e \in doc[s] : ResolvedIn(s, e, made.engines)
BY SectionPlaces, PlaceIsOrder DEF SectionInv, StageInv

LEMMA SectionKept ==
  ASSUME StageInv, SectionInv, AnyStep
  PROVE  SectionInv'
<1>0. stage \in DOMAIN Place  BY DEF StageInv
<1>1. CASE FailStep  BY <1>1 DEF FailStep, Building, SectionInv, Alive
<1>2. CASE NextStep
 <2>1. stage' \in DOMAIN Place /\ Place[stage'] = Place[stage] + 1  BY <1>0, <1>2, NextInPlace DEF NextStep
 <2>2. result = "building" /\ todo = {} /\ doc' = doc /\ made' = made /\ todo' = A!Entries(stage')
   BY <1>2 DEF NextStep, Building
 <2>3. \A s \in A!Sections : \A e \in doc[s] :
         (Place[s] < Place[stage'] \/ (s = stage' /\ e \notin todo')) => ResolvedIn(s, e, made.engines)
  <3> SUFFICES ASSUME NEW s \in A!Sections, NEW e \in doc[s], Place[s] < Place[stage'] \/ (s = stage' /\ e \notin todo')
               PROVE  ResolvedIn(s, e, made.engines)  OBVIOUS
  <3>1. s = stage' => todo' = doc[s]  BY <2>2, SectionPlaces DEF A!Entries
  <3>2. Place[s] < Place[stage] \/ s = stage  BY <3>1, <2>1, <1>0, SectionPlaces, PlaceIsOrder
  <3> QED  BY <3>2, <2>2 DEF SectionInv, Alive
 <2>4. made'.seen # {} => Place[stage'] > Place["tracer"]  BY <2>1, <2>2, <1>0, PlaceIsOrder DEF SectionInv
 <2> QED  BY <2>2, <2>3, <2>4 DEF SectionInv, Alive
<1>3. CASE FinishStep
 <2>1. UNCHANGED <<doc, stage, todo, made>> /\ Alive  BY <1>3 DEF FinishStep, GoesOn, Building, Alive
 <2> QED  BY <2>1 DEF SectionInv
<1>4. ASSUME NEW e \in todo, NEW x, ResolveStep(e, x) PROVE SectionInv'
 <2>1. /\ UNCHANGED <<doc, stage, result>> /\ todo' = todo \ {e} /\ result = "building"
       /\ made'.engines = made.engines \cup {x} /\ made'.seen = made.seen
       /\ x = <<stage, e[1]>> \/ (stage = "metrics" /\ x = <<"scrape", e[1]>>)  BY <1>4 DEF ResolveStep, Building
 <2>2. \A s \in A!Sections : \A f \in doc[s] :
         (Place[s] < Place[stage] \/ (s = stage /\ f \notin todo')) => ResolvedIn(s, f, made'.engines)
  <3> SUFFICES ASSUME NEW s \in A!Sections, NEW f \in doc[s], Place[s] < Place[stage] \/ (s = stage /\ f \notin todo')
               PROVE  ResolvedIn(s, f, made'.engines)  OBVIOUS
  <3>1. CASE s = stage /\ f = e  BY <3>1, <2>1 DEF ResolvedIn
  <3>2. CASE ~(s = stage /\ f = e)
   <4>1. ResolvedIn(s, f, made.engines)  BY <3>2, <2>1 DEF SectionInv, Alive
   <4> QED  BY <4>1, <2>1, MoreResolve
  <3> QED  BY <3>1, <3>2
 <2> QED  BY <2>1, <2>2 DEF SectionInv, Alive
<1>5. ASSUME NEW i, SourceStep(i) PROVE SectionInv'
 <2>1. /\ UNCHANGED <<doc, stage, result>> /\ stage = "config" /\ result = "building"
       /\ made'.engines = made.engines /\ made'.seen = made.seen  BY <1>5 DEF SourceStep, GoesOn, Building
 <2> QED  BY <2>1, SectionPlaces DEF SectionInv, Alive
<1>6. ASSUME NEW i, EndpointStep(i) \/ ServerStep(i) PROVE SectionInv'
 <2>1. /\ UNCHANGED <<doc, stage, result>> /\ stage \in {"endpoint", "server"} /\ result = "building"
       /\ made'.engines = made.engines /\ made'.seen = made.seen \cup {made.engines}
   BY <1>6 DEF EndpointStep, ServerStep, Hands, GoesOn, Building
 <2>2. Alive /\ Place[stage] > Place["tracer"]  BY <2>1, PlaceIsOrder DEF Alive
 <2>3. \A s \in A!Sections : \A e \in doc[s] : ResolvedIn(s, e, made.engines)  BY <2>2, AllResolved
 <2> QED  BY <2>1, <2>2, <2>3 DEF SectionInv, Alive
<1>7. ASSUME NEW e \in todo, AnnounceStep(e) \/ SkipStep(e) PROVE SectionInv'
 <2>1. UNCHANGED <<doc, stage, result, made>> /\ stage = "registry" /\ result = "building"
   BY <1>7 DEF AnnounceStep, SkipStep, GoesOn, Building
 <2> QED  BY <2>1, SectionPlaces DEF SectionInv, Alive
<1>8. CASE AppStep \/ UNCHANGED A!assemblyVars  BY <1>8, AppStill, VarsStill DEF SectionInv, Alive
<1> QED  BY <1>1, <1>2, <1>3, <1>4, <1>5, <1>6, <1>7, <1>8 DEF AnyStep, Steps

LEMMA WholeList ==
  ASSUME NEW T, NEW l \in Seq(T)
  PROVE  [i \in 1..Len(l) |-> l[i]] = l
OBVIOUS

LEMMA OneMore ==
  ASSUME NEW T, NEW l \in Seq(T), NEW k \in Nat, k < Len(l)
  PROVE  Append([i \in 1..k |-> l[i]], l[k+1]) = [i \in 1..(k+1) |-> l[i]]
<1> DEFINE s == [i \in 1..k |-> l[i]]
<1>1. s \in Seq(T) /\ Len(s) = k  OBVIOUS
<1>2. l[k+1] \in T  OBVIOUS
<1>3. Append(s, l[k+1]) \in Seq(T) /\ Len(Append(s, l[k+1])) = k+1  BY <1>1, <1>2
<1>4. \A i \in 1..(k+1) : Append(s, l[k+1])[i] = l[i]  BY <1>1, <1>2
<1> HIDE DEF s
<1>5. Append(s, l[k+1]) = [i \in 1..(k+1) |-> Append(s, l[k+1])[i]]  BY <1>3, WholeList
<1>6. [i \in 1..(k+1) |-> Append(s, l[k+1])[i]] = [i \in 1..(k+1) |-> l[i]]  BY <1>4
<1> QED  BY <1>5, <1>6 DEF s

LEMMA SourceKept ==
  ASSUME StageInv, SectionInv, SourceInv, AnyStep
  PROVE  SourceInv'
<1>0. stage \in DOMAIN Place /\ doc \in Docs  BY DEF StageInv
<1>1. CASE FailStep  BY <1>1 DEF FailStep, Building, SourceInv, Alive
<1>2. CASE NextStep
 <2>1. stage' \in DOMAIN Place /\ Place[stage'] = Place[stage] + 1  BY <1>0, <1>2, NextInPlace DEF NextStep
 <2>2. result = "building" /\ result' = result /\ todo = {} /\ doc' = doc /\ made' = made /\ todo' = A!Entries(stage')
   BY <1>2 DEF NextStep, Building
 <2>3. CASE Place[stage'] < Place["config"]  BY <2>1, <2>2, <2>3, <1>0, PlaceIsOrder DEF SourceInv
 <2>4. CASE stage' = "config"
  <3>1. made.sources = <<>> /\ Place[stage] < Place["config"]  BY <2>1, <2>4, <1>0, PlaceIsOrder DEF SourceInv
  <3>2. made.seen = {}  BY <3>1, <1>0, PlaceIsOrder DEF SectionInv
  <3>3. todo' = 1..Len(doc["config"])  BY <2>2, <2>4, <1>0, ListsAre
  <3>4. FirstSources(0) = <<>>  BY DEF FirstSources
  <3>5. 0 \in 0..Len(doc["config"]) /\ todo' = (0+1)..Len(doc["config"]) /\ made'.sources = FirstSources(0)
    BY <3>1, <3>3, <3>4, <2>2, <1>0, ListsAre
  <3>6. \E k \in 0..Len(doc["config"]) : todo' = (k+1)..Len(doc["config"]) /\ made'.sources = FirstSources(k)
    BY <3>5
  <3>7. ~(Place[stage'] < Place["config"]) /\ ~(Place[stage'] > Place["config"])  BY <2>4, PlaceIsOrder
  <3>8. \A k : FirstSources(k)' = FirstSources(k)  BY <2>2 DEF FirstSources
  <3> QED  BY <3>2, <3>6, <3>7, <3>8, <2>2 DEF SourceInv
 <2>5. CASE stage = "config"
  <3>1. PICK k \in 0..Len(doc["config"]) : todo = (k+1)..Len(doc["config"]) /\ made.sources = FirstSources(k)
    BY <2>2, <2>5 DEF SourceInv
  <3>2. k = Len(doc["config"])
   <4>1. Len(doc["config"]) \in Nat /\ (k+1)..Len(doc["config"]) = {}  BY <3>1, <2>2, <1>0, ListsAre
   <4> QED  BY <4>1, NothingLeft
  <3>3. made.sources = doc["config"]  BY <3>1, <3>2, <1>0, ListsAre, WholeList DEF FirstSources
  <3>4. Place[stage'] > Place["config"] /\ stage' # "config"  BY <2>1, <2>5, PlaceIsOrder
  <3> QED  BY <3>3, <3>4, <2>2, <2>1, PlaceIsOrder, SMTT(60) DEF SourceInv
 <2>6. CASE Place[stage] > Place["config"]  BY <2>1, <2>2, <2>6, <1>0, PlaceIsOrder DEF SourceInv, Alive
 <2> QED  BY <2>1, <2>3, <2>4, <2>5, <2>6, <1>0, PlaceIsOrder
<1>3. CASE FinishStep
 <2>1. UNCHANGED <<doc, stage, todo, made>> /\ Alive /\ stage = "registry"
   BY <1>3 DEF FinishStep, GoesOn, Building, Alive
 <2> QED  BY <2>1 DEF SourceInv
<1>4. ASSUME NEW e \in todo, NEW x, ResolveStep(e, x) PROVE SourceInv'
 <2>1. /\ UNCHANGED <<doc, stage, result>> /\ stage # "config"
       /\ made'.sources = made.sources /\ made'.seen = made.seen  BY <1>4 DEF ResolveStep, Building
 <2> QED  BY <2>1 DEF SourceInv, Alive
<1>5. ASSUME NEW i, SourceStep(i) PROVE SourceInv'
 <2>1. /\ UNCHANGED <<doc, stage, result>> /\ stage = "config" /\ result = "building"
       /\ todo # {} /\ i = A!Min(todo) /\ todo' = todo \ {i}
       /\ made'.sources = Append(made.sources, doc["config"][i]) /\ made'.seen = made.seen
   BY <1>5 DEF SourceStep, GoesOn, Building
 <2>2. PICK k \in 0..Len(doc["config"]) : todo = (k+1)..Len(doc["config"]) /\ made.sources = FirstSources(k)
   BY <2>1 DEF SourceInv
 <2>3. Len(doc["config"]) \in Nat /\ k \in Nat  BY <2>2, <1>0, ListsAre
 <2>4. k < Len(doc["config"]) /\ i = k+1 /\ todo' = (k+2)..Len(doc["config"])  BY <2>1, <2>2, <2>3, FirstLeft
 <2>5. made'.sources = FirstSources(k+1)
   BY <2>1, <2>2, <2>3, <2>4, <1>0, ListsAre, OneMore, SMTT(60) DEF FirstSources
 <2>6. k+1 \in 0..Len(doc["config"]) /\ todo' = ((k+1)+1)..Len(doc["config"])  BY <2>3, <2>4
 <2>7. \E j \in 0..Len(doc["config"]) : todo' = (j+1)..Len(doc["config"]) /\ made'.sources = FirstSources(j)
   BY <2>5, <2>6
 <2>8. \A j : FirstSources(j)' = FirstSources(j)  BY <2>1 DEF FirstSources
 <2>9. ~(Place[stage] < Place["config"]) /\ ~(Place[stage] > Place["config"]) /\ made.seen = {}
   BY <2>1, PlaceIsOrder DEF SectionInv
 <2> QED  BY <2>1, <2>7, <2>8, <2>9 DEF SourceInv
<1>6. ASSUME NEW i, EndpointStep(i) \/ ServerStep(i) PROVE SourceInv'
 <2>1. /\ UNCHANGED <<doc, stage, result>> /\ stage \in {"endpoint", "server"} /\ result = "building"
       /\ made'.sources = made.sources  BY <1>6 DEF EndpointStep, ServerStep, Hands, GoesOn, Building
 <2>2. Alive /\ Place[stage] > Place["config"]  BY <2>1, PlaceIsOrder DEF Alive
 <2> QED  BY <2>1, <2>2, PlaceIsOrder DEF SourceInv, Alive
<1>7. ASSUME NEW e \in todo, AnnounceStep(e) \/ SkipStep(e) PROVE SourceInv'
 <2>1. UNCHANGED <<doc, stage, result, made>> /\ stage = "registry"
   BY <1>7 DEF AnnounceStep, SkipStep, GoesOn, Building
 <2> QED  BY <2>1 DEF SourceInv, Alive
<1>8. CASE AppStep \/ UNCHANGED A!assemblyVars
 <2>1. UNCHANGED <<doc, stage, result, made, todo>>  BY <1>8, AppStill, VarsStill
 <2>2. \A k : FirstSources(k)' = FirstSources(k)  BY <2>1 DEF FirstSources
 <2> QED  BY <2>1, <2>2 DEF SourceInv, Alive
<1> QED  BY <1>1, <1>2, <1>3, <1>4, <1>5, <1>6, <1>7, <1>8 DEF AnyStep, Steps

(* Engines stay: nothing a guard names goes away.                          *)
LEMMA EnginesGrow ==
  ASSUME StageInv, AnyStep
  PROVE  /\ doc' = doc /\ made.engines \subseteq made'.engines
         /\ ~Alive => ~Alive'
         /\ \A g : GuardsIn(g) => GuardsIn(g)'
<1>1. doc' = doc /\ made.engines \subseteq made'.engines
 <2>1. CASE AppStep \/ UNCHANGED A!assemblyVars  BY <2>1, AppStill, VarsStill
 <2>2. CASE FailStep \/ NextStep \/ FinishStep  BY <2>2 DEF FailStep, NextStep, FinishStep, GoesOn, Building
 <2>3. ASSUME NEW e \in todo, NEW x, ResolveStep(e, x)
       PROVE  doc' = doc /\ made.engines \subseteq made'.engines  BY <2>3 DEF ResolveStep, Building
 <2>4. ASSUME NEW i, SourceStep(i) \/ EndpointStep(i) \/ ServerStep(i)
       PROVE  doc' = doc /\ made.engines \subseteq made'.engines
   BY <2>4 DEF SourceStep, EndpointStep, ServerStep, Hands, GoesOn, Building
 <2>5. ASSUME NEW e \in todo, AnnounceStep(e) \/ SkipStep(e)
       PROVE  doc' = doc /\ made.engines \subseteq made'.engines
   BY <2>5 DEF AnnounceStep, SkipStep, GoesOn, Building
 <2> QED  BY <2>1, <2>2, <2>3, <2>4, <2>5 DEF AnyStep, Steps
<1>2. result = "building" \/ result' = result
  BY AppStill, VarsStill DEF AnyStep, Steps, FailStep, NextStep, FinishStep, ResolveStep, SourceStep, EndpointStep,
     ServerStep, AnnounceStep, SkipStep, GoesOn, Building
<1>3. \A g : GuardsIn(g) => GuardsIn(g)'  BY <1>1 DEF GuardsIn
<1> QED  BY <1>1, <1>2, <1>3 DEF Alive

LEMMA EndpointKept ==
  ASSUME StageInv, EndpointInv, AnyStep
  PROVE  EndpointInv'
<1>0. /\ stage \in DOMAIN Place /\ doc \in Docs /\ doc' = doc
      /\ \A g : GuardsIn(g) => GuardsIn(g)'  BY EnginesGrow DEF StageInv
<1> DEFINE n == Len(doc["endpoint"])
<1>n. n \in Nat  BY <1>0, ListsAre
<1>1. CASE FailStep  BY <1>1 DEF FailStep, Building, EndpointInv, Alive
<1>2. CASE NextStep
 <2>1. stage' \in DOMAIN Place /\ Place[stage'] = Place[stage] + 1  BY <1>0, <1>2, NextInPlace DEF NextStep
 <2>2. result = "building" /\ result' = result /\ todo = {} /\ todo' = A!Entries(stage')
   BY <1>2 DEF NextStep, Building
 <2>3. CASE Place[stage'] < Place["endpoint"]  BY <2>1, <2>3, PlaceIsOrder, SMTT(60) DEF EndpointInv
 <2>4. CASE stage' = "endpoint"
  <3>1. todo' = 1..n  BY <2>2, <2>4, <1>0, ListsAre
  <3>2. 0 \in 0..n /\ todo' = (0+1)..n /\ 1..0 = {}  BY <3>1, <1>n
  <3>3. ~(Place[stage'] > Place["endpoint"])  BY <2>4, PlaceIsOrder
  <3> QED  BY <3>2, <3>3, <1>0 DEF EndpointInv
 <2>5. CASE stage = "endpoint"
  <3>1. PICK k \in 0..n : todo = (k+1)..n /\ \A j \in 1..k : GuardsIn(doc["endpoint"][j].guards)
    BY <2>2, <2>5 DEF EndpointInv
  <3>2. k = n  BY <3>1, <2>2, <1>n, NothingLeft
  <3>4. stage' # "endpoint"  BY <2>1, <2>5, PlaceIsOrder
  <3> QED  BY <3>1, <3>2, <3>4, <1>0 DEF EndpointInv
 <2>6. CASE Place[stage] > Place["endpoint"]
   BY <2>1, <2>2, <2>6, <1>0, PlaceIsOrder, SMTT(60) DEF EndpointInv, Alive
 <2> QED  BY <2>1, <2>3, <2>4, <2>5, <2>6, <1>0, PlaceIsOrder
<1>3. CASE FinishStep
 <2>1. UNCHANGED <<doc, stage, todo, made>> /\ Alive /\ stage = "registry"
   BY <1>3 DEF FinishStep, GoesOn, Building, Alive
 <2> QED  BY <2>1, <1>0 DEF EndpointInv
<1>4. ASSUME NEW e \in todo, NEW x, ResolveStep(e, x) PROVE EndpointInv'
 <2>1. UNCHANGED <<stage, result>> /\ stage # "endpoint"  BY <1>4 DEF ResolveStep, Building
 <2> QED  BY <2>1, <1>0 DEF EndpointInv, Alive
<1>5. ASSUME NEW i, EndpointStep(i) PROVE EndpointInv'
 <2>1. /\ UNCHANGED <<stage, result>> /\ stage = "endpoint" /\ result = "building"
       /\ todo # {} /\ i = A!Min(todo) /\ todo' = todo \ {i}
       /\ A!GuardsResolve(doc["endpoint"][i].guards)  BY <1>5 DEF EndpointStep, GoesOn, Building
 <2>2. PICK k \in 0..n : todo = (k+1)..n /\ \A j \in 1..k : GuardsIn(doc["endpoint"][j].guards)
   BY <2>1 DEF EndpointInv
 <2>4. k < n /\ i = k+1 /\ todo' = (k+2)..n  BY <2>1, <2>2, <1>n, FirstLeft, SMTT(60)
 <2>5. GuardsIn(doc["endpoint"][k+1].guards)  BY <2>1, <2>4 DEF A!GuardsResolve, GuardsIn
 <2>6. k+1 \in 0..n /\ todo' = ((k+1)+1)..n /\ \A j \in 1..(k+1) : j = k+1 \/ j \in 1..k  BY <1>n, <2>4
 <2>7. \A j \in 1..(k+1) : GuardsIn(doc["endpoint"][j].guards)'  BY <2>2, <2>5, <2>6, <1>0
 <2>8. ~(Place[stage'] > Place["endpoint"])  BY <2>1, PlaceIsOrder
 <2> QED  BY <2>1, <2>6, <2>7, <2>8, <1>0 DEF EndpointInv
<1>6. ASSUME NEW i, SourceStep(i) \/ ServerStep(i) PROVE EndpointInv'
 <2>1. UNCHANGED <<stage, result>> /\ stage # "endpoint"  BY <1>6 DEF SourceStep, ServerStep, GoesOn, Building
 <2> QED  BY <2>1, <1>0 DEF EndpointInv, Alive
<1>7. ASSUME NEW e \in todo, AnnounceStep(e) \/ SkipStep(e) PROVE EndpointInv'
 <2>1. UNCHANGED <<stage, result>> /\ stage = "registry"  BY <1>7 DEF AnnounceStep, SkipStep, GoesOn, Building
 <2> QED  BY <2>1, <1>0 DEF EndpointInv, Alive
<1>8. CASE AppStep \/ UNCHANGED A!assemblyVars
 <2>1. UNCHANGED <<stage, result, todo>>  BY <1>8, AppStill, VarsStill
 <2> QED  BY <2>1, <1>0 DEF EndpointInv, Alive
<1> QED  BY <1>1, <1>2, <1>3, <1>4, <1>5, <1>6, <1>7, <1>8 DEF AnyStep, Steps

-----------------------------------------------------------------------------
LEMMA MountedStill ==
  ASSUME doc' = doc
  PROVE  \A i : A!Mounted(i)' = A!Mounted(i) /\ A!Mounts(i)' = A!Mounts(i) /\ A!Clash(i)' = A!Clash(i)
<1>1. \A i : A!Mounts(i)' = A!Mounts(i)  BY DEF A!Mounts, A!Open
<1>2. \A i : A!Packs(i)' = A!Packs(i)  BY DEF A!Packs
<1>3. \A i : A!Nests(i)' = A!Nests(i)  BY DEF A!Nests
<1>4. \A i : A!Mounted(i)' = A!Mounted(i)  BY <1>1, <1>2, <1>3 DEF A!Mounted
<1> QED  BY <1>1, <1>4 DEF A!Clash

LEMMA MountedThere ==
  \A i : \A r \in A!Mounted(i) : r.server = i
BY DEF A!Mounted, A!Packs, A!Nests, A!Mounts

LEMMA MountsBacked ==
  ASSUME NEW i, NEW r \in A!Mounted(i), EndpointInv, doc \in Docs,
         Alive, Place[stage] > Place["endpoint"],
         \A p \in A!ToSet(doc["server"][i].packs) : A!GuardsResolve(p.guards)
  PROVE  Backed(r)
<1>1. CASE r \in A!Packs(i)
 <2>1. PICK p \in A!ToSet(doc["server"][i].packs) : r = [server |-> i, name |-> p.name, guards |-> A!Wrapped(p.guards)]
   BY <1>1 DEF A!Packs
 <2>2. r.server = i /\ r.name = p.name /\ r.guards = A!Wrapped(p.guards)  BY <2>1
 <2>3. GuardsIn(p.guards)  BY DEF A!GuardsResolve, GuardsIn
 <2>4. p.guards \in {q.guards : q \in {x \in A!ToSet(doc["server"][r.server].packs) : x.name = r.name}}  BY <2>2
 <2> QED  BY <2>2, <2>3, <2>4 DEF Backed
<1>2. CASE r \in A!Nests(i)
 <2>1. PICK e \in A!ToSet(doc["endpoint"]) : r = [server |-> i, name |-> e.nest, guards |-> A!Wrapped(e.guards)]
   BY <1>2 DEF A!Nests
 <2>2. r.server = i /\ r.name = e.nest /\ r.guards = A!Wrapped(e.guards)  BY <2>1
 <2>3. PICK j \in 1..Len(doc["endpoint"]) : e = doc["endpoint"][j]  BY ListsAre DEF A!ToSet
 <2>4. GuardsIn(e.guards)  BY <2>3 DEF EndpointInv
 <2>5. e.guards \in {f.guards : f \in {x \in A!ToSet(doc["endpoint"]) : x.nest = r.name}}  BY <2>2
 <2> QED  BY <2>2, <2>4, <2>5 DEF Backed
<1>3. CASE r \in A!Mounts(i)  BY <1>3, MountedThere DEF Backed
<1> QED  BY <1>1, <1>2, <1>3 DEF A!Mounted

LEMMA BackedStill ==
  ASSUME StageInv, AnyStep, NEW r, Backed(r)
  PROVE  Backed(r)'
<1>1. doc' = doc /\ \A g : GuardsIn(g) => GuardsIn(g)'  BY EnginesGrow
<1>2. CASE r \in A!Mounts(r.server)  BY <1>1, <1>2, MountedStill DEF Backed
<1>3. CASE r \notin A!Mounts(r.server)
 <2> DEFINE entries == {p.guards : p \in {q \in A!ToSet(doc["server"][r.server].packs) : q.name = r.name}}
                   \cup {e.guards : e \in {x \in A!ToSet(doc["endpoint"]) : x.nest = r.name}}
 <2>1. PICK g \in entries : r.guards = A!Wrapped(g) /\ GuardsIn(g)  BY <1>3 DEF Backed
 <2>2. entries' = entries  BY <1>1
 <2>3. GuardsIn(g)'  BY <1>1, <2>1
 <2> HIDE DEF entries
 <2>4. \E h \in entries' : r.guards = A!Wrapped(h) /\ GuardsIn(h)'  BY <2>1, <2>2, <2>3
 <2> QED  BY <2>4 DEF Backed, entries
<1> QED  BY <1>2, <1>3

(* What is built stays as the document mounts it.                          *)
LEMMA BuiltStill ==
  ASSUME doc' = doc, routes' = routes, NEW k, Built(k)
  PROVE  Built(k)'
BY MountedStill DEF Built

LEMMA BuiltMore ==
  ASSUME NEW k \in Nat, Built(k), doc' = doc,
         doc["server"][k+1].kind = "http" => ~A!Clash(k+1) /\ routes' = routes \cup A!Mounted(k+1),
         doc["server"][k+1].kind # "http" => routes' = routes
  PROVE  Built(k+1)'
<1>1. \A i \in 1..(k+1) : i = k+1 \/ i \in 1..k  OBVIOUS
<1>2. k+1 \notin 1..k /\ k+1 \in 1..(k+1) /\ 1..k \subseteq 1..(k+1)  OBVIOUS
<1>3. \A r \in routes' : r.server \in 1..(k+1)  BY <1>2, MountedThere DEF Built
<1>4. ASSUME NEW i \in 1..(k+1), doc["server"][i].kind = "http"
      PROVE  {r \in routes' : r.server = i} = A!Mounted(i) /\ ~A!Clash(i)
 <2>1. CASE i = k+1
  <3>1. \A r \in routes : r.server # k+1  BY <1>2 DEF Built
  <3> QED  BY <2>1, <3>1, <1>4, MountedThere
 <2>2. CASE i \in 1..k
  <3>1. {r \in routes : r.server = i} = A!Mounted(i) /\ ~A!Clash(i)  BY <2>2, <1>4 DEF Built
  <3>2. \A r \in routes' : r.server = i => r \in routes  BY <2>2, <1>2, MountedThere
  <3>3. routes \subseteq routes'  OBVIOUS
  <3> QED  BY <3>1, <3>2, <3>3
 <2> QED  BY <1>1, <2>1, <2>2
<1> QED  BY <1>3, <1>4, MountedStill DEF Built

LEMMA ServerKept ==
  ASSUME StageInv, EndpointInv, ServerInv, AnyStep
  PROVE  ServerInv'
<1>0. /\ stage \in DOMAIN Place /\ doc \in Docs /\ doc' = doc
      /\ \A r : Backed(r) => Backed(r)'  BY EnginesGrow, BackedStill DEF StageInv
<1> DEFINE n == Len(doc["server"])
<1>n. n \in Nat  BY <1>0, ListsAre
<1>1. CASE FailStep
 <2>1. bound' = {} /\ UNCHANGED <<routes, stage>> /\ ~Alive'  BY <1>1 DEF FailStep, Building, Alive
 <2> QED  BY <2>1, <1>0 DEF ServerInv, Alive
<1>2. CASE NextStep
 <2>1. stage' \in DOMAIN Place /\ Place[stage'] = Place[stage] + 1  BY <1>0, <1>2, NextInPlace DEF NextStep
 <2>2. result = "building" /\ UNCHANGED <<result, routes, bound, app>> /\ todo = {} /\ todo' = A!Entries(stage')
   BY <1>2 DEF NextStep, Building
 <2>3. CASE Place[stage'] < Place["server"]  BY <2>1, <2>2, <2>3, <1>0, PlaceIsOrder DEF ServerInv, Alive
 <2>4. CASE stage' = "server"
  <3>1. todo' = 1..n  BY <2>2, <2>4, <1>0, ListsAre
  <3>2. Place[stage] < Place["server"]  BY <2>1, <2>4, <1>0, PlaceIsOrder
  <3>3. bound' = {} /\ routes' = {}  BY <3>2, <2>2 DEF ServerInv
  <3>4. 0 \in 0..n /\ todo' = (0+1)..n /\ bound' = 1..0 /\ \A i : i \notin 1..0  BY <3>1, <3>3, <1>n
  <3>5. Built(0)'  BY <3>3, <3>4 DEF Built
  <3>6. ~(Place[stage'] < Place["server"]) /\ stage' # "registry" /\ Alive'  BY <2>4, <2>2, PlaceIsOrder DEF Alive
  <3> QED  BY <3>3, <3>4, <3>5, <3>6, <1>0 DEF ServerInv
 <2>5. CASE stage = "server"
  <3>1. PICK k \in 0..n : todo = (k+1)..n /\ bound = 1..k /\ Built(k)  BY <2>2, <2>5 DEF ServerInv
  <3>2. k = n  BY <3>1, <2>2, <1>n, NothingLeft
  <3>3. Built(n)'  BY <3>1, <3>2, <2>2, <1>0, BuiltStill
  <3>4. stage' # "server" /\ ~(Place[stage'] < Place["server"]) /\ Alive'
    BY <2>1, <2>5, <2>2, PlaceIsOrder DEF Alive
  <3> QED  BY <3>1, <3>2, <3>3, <3>4, <2>2, <1>0 DEF ServerInv
 <2>6. CASE Place[stage] > Place["server"]
  <3>1. Place[stage] = 17  BY <2>6, <1>0, PlaceIsOrder
  <3> QED  BY <3>1, <2>1, PlaceIsOrder
 <2> QED  BY <2>1, <2>3, <2>4, <2>5, <2>6, <1>0, PlaceIsOrder
<1>3. CASE FinishStep
 <2>1. UNCHANGED <<stage, routes, bound, app>> /\ Alive /\ Alive' /\ stage = "registry"
   BY <1>3 DEF FinishStep, GoesOn, Building, Alive
 <2>2. Built(n) => Built(n)'  BY <2>1, <1>0, BuiltStill
 <2>3. ~(Place[stage] < Place["server"])  BY <2>1, PlaceIsOrder
 <2> QED  BY <2>1, <2>2, <2>3, <1>0 DEF ServerInv
<1>4. ASSUME NEW e \in todo, NEW x, ResolveStep(e, x) PROVE ServerInv'
 <2>1. UNCHANGED <<stage, result, routes, bound>> /\ stage \notin {"server", "registry"} /\ result = "building"
   BY <1>4 DEF ResolveStep, Building
 <2> QED  BY <2>1, <1>0 DEF ServerInv, Alive
<1>5. ASSUME NEW i, SourceStep(i) \/ EndpointStep(i) PROVE ServerInv'
 <2>1. UNCHANGED <<stage, result, routes, bound>> /\ stage \notin {"server", "registry"} /\ result = "building"
   BY <1>5 DEF SourceStep, EndpointStep, GoesOn, Building
 <2> QED  BY <2>1, <1>0 DEF ServerInv, Alive
<1>6. ASSUME NEW i, ServerStep(i) PROVE ServerInv'
 <2>1. /\ UNCHANGED <<stage, result>> /\ stage = "server" /\ result = "building"
       /\ todo # {} /\ i = A!Min(todo) /\ todo' = todo \ {i} /\ bound' = bound \cup {i}
       /\ doc["server"][i].kind = "http" =>
            /\ \A p \in A!ToSet(doc["server"][i].packs) : A!GuardsResolve(p.guards)
            /\ ~A!Clash(i) /\ routes' = routes \cup A!Mounted(i)
       /\ doc["server"][i].kind # "http" => routes' = routes  BY <1>6 DEF ServerStep, GoesOn, Building
 <2>2. PICK k \in 0..n : todo = (k+1)..n /\ bound = 1..k /\ Built(k)  BY <2>1 DEF ServerInv
 <2>3. k < n /\ i = k+1 /\ todo' = (k+2)..n /\ k \in Nat  BY <2>1, <2>2, <1>n, FirstLeft
 <2>4. k+1 \in 0..n /\ todo' = ((k+1)+1)..n /\ bound' = 1..(k+1)  BY <1>n, <2>1, <2>2, <2>3
 <2>5. Built(k+1)'  BY <2>1, <2>2, <2>3, <1>0, BuiltMore
 <2>6. Alive /\ Place[stage] > Place["endpoint"] /\ ~(Place[stage] < Place["server"])
   BY <2>1, PlaceIsOrder DEF Alive
 <2>7. \A r \in routes' : Backed(r)
  <3>1. \A r \in routes : Backed(r)  BY DEF ServerInv
  <3>2. ASSUME doc["server"][i].kind = "http", NEW r \in A!Mounted(i) PROVE Backed(r)
    BY <3>2, <2>1, <2>6, <1>0, MountsBacked
  <3> QED  BY <3>1, <3>2, <2>1
 <2> QED  BY <2>1, <2>4, <2>5, <2>6, <2>7, <1>0 DEF ServerInv, Alive
<1>7. ASSUME NEW e \in todo, AnnounceStep(e) \/ SkipStep(e) PROVE ServerInv'
 <2>1. UNCHANGED <<stage, result, routes, bound, app>> /\ stage = "registry" /\ Alive
   BY <1>7 DEF AnnounceStep, SkipStep, GoesOn, Building, Alive
 <2>2. Built(n) => Built(n)'  BY <2>1, <1>0, BuiltStill
 <2>3. ~(Place[stage] < Place["server"])  BY <2>1, PlaceIsOrder
 <2> QED  BY <2>1, <2>2, <2>3, <1>0 DEF ServerInv, Alive
<1>8. CASE AppStep
 <2>1. UNCHANGED <<stage, result, todo, routes>>  BY <1>8, AppStill
 <2>2. /\ bound' = bound \/ ~(app \in {"idle", "serving"})
       /\ bound' \subseteq bound
       /\ app' \in {"idle", "serving"} => app \in {"idle", "serving"}
   BY <1>8 DEF AppStep, A!Run, A!Arrive, A!Complete, A!Trigger, A!Shutdown, A!Drained, A!DrainTimeout, A!BeginHooks,
      A!CloseScripts, A!Deregister, A!StopServers, A!DropHandle, A!Lapse, A!appVars
 <2>3. \A k : Built(k) => Built(k)'  BY <2>1, <1>0, BuiltStill
 <2>4. (app' \in {"idle", "serving"} /\ Alive /\ stage = "registry") => bound' = 1..n  BY <2>2 DEF ServerInv
 <2>5. /\ Place[stage] < Place["server"] => bound' = {}
       /\ ~Alive => bound' = {}  BY <2>2 DEF ServerInv
 <2>6. stage = "server" /\ result = "building" => bound' = bound  BY <2>2 DEF StageInv
 <2> QED  BY <2>1, <2>3, <2>4, <2>5, <2>6, <1>0 DEF ServerInv, Alive
<1>9. CASE UNCHANGED A!assemblyVars
 <2>1. UNCHANGED <<stage, result, todo, routes, bound, app>>  BY <1>9, VarsStill
 <2>3. \A k : Built(k) => Built(k)'  BY <2>1, <1>0, BuiltStill
 <2> QED  BY <2>1, <2>3, <1>0 DEF ServerInv, Alive
<1> QED  BY <1>1, <1>2, <1>3, <1>4, <1>5, <1>6, <1>7, <1>8, <1>9 DEF AnyStep, Steps

-----------------------------------------------------------------------------
LEMMA AnnounceKept ==
  ASSUME StageInv, AnnounceInv, AnyStep
  PROVE  AnnounceInv'
<1>1. CASE FailStep  BY <1>1 DEF FailStep, Building, AnnounceInv, Alive
<1>2. CASE NextStep \/ FinishStep
 <2>1. /\ UNCHANGED <<announced, handle, faults>> /\ Alive /\ Alive'
       /\ stage # "registry" \/ UNCHANGED <<stage, todo>>
   BY <1>2 DEF NextStep, FinishStep, GoesOn, Building, Alive
 <2> QED  BY <2>1 DEF AnnounceInv
<1>3. ASSUME NEW e \in todo, NEW x, ResolveStep(e, x) PROVE AnnounceInv'
  BY <1>3 DEF ResolveStep, Building, AnnounceInv, Alive
<1>4. ASSUME NEW i, SourceStep(i) \/ EndpointStep(i) \/ ServerStep(i) PROVE AnnounceInv'
  BY <1>4 DEF SourceStep, EndpointStep, ServerStep, GoesOn, Building, AnnounceInv, Alive
<1>5. ASSUME NEW e \in todo, AnnounceStep(e) PROVE AnnounceInv'
 <2>1. /\ stage = "registry" /\ result = "building" /\ UNCHANGED <<stage, result, faults>>
       /\ todo' = todo \ {e} /\ announced' = "live" /\ handle' = "held"  BY <1>5 DEF AnnounceStep, Building
 <2>2. todo' = {}  BY <2>1, DocumentAssumption DEF StageInv
 <2> QED  BY <2>1, <2>2 DEF AnnounceInv, Alive
<1>6. ASSUME NEW e \in todo, SkipStep(e) PROVE AnnounceInv'
  BY <1>6 DEF SkipStep, GoesOn, Building, AnnounceInv, Alive
<1>7. CASE AppStep
 <2>1. UNCHANGED <<stage, todo, result>>  BY <1>7, AppStill
 <2>2. /\ announced' = "live" => announced = "live"
       /\ announced = "no" => announced' = "no"
       /\ handle' = "none" <=> handle = "none"
       /\ "landed" \in faults <=> "landed" \in faults'
   BY <1>7 DEF AppStep, A!Run, A!Arrive, A!Complete, A!Trigger, A!Shutdown, A!Drained, A!DrainTimeout, A!BeginHooks,
      A!CloseScripts, A!Deregister, A!StopServers, A!DropHandle, A!Lapse, A!appVars
 <2> QED  BY <2>1, <2>2 DEF AnnounceInv, Alive
<1>8. CASE UNCHANGED A!assemblyVars  BY <1>8, VarsStill DEF AnnounceInv, Alive
<1> QED  BY <1>1, <1>2, <1>3, <1>4, <1>5, <1>6, <1>7, <1>8 DEF AnyStep, Steps

LEMMA ScriptKept ==
  ASSUME StageInv, ScriptInv, AnyStep
  PROVE  ScriptInv'
<1>0. stage \in DOMAIN Place /\ doc' = doc  BY EnginesGrow DEF StageInv
<1> DEFINE Scripted == {e[1] : e \in doc["script"]}
<1>s. scripts = [s \in Scripted |-> scripts[s]]  BY DEF ScriptInv
<1>1. CASE FailStep  BY <1>1, <1>0 DEF FailStep, Building, ScriptInv, Alive
<1>2. CASE NextStep
 <2>1. stage' \in DOMAIN Place /\ Place[stage'] = Place[stage] + 1  BY <1>0, <1>2, NextInPlace DEF NextStep
 <2>2. UNCHANGED <<result, scripts, app>> /\ todo = {} /\ todo' = A!Entries(stage')  BY <1>2 DEF NextStep, Building
 <2>3. stage' = "script" => todo' = doc["script"]  BY <2>2 DEF A!Entries
 <2>4. Place[stage'] > Place["script"] => Place[stage] > Place["script"] \/ stage = "script"
   BY <2>1, <1>0, PlaceIsOrder
 <2> QED  BY <2>2, <2>3, <2>4, <1>0 DEF ScriptInv, Alive
<1>3. CASE FinishStep
 <2>1. UNCHANGED <<stage, todo, scripts, app>> /\ Alive  BY <1>3 DEF FinishStep, GoesOn, Building, Alive
 <2> QED  BY <2>1, <1>0 DEF ScriptInv
<1>4. ASSUME NEW e \in todo, NEW x, ResolveStep(e, x) PROVE ScriptInv'
 <2>1. UNCHANGED <<stage, result, app>> /\ todo' = todo \ {e} /\ result = "building"
   BY <1>4 DEF ResolveStep, Building
 <2>2. CASE stage # "script"
  <3>1. scripts' = scripts  BY <1>4, <2>2 DEF ResolveStep
  <3> QED  BY <2>1, <2>2, <3>1, <1>0 DEF ScriptInv, Alive
 <2>3. CASE stage = "script"
  <3>1. scripts' = [scripts EXCEPT ![e[1]] = "ready"]  BY <1>4, <2>3 DEF ResolveStep
  <3>2. scripts' = [s \in Scripted |-> scripts'[s]]  BY <3>1, <1>s
  <3>3. \A s \in Scripted : scripts[s] = "ready" \/ s = e[1] => scripts'[s] = "ready"  BY <3>1, <1>s
  <3>4. \A f \in doc["script"] : f[1] \in Scripted  OBVIOUS
  <3>5. \A f \in doc["script"] :
          (Place[stage'] > Place["script"] \/ (stage' = "script" /\ f \notin todo')) => scripts'[f[1]] = "ready"
    BY <2>1, <2>3, <3>3, <3>4, PlaceIsOrder, <1>0 DEF ScriptInv, Alive, StageInv
  <3> QED  BY <3>2, <3>5, <1>0 DEF ScriptInv
 <2> QED  BY <2>2, <2>3
<1>5. ASSUME NEW i, SourceStep(i) \/ EndpointStep(i) \/ ServerStep(i) PROVE ScriptInv'
 <2>1. UNCHANGED <<stage, result, scripts, app>> /\ stage # "script"
   BY <1>5 DEF SourceStep, EndpointStep, ServerStep, GoesOn, Building
 <2> QED  BY <2>1, <1>0 DEF ScriptInv, Alive
<1>6. ASSUME NEW e \in todo, AnnounceStep(e) \/ SkipStep(e) PROVE ScriptInv'
 <2>1. UNCHANGED <<stage, result, scripts, app>> /\ stage # "script"
   BY <1>6 DEF AnnounceStep, SkipStep, GoesOn, Building
 <2> QED  BY <2>1, <1>0 DEF ScriptInv, Alive
<1>7. CASE AppStep
 <2>1. UNCHANGED <<stage, todo, result>>  BY <1>7, AppStill
 <2>2. CASE A!CloseScripts
  <3>1. app = "hooks" /\ app' = app /\ scripts' = [s \in DOMAIN scripts |-> "closed"]
    BY <2>2 DEF A!CloseScripts, A!appVars
  <3>2. scripts' = [s \in Scripted |-> scripts'[s]]  BY <3>1, <1>s
  <3> QED  BY <3>1, <3>2, <1>0 DEF ScriptInv
 <2>3. CASE ~A!CloseScripts
  <3>1. scripts' = scripts /\ (app' \in {"idle", "serving", "draining"} => app \in {"idle", "serving", "draining"})
    BY <1>7, <2>3 DEF AppStep, A!Run, A!Arrive, A!Complete, A!Trigger, A!Shutdown, A!Drained, A!DrainTimeout, A!BeginHooks,
       A!Deregister, A!StopServers, A!DropHandle, A!Lapse, A!appVars
  <3> QED  BY <2>1, <3>1, <1>0 DEF ScriptInv, Alive
 <2> QED  BY <2>2, <2>3
<1>8. CASE UNCHANGED A!assemblyVars  BY <1>8, VarsStill, <1>0 DEF ScriptInv, Alive
<1> QED  BY <1>1, <1>2, <1>3, <1>4, <1>5, <1>6, <1>7, <1>8 DEF AnyStep, Steps

LEMMA RequestKept ==
  ASSUME StageInv, RequestInv, AnyStep
  PROVE  RequestInv'
<1>1. CASE FailStep
 <2>1. /\ app \notin {"serving", "draining"} /\ UNCHANGED <<requests, app>>
       /\ "cut" \in faults => "cut" \in faults'  BY <1>1 DEF FailStep, Building, StageInv
 <2> QED  BY <2>1 DEF RequestInv
<1>2. CASE NextStep \/ FinishStep  BY <1>2 DEF NextStep, FinishStep, GoesOn, Building, RequestInv
<1>3. ASSUME NEW e \in todo, NEW x, ResolveStep(e, x) PROVE RequestInv'
  BY <1>3 DEF ResolveStep, Building, RequestInv
<1>4. ASSUME NEW i, SourceStep(i) \/ EndpointStep(i) \/ ServerStep(i) PROVE RequestInv'
 <2>1. UNCHANGED <<requests, app, faults>> /\ bound \subseteq bound'
   BY <1>4 DEF SourceStep, EndpointStep, ServerStep, GoesOn, Building
 <2> QED  BY <2>1 DEF RequestInv
<1>5. ASSUME NEW e \in todo, AnnounceStep(e) \/ SkipStep(e) PROVE RequestInv'
  BY <1>5 DEF AnnounceStep, SkipStep, GoesOn, Building, RequestInv
<1>6. CASE A!Run \/ A!Complete \/ A!Trigger \/ A!DropHandle \/ A!Lapse
 <2>1. /\ requests' \subseteq requests /\ UNCHANGED <<bound, faults>>
       /\ app' = app \/ app' \in {"serving", "draining"}
   BY <1>6 DEF A!Run, A!Complete, A!Trigger, A!DropHandle, A!Lapse, A!appVars
 <2> QED  BY <2>1 DEF RequestInv
<1>7. CASE A!Arrive
 <2>1. PICK i \in bound : requests' = requests \cup {<<i, served>>} /\ app = "serving" /\ UNCHANGED <<bound, app, faults>>
   BY <1>7 DEF A!Arrive
 <2> QED  BY <2>1 DEF RequestInv
<1>8. CASE A!Drained
 <2>1. PICK i \in bound : /\ \A r \in requests : r[1] # i
                          /\ bound' = bound \ {i} /\ UNCHANGED <<requests, app, faults>>  BY <1>8 DEF A!Drained
 <2> QED  BY <2>1 DEF RequestInv
<1>9. CASE A!DrainTimeout  BY <1>9 DEF A!DrainTimeout, RequestInv
<1>10. CASE A!BeginHooks  BY <1>10 DEF A!BeginHooks, RequestInv
<1>11. CASE A!CloseScripts \/ A!Deregister \/ A!StopServers
 <2>1. /\ app = "hooks" /\ UNCHANGED <<requests, bound>> /\ ("cut" \in faults => "cut" \in faults')
   BY <1>11 DEF A!CloseScripts, A!Deregister, A!StopServers, A!appVars
 <2> QED  BY <2>1 DEF RequestInv
<1>12. CASE UNCHANGED A!assemblyVars  BY <1>12, VarsStill DEF RequestInv
<1> QED
  BY <1>1, <1>2, <1>3, <1>4, <1>5, <1>6, <1>7, <1>8, <1>9, <1>10, <1>11, <1>12 DEF AnyStep, Steps, AppStep, A!Shutdown

LEMMA SameLists ==
  ASSUME NEW T, NEW s \in Seq(T), NEW t \in Seq(T), Len(s) = Len(t), \A i \in 1..Len(s) : s[i] = t[i]
  PROVE  s = t
OBVIOUS

LEMMA LastAdded ==
  ASSUME NEW T, NEW s \in Seq(T), NEW e \in T, NEW t \in Seq(T),
         Len(t) = Len(s) + 1, t[Len(s) + 1] = e, \A i \in 1..Len(s) : t[i] = s[i]
  PROVE  Append(s, e) = t
<1>1. Append(s, e) \in Seq(T) /\ Len(Append(s, e)) = Len(s) + 1  OBVIOUS
<1>2. \A i \in 1..(Len(s) + 1) : Append(s, e)[i] = t[i]  OBVIOUS
<1> QED  BY <1>1, <1>2, SameLists

LEMMA PairOf ==
  ASSUME NEW T, NEW x \in T, NEW y \in T
  PROVE  Append(<<x>>, y) = <<x, y>>
<1>1. <<x>> \in Seq(T) /\ <<x, y>> \in Seq(T)  OBVIOUS
<1>2. /\ Len(<<x, y>>) = Len(<<x>>) + 1 /\ <<x, y>>[Len(<<x>>) + 1] = y
      /\ \A i \in 1..Len(<<x>>) : <<x, y>>[i] = <<x>>[i]  OBVIOUS
<1> QED  BY <1>1, <1>2, LastAdded, Zenon

LEMMA HookLists ==
  /\ Append(<<>>, "close_scripts") = <<"close_scripts">> /\ Append(<<>>, "deregister") = <<"deregister">>
  /\ Append(<<"close_scripts">>, "deregister") = <<"close_scripts", "deregister">>
  /\ Head(<<"close_scripts">>) = "close_scripts" /\ Head(<<"deregister">>) = "deregister"
  /\ Head(<<"close_scripts", "deregister">>) = "close_scripts"
  /\ Tail(<<"close_scripts">>) = <<>> /\ Tail(<<"deregister">>) = <<>>
  /\ Tail(<<"close_scripts", "deregister">>) = <<"deregister">>
  /\ <<"close_scripts">> # <<>> /\ <<"deregister">> # <<>> /\ <<"close_scripts", "deregister">> # <<>>
  /\ <<"close_scripts">> # <<"deregister">> /\ <<"close_scripts">> # <<"close_scripts", "deregister">>
  /\ <<"deregister">> # <<"close_scripts", "deregister">>
<1>1. Append(<<>>, "close_scripts") = <<"close_scripts">> /\ Append(<<>>, "deregister") = <<"deregister">>  OBVIOUS
<1>2. Append(<<"close_scripts">>, "deregister") = <<"close_scripts", "deregister">>
 <2>1. "close_scripts" \in {"close_scripts", "deregister"} /\ "deregister" \in {"close_scripts", "deregister"}
   OBVIOUS
 <2> QED  BY <2>1, PairOf
<1>3. /\ Head(<<"close_scripts">>) = "close_scripts" /\ Head(<<"deregister">>) = "deregister"
      /\ Head(<<"close_scripts", "deregister">>) = "close_scripts"  OBVIOUS
<1>4. Tail(<<"close_scripts">>) = <<>> /\ Tail(<<"deregister">>) = <<>>  OBVIOUS
<1>5. Tail(<<"close_scripts", "deregister">>) = <<"deregister">>  OBVIOUS
<1>6. /\ <<"close_scripts">> # <<>> /\ <<"deregister">> # <<>> /\ <<"close_scripts", "deregister">> # <<>>
      /\ <<"close_scripts">> # <<"deregister">> /\ <<"close_scripts">> # <<"close_scripts", "deregister">>
      /\ <<"deregister">> # <<"close_scripts", "deregister">>  OBVIOUS
<1> QED  BY <1>1, <1>2, <1>3, <1>4, <1>5, <1>6

LEMMA HookKept ==
  ASSUME StageInv, AnnounceInv, ScriptInv, HookInv, AnyStep
  PROVE  HookInv'
<1>0. stage \in DOMAIN Place /\ doc' = doc  BY EnginesGrow DEF StageInv
<1>a. result = "building" => app = "idle"  BY DEF StageInv
<1>1. CASE FailStep  BY <1>1, <1>0, <1>a DEF FailStep, Building, HookInv, Alive
<1>2. CASE NextStep
 <2>1. stage' \in DOMAIN Place /\ Place[stage'] = Place[stage] + 1  BY <1>0, <1>2, NextInPlace DEF NextStep
 <2>2. UNCHANGED <<result, app, handle>> /\ stage # "registry" /\ app = "idle" /\ Alive
   BY <1>2, <1>a DEF NextStep, Building, Alive
 <2>3. handle = "none"  BY <2>2 DEF AnnounceInv
 <2>4. CASE stage = "script"
  <3>1. hooks = <<>>  BY <2>4, PlaceIsOrder DEF HookInv
  <3>2. hooks' = IF doc["script"] # {} THEN <<"close_scripts">> ELSE <<>>
    BY <3>1, <2>4, <1>2, HookLists DEF NextStep
  <3>3. hooks' = HooksOf' /\ ~(Place[stage'] <= Place["script"])
    BY <3>2, <2>1, <2>2, <2>3, <2>4, <1>0, PlaceIsOrder DEF HooksOf
  <3> QED  BY <3>3, <2>2 DEF HookInv
 <2>5. CASE stage # "script"
  <3>1. hooks' = hooks /\ HooksOf' = HooksOf  BY <2>2, <2>5, <1>0, <1>2 DEF NextStep, HooksOf
  <3>2. /\ Place[stage'] <= Place["script"] => Place[stage] <= Place["script"]
        /\ Place[stage'] > Place["script"] => Place[stage] > Place["script"]  BY <2>1, <2>5, <1>0, PlaceIsOrder
  <3> QED  BY <3>1, <3>2, <2>2 DEF HookInv, Alive
 <2> QED  BY <2>4, <2>5
<1>3. CASE FinishStep
 <2>1. UNCHANGED <<stage, hooks, app, handle>> /\ Alive /\ app = "idle"
   BY <1>3, <1>a DEF FinishStep, GoesOn, Building, Alive
 <2> QED  BY <2>1, <1>0 DEF HookInv, HooksOf
<1>4. ASSUME NEW e \in todo, NEW x, ResolveStep(e, x) PROVE HookInv'
 <2>1. UNCHANGED <<stage, result, hooks, app, handle>> /\ app = "idle"  BY <1>4, <1>a DEF ResolveStep, Building
 <2> QED  BY <2>1, <1>0 DEF HookInv, HooksOf, Alive
<1>5. ASSUME NEW i, SourceStep(i) \/ EndpointStep(i) \/ ServerStep(i) PROVE HookInv'
 <2>1. UNCHANGED <<stage, result, hooks, app, handle>> /\ app = "idle"
   BY <1>5, <1>a DEF SourceStep, EndpointStep, ServerStep, GoesOn, Building
 <2> QED  BY <2>1, <1>0 DEF HookInv, HooksOf, Alive
<1>6. ASSUME NEW e \in todo, AnnounceStep(e) PROVE HookInv'
 <2>1. /\ stage = "registry" /\ UNCHANGED <<stage, result, app>> /\ app = "idle" /\ Alive
       /\ handle' = "held" /\ hooks' = Append(hooks, "deregister")  BY <1>6, <1>a DEF AnnounceStep, Building, Alive
 <2>2. handle = "none"  BY <1>6 DEF AnnounceInv
 <2>3. hooks = IF doc["script"] # {} THEN <<"close_scripts">> ELSE <<>>
   BY <2>1, <2>2, PlaceIsOrder DEF HookInv, HooksOf
 <2>4. hooks' = IF doc["script"] # {} THEN <<"close_scripts", "deregister">> ELSE <<"deregister">>
   BY <2>1, <2>3, HookLists
 <2>5. hooks' = HooksOf'  BY <2>1, <2>4, <1>0 DEF HooksOf
 <2>6. ~(Place[stage'] <= Place["script"]) /\ app' = "idle"  BY <2>1, PlaceIsOrder
 <2> QED  BY <2>5, <2>6 DEF HookInv
<1>7. ASSUME NEW e \in todo, SkipStep(e) PROVE HookInv'
 <2>1. UNCHANGED <<stage, result, hooks, app, handle>> /\ app = "idle"
   BY <1>7, <1>a DEF SkipStep, GoesOn, Building
 <2> QED  BY <2>1, <1>0 DEF HookInv, HooksOf, Alive
<1>8. CASE A!Run \/ A!Arrive \/ A!Complete \/ A!Trigger \/ A!Drained \/ A!DrainTimeout
 <2>1. UNCHANGED <<stage, result, hooks, handle>>
   BY <1>8 DEF A!Run, A!Arrive, A!Complete, A!Trigger, A!Drained, A!DrainTimeout, A!builtVars
 <2>2. app \in {"idle", "serving", "draining"} \/ UNCHANGED <<app, scripts, announced, faults>>
   BY <1>8 DEF A!Run, A!Arrive, A!Complete, A!Trigger, A!Drained, A!DrainTimeout, A!appVars
 <2>3. app \in {"idle", "serving", "draining"} => app' \in {"idle", "serving", "draining"}
   BY <1>8 DEF A!Run, A!Arrive, A!Complete, A!Trigger, A!Drained, A!DrainTimeout, A!appVars
 <2> QED  BY <2>1, <2>2, <2>3, <1>0 DEF HookInv, HooksOf, Alive, ClosedAll, Left
<1>9. CASE A!BeginHooks
 <2>1. /\ UNCHANGED <<stage, result, hooks, handle, scripts, announced, faults>> /\ app = "draining" /\ app' = "hooks"
   BY <1>9 DEF A!BeginHooks, A!builtVars
 <2>2. stage = "registry" /\ result = "ready" /\ Alive  BY <2>1 DEF StageInv, Alive
 <2>3. hooks = HooksOf  BY <2>1, <2>2, PlaceIsOrder DEF HookInv
 <2>4. doc["script"] = {} => ClosedAll  BY DEF ScriptInv, ClosedAll
 <2>5. handle = "none" => Left  BY <2>2 DEF AnnounceInv, Left
 <2>6. /\ hooks \in {<<>>, <<"close_scripts">>, <<"deregister">>, <<"close_scripts", "deregister">>}
       /\ hooks \in {<<>>, <<"deregister">>} => ClosedAll
       /\ hooks \in {<<>>, <<"close_scripts">>} => Left  BY <2>3, <2>4, <2>5, HookLists DEF HooksOf
 <2>7. ~(Place[stage] <= Place["script"])  BY <2>2, PlaceIsOrder
 <2>8. (ClosedAll => ClosedAll') /\ (Left => Left')  BY <2>1 DEF ClosedAll, Left
 <2> QED  BY <2>1, <2>6, <2>7, <2>8 DEF HookInv
<1>10. CASE A!CloseScripts
 <2>1. /\ UNCHANGED <<stage, result, announced, faults, app>> /\ app = "hooks"
       /\ hooks # <<>> /\ Head(hooks) = "close_scripts" /\ hooks' = Tail(hooks)
       /\ scripts' = [s \in DOMAIN scripts |-> "closed"]  BY <1>10 DEF A!CloseScripts, A!appVars
 <2>2. hooks \in {<<>>, <<"close_scripts">>, <<"deregister">>, <<"close_scripts", "deregister">>}
   BY <2>1 DEF HookInv
 <2>3. \/ hooks = <<"close_scripts">> /\ hooks' = <<>>
       \/ hooks = <<"close_scripts", "deregister">> /\ hooks' = <<"deregister">>  BY <2>1, <2>2, HookLists
 <2>4. ClosedAll' /\ Left' = Left  BY <2>1 DEF ClosedAll, Left
 <2>5. hooks' \in {<<>>, <<"close_scripts">>} => Left'  BY <2>1, <2>3, <2>4, HookLists DEF HookInv
 <2>6. ~(Place[stage] <= Place["script"])  BY <2>1, PlaceIsOrder DEF StageInv
 <2> QED  BY <2>1, <2>3, <2>4, <2>5, <2>6 DEF HookInv
<1>11. CASE A!Deregister
 <2>1. /\ UNCHANGED <<stage, result, scripts, app>> /\ app = "hooks"
       /\ hooks # <<>> /\ Head(hooks) = "deregister" /\ hooks' = Tail(hooks)
       /\ announced' # "live" \/ "kept" \in faults'  BY <1>11 DEF A!Deregister, A!appVars
 <2>2. hooks \in {<<>>, <<"close_scripts">>, <<"deregister">>, <<"close_scripts", "deregister">>}
   BY <2>1 DEF HookInv
 <2>3. hooks = <<"deregister">> /\ hooks' = <<>>  BY <2>1, <2>2, HookLists
 <2>4. ClosedAll' /\ Left'  BY <2>1, <2>3 DEF HookInv, ClosedAll, Left
 <2>6. ~(Place[stage] <= Place["script"])  BY <2>1, PlaceIsOrder DEF StageInv
 <2> QED  BY <2>1, <2>3, <2>4, <2>6 DEF HookInv
<1>12. CASE A!StopServers
 <2>1. UNCHANGED <<stage, result, hooks, scripts, announced, faults>> /\ app = "hooks" /\ app' = "done" /\ hooks = <<>>
   BY <1>12 DEF A!StopServers, A!builtVars
 <2>2. ClosedAll /\ Left /\ (ClosedAll => ClosedAll') /\ (Left => Left')  BY <2>1 DEF HookInv, ClosedAll, Left
 <2> QED  BY <2>1, <2>2 DEF HookInv
<1>13. CASE A!DropHandle \/ A!Lapse
 <2>1. /\ UNCHANGED <<stage, result, hooks, scripts, app, faults>>
       /\ handle' = "none" <=> handle = "none"
       /\ announced' = announced \/ announced' = "lapsed"
   BY <1>13 DEF A!DropHandle, A!Lapse, A!builtVars, A!appVars
 <2>2. HooksOf' = HooksOf /\ ClosedAll' = ClosedAll /\ (Left => Left')  BY <2>1, <1>0 DEF HooksOf, ClosedAll, Left
 <2> QED  BY <2>1, <2>2 DEF HookInv, Alive
<1>14. CASE UNCHANGED A!assemblyVars  BY <1>14, VarsStill, <1>0 DEF HookInv, HooksOf, Alive, ClosedAll, Left
<1> QED
  BY <1>1, <1>2, <1>3, <1>4, <1>5, <1>6, <1>7, <1>8, <1>9, <1>10, <1>11, <1>12, <1>13, <1>14 DEF AnyStep, Steps, AppStep, A!Shutdown

-----------------------------------------------------------------------------
(* Counting what a server mounts.                                          *)
LEMMA CountsAlike == \A S : A!Cardinality(S) = Cardinality(S)
BY DEF A!Cardinality, Cardinality

LEMMA ListCount ==
  ASSUME NEW n \in Nat, NEW f, f = [j \in 1..n |-> f[j]],
         NEW X, X = {f[j] : j \in 1..n}
  PROVE  IsFiniteSet(X) /\ Cardinality(X) \in Nat /\ Cardinality(X) <= n
<1>1. f \in Surjection(1..n, X)  BY DEF Surjection
<1>2. IsFiniteSet(1..n) /\ Cardinality(1..n) = n  BY FS_Interval
<1> QED  BY <1>1, <1>2, FS_Surjection, FS_CardinalityType

LEMMA PacksCount ==
  ASSUME doc \in Docs, NEW i \in DOMAIN doc["server"]
  PROVE  /\ Len(doc["server"][i].packs) \in Nat
         /\ IsFiniteSet(A!Packs(i)) /\ Cardinality(A!Packs(i)) \in Nat
         /\ Cardinality(A!Packs(i)) <= Len(doc["server"][i].packs)
<1> DEFINE l == doc["server"][i].packs
           f == [j \in 1..Len(l) |-> [server |-> i, name |-> l[j].name, guards |-> A!Wrapped(l[j].guards)]]
<1>1. IsList(l)  BY DocumentAssumption
<1>2. Len(l) \in Nat /\ DOMAIN l = 1..Len(l)  BY <1>1 DEF IsList
<1>3. A!Packs(i) = {f[j] : j \in 1..Len(l)}  BY <1>2 DEF A!Packs, A!ToSet
<1>4. f = [j \in 1..Len(l) |-> f[j]]  OBVIOUS
<1> HIDE DEF f
<1> QED  BY <1>2, <1>3, <1>4, ListCount

LEMMA NestsCount ==
  ASSUME doc \in Docs, NEW i
  PROVE  /\ Len(doc["endpoint"]) \in Nat
         /\ IsFiniteSet(A!Nests(i)) /\ Cardinality(A!Nests(i)) \in Nat
         /\ Cardinality(A!Nests(i)) <= Len(doc["endpoint"])
<1> DEFINE l == doc["endpoint"]
           f == [j \in 1..Len(l) |-> [server |-> i, name |-> l[j].nest, guards |-> A!Wrapped(l[j].guards)]]
<1>2. Len(l) \in Nat /\ DOMAIN l = 1..Len(l)  BY ListsAre
<1>3. A!Nests(i) = {f[j] : j \in 1..Len(l)}  BY <1>2 DEF A!Nests, A!ToSet
<1>4. f = [j \in 1..Len(l) |-> f[j]]  OBVIOUS
<1> HIDE DEF f
<1> QED  BY <1>2, <1>3, <1>4, ListCount

LEMMA MountsFinite ==
  ASSUME NEW i
  PROVE  IsFiniteSet(A!Mounts(i)) /\ Cardinality(A!Mounts(i)) \in Nat
<1> DEFINE at(n) == [server |-> i, name |-> n, guards |-> A!Open]
           f == [j \in 1..3 |-> IF j = 1 THEN at("/healthz") ELSE IF j = 2 THEN at("/readyz") ELSE at("/metrics")]
           X == {f[j] : j \in 1..3}
<1>1. f = [j \in 1..3 |-> f[j]]  OBVIOUS
<1>2. A!Mounts(i) \subseteq X
 <2>1. \A r \in A!Mounts(i) : r = at("/healthz") \/ r = at("/readyz") \/ r = at("/metrics")
   BY DEF A!Mounts, A!Probes, A!Scrape
 <2>2. f[1] = at("/healthz") /\ f[2] = at("/readyz") /\ f[3] = at("/metrics")  OBVIOUS
 <2> HIDE DEF f, at
 <2> QED  BY <2>1, <2>2
<1> HIDE DEF f
<1>3. IsFiniteSet(X)  BY <1>1, ListCount
<1> QED  BY <1>2, <1>3, FS_Subset, FS_CardinalityType

LEMMA MountedCount ==
  ASSUME doc \in Docs, NEW i \in DOMAIN doc["server"], ~A!Clash(i)
  PROVE  A!Cardinality(A!Mounted(i) \ A!Mounts(i)) = Len(doc["server"][i].packs) + Len(doc["endpoint"])
<1> DEFINE packs == Len(doc["server"][i].packs)
           nests == Len(doc["endpoint"])
           M == A!Mounted(i)
           D == A!Mounts(i)
           X == M \ D
           PN == A!Packs(i) \cup A!Nests(i)
           names == {r.name : r \in M}
           name == [r \in M |-> r.name]
<1>1. packs \in Nat /\ nests \in Nat /\ IsFiniteSet(D) /\ Cardinality(D) \in Nat
  BY PacksCount, NestsCount, MountsFinite
<1>2. IsFiniteSet(PN) /\ Cardinality(PN) \in Nat /\ Cardinality(PN) <= packs + nests
 <2>1. /\ IsFiniteSet(A!Packs(i)) /\ Cardinality(A!Packs(i)) \in Nat /\ Cardinality(A!Packs(i)) <= packs
       /\ IsFiniteSet(A!Nests(i)) /\ Cardinality(A!Nests(i)) \in Nat /\ Cardinality(A!Nests(i)) <= nests
   BY PacksCount, NestsCount
 <2>2. /\ IsFiniteSet(PN)
       /\ Cardinality(PN) = Cardinality(A!Packs(i)) + Cardinality(A!Nests(i)) - Cardinality(A!Packs(i) \cap A!Nests(i))
   BY <2>1, FS_Union
 <2>3. Cardinality(A!Packs(i) \cap A!Nests(i)) \in Nat  BY <2>1, FS_Subset, FS_CardinalityType
 <2>4. Cardinality(PN) \in Nat  BY <2>2, FS_CardinalityType
 <2> HIDE DEF PN, packs, nests
 <2> QED  BY <2>1, <2>2, <2>3, <2>4, <1>1
<1>3. M = PN \cup D /\ IsFiniteSet(M)  BY <1>1, <1>2, FS_Union DEF A!Mounted
<1>4. Cardinality(M) = Cardinality(X) + Cardinality(D) /\ Cardinality(X) \in Nat /\ Cardinality(M) \in Nat
 <2>1. Cardinality(M \cap D) = Cardinality(D)
  <3>1. M \cap D = D  BY <1>3
  <3> QED  BY <3>1, Zenon
 <2>2. IsFiniteSet(X) /\ Cardinality(X) = Cardinality(M) - Cardinality(D)
  <3>1. IsFiniteSet(X) /\ Cardinality(X) = Cardinality(M) - Cardinality(M \cap D)  BY <1>3, FS_Difference
  <3> QED  BY <3>1, <2>1, Zenon
 <2>3. Cardinality(X) \in Nat /\ Cardinality(M) \in Nat  BY <2>2, <1>3, FS_CardinalityType
 <2> HIDE DEF X, M, D
 <2> QED  BY <2>1, <2>2, <2>3, <1>1
<1>5. Cardinality(names) <= Cardinality(M) /\ Cardinality(names) \in Nat
 <2>1. name \in Surjection(M, names)  BY DEF Surjection
 <2> QED  BY <2>1, <1>3, FS_Surjection, FS_CardinalityType
<1>6. ~(Cardinality(names) < packs + nests + Cardinality(D))  BY CountsAlike, Zenon DEF A!Clash
<1>7. Cardinality(X) <= Cardinality(PN)
 <2>1. X \subseteq PN  BY <1>3
 <2> QED  BY <2>1, <1>2, FS_Subset
<1> HIDE DEF packs, nests, M, D, X, PN, names, name
<1>8. Cardinality(X) = packs + nests  BY <1>1, <1>2, <1>4, <1>5, <1>6, <1>7
<1>9. A!Cardinality(X) = packs + nests  BY <1>8, CountsAlike
<1> QED  BY <1>9 DEF packs, nests, M, D, X

-----------------------------------------------------------------------------
AsmInv == /\ StageInv /\ SectionInv /\ SourceInv /\ EndpointInv /\ ServerInv
          /\ AnnounceInv /\ HookInv /\ ScriptInv /\ RequestInv

LEMMA AsmInit ==
  ASSUME A!AssemblyInit
  PROVE  AsmInv
<1>1. A!Order[1] = "storage"  BY DEF A!Order
<1>2. /\ doc \in Docs /\ stage = "storage" /\ todo = doc["storage"]
      /\ made = [engines |-> {}, seen |-> {}, sources |-> <<>>]
      /\ hooks = <<>> /\ bound = {} /\ routes = {} /\ result = "building"
      /\ scripts = [s \in {e[1] : e \in doc["script"]} |-> "closed"]
      /\ announced = "no" /\ handle = "none" /\ app = "idle" /\ requests = {} /\ faults = {}
  BY <1>1 DEF A!AssemblyInit
<1>3. StageInv  BY <1>2, PlaceIsOrder DEF StageInv
<1>4. SectionInv
 <2>1. \A s \in A!Sections : ~(Place[s] < Place[stage])  BY <1>2, SectionPlaces, PlaceIsOrder
 <2> QED  BY <1>2, <2>1 DEF SectionInv
<1>5. SourceInv /\ EndpointInv  BY <1>2, PlaceIsOrder DEF SourceInv, EndpointInv
<1>6. ServerInv  BY <1>2, PlaceIsOrder DEF ServerInv, Alive
<1>7. AnnounceInv /\ RequestInv  BY <1>2 DEF AnnounceInv, RequestInv
<1>8. HookInv  BY <1>2, PlaceIsOrder DEF HookInv
<1>9. ScriptInv  BY <1>2, PlaceIsOrder DEF ScriptInv
<1> QED  BY <1>3, <1>4, <1>5, <1>6, <1>7, <1>8, <1>9 DEF AsmInv

LEMMA AsmSteps ==
  ASSUME AsmInv, [MCNext]_allVars
  PROVE  AsmInv'
<1>1. AnyStep
 <2>1. CASE InAssembly(A!AssemblyNext)
  <3>1. A!Build \/ A!Abandon \/ AppStep  BY <2>1 DEF InAssembly, A!AssemblyNext, AppStep
  <3> QED  BY <3>1, BuildSteps DEF AsmInv, AnyStep
 <2>2. CASE UNCHANGED buildVars  BY <2>2 DEF buildVars, A!assemblyVars, AnyStep
 <2> QED  BY <2>1, <2>2 DEF MCNext, InEdge, InAuthn, InAuthz, InBinder, InCrud, allVars
<1> QED
  BY <1>1, StageKept, SectionKept, SourceKept, EndpointKept, ServerKept, AnnounceKept, HookKept, ScriptKept, RequestKept DEF AsmInv

LEMMA AsmHolds ==
  ASSUME AsmInv
  PROVE  AssemblyHolds
<1> USE DEF AsmInv
<1>1. A!MountedAsWritten
 <2>1. \A engines \in made.seen, s \in A!Sections : \A e \in doc[s] :
         {<<s, e[1]>>, <<IF s = "metrics" THEN "scrape" ELSE s, e[1]>>} \cap engines # {}
   BY DEF SectionInv, ResolvedIn
 <2>2. (made.seen # {} \/ result = "ready") => made.sources = doc["config"]
   BY PlaceIsOrder DEF SourceInv, StageInv, Alive
 <2>3. \A r \in {x \in routes : x \notin A!Mounts(x.server)} :
         LET entries == {p.guards : p \in {q \in A!ToSet(doc["server"][r.server].packs) : q.name = r.name}}
                        \cup {e.guards : e \in {x \in A!ToSet(doc["endpoint"]) : x.nest = r.name}}
         IN  \E g \in entries : /\ r.guards = [authn |-> g.authn, authz |-> g.authz]
                                /\ g.authn # None => <<"authn", g.authn>> \in made.engines
                                /\ g.authz # None => <<"authz", g.authz>> \in made.engines
  <3> SUFFICES ASSUME NEW r \in routes, r \notin A!Mounts(r.server)
               PROVE  LET entries == {p.guards : p \in {q \in A!ToSet(doc["server"][r.server].packs) : q.name = r.name}}
                                     \cup {e.guards : e \in {x \in A!ToSet(doc["endpoint"]) : x.nest = r.name}}
                      IN  \E g \in entries : /\ r.guards = [authn |-> g.authn, authz |-> g.authz]
                                             /\ g.authn # None => <<"authn", g.authn>> \in made.engines
                                             /\ g.authz # None => <<"authz", g.authz>> \in made.engines  OBVIOUS
  <3>1. Backed(r)  BY DEF ServerInv
  <3> QED  BY <3>1 DEF Backed, GuardsIn, A!Wrapped
 <2>4. result = "ready" =>
         \A i \in 1..Len(doc["server"]) : doc["server"][i].kind = "http" =>
           A!Cardinality({r \in routes : r.server = i /\ r \notin A!Mounts(i)})
             = Len(doc["server"][i].packs) + Len(doc["endpoint"])
  <3> SUFFICES ASSUME result = "ready", NEW i \in 1..Len(doc["server"]), doc["server"][i].kind = "http"
               PROVE  A!Cardinality({r \in routes : r.server = i /\ r \notin A!Mounts(i)})
                        = Len(doc["server"][i].packs) + Len(doc["endpoint"])  OBVIOUS
  <3>1. doc \in Docs /\ stage = "registry" /\ Alive  BY DEF StageInv, Alive
  <3>2. {r \in routes : r.server = i} = A!Mounted(i) /\ ~A!Clash(i)  BY <3>1 DEF ServerInv, Built
  <3>3. {r \in routes : r.server = i /\ r \notin A!Mounts(i)} = A!Mounted(i) \ A!Mounts(i)  BY <3>2
  <3>4. i \in DOMAIN doc["server"]  BY <3>1, ListsAre
  <3> QED  BY <3>1, <3>2, <3>3, <3>4, MountedCount
 <2> QED  BY <2>1, <2>2, <2>3, <2>4 DEF A!MountedAsWritten
<1>2. A!AnnouncedMeansBound
 <2>1. (announced = "live" /\ "landed" \notin faults /\ app \in {"idle", "serving"}) => bound = 1..Len(doc["server"])
   BY DEF AnnounceInv, ServerInv
 <2>2. result \in {"failed", "abandoned", "panicked"} => ~Alive  BY DEF Alive
 <2>3. ~Alive => bound = {} /\ (announced = "no" \/ "landed" \in faults)  BY DEF AnnounceInv, ServerInv
 <2> QED  BY <2>1, <2>2, <2>3 DEF A!AnnouncedMeansBound
<1>3. A!HooksFollowTheDrain
 <2>1. (result = "ready" /\ requests # {} /\ "cut" \notin faults) => \A s \in DOMAIN scripts : scripts[s] = "ready"
  <3> SUFFICES ASSUME result = "ready", requests # {}, "cut" \notin faults, NEW s \in DOMAIN scripts
               PROVE  scripts[s] = "ready"  OBVIOUS
  <3>1. app \in {"serving", "draining"}  BY DEF RequestInv
  <3>2. Alive /\ Place[stage] > Place["script"]  BY PlaceIsOrder DEF StageInv, Alive
  <3>3. s \in {e[1] : e \in doc["script"]}  BY DEF ScriptInv
  <3> QED  BY <3>1, <3>2, <3>3 DEF ScriptInv
 <2>2. app = "done" => /\ \A s \in DOMAIN scripts : scripts[s] = "closed"
                       /\ announced = "live" => "kept" \in faults  BY DEF HookInv, ClosedAll, Left
 <2> QED  BY <2>1, <2>2 DEF A!HooksFollowTheDrain
<1> QED  BY <1>1, <1>2, <1>3 DEF AssemblyHolds

(* AssemblyHolds for any documents whose lists are lists: what build()     *)
(* mounted is what the document says, behind its guards; what is announced *)
(* is bound; and the hooks of run() follow the drain (rushwind-bootstrap). *)
THEOREM AssemblyStands == MCSpec => []AssemblyHolds
<1>1. MCInit => AsmInv  BY AsmInit DEF MCInit
<1>2. AsmInv /\ [MCNext]_allVars => AsmInv'  BY AsmSteps
<1>3. AsmInv => AssemblyHolds  BY AsmHolds
<1> QED  BY <1>1, <1>2, <1>3, PTL DEF MCSpec
=============================================================================
