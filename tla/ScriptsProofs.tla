---------------------------- MODULE ScriptsProofs ----------------------------
(***************************************************************************)
(* The pools keep their accounts for any number of callers and any cap:    *)
(* every idle engine has exactly one permit behind it, an engine has one   *)
(* owner and is not lent once it ended, the engines never exceed the cap,  *)
(* and a release finds room.  The engines keep theirs for any callers,     *)
(* loops, versions and instances: a starlark script that ran stays, a      *)
(* cached load is fresh, a closed javascript engine is quiet, and a run    *)
(* of lua gets its own verdict.                                            *)
(***************************************************************************)
EXTENDS MCScripts, FiniteSetTheorems, SequenceTheorems, TLAPS

\* The line of the semaphore: each caller in it once, all of them waiting.
Line ==
  /\ \A i \in 1..Len(waiters) : pc[waiters[i]] = "waiting"
  /\ \A i, j \in 1..Len(waiters) : waiters[i] = waiters[j] => i = j

\* Whoever works with an engine, or returns one, holds one.
Holding ==
  \A c \in Callers :
    pc[c] \in {"using", "reinit", "release", "fit", "push"} => held[c] # <<>>

\* The live count covers the engines being built, so a rollback never underflows.
BuildersCounted == total >= Cardinality(At({"build"}))

PoolInv ==
  TypeOK /\ Line /\ (semClosed => waiters = <<>>) /\ Holding /\ BuildersCounted
    /\ PermitsMatchQueue

-----------------------------------------------------------------------------
(* How the size of a set of callers changes when one of them moves.        *)

LEMMA AtIsFinite ==
  ASSUME NEW f, NEW W
  PROVE  /\ IsFiniteSet({c \in Callers : f[c] \in W})
         /\ Cardinality({c \in Callers : f[c] \in W}) \in Nat  BY FS_Subset, FS_CardinalityType, PoolAssumption

LEMMA OneMoves ==
  ASSUME NEW f \in [Callers -> Places], NEW c \in Callers, NEW p \in Places, NEW W,
         NEW g, g = [f EXCEPT ![c] = p]
  PROVE  LET before == Cardinality({d \in Callers : f[d] \in W})
             after  == Cardinality({d \in Callers : g[d] \in W})
         IN  /\ before \in Nat
             /\ f[c] \in W /\ p \in W => after = before
             /\ f[c] \notin W /\ p \notin W => after = before
             /\ f[c] \in W /\ p \notin W => after = before - 1
             /\ f[c] \notin W /\ p \in W => after = before + 1
<1> DEFINE B == {d \in Callers : f[d] \in W}
           A == {d \in Callers : g[d] \in W}
<1>1. IsFiniteSet(B) /\ Cardinality(B) \in Nat  BY AtIsFinite
<1>2. p \in W => A = B \cup {c}  OBVIOUS
<1>3. p \notin W => A = B \ {c}  OBVIOUS
<1>4. f[c] \in W <=> c \in B  OBVIOUS
<1>5. /\ Cardinality(B \cup {c}) = IF c \in B THEN Cardinality(B) ELSE Cardinality(B) + 1
      /\ Cardinality(B \ {c}) = IF c \in B THEN Cardinality(B) - 1 ELSE Cardinality(B)
  BY <1>1, FS_AddElement, FS_RemoveElement
<1>6. QED  BY <1>1, <1>2, <1>3, <1>4, <1>5

-----------------------------------------------------------------------------
(* The line.                                                               *)

LEMMA WithoutOne ==
  ASSUME NEW s \in Seq(Callers), NEW c \in Callers,
         \A i, j \in 1..Len(s) : s[i] = s[j] => i = j
  PROVE  /\ Without(s, c) \in Seq(Callers)
         /\ \A i \in 1..Len(Without(s, c)) :
              Without(s, c)[i] # c /\ \E j \in 1..Len(s) : Without(s, c)[i] = s[j]
         /\ \A i, j \in 1..Len(Without(s, c)) :
              Without(s, c)[i] = Without(s, c)[j] => i = j
<1>1. CASE ~ \E i \in DOMAIN s : s[i] = c
 <2>1. Without(s, c) = s /\ DOMAIN s = 1..Len(s)  BY <1>1, LenProperties DEF Without
 <2>2. QED  BY <2>1, <1>1
<1>2. CASE \E i \in DOMAIN s : s[i] = c
 <2> DEFINE at == CHOOSE i \in DOMAIN s : s[i] = c
            n == Len(s)
            l == SubSeq(s, 1, at - 1)
            r == SubSeq(s, at + 1, n)
 <2>0. DOMAIN s = 1..n /\ n \in Nat  BY LenProperties
 <2>1. at \in 1..n /\ s[at] = c  BY <1>2, <2>0
 <2>2. Without(s, c) = l \o r  BY <1>2 DEF Without
 <2> HIDE DEF at, n
 <2>3. /\ l \in Seq(Callers) /\ Len(l) = at - 1
       /\ \A i \in 1..(at - 1) : l[i] = s[i]
  <3>1. \A i \in 1..(at - 1) : s[i] \in Callers  BY <2>0, <2>1, ElementOfSeq DEF n
  <3>2. at - 1 \in Int /\ 1 \in Int /\ at - 1 - 1 + 1 = at - 1  BY <2>0, <2>1
  <3>3. /\ l \in Seq(Callers)
        /\ Len(l) = IF 1 <= at - 1 THEN at - 1 - 1 + 1 ELSE 0
        /\ \A i \in 1..(at - 1 - 1 + 1) : l[i] = s[1 + i - 1]  BY <3>1, <3>2, SubSeqProperties
  <3>4. QED  BY <2>0, <2>1, <3>2, <3>3
 <2>4. /\ r \in Seq(Callers) /\ Len(r) = n - at
       /\ \A i \in 1..(n - at) : r[i] = s[at + i]
  <3>1. \A i \in (at + 1)..n : s[i] \in Callers  BY <2>0, <2>1, ElementOfSeq DEF n
  <3>2. at + 1 \in Int /\ n \in Int /\ n - (at + 1) + 1 = n - at  BY <2>0, <2>1
  <3>3. /\ r \in Seq(Callers)
        /\ Len(r) = IF at + 1 <= n THEN n - (at + 1) + 1 ELSE 0
        /\ \A i \in 1..(n - (at + 1) + 1) : r[i] = s[at + 1 + i - 1]  BY <3>1, <3>2, SubSeqProperties
  <3>4. QED  BY <2>0, <2>1, <3>2, <3>3, SMTT(60)
 <2> DEFINE w == l \o r
 <2>5. /\ w \in Seq(Callers) /\ Len(w) = n - 1
       /\ \A i \in 1..(n - 1) : w[i] = IF i < at THEN s[i] ELSE s[i + 1]
  <3>1. /\ w \in Seq(Callers) /\ Len(w) = Len(l) + Len(r)
        /\ \A i \in 1..(Len(l) + Len(r)) :
             w[i] = IF i <= Len(l) THEN l[i] ELSE r[i - Len(l)]  BY <2>3, <2>4, ConcatProperties, SMTT(60)
  <3>2. Len(l) + Len(r) = n - 1 /\ Len(l) = at - 1 /\ Len(r) = n - at  BY <2>0, <2>1, <2>3, <2>4
  <3> HIDE DEF w, l, r
  <3>3. ASSUME NEW i \in 1..(n - 1) PROVE w[i] = IF i < at THEN s[i] ELSE s[i + 1]
   <4>1. CASE i < at
    <5>1. i \in 1..(at - 1) /\ i <= Len(l)  BY <2>0, <2>1, <3>2, <4>1
    <5>2. QED  BY <2>3, <3>1, <3>2, <4>1, <5>1
   <4>2. CASE ~(i < at)
    <5>1. /\ ~(i <= Len(l)) /\ i - Len(l) = i - at + 1
          /\ i - at + 1 \in 1..(n - at) /\ at + (i - at + 1) = i + 1  BY <2>0, <2>1, <3>2, <4>2
    <5>2. w[i] = r[i - at + 1] /\ r[i - at + 1] = s[at + (i - at + 1)]  BY <2>4, <3>1, <3>2, <5>1
    <5>3. QED  BY <4>2, <5>1, <5>2
   <4>3. QED  BY <4>1, <4>2
  <3>4. QED  BY <3>1, <3>2, <3>3
 <2> HIDE DEF w, l, r
 <2>6. \A i \in 1..(n - 1) : w[i] # c  BY <2>0, <2>1, <2>5 DEF n
 <2>7. \A i, j \in 1..(n - 1) : w[i] = w[j] => i = j
  <3>1. SUFFICES ASSUME NEW i \in 1..(n - 1), NEW j \in 1..(n - 1), w[i] = w[j] PROVE i = j  OBVIOUS
  <3> DEFINE p == IF i < at THEN i ELSE i + 1
             q == IF j < at THEN j ELSE j + 1
  <3>2. p \in 1..n /\ q \in 1..n  BY <2>0, <2>1
  <3>3. s[p] = s[q]  BY <2>5, <3>1
  <3>4. p = q  BY <3>2, <3>3 DEF n
  <3>5. QED  BY <2>0, <2>1, <3>4
 <2>8. \A i \in 1..(n - 1) : \E j \in 1..n : w[i] = s[j]  BY <2>0, <2>1, <2>5
 <2>9. Without(s, c) = w  BY <2>2 DEF w
 <2>10. QED  BY <2>5, <2>6, <2>7, <2>8, <2>9 DEF n
<1>3. QED  BY <1>1, <1>2

-----------------------------------------------------------------------------
(* What the three kinds of move keep.                                      *)

\* The places between a grant and a pop, or a push and its permit.
Moving == {"granted", "recheck", "pop", "post"}

\* No step but Grow adds a builder.
LEMMA NoNewBuilder ==
  ASSUME PoolInv, total' = total,
         \A d \in Callers : pc'[d] = "build" => pc[d] = "build"
  PROVE  BuildersCounted'
<1>1. At({"build"})' \subseteq At({"build"})  BY DEF At
<1>2. IsFiniteSet(At({"build"})) /\ Cardinality(At({"build"})) \in Nat  BY AtIsFinite DEF At
<1>3. /\ Cardinality(At({"build"})') <= Cardinality(At({"build"}))
      /\ Cardinality(At({"build"})') \in Nat  BY <1>1, <1>2, FS_Subset, FS_CardinalityType
<1>4. total \in Nat /\ total >= Cardinality(At({"build"}))  BY PoolAssumption DEF PoolInv, TypeOK, BuildersCounted
<1>5. QED  BY <1>2, <1>3, <1>4 DEF BuildersCounted

\* A caller outside the line moves without touching permits or queue.
LEMMA GotoKeeps ==
  ASSUME PoolInv, NEW c \in Callers, NEW p \in Places, Goto(c, p),
         pc[c] # "waiting" \/ waiters = <<>>,
         queue' = queue, closing' = closing,
         pc[c] \in Moving <=> p \in Moving
  PROVE  /\ pc' \in [Callers -> Places] /\ permits' \in Nat
         /\ waiters' \in Seq(Callers) /\ (semClosed => waiters = <<>>)'
         /\ pc'[c] = p /\ \A d \in Callers : d # c => pc'[d] = pc[d]
         /\ Line' /\ PermitsMatchQueue'
<1>1. /\ pc \in [Callers -> Places] /\ permits \in Nat /\ waiters \in Seq(Callers)
      /\ semClosed => waiters = <<>>  BY DEF PoolInv, TypeOK
<1>2. pc' = [pc EXCEPT ![c] = p] /\ permits' = permits /\ waiters' = waiters  BY DEF Goto
<1>3. pc'[c] = p /\ \A d \in Callers : d # c => pc'[d] = pc[d]  BY <1>1, <1>2
<1>4. pc' \in [Callers -> Places]  BY <1>1, <1>2
<1>5. Line'
 <2>1. \A i \in 1..Len(waiters) : waiters[i] \in Callers /\ waiters[i] # c  BY <1>1, ElementOfSeq DEF PoolInv, Line
 <2>2. QED  BY <1>2, <1>3, <2>1 DEF PoolInv, Line
<1>6. PermitsMatchQueue'
 <2>1. Cardinality(At(Moving)') = Cardinality(At(Moving))  BY <1>1, <1>2, OneMoves DEF At
 <2>2. QED  BY <1>2, <2>1 DEF PoolInv, PermitsMatchQueue, Moving
<1>7. QED  BY <1>1, <1>2, <1>3, <1>4, <1>5, <1>6 DEF semClosed

\* A caller on the move gives its permit back, to the pool or to the first in line.
LEMMA AddPermitKeeps ==
  ASSUME PoolInv, NEW c \in Callers, NEW p \in Places \ Moving, p # "build",
         AddPermit(c, p), pc[c] \in Moving, queue' = queue, closing' = closing
  PROVE  /\ pc' \in [Callers -> Places] /\ permits' \in Nat
         /\ waiters' \in Seq(Callers) /\ (semClosed => waiters = <<>>)'
         /\ pc'[c] = p
         /\ \A d \in Callers : d # c => pc'[d] = pc[d] \/ pc'[d] = "granted"
         /\ Line' /\ PermitsMatchQueue'
<1>1. /\ pc \in [Callers -> Places] /\ permits \in Nat /\ waiters \in Seq(Callers)
      /\ semClosed => waiters = <<>>
      /\ "granted" \in Places /\ "granted" \in Moving /\ "waiting" \notin Moving
  BY DEF PoolInv, TypeOK, Places, Moving
<1>2. Cardinality(At(Moving)) \in Nat /\ pc[c] # "waiting"  BY <1>1, AtIsFinite DEF At
<1>3. CASE /\ waiters = <<>> /\ permits' = permits + 1
           /\ pc' = [pc EXCEPT ![c] = p] /\ waiters' = waiters
 <2>1. Cardinality(At(Moving)') = Cardinality(At(Moving)) - 1  BY <1>1, <1>3, OneMoves DEF At
 <2>2. PermitsMatchQueue'  BY <1>1, <1>2, <1>3, <2>1 DEF PoolInv, PermitsMatchQueue, Moving
 <2>3. Line' /\ waiters' \in Seq(Callers) /\ permits' \in Nat  BY <1>1, <1>3, EmptySeq DEF Line
 <2>4. /\ pc' \in [Callers -> Places] /\ pc'[c] = p
       /\ \A d \in Callers : d # c => pc'[d] = pc[d]  BY <1>1, <1>3
 <2>5. QED  BY <1>1, <1>3, <2>2, <2>3, <2>4 DEF semClosed
<1>4. CASE /\ waiters # <<>>
           /\ pc' = [pc EXCEPT ![c] = p, ![Head(waiters)] = "granted"]
           /\ waiters' = Tail(waiters) /\ permits' = permits
 <2> DEFINE h == Head(waiters)
            mid == [pc EXCEPT ![c] = p]
 <2>1. /\ h \in Callers /\ h = waiters[1] /\ pc[h] = "waiting" /\ h # c
       /\ Len(waiters) \in Nat /\ 1 \in 1..Len(waiters)
  <3>1. Len(waiters) \in Nat \ {0} /\ h \in Callers /\ h = waiters[1]  BY <1>1, <1>4, EmptySeq, HeadTailProperties
  <3>2. QED  BY <1>2, <3>1 DEF PoolInv, Line
 <2>2. /\ mid \in [Callers -> Places] /\ mid[h] = pc[h]
       /\ pc' = [mid EXCEPT ![h] = "granted"]  BY <1>1, <1>4, <2>1
 <2>3. /\ pc' \in [Callers -> Places] /\ pc'[c] = p
       /\ \A d \in Callers : d # c => pc'[d] = pc[d] \/ pc'[d] = "granted"
       /\ \A d \in Callers : d # c /\ d # h => pc'[d] = pc[d]  BY <1>1, <1>4, <2>1, <2>2
 <2>4. Cardinality(At(Moving)') = Cardinality(At(Moving))
  <3>0. mid = [pc EXCEPT ![c] = p] /\ p \in Places /\ p \notin Moving /\ pc[c] \in Moving  OBVIOUS
  <3> HIDE DEF mid
  <3>1. Cardinality({d \in Callers : mid[d] \in Moving}) = Cardinality(At(Moving)) - 1
    BY <1>1, <3>0, OneMoves, SMTT(60) DEF At
  <3>2. /\ mid[h] \notin Moving
        /\ Cardinality({d \in Callers : mid[d] \in Moving}) \in Nat  BY <1>1, <2>1, <2>2, AtIsFinite
  <3>3. Cardinality(At(Moving)') = Cardinality({d \in Callers : mid[d] \in Moving}) + 1
   <4>1. At(Moving)' = {d \in Callers : pc'[d] \in Moving}  BY DEF At
   <4>2. /\ mid \in [Callers -> Places] /\ h \in Callers
         /\ pc' = [mid EXCEPT ![h] = "granted"] /\ "granted" \in Places
         /\ "granted" \in Moving /\ mid[h] \notin Moving  BY <1>1, <2>1, <2>2, <3>2
   <4> HIDE DEF h
   <4>3. Cardinality({d \in Callers : pc'[d] \in Moving})
           = Cardinality({d \in Callers : mid[d] \in Moving}) + 1  BY <4>2, OneMoves
   <4>4. QED  BY <4>1, <4>3
  <3>4. QED  BY <1>2, <3>1, <3>2, <3>3
 <2>5. PermitsMatchQueue'  BY <1>4, <2>4 DEF PoolInv, PermitsMatchQueue, Moving
 <2>6. /\ Tail(waiters) \in Seq(Callers) /\ Len(Tail(waiters)) = Len(waiters) - 1
       /\ \A i \in 1..(Len(waiters) - 1) : Tail(waiters)[i] = waiters[i + 1]  BY <1>1, <1>4, HeadTailProperties
 <2>7. Line'
  <3>1. \A i \in 1..(Len(waiters) - 1) :
          /\ waiters[i + 1] \in Callers /\ pc[waiters[i + 1]] = "waiting"
          /\ waiters[i + 1] # h /\ waiters[i + 1] # c
   <4> TAKE i \in 1..(Len(waiters) - 1)
   <4>1. i + 1 \in 1..Len(waiters) /\ i + 1 # 1  BY <2>1
   <4>2. QED  BY <1>1, <1>2, <2>1, <4>1, ElementOfSeq DEF PoolInv, Line
  <3>2. \A i \in 1..(Len(waiters) - 1) : pc'[waiters[i + 1]] = "waiting"  BY <2>3, <3>1
  <3>3. \A i, j \in 1..(Len(waiters) - 1) :
          waiters[i + 1] = waiters[j + 1] => i = j
   <4> TAKE i, j \in 1..(Len(waiters) - 1)
   <4>1. i + 1 \in 1..Len(waiters) /\ j + 1 \in 1..Len(waiters)  BY <2>1
   <4>2. waiters[i + 1] = waiters[j + 1] => i + 1 = j + 1  BY <4>1 DEF PoolInv, Line
   <4>3. QED  BY <4>2
  <3>4. /\ Len(waiters') = Len(waiters) - 1
        /\ \A i \in 1..(Len(waiters) - 1) : waiters'[i] = waiters[i + 1]  BY <1>4, <2>6
  <3>5. /\ \A i \in 1..Len(waiters') : pc'[waiters'[i]] = "waiting"
        /\ \A i, j \in 1..Len(waiters') : waiters'[i] = waiters'[j] => i = j  BY <3>2, <3>3, <3>4
  <3>6. QED  BY <3>5 DEF Line
 <2>8. ~semClosed'  BY <1>1, <1>4 DEF semClosed
 <2>9. QED  BY <1>1, <1>4, <2>3, <2>5, <2>6, <2>7, <2>8
<1>5. QED  BY <1>3, <1>4 DEF AddPermit

-----------------------------------------------------------------------------
(* One lemma per group of actions.                                         *)

\* Engines that end with a call keep the types.
LEMMA DiscardKeeps ==
  ASSUME TypeOK, NEW c \in Callers, NEW how \in {"closed", "dropped"}, Discard(c, how)
  PROVE  /\ life' \in [Engines -> {"unborn", "idle", "lent", "closed", "dropped"}]
         /\ held' \in [Callers -> Seq(Engines)]
         /\ \A d \in Callers : d # c => held'[d] = held[d]
<1>1. life' = [e \in Engines |-> IF e \in HeldBy(c) THEN how ELSE life[e]]  BY DEF Discard
<1>2. \A e \in Engines : (IF e \in HeldBy(c) THEN how ELSE life[e])
                           \in {"unborn", "idle", "lent", "closed", "dropped"}  BY DEF TypeOK
<1>3. held' = [held EXCEPT ![c] = <<>>] /\ <<>> \in Seq(Engines)  BY EmptySeq DEF Discard
<1>4. QED  BY <1>1, <1>2, <1>3 DEF TypeOK

\* A call that is over: refused, cancelled or done, with nothing held.
LEMMA GoneKeeps ==
  ASSUME PoolInv, NEW c \in Callers, NEW how \in {"closed", "dropped"}, Discard(c, how),
         \/ /\ Goto(c, "away")
            /\ pc[c] \notin Moving \cup {"waiting"} \/ (pc[c] = "waiting" /\ waiters = <<>>)
         \/ AddPermit(c, "away") /\ pc[c] \in Moving,
         UNCHANGED <<flavor, queue, closing, total, job>>, strained' \in BOOLEAN
  PROVE  PoolInv'
<1>0. "away" \in Places \ Moving  BY DEF Places, Moving
<1>1. /\ pc' \in [Callers -> Places] /\ permits' \in Nat
      /\ waiters' \in Seq(Callers) /\ (semClosed => waiters = <<>>)'
      /\ pc'[c] = "away"
      /\ \A d \in Callers : d # c => pc'[d] = pc[d] \/ pc'[d] = "granted"
      /\ Line' /\ PermitsMatchQueue'
 <2>1. CASE Goto(c, "away") /\ (pc[c] \notin Moving \cup {"waiting"}
                                  \/ (pc[c] = "waiting" /\ waiters = <<>>))
  <3>1. pc[c] \notin Moving  BY <2>1 DEF Moving
  <3>2. QED  BY <1>0, <2>1, <3>1, GotoKeeps
 <2>2. CASE AddPermit(c, "away") /\ pc[c] \in Moving  BY <1>0, <2>2, AddPermitKeeps
 <2>3. QED  BY <2>1, <2>2
<1>2. TypeOK'
 <2>1. TypeOK  BY DEF PoolInv
 <2>2. QED  BY <2>1, <1>1, DiscardKeeps DEF TypeOK, Engines
<1>3. Holding'
 <2>1. TypeOK  BY DEF PoolInv
 <2>2. \A d \in Callers : d # c => held'[d] = held[d]  BY <2>1, DiscardKeeps
 <2>3. QED  BY <1>1, <2>2 DEF PoolInv, Holding
<1>4. BuildersCounted'  BY <1>1, NoNewBuilder
<1>5. QED  BY <1>1, <1>2, <1>3, <1>4 DEF PoolInv

\* A caller that moves without touching semaphore, queue or engines.
LEMMA WalkKeeps ==
  ASSUME PoolInv, NEW c \in Callers, NEW p \in Places, Goto(c, p),
         pc[c] # "waiting", pc[c] \in Moving <=> p \in Moving,
         p # "build",
         p \in {"using", "reinit", "release", "fit", "push"} => held[c] # <<>>,
         UNCHANGED <<flavor, queue, closing, total, life, held>>,
         strained' \in BOOLEAN, job' \in [Callers -> {"call", "init_all"}]
  PROVE  PoolInv'
<1>1. /\ pc' \in [Callers -> Places] /\ permits' \in Nat
      /\ waiters' \in Seq(Callers) /\ (semClosed => waiters = <<>>)'
      /\ pc'[c] = p /\ \A d \in Callers : d # c => pc'[d] = pc[d]
      /\ Line' /\ PermitsMatchQueue'  BY GotoKeeps
<1>2. TypeOK'  BY <1>1 DEF PoolInv, TypeOK
<1>3. Holding'  BY <1>1 DEF PoolInv, Holding
<1>4. BuildersCounted'  BY <1>1, NoNewBuilder
<1>5. QED  BY <1>1, <1>2, <1>3, <1>4 DEF PoolInv

\* A caller that takes a free permit.
LEMMA TakeKeeps ==
  ASSUME PoolInv, NEW c \in Callers, pc[c] \in {"try", "permit"}, permits > 0,
         permits' = permits - 1, pc' = [pc EXCEPT ![c] = "recheck"], waiters' = waiters,
         UNCHANGED <<flavor, queue, closing, total, life, job, held, strained>>
  PROVE  PoolInv'
<1>1. /\ pc \in [Callers -> Places] /\ permits \in Nat /\ waiters \in Seq(Callers)
      /\ "recheck" \in Places /\ "recheck" \in Moving /\ pc[c] \notin Moving  BY DEF PoolInv, TypeOK, Places, Moving
<1>2. /\ pc' \in [Callers -> Places] /\ permits' \in Nat
      /\ pc'[c] = "recheck" /\ \A d \in Callers : d # c => pc'[d] = pc[d]  BY <1>1
<1>3. TypeOK'  BY <1>1, <1>2 DEF PoolInv, TypeOK
<1>4. Line'
 <2>1. \A i \in 1..Len(waiters) : waiters[i] \in Callers /\ waiters[i] # c  BY <1>1, ElementOfSeq DEF PoolInv, Line
 <2>2. QED  BY <1>2, <2>1 DEF PoolInv, Line
<1>5. PermitsMatchQueue'
 <2>1. At(Moving)' = {d \in Callers : pc'[d] \in Moving}  BY DEF At
 <2>2. At(Moving) = {d \in Callers : pc[d] \in Moving}  BY DEF At
 <2>3. /\ Cardinality({d \in Callers : pc'[d] \in Moving})
            = Cardinality({d \in Callers : pc[d] \in Moving}) + 1
       /\ Cardinality({d \in Callers : pc[d] \in Moving}) \in Nat
  <3>1. pc' = [pc EXCEPT ![c] = "recheck"]  OBVIOUS
  <3> HIDE DEF Moving
  <3>2. QED  BY <1>1, <3>1, OneMoves
 <2>4. Cardinality(At(Moving)') = Cardinality(At(Moving)) + 1 /\ Cardinality(At(Moving)) \in Nat
   BY <2>1, <2>2, <2>3
 <2>5. permits' + Cardinality(At(Moving)') = permits + Cardinality(At(Moving))  BY <1>1, <2>4
 <2>6. QED  BY <2>5 DEF PoolInv, PermitsMatchQueue, Moving
<1>6. Holding'  BY <1>2 DEF PoolInv, Holding
<1>7. BuildersCounted'  BY <1>2, NoNewBuilder
<1>8. QED  BY <1>3, <1>4, <1>5, <1>6, <1>7 DEF PoolInv, semClosed

-----------------------------------------------------------------------------
(* Every action.                                                           *)

LEMMA BeginKeeps ==
  ASSUME PoolInv, NEW c \in Callers, BeginCall(c) \/ BeginInitAll(c)
  PROVE  PoolInv'
<1>1. /\ FirstStep \in Places \ Moving
      /\ FirstStep \notin {"using", "reinit", "release", "fit", "push", "build"}  BY DEF FirstStep, Places, Moving
<1>2. /\ Goto(c, FirstStep) /\ pc[c] = "away"
      /\ UNCHANGED <<flavor, queue, closing, total, life, held>>
      /\ strained' \in BOOLEAN
 <2>1. strained \in BOOLEAN  BY DEF PoolInv, TypeOK
 <2>2. QED  BY <2>1 DEF BeginCall, BeginInitAll
<1>3. job' \in [Callers -> {"call", "init_all"}]  BY DEF BeginCall, BeginInitAll, PoolInv, TypeOK
<1>4. pc[c] \notin Moving  BY <1>2 DEF Moving
<1>5. QED  BY <1>1, <1>2, <1>3, <1>4, WalkKeeps

LEMMA RoundAndTryKeep ==
  ASSUME PoolInv, NEW c \in Callers, NextRound(c) \/ TryIdle(c) \/ Granted(c) \/ Recheck(c)
  PROVE  PoolInv'
<1>0. /\ strained \in BOOLEAN /\ job \in [Callers -> {"call", "init_all"}]  BY DEF PoolInv, TypeOK
<1>1. CASE NextRound(c)
 <2>1. CASE closed
  <3>1. /\ Goto(c, "away") /\ Discard(c, "closed") /\ pc[c] = "again"
        /\ UNCHANGED <<flavor, queue, closing, total, job, strained>>  BY <1>1, <2>1 DEF NextRound, Refuse
  <3>2. pc[c] \notin Moving \cup {"waiting"}  BY <3>1 DEF Moving
  <3>3. QED  BY <1>0, <3>1, <3>2, GoneKeeps
 <2>2. CASE ~closed
  <3>1. /\ Goto(c, FirstStep) /\ pc[c] = "again"
        /\ UNCHANGED <<flavor, queue, closing, total, life, job, held, strained>>  BY <1>1, <2>2 DEF NextRound
  <3>2. /\ FirstStep \in Places \ Moving /\ pc[c] \notin Moving
        /\ FirstStep \notin {"using", "reinit", "release", "fit", "push", "build"}
    BY <3>1 DEF FirstStep, Places, Moving
  <3>3. QED  BY <1>0, <3>1, <3>2, WalkKeeps
 <2>3. QED  BY <2>1, <2>2
<1>2. CASE TryIdle(c)
 <2>1. CASE permits > 0 /\ permits' = permits - 1
            /\ pc' = [pc EXCEPT ![c] = "recheck"] /\ UNCHANGED waiters  BY <1>2, <2>1, TakeKeeps DEF TryIdle
 <2>2. CASE Goto(c, "grow")
  <3>1. pc[c] = "try" /\ UNCHANGED <<flavor, queue, closing, total, life, job, held, strained>>
    BY <1>2 DEF TryIdle
  <3>2. "grow" \in Places /\ "grow" \notin Moving /\ pc[c] \notin Moving  BY <3>1 DEF Places, Moving
  <3>3. QED  BY <1>0, <2>2, <3>1, <3>2, WalkKeeps
 <2>3. QED  BY <1>2, <2>1, <2>2 DEF TryIdle
<1>3. CASE Granted(c)
 <2>1. /\ pc[c] = "granted" /\ Goto(c, "recheck")
       /\ UNCHANGED <<flavor, queue, closing, total, life, job, held, strained>>  BY <1>3 DEF Granted
 <2>2. "recheck" \in Places /\ "recheck" \in Moving /\ pc[c] \in Moving  BY <2>1 DEF Places, Moving
 <2>3. QED  BY <1>0, <2>1, <2>2, WalkKeeps
<1>4. CASE Recheck(c)
 <2>1. pc[c] = "recheck" /\ pc[c] \in Moving /\ "pop" \in Moving /\ "pop" \in Places
   BY <1>4 DEF Recheck, Moving, Places
 <2>2. CASE closed
  <3>1. /\ AddPermit(c, "away") /\ Discard(c, "closed")
        /\ UNCHANGED <<flavor, queue, closing, total, job, strained>>  BY <1>4, <2>2 DEF Recheck, Refuse
  <3>2. QED  BY <1>0, <2>1, <3>1, GoneKeeps
 <2>3. CASE ~closed
  <3>1. /\ Goto(c, "pop")
        /\ UNCHANGED <<flavor, queue, closing, total, life, job, held, strained>>  BY <1>4, <2>3 DEF Recheck
  <3>2. QED  BY <1>0, <2>1, <3>1, WalkKeeps
 <2>4. QED  BY <2>2, <2>3
<1>5. QED  BY <1>1, <1>2, <1>3, <1>4

LEMMA BuilderMoves ==
  ASSUME pc \in [Callers -> Places], NEW c \in Callers, NEW p \in Places,
         pc' = [pc EXCEPT ![c] = p]
  PROVE  /\ Cardinality(At({"build"})) \in Nat /\ Cardinality(At({"build"})') \in Nat
         /\ pc[c] # "build" /\ p = "build" =>
              Cardinality(At({"build"})') = Cardinality(At({"build"})) + 1
         /\ pc[c] = "build" /\ p # "build" =>
              Cardinality(At({"build"})') = Cardinality(At({"build"})) - 1
<1>1. /\ At({"build"}) = {d \in Callers : pc[d] \in {"build"}}
      /\ At({"build"})' = {d \in Callers : pc'[d] \in {"build"}}  BY DEF At
<1>2. /\ Cardinality({d \in Callers : pc[d] \in {"build"}}) \in Nat
      /\ Cardinality({d \in Callers : pc'[d] \in {"build"}}) \in Nat
 <2>1. Cardinality({d \in Callers : pc[d] \in {"build"}}) \in Nat  BY FS_Subset, FS_CardinalityType, PoolAssumption
 <2>2. Cardinality({d \in Callers : pc'[d] \in {"build"}}) \in Nat
   BY FS_Subset, FS_CardinalityType, PoolAssumption
 <2>3. QED  BY <2>1, <2>2
<1> DEFINE W == {"build"}
<1>3. /\ pc[c] \in W <=> pc[c] = "build"
      /\ p \in W <=> p = "build"  OBVIOUS
<1> HIDE DEF W
<1>4. /\ pc[c] \notin W /\ p \in W => Cardinality({d \in Callers : pc'[d] \in W})
           = Cardinality({d \in Callers : pc[d] \in W}) + 1
      /\ pc[c] \in W /\ p \notin W => Cardinality({d \in Callers : pc'[d] \in W})
           = Cardinality({d \in Callers : pc[d] \in W}) - 1  BY OneMoves
<1>5. QED  BY <1>1, <1>2, <1>3, <1>4 DEF W

\* The number of builders moves with the live count.
LEMMA GrowingKeeps ==
  ASSUME PoolInv, NEW c \in Callers, Grow(c) \/ Build(c) \/ BuildFails(c)
  PROVE  PoolInv'
<1>0. /\ strained \in BOOLEAN /\ job \in [Callers -> {"call", "init_all"}]
      /\ total \in 0..Max /\ Max \in Nat /\ pc \in [Callers -> Places]
      /\ total >= Cardinality(At({"build"})) /\ Cardinality(At({"build"})) \in Nat
 <2>1. Cardinality(At({"build"})) \in Nat  BY AtIsFinite DEF At
 <2>2. QED  BY <2>1, PoolAssumption DEF PoolInv, TypeOK, BuildersCounted
<1>1. CASE Grow(c)
 <2>1. CASE Goto(c, "permit") /\ UNCHANGED total
  <3>1. pc[c] = "grow" /\ UNCHANGED <<flavor, queue, closing, life, job, held, strained>>  BY <1>1 DEF Grow
  <3>2. "permit" \in Places /\ "permit" \notin Moving /\ pc[c] \notin Moving  BY <3>1 DEF Places, Moving
  <3>3. QED  BY <1>0, <2>1, <3>1, <3>2, WalkKeeps
 <2>2. CASE total < Max /\ total' = total + 1 /\ Goto(c, "build")
  <3>1. pc[c] = "grow" /\ UNCHANGED <<flavor, queue, closing, life, job, held, strained>>  BY <1>1 DEF Grow
  <3>2. "build" \in Places /\ "build" \notin Moving /\ pc[c] \notin Moving  BY <3>1 DEF Places, Moving
  <3>3. /\ pc' \in [Callers -> Places] /\ permits' \in Nat
        /\ waiters' \in Seq(Callers) /\ (semClosed => waiters = <<>>)'
        /\ pc'[c] = "build" /\ \A d \in Callers : d # c => pc'[d] = pc[d]
        /\ Line' /\ PermitsMatchQueue'  BY <2>2, <3>1, <3>2, GotoKeeps
  <3>4. total' \in 0..Max  BY <1>0, <2>2
  <3>5. TypeOK'  BY <3>1, <3>3, <3>4 DEF PoolInv, TypeOK
  <3>6. Holding'  BY <3>1, <3>3 DEF PoolInv, Holding
  <3>7. Cardinality(At({"build"})') = Cardinality(At({"build"})) + 1
    BY <1>0, <2>2, <3>1, <3>2, BuilderMoves DEF Goto
  <3>8. BuildersCounted'  BY <1>0, <2>2, <3>7 DEF BuildersCounted
  <3>9. QED  BY <3>3, <3>5, <3>6, <3>8 DEF PoolInv
 <2>3. QED  BY <1>1, <2>1, <2>2 DEF Grow
<1>2. CASE Build(c)
 <2>1. PICK e \in Engines : life' = [life EXCEPT ![e] = "lent"] /\ held' = [held EXCEPT ![c] = <<e>>]
   BY <1>2 DEF Build
 <2>2. /\ pc[c] = "build" /\ Goto(c, "using")
       /\ UNCHANGED <<flavor, queue, closing, total, job, strained>>  BY <1>2 DEF Build
 <2>3. "using" \in Places /\ "using" \notin Moving /\ pc[c] \notin Moving  BY <2>2 DEF Places, Moving
 <2>4. /\ pc' \in [Callers -> Places] /\ permits' \in Nat
       /\ waiters' \in Seq(Callers) /\ (semClosed => waiters = <<>>)'
       /\ pc'[c] = "using" /\ \A d \in Callers : d # c => pc'[d] = pc[d]
       /\ Line' /\ PermitsMatchQueue'  BY <2>2, <2>3, GotoKeeps
 <2>5. /\ life' \in [Engines -> {"unborn", "idle", "lent", "closed", "dropped"}]
       /\ held' \in [Callers -> Seq(Engines)] /\ held'[c] # <<>>
       /\ \A d \in Callers : d # c => held'[d] = held[d]
  <3>1. <<e>> \in Seq(Engines) /\ <<e>> # <<>>  OBVIOUS
  <3>2. QED  BY <2>1, <3>1 DEF PoolInv, TypeOK
 <2>6. TypeOK'  BY <2>2, <2>4, <2>5 DEF PoolInv, TypeOK, Engines
 <2>7. Holding'  BY <2>4, <2>5 DEF PoolInv, Holding
 <2>8. BuildersCounted'  BY <2>2, <2>4, NoNewBuilder
 <2>9. QED  BY <2>4, <2>6, <2>7, <2>8 DEF PoolInv
<1>3. CASE BuildFails(c)
 <2>1. /\ pc[c] = "build" /\ Goto(c, "away") /\ total' = total - 1 /\ strained' \in BOOLEAN
       /\ UNCHANGED <<flavor, queue, closing, life, job, held>>  BY <1>3 DEF BuildFails
 <2>2. "away" \in Places /\ "away" \notin Moving /\ pc[c] \notin Moving  BY <2>1 DEF Places, Moving
 <2>3. /\ pc' \in [Callers -> Places] /\ permits' \in Nat
       /\ waiters' \in Seq(Callers) /\ (semClosed => waiters = <<>>)'
       /\ pc'[c] = "away" /\ \A d \in Callers : d # c => pc'[d] = pc[d]
       /\ Line' /\ PermitsMatchQueue'  BY <2>1, <2>2, GotoKeeps
 <2>4. /\ Cardinality(At({"build"})') = Cardinality(At({"build"})) - 1
       /\ Cardinality(At({"build"})') \in Nat  BY <1>0, <2>1, <2>2, BuilderMoves DEF Goto
 <2>5. total' \in 0..Max  BY <1>0, <2>1, <2>4
 <2>6. TypeOK'  BY <2>1, <2>3, <2>5 DEF PoolInv, TypeOK
 <2>7. Holding'  BY <2>1, <2>3 DEF PoolInv, Holding
 <2>8. BuildersCounted'  BY <1>0, <2>1, <2>4 DEF BuildersCounted
 <2>9. QED  BY <2>3, <2>6, <2>7, <2>8 DEF PoolInv
<1>4. QED  BY <1>1, <1>2, <1>3

\* The semaphore and the queue change hands.
LEMMA PermitKeeps ==
  ASSUME PoolInv, NEW c \in Callers, TakePermit(c) \/ WokenByClose(c)
  PROVE  PoolInv'
<1>0. /\ strained \in BOOLEAN /\ waiters \in Seq(Callers) /\ pc \in [Callers -> Places]
      /\ permits \in Nat  BY DEF PoolInv, TypeOK
<1>1. CASE TakePermit(c)
 <2>1. /\ pc[c] = "permit" /\ ~semClosed
       /\ UNCHANGED <<flavor, queue, closing, total, life, job, held, strained>>  BY <1>1 DEF TakePermit
 <2>2. CASE permits > 0 /\ permits' = permits - 1
            /\ pc' = [pc EXCEPT ![c] = "recheck"] /\ UNCHANGED waiters  BY <2>1, <2>2, TakeKeeps
 <2>3. CASE waiters' = Append(waiters, c) /\ pc' = [pc EXCEPT ![c] = "waiting"]
            /\ UNCHANGED permits
  <3>1. /\ waiters' \in Seq(Callers) /\ Len(waiters') = Len(waiters) + 1
        /\ Len(waiters) \in Nat
        /\ \A i \in 1..Len(waiters) : waiters'[i] = waiters[i]
        /\ waiters'[Len(waiters) + 1] = c  BY <1>0, <2>3, AppendProperties, LenProperties
  <3>2. /\ pc' \in [Callers -> Places] /\ pc'[c] = "waiting"
        /\ \A d \in Callers : d # c => pc'[d] = pc[d]  BY <1>0, <2>3 DEF Places
  <3>3. \A i \in 1..Len(waiters) : waiters[i] \in Callers /\ waiters[i] # c
    BY <1>0, <2>1, ElementOfSeq DEF PoolInv, Line
  <3>4. Line'
   <4>1. \A i \in 1..(Len(waiters) + 1) : pc'[waiters'[i]] = "waiting"  BY <3>1, <3>2, <3>3 DEF PoolInv, Line
   <4>2. \A i, j \in 1..(Len(waiters) + 1) : waiters'[i] = waiters'[j] => i = j  BY <3>1, <3>3 DEF PoolInv, Line
   <4>3. QED  BY <3>1, <4>1, <4>2 DEF Line
  <3>5. PermitsMatchQueue'
   <4>1. At(Moving)' = At(Moving)  BY <2>1, <3>2 DEF At, Moving
   <4>2. QED  BY <2>1, <2>3, <4>1 DEF PoolInv, PermitsMatchQueue, Moving
  <3>6. TypeOK'  BY <2>1, <2>3, <3>1, <3>2 DEF PoolInv, TypeOK
  <3>7. Holding'  BY <2>1, <3>2 DEF PoolInv, Holding
  <3>8. BuildersCounted'  BY <2>1, <3>2, NoNewBuilder
  <3>9. QED  BY <2>1, <3>4, <3>5, <3>6, <3>7, <3>8 DEF PoolInv, semClosed
 <2>4. QED  BY <1>1, <2>2, <2>3 DEF TakePermit
<1>2. CASE WokenByClose(c)
 <2>1. /\ pc[c] \in {"permit", "waiting", "granted"} /\ semClosed /\ Discard(c, "closed")
       /\ UNCHANGED <<flavor, queue, closing, total, job, strained>>  BY <1>2 DEF WokenByClose, Refuse
 <2>2. CASE pc[c] = "granted"
  <3>1. AddPermit(c, "away") /\ pc[c] \in Moving  BY <1>2, <2>2 DEF WokenByClose, Moving
  <3>2. QED  BY <1>0, <2>1, <3>1, GoneKeeps
 <2>3. CASE pc[c] # "granted"
  <3>1. Goto(c, "away") /\ waiters = <<>>  BY <1>2, <2>1, <2>3 DEF WokenByClose, PoolInv
  <3>2. pc[c] \notin Moving \cup {"waiting"} \/ (pc[c] = "waiting" /\ waiters = <<>>)
    BY <2>1, <2>3, <3>1 DEF Moving
  <3>3. QED  BY <1>0, <2>1, <3>1, <3>2, GoneKeeps
 <2>4. QED  BY <2>2, <2>3
<1>3. QED  BY <1>1, <1>2

\* A move that leaves the line alone, whatever it does to the counts.
LEMMA LineStays ==
  ASSUME PoolInv, NEW c \in Callers, NEW p \in Places, Goto(c, p), pc[c] # "waiting",
         closing' = closing
  PROVE  /\ pc' \in [Callers -> Places] /\ permits' \in Nat
         /\ waiters' \in Seq(Callers) /\ (semClosed => waiters = <<>>)'
         /\ pc'[c] = p /\ \A d \in Callers : d # c => pc'[d] = pc[d]
         /\ Line'
<1>1. /\ pc \in [Callers -> Places] /\ permits \in Nat /\ waiters \in Seq(Callers)
      /\ semClosed => waiters = <<>>  BY DEF PoolInv, TypeOK
<1>2. pc' = [pc EXCEPT ![c] = p] /\ permits' = permits /\ waiters' = waiters  BY DEF Goto
<1>3. /\ pc' \in [Callers -> Places] /\ pc'[c] = p
      /\ \A d \in Callers : d # c => pc'[d] = pc[d]  BY <1>1, <1>2
<1>4. \A i \in 1..Len(waiters) : waiters[i] \in Callers /\ waiters[i] # c  BY <1>1, ElementOfSeq DEF PoolInv, Line
<1>5. Line'  BY <1>2, <1>3, <1>4 DEF PoolInv, Line
<1>6. QED  BY <1>1, <1>2, <1>3, <1>5 DEF semClosed

LEMMA MovingMoves ==
  ASSUME pc \in [Callers -> Places], NEW c \in Callers, NEW p \in Places, Goto(c, p)
  PROVE  /\ Cardinality(At(Moving)) \in Nat
         /\ pc[c] \in Moving /\ p \notin Moving =>
              Cardinality(At(Moving)') = Cardinality(At(Moving)) - 1
         /\ pc[c] \notin Moving /\ p \in Moving =>
              Cardinality(At(Moving)') = Cardinality(At(Moving)) + 1
<1>1. /\ At(Moving) = {d \in Callers : pc[d] \in Moving}
      /\ At(Moving)' = {d \in Callers : pc'[d] \in Moving}  BY DEF At
<1>2. Cardinality({d \in Callers : pc[d] \in Moving}) \in Nat  BY AtIsFinite
<1> HIDE DEF Moving
<1>3. pc' = [pc EXCEPT ![c] = p]  BY DEF Goto
<1>4. /\ pc[c] \notin Moving /\ p \in Moving => Cardinality({d \in Callers : pc'[d] \in Moving})
           = Cardinality({d \in Callers : pc[d] \in Moving}) + 1
      /\ pc[c] \in Moving /\ p \notin Moving => Cardinality({d \in Callers : pc'[d] \in Moving})
           = Cardinality({d \in Callers : pc[d] \in Moving}) - 1  BY <1>3, OneMoves
<1>5. QED  BY <1>1, <1>2, <1>4

LEMMA PopKeeps ==
  ASSUME PoolInv, NEW c \in Callers, Pop(c) \/ PopNothing(c)
  PROVE  PoolInv'
<1>0. /\ strained \in BOOLEAN /\ pc \in [Callers -> Places] /\ permits \in Nat
      /\ queue \in Seq(Engines) /\ pc[c] = "pop" /\ pc[c] \in Moving
      /\ Cardinality(At(Moving)) \in Nat /\ Cardinality(At(Moving)) > 0
 <2>1. pc[c] = "pop" /\ pc[c] \in Moving  BY DEF Pop, PopNothing, Moving
 <2>2. IsFiniteSet(At(Moving)) /\ Cardinality(At(Moving)) \in Nat /\ c \in At(Moving)  BY <2>1, AtIsFinite DEF At
 <2>3. Cardinality(At(Moving)) # 0  BY <2>2, FS_EmptySet
 <2>4. QED  BY <2>1, <2>2, <2>3 DEF PoolInv, TypeOK
<1>1. CASE Pop(c)
 <2>1. /\ queue # <<>> /\ Goto(c, AfterPop(c)) /\ queue' = Tail(queue)
       /\ held' = [held EXCEPT ![c] = Append(held[c], Head(queue))]
       /\ life' = [life EXCEPT ![Head(queue)] = "lent"]
       /\ UNCHANGED <<flavor, closing, total, job, strained>>  BY <1>1 DEF Pop
 <2>2. /\ AfterPop(c) \in Places \ Moving /\ AfterPop(c) # "build"  BY DEF AfterPop, Places, Moving
 <2>3. /\ Head(queue) \in Engines /\ Tail(queue) \in Seq(Engines)
       /\ Len(Tail(queue)) = Len(queue) - 1 /\ Len(queue) \in Nat  BY <1>0, <2>1, HeadTailProperties, LenProperties
 <2>4. /\ pc' \in [Callers -> Places] /\ permits' \in Nat
       /\ waiters' \in Seq(Callers) /\ (semClosed => waiters = <<>>)'
       /\ pc'[c] = AfterPop(c) /\ \A d \in Callers : d # c => pc'[d] = pc[d]
       /\ Line'  BY <1>0, <2>1, <2>2, LineStays
 <2>5. PermitsMatchQueue'
  <3>1. Cardinality(At(Moving)') = Cardinality(At(Moving)) - 1 /\ permits' = permits
    BY <1>0, <2>1, <2>2, MovingMoves DEF Goto
  <3>2. Len(queue') = Len(queue) - 1  BY <2>1, <2>3
  <3>3. QED  BY <1>0, <2>1, <2>3, <3>1, <3>2, SMTT(60) DEF PoolInv, PermitsMatchQueue, Moving
 <2>6. /\ held' \in [Callers -> Seq(Engines)] /\ held'[c] # <<>>
       /\ \A d \in Callers : d # c => held'[d] = held[d]
  <3>1. held \in [Callers -> Seq(Engines)]  BY DEF PoolInv, TypeOK
  <3>2. Append(held[c], Head(queue)) \in Seq(Engines)
        /\ Len(Append(held[c], Head(queue))) = Len(held[c]) + 1 /\ Len(held[c]) \in Nat
    BY <2>3, <3>1, AppendProperties, LenProperties
  <3>3. Append(held[c], Head(queue)) # <<>>  BY <3>2, EmptySeq
  <3>4. QED  BY <2>1, <3>1, <3>2, <3>3
 <2>7. life' \in [Engines -> {"unborn", "idle", "lent", "closed", "dropped"}]  BY <2>1, <2>3 DEF PoolInv, TypeOK
 <2>8. TypeOK'  BY <2>1, <2>3, <2>4, <2>6, <2>7 DEF PoolInv, TypeOK, Engines
 <2>9. Holding'  BY <2>4, <2>6 DEF PoolInv, Holding
 <2>10. BuildersCounted'  BY <2>1, <2>2, <2>4, NoNewBuilder
 <2>11. QED  BY <2>4, <2>5, <2>8, <2>9, <2>10 DEF PoolInv
<1>2. CASE PopNothing(c)
 <2>1. /\ queue = <<>> /\ Goto(c, "away") /\ Discard(c, "closed")
       /\ UNCHANGED <<flavor, queue, closing, total, job, strained>>  BY <1>2 DEF PopNothing, Refuse
 <2>2. "away" \in Places \ Moving  BY DEF Places, Moving
 <2>3. closing = "drained"
  <3>1. Len(queue) = 0  BY <2>1, EmptySeq
  <3>2. closing # "drained" => Len(queue) = permits + Cardinality(At(Moving))
    BY DEF PoolInv, PermitsMatchQueue, Moving
  <3>3. QED  BY <1>0, <3>1, <3>2
 <2>4. /\ pc' \in [Callers -> Places] /\ permits' \in Nat
       /\ waiters' \in Seq(Callers) /\ (semClosed => waiters = <<>>)'
       /\ pc'[c] = "away" /\ \A d \in Callers : d # c => pc'[d] = pc[d]
       /\ Line'  BY <1>0, <2>1, <2>2, LineStays
 <2>5. PermitsMatchQueue'  BY <2>1, <2>3 DEF PermitsMatchQueue
 <2>6. /\ life' \in [Engines -> {"unborn", "idle", "lent", "closed", "dropped"}]
       /\ held' \in [Callers -> Seq(Engines)]
       /\ \A d \in Callers : d # c => held'[d] = held[d]  BY <2>1, DiscardKeeps DEF PoolInv
 <2>7. TypeOK'  BY <2>1, <2>4, <2>6 DEF PoolInv, TypeOK, Engines
 <2>8. Holding'  BY <2>4, <2>6 DEF PoolInv, Holding
 <2>9. BuildersCounted'  BY <2>1, <2>4, NoNewBuilder
 <2>10. QED  BY <2>4, <2>5, <2>7, <2>8, <2>9 DEF PoolInv
<1>3. QED  BY <1>1, <1>2

\* Engines come back, or do not.
LEMMA WorkingKeeps ==
  ASSUME PoolInv, NEW c \in Callers, Working(c) \/ DropWorking(c)
  PROVE  PoolInv'
<1>0. /\ strained \in BOOLEAN /\ job \in [Callers -> {"call", "init_all"}]
      /\ "release" \in Places \ Moving  BY DEF PoolInv, TypeOK, Places, Moving
<1>1. CASE Invoked(c) \/ Reinitialised(c)
 <2>1. /\ pc[c] \in {"using", "reinit"} /\ Goto(c, "release")
       /\ UNCHANGED <<flavor, queue, closing, total, life, job, held, strained>>
   BY <1>1 DEF Invoked, Reinitialised
 <2>2. pc[c] \notin Moving /\ held[c] # <<>>  BY <2>1 DEF Moving, PoolInv, Holding
 <2>3. QED  BY <1>0, <2>1, <2>2, WalkKeeps
<1>2. CASE ReinitFails(c)
 <2>1. /\ pc[c] = "reinit" /\ Goto(c, "away") /\ Discard(c, "closed")
       /\ UNCHANGED <<flavor, queue, closing, total, job, strained>>  BY <1>2 DEF ReinitFails, Refuse
 <2>2. pc[c] \notin Moving \cup {"waiting"}  BY <2>1 DEF Moving
 <2>3. QED  BY <1>0, <2>1, <2>2, GoneKeeps
<1>3. CASE DropWorking(c)
 <2>1. /\ pc[c] \in {"build", "using", "reinit"} /\ Goto(c, "away") /\ Discard(c, "dropped")
       /\ UNCHANGED <<flavor, queue, closing, total, job>> /\ strained' \in BOOLEAN  BY <1>3 DEF DropWorking
 <2>2. pc[c] \notin Moving \cup {"waiting"}  BY <2>1 DEF Moving
 <2>3. QED  BY <2>1, <2>2, GoneKeeps
<1>4. QED  BY <1>1, <1>2, <1>3 DEF Working

LEMMA ReleasingKeeps ==
  ASSUME PoolInv, NEW c \in Callers, Releasing(c)
  PROVE  PoolInv'
<1>0. /\ strained \in BOOLEAN /\ job \in [Callers -> {"call", "init_all"}]
      /\ pc \in [Callers -> Places] /\ held \in [Callers -> Seq(Engines)]
      /\ queue \in Seq(Engines) /\ permits \in Nat
      /\ life \in [Engines -> {"unborn", "idle", "lent", "closed", "dropped"}]
      /\ {"away", "release", "fit", "push"} \subseteq Places \ Moving
      /\ "post" \in Places /\ "post" \in Moving  BY DEF PoolInv, TypeOK, Places, Moving
<1>1. ASSUME held[c] # <<>>
      PROVE  /\ Head(held[c]) \in Engines /\ Tail(held[c]) \in Seq(Engines)
             /\ Len(held[c]) # 1 => Tail(held[c]) # <<>>
 <2>1. /\ Head(held[c]) \in Engines /\ Tail(held[c]) \in Seq(Engines)
       /\ Len(Tail(held[c])) = Len(held[c]) - 1 /\ Len(held[c]) \in Nat
   BY <1>0, <1>1, HeadTailProperties, LenProperties
 <2>2. Tail(held[c]) = <<>> => Len(Tail(held[c])) = 0
  <3>1. Len(<<>>) = 0  BY EmptySeq
  <3>2. QED  BY <3>1, Zenon
 <2>3. QED  BY <2>1, <2>2
<1>2. CASE ReleaseClosed(c)
 <2> DEFINE next == IF Len(held[c]) = 1 THEN "away" ELSE "release"
 <2>1. /\ pc[c] = "release" /\ Goto(c, next)
       /\ life' = [life EXCEPT ![Head(held[c])] = "closed"]
       /\ held' = [held EXCEPT ![c] = Tail(held[c])]
       /\ UNCHANGED <<flavor, queue, closing, total, job, strained>>  BY <1>2 DEF ReleaseClosed
 <2>2. held[c] # <<>>  BY <2>1 DEF PoolInv, Holding
 <2>3. next \in Places \ Moving /\ next # "build" /\ pc[c] \notin Moving  BY <1>0, <2>1 DEF Moving
 <2>4. /\ pc' \in [Callers -> Places] /\ permits' \in Nat
       /\ waiters' \in Seq(Callers) /\ (semClosed => waiters = <<>>)'
       /\ pc'[c] = next /\ \A d \in Callers : d # c => pc'[d] = pc[d]
       /\ Line' /\ PermitsMatchQueue'  BY <2>1, <2>3, GotoKeeps
 <2>5. /\ life' \in [Engines -> {"unborn", "idle", "lent", "closed", "dropped"}]
       /\ held' \in [Callers -> Seq(Engines)] /\ held'[c] = Tail(held[c])
       /\ \A d \in Callers : d # c => held'[d] = held[d]  BY <1>0, <1>1, <2>1, <2>2
 <2>6. TypeOK'  BY <2>1, <2>4, <2>5 DEF PoolInv, TypeOK, Engines
 <2>7. Holding'  BY <1>1, <2>2, <2>4, <2>5 DEF PoolInv, Holding
 <2>8. BuildersCounted'  BY <2>1, <2>3, <2>4, NoNewBuilder
 <2>9. QED  BY <2>4, <2>6, <2>7, <2>8 DEF PoolInv
<1>3. CASE ReleaseOpen(c)
 <2>1. /\ pc[c] = "release" /\ Goto(c, "fit")
       /\ UNCHANGED <<flavor, queue, closing, total, life, job, held, strained>>  BY <1>3 DEF ReleaseOpen
 <2>2. pc[c] \notin Moving /\ held[c] # <<>>  BY <2>1 DEF Moving, PoolInv, Holding
 <2>3. QED  BY <1>0, <2>1, <2>2, WalkKeeps
<1>4. CASE ReleaseFits(c)
 <2>1. /\ pc[c] = "fit" /\ Goto(c, "push")
       /\ UNCHANGED <<flavor, queue, closing, total, life, job, held, strained>>  BY <1>4 DEF ReleaseFits
 <2>2. pc[c] \notin Moving /\ held[c] # <<>>  BY <2>1 DEF Moving, PoolInv, Holding
 <2>3. QED  BY <1>0, <2>1, <2>2, WalkKeeps
<1>5. CASE Push(c)
 <2>1. /\ pc[c] = "push" /\ Goto(c, "post") /\ queue' = Append(queue, Head(held[c]))
       /\ life' = [life EXCEPT ![Head(held[c])] = "idle"]
       /\ held' = [held EXCEPT ![c] = Tail(held[c])]
       /\ UNCHANGED <<flavor, closing, total, job, strained>>  BY <1>5 DEF Push
 <2>2. held[c] # <<>> /\ pc[c] \notin Moving  BY <2>1 DEF PoolInv, Holding, Moving
 <2>3. /\ pc' \in [Callers -> Places] /\ permits' \in Nat
       /\ waiters' \in Seq(Callers) /\ (semClosed => waiters = <<>>)'
       /\ pc'[c] = "post" /\ \A d \in Callers : d # c => pc'[d] = pc[d]
       /\ Line'  BY <1>0, <2>1, LineStays
 <2>4. /\ queue' \in Seq(Engines) /\ Len(queue') = Len(queue) + 1 /\ Len(queue) \in Nat
   BY <1>0, <1>1, <2>1, <2>2, AppendProperties, LenProperties
 <2>5. PermitsMatchQueue'
  <3>1. /\ Cardinality(At(Moving)') = Cardinality(At(Moving)) + 1
        /\ Cardinality(At(Moving)) \in Nat /\ permits' = permits  BY <1>0, <2>1, <2>2, MovingMoves DEF Goto
  <3>2. QED  BY <1>0, <2>1, <2>4, <3>1 DEF PoolInv, PermitsMatchQueue, Moving
 <2>6. /\ life' \in [Engines -> {"unborn", "idle", "lent", "closed", "dropped"}]
       /\ held' \in [Callers -> Seq(Engines)]
       /\ \A d \in Callers : d # c => held'[d] = held[d]  BY <1>0, <1>1, <2>1, <2>2
 <2>7. TypeOK'  BY <2>1, <2>3, <2>4, <2>6 DEF PoolInv, TypeOK, Engines
 <2>8. Holding'  BY <2>3, <2>6 DEF PoolInv, Holding
 <2>9. BuildersCounted'  BY <2>1, <2>3, NoNewBuilder
 <2>10. QED  BY <2>3, <2>5, <2>7, <2>8, <2>9 DEF PoolInv
<1>6. CASE Post(c)
 <2> DEFINE next == IF held[c] = <<>> THEN "away" ELSE "release"
 <2>1. /\ pc[c] = "post" /\ AddPermit(c, next)
       /\ UNCHANGED <<flavor, queue, closing, total, life, job, held, strained>>  BY <1>6 DEF Post
 <2>2. next \in Places \ Moving /\ next # "build" /\ pc[c] \in Moving  BY <1>0, <2>1
 <2>3. /\ pc' \in [Callers -> Places] /\ permits' \in Nat
       /\ waiters' \in Seq(Callers) /\ (semClosed => waiters = <<>>)'
       /\ pc'[c] = next
       /\ \A d \in Callers : d # c => pc'[d] = pc[d] \/ pc'[d] = "granted"
       /\ Line' /\ PermitsMatchQueue'  BY <2>1, <2>2, AddPermitKeeps
 <2>4. TypeOK'  BY <2>1, <2>3 DEF PoolInv, TypeOK
 <2>5. Holding'  BY <2>1, <2>3 DEF PoolInv, Holding
 <2>6. BuildersCounted'  BY <2>1, <2>2, <2>3, NoNewBuilder
 <2>7. QED  BY <2>3, <2>4, <2>5, <2>6 DEF PoolInv
<1>7. QED  BY <1>2, <1>3, <1>4, <1>5, <1>6 DEF Releasing

LEMMA DropWaitingKeeps ==
  ASSUME PoolInv, NEW c \in Callers, DropWaiting(c)
  PROVE  PoolInv'
<1>0. /\ strained \in BOOLEAN /\ waiters \in Seq(Callers) /\ pc \in [Callers -> Places]
      /\ permits \in Nat /\ "away" \in Places  BY DEF PoolInv, TypeOK, Places
<1>1. Discard(c, "dropped") /\ UNCHANGED <<flavor, queue, closing, total, job, strained>>  BY DEF DropWaiting
<1>2. CASE pc[c] = "granted" /\ AddPermit(c, "away")
 <2>1. pc[c] \in Moving  BY <1>2 DEF Moving
 <2>2. QED  BY <1>0, <1>1, <1>2, <2>1, GoneKeeps
<1>3. CASE pc[c] = "waiting" /\ waiters' = Without(waiters, c)
           /\ pc' = [pc EXCEPT ![c] = "away"] /\ UNCHANGED permits
 <2>1. /\ waiters' \in Seq(Callers)
       /\ \A i \in 1..Len(waiters') :
            waiters'[i] # c /\ \E j \in 1..Len(waiters) : waiters'[i] = waiters[j]
       /\ \A i, j \in 1..Len(waiters') : waiters'[i] = waiters'[j] => i = j
   BY <1>0, <1>3, WithoutOne, SMTT(60) DEF PoolInv, Line
 <2>2. /\ pc' \in [Callers -> Places] /\ pc'[c] = "away"
       /\ \A d \in Callers : d # c => pc'[d] = pc[d]  BY <1>0, <1>3
 <2>3. Line'
  <3>1. \A i \in 1..Len(waiters') : pc'[waiters'[i]] = "waiting"
   <4> TAKE i \in 1..Len(waiters')
   <4>1. PICK j \in 1..Len(waiters) : waiters'[i] = waiters[j]  BY <2>1
   <4>2. waiters'[i] \in Callers /\ waiters'[i] # c  BY <2>1, ElementOfSeq
   <4>3. QED  BY <2>2, <4>1, <4>2 DEF PoolInv, Line
  <3>2. QED  BY <2>1, <3>1 DEF Line
 <2>4. PermitsMatchQueue'
  <3>1. At(Moving)' = At(Moving)  BY <1>3, <2>2 DEF At, Moving
  <3>2. QED  BY <1>1, <1>3, <3>1 DEF PoolInv, PermitsMatchQueue, Moving
 <2>5. (semClosed => waiters = <<>>)'
  <3>1. CASE waiters = <<>>
   <4>1. DOMAIN waiters = {}  BY <1>0, <3>1
   <4>2. waiters' = waiters  BY <1>3, <4>1 DEF Without
   <4>3. QED  BY <3>1, <4>2
  <3>2. CASE waiters # <<>>  BY <1>1, <3>2 DEF PoolInv, semClosed
  <3>3. QED  BY <3>1, <3>2
 <2>6. /\ life' \in [Engines -> {"unborn", "idle", "lent", "closed", "dropped"}]
       /\ held' \in [Callers -> Seq(Engines)]
       /\ \A d \in Callers : d # c => held'[d] = held[d]  BY <1>1, DiscardKeeps DEF PoolInv
 <2>7. TypeOK'  BY <1>0, <1>1, <1>3, <2>1, <2>2, <2>6 DEF PoolInv, TypeOK, Engines
 <2>8. Holding'  BY <2>2, <2>6 DEF PoolInv, Holding
 <2>9. BuildersCounted'  BY <1>1, <2>2, NoNewBuilder
 <2>10. QED  BY <2>3, <2>4, <2>5, <2>7, <2>8, <2>9 DEF PoolInv
<1>4. QED  BY <1>2, <1>3 DEF DropWaiting

LEMMA ClosingKeeps ==
  ASSUME PoolInv, Closing
  PROVE  PoolInv'
<1>0. /\ queue \in Seq(Engines) /\ <<>> \in Seq(Engines) /\ <<>> \in Seq(Callers)
      /\ Len(<<>>) = 0
      /\ life \in [Engines -> {"unborn", "idle", "lent", "closed", "dropped"}]  BY EmptySeq DEF PoolInv, TypeOK
<1>1. UNCHANGED <<flavor, permits, total, pc, job, held, strained>>
  BY DEF Closing, CloseFlag, CloseSemaphore, CloseDrain
<1>2. Holding' /\ BuildersCounted'  BY <1>1 DEF PoolInv, Holding, BuildersCounted, At
<1>3. CASE CloseFlag
 <2>1. /\ closing = "open" /\ closing' = "flagged" /\ UNCHANGED <<queue, waiters, life>>  BY <1>3 DEF CloseFlag
 <2>2. QED  BY <1>1, <1>2, <2>1 DEF PoolInv, TypeOK, Line, PermitsMatchQueue, At, semClosed
<1>4. CASE CloseSemaphore
 <2>1. /\ closing = "flagged" /\ closing' = "shut" /\ waiters' = <<>>
       /\ UNCHANGED <<queue, life>>  BY <1>4 DEF CloseSemaphore
 <2>2. Line'  BY <1>0, <2>1 DEF Line
 <2>3. QED  BY <1>0, <1>1, <1>2, <2>1, <2>2 DEF PoolInv, TypeOK, PermitsMatchQueue, At, semClosed
<1>5. CASE CloseDrain
 <2>1. /\ closing = "shut" /\ closing' = "drained" /\ queue' = <<>>
       /\ life' = [e \in Engines |-> IF e \in Queued THEN "closed" ELSE life[e]]
       /\ UNCHANGED waiters  BY <1>5 DEF CloseDrain
 <2>2. life' \in [Engines -> {"unborn", "idle", "lent", "closed", "dropped"}]  BY <1>0, <2>1
 <2>3. TypeOK'  BY <1>0, <1>1, <2>1, <2>2 DEF PoolInv, TypeOK, Engines
 <2>4. PermitsMatchQueue'  BY <2>1 DEF PermitsMatchQueue
 <2>5. QED  BY <1>1, <1>2, <2>1, <2>3, <2>4 DEF PoolInv, Line, semClosed
<1>6. QED  BY <1>3, <1>4, <1>5 DEF Closing

LEMMA PoolInitially == Init => PoolInv
<1> SUFFICES ASSUME Init PROVE PoolInv  OBVIOUS
<1>0. Max \in Nat /\ total \in 0..Max /\ total \in Nat /\ \A i \in 1..total : i \in Engines
  BY PoolAssumption DEF Init, Engines
<1>1. queue \in Seq(Engines) /\ Len(queue) = total  BY <1>0 DEF Init
<1>2. TypeOK  BY <1>0, <1>1, EmptySeq DEF Init, TypeOK, Places
<1>3. Line /\ (semClosed => waiters = <<>>)  BY EmptySeq DEF Init, Line
<1>4. Holding  BY DEF Init, Holding
<1>5. At({"build"}) = {} /\ At(Moving) = {}  BY DEF Init, At, Moving
<1>6. BuildersCounted /\ PermitsMatchQueue
 <2>1. Cardinality(At({"build"})) = 0 /\ Cardinality(At(Moving)) = 0  BY <1>5, FS_EmptySet
 <2>2. BuildersCounted  BY <1>0, <2>1 DEF BuildersCounted
 <2>3. permits = total  BY DEF Init
 <2>4. Len(queue) = permits + Cardinality(At(Moving))  BY <1>0, <1>1, <2>1, <2>3
 <2>5. QED  BY <2>2, <2>4 DEF PermitsMatchQueue, Moving
<1>7. QED  BY <1>2, <1>3, <1>4, <1>6 DEF PoolInv

\* pool.rs l. 92-159, pool_autogrow.rs l. 130-240: the permits in the semaphore
\* and in the hands of callers account for the queue, in every interleaving.
LEMMA PoolInvariant == Spec => []PoolInv
<1>1. PoolInv /\ [Next]_vars => PoolInv'
 <2> SUFFICES ASSUME PoolInv, [Next]_vars PROVE PoolInv'  OBVIOUS
 <2>1. ASSUME NEW c \in Callers, BeginCall(c) \/ BeginInitAll(c) PROVE PoolInv'  BY <2>1, BeginKeeps
 <2>2. ASSUME NEW c \in Callers, Acquiring(c) PROVE PoolInv'
   BY <2>2, RoundAndTryKeep, GrowingKeeps, PermitKeeps, PopKeeps DEF Acquiring
 <2>3. ASSUME NEW c \in Callers, Working(c) \/ DropWorking(c) PROVE PoolInv'  BY <2>3, WorkingKeeps
 <2>4. ASSUME NEW c \in Callers, Releasing(c) PROVE PoolInv'  BY <2>4, ReleasingKeeps
 <2>5. ASSUME NEW c \in Callers, BuildFails(c) PROVE PoolInv'  BY <2>5, GrowingKeeps
 <2>6. ASSUME NEW c \in Callers, DropWaiting(c) PROVE PoolInv'  BY <2>6, DropWaitingKeeps
 <2>7. CASE Closing  BY <2>7, ClosingKeeps
 <2>8. CASE UNCHANGED vars
   BY <2>8 DEF vars, PoolInv, TypeOK, Line, Holding, BuildersCounted, PermitsMatchQueue, At, semClosed
 <2>9. ASSUME NEW c \in Callers, CallRefused(c) PROVE PoolInv'  BY <2>8, <2>9 DEF CallRefused
 <2>10. QED  BY <2>1, <2>2, <2>3, <2>4, <2>5, <2>6, <2>7, <2>8, <2>9 DEF Next
<1>2. QED  BY <1>1, PoolInitially, PTL DEF Spec

\* Every variable of the pools keeps its type; in particular the live count
\* stays between zero and the cap and its rollback never underflows.
THEOREM TypeCorrect == Spec => []TypeOK
<1>1. PoolInv => TypeOK  BY DEF PoolInv
<1>2. QED  BY <1>1, PoolInvariant, PTL

\* Every queued engine has exactly one permit, for any number of callers and any
\* cap: no acquirer of an open pool finds the queue empty behind its permit.
THEOREM PermitsAreBacked == Spec => []PermitsMatchQueue
<1>1. PoolInv => PermitsMatchQueue  BY DEF PoolInv
<1>2. QED  BY <1>1, PoolInvariant, PTL

-----------------------------------------------------------------------------
(* Who has which engine.  The two sides of an engine's ownership are the   *)
(* elements of sequences without repetition, so each step is first brought *)
(* to what it does to those sets.                                          *)

Elems(s) == {s[i] : i \in DOMAIN s}
Distinct(s) == \A i, j \in DOMAIN s : s[i] = s[j] => i = j

LEMMA ElemsFew ==
  /\ Elems(<<>>) = {} /\ Distinct(<<>>)
  /\ \A e : Elems(<<e>>) = {e} /\ Distinct(<<e>>)
BY DEF Elems, Distinct

LEMMA ElemsAppend ==
  ASSUME NEW s \in Seq(Engines), NEW e \in Engines
  PROVE  /\ Elems(Append(s, e)) = Elems(s) \cup {e}
         /\ Distinct(s) /\ e \notin Elems(s) => Distinct(Append(s, e))
<1> DEFINE t == Append(s, e)
           n == Len(s)
<1>1. /\ n \in Nat /\ DOMAIN s = 1..n /\ DOMAIN t = 1..(n + 1)
      /\ \A i \in 1..n : t[i] = s[i]
      /\ t[n + 1] = e  BY AppendProperties, LenProperties
<1> HIDE DEF t, n
<1>2. Elems(t) = Elems(s) \cup {e}
 <2>1. \A i \in 1..(n + 1) : i \in 1..n \/ i = n + 1  BY <1>1
 <2>2. n + 1 \in 1..(n + 1) /\ \A i \in 1..n : i \in 1..(n + 1)  BY <1>1
 <2>3. Elems(t) \subseteq Elems(s) \cup {e}  BY <1>1, <2>1 DEF Elems
 <2>4. Elems(s) \cup {e} \subseteq Elems(t)  BY <1>1, <2>2 DEF Elems
 <2>5. QED  BY <2>3, <2>4
<1>3. Distinct(s) /\ e \notin Elems(s) => Distinct(t)
 <2> SUFFICES ASSUME Distinct(s), e \notin Elems(s),
                     NEW i \in 1..(n + 1), NEW j \in 1..(n + 1), t[i] = t[j]
              PROVE  i = j  BY <1>1 DEF Distinct
 <2>1. (i \in 1..n \/ i = n + 1) /\ (j \in 1..n \/ j = n + 1)  BY <1>1
 <2>2. \A k \in 1..n : t[k] # e  BY <1>1 DEF Elems
 <2>3. QED  BY <1>1, <2>1, <2>2 DEF Distinct
<1>4. QED  BY <1>2, <1>3 DEF t

LEMMA ElemsTail ==
  ASSUME NEW s \in Seq(Engines), s # <<>>, Distinct(s)
  PROVE  /\ Head(s) \in Elems(s) /\ Head(s) \in Engines
         /\ Elems(Tail(s)) = Elems(s) \ {Head(s)}
         /\ Distinct(Tail(s))
<1> DEFINE t == Tail(s)
           n == Len(s)
<1>1. /\ n \in Nat \ {0} /\ DOMAIN s = 1..n /\ DOMAIN t = 1..(n - 1)
      /\ Head(s) = s[1] /\ Head(s) \in Engines
      /\ \A i \in 1..(n - 1) : t[i] = s[i + 1]
 <2>1. /\ Head(s) \in Engines /\ Tail(s) \in Seq(Engines)
       /\ Len(Tail(s)) = Len(s) - 1
       /\ \A i \in 1..Len(Tail(s)) : Tail(s)[i] = s[i + 1]  BY HeadTailProperties
 <2>2. /\ n \in Nat /\ n # 0 /\ DOMAIN s = 1..n /\ DOMAIN t = 1..Len(t)  BY <2>1, LenProperties, EmptySeq
 <2>3. QED  BY <2>1, <2>2
<1> HIDE DEF t, n
<1>2. 1 \in 1..n /\ \A i \in 1..(n - 1) : i + 1 \in 1..n /\ i + 1 # 1  BY <1>1
<1>3. Head(s) \in Elems(s)  BY <1>1, <1>2 DEF Elems
<1>4. Elems(t) = Elems(s) \ {Head(s)}
 <2>1. Elems(t) \subseteq Elems(s) \ {Head(s)}  BY <1>1, <1>2, SMTT(60) DEF Elems, Distinct
 <2>2. ASSUME NEW e \in Elems(s), e # Head(s) PROVE e \in Elems(t)
  <3>1. PICK i \in 1..n : e = s[i]  BY <1>1 DEF Elems
  <3>2. i - 1 \in 1..(n - 1) /\ (i - 1) + 1 = i  BY <1>1, <2>2, <3>1
  <3>3. QED  BY <1>1, <3>1, <3>2 DEF Elems
 <2>3. QED  BY <2>1, <2>2
<1>5. Distinct(t)
 <2> SUFFICES ASSUME NEW i \in 1..(n - 1), NEW j \in 1..(n - 1), t[i] = t[j]
              PROVE  i = j  BY <1>1 DEF Distinct
 <2>1. i + 1 = j + 1  BY <1>1, <1>2, SMTT(60) DEF Distinct
 <2>2. QED  BY <2>1
<1>6. QED  BY <1>1, <1>3, <1>4, <1>5 DEF t

\* A sequence without repetition is as long as its elements are many.
LEMMA ElemsCount ==
  ASSUME NEW s \in Seq(Engines), Distinct(s)
  PROVE  IsFiniteSet(Elems(s)) /\ Cardinality(Elems(s)) = Len(s)
<1>1. Len(s) \in Nat /\ DOMAIN s = 1..Len(s)  BY LenProperties
<1>2. s \in [1..Len(s) -> Elems(s)]  BY <1>1 DEF Elems
<1>3. s \in Bijection(1..Len(s), Elems(s))
  BY <1>1, <1>2 DEF Bijection, Injection, Surjection, IsInjective, Elems, Distinct
<1>4. ExistsBijection(1..Len(s), Elems(s))  BY <1>3 DEF ExistsBijection
<1>5. QED  BY <1>1, <1>4, FS_CountingElements, FS_NatBijection

\* OneOwner and NoDeadEngine, with the repetition that they do not rule out
\* inside the hands of one caller: init_all gives its engines back one by one.
OwnInv ==
  /\ Distinct(queue) /\ \A c \in Callers : Distinct(held[c])
  /\ OneOwner /\ NoDeadEngine

Alive == {e \in Engines : life[e] \in {"idle", "lent"}}

\* The invariant over the element sets alone.
LEMMA OwnInSets ==
  OwnInv <=>
    /\ Distinct(queue) /\ \A c \in Callers : Distinct(held[c])
    /\ \A c \in Callers : Elems(held[c]) \cap Elems(queue) = {}
    /\ \A c, d \in Callers : c # d => Elems(held[c]) \cap Elems(held[d]) = {}
    /\ \A e \in Elems(queue) : life[e] = "idle"
    /\ \A c \in Callers : \A e \in Elems(held[c]) : life[e] = "lent"
BY DEF OwnInv, OneOwner, NoDeadEngine, HeldBy, Queued, Elems, Distinct

LEMMA OwnInSetsNext ==
  ASSUME Distinct(queue'), \A c \in Callers : Distinct(held'[c]),
         \A c \in Callers : Elems(held'[c]) \cap Elems(queue') = {},
         \A c, d \in Callers : c # d => Elems(held'[c]) \cap Elems(held'[d]) = {},
         \A e \in Elems(queue') : life'[e] = "idle",
         \A c \in Callers : \A e \in Elems(held'[c]) : life'[e] = "lent"
  PROVE  OwnInv'
BY DEF OwnInv, OneOwner, NoDeadEngine, HeldBy, Queued, Elems, Distinct

\* Engines are where the types say.
LEMMA ElemsAreEngines ==
  ASSUME TypeOK
  PROVE  /\ Elems(queue) \subseteq Engines
         /\ \A c \in Callers : held[c] \in Seq(Engines) /\ Elems(held[c]) \subseteq Engines
<1>1. \A s \in Seq(Engines) : Elems(s) \subseteq Engines  BY ElementOfSeq, LenProperties DEF Elems
<1>2. QED  BY <1>1 DEF TypeOK

\* A call that ends with its engines.
LEMMA DiscardOwns ==
  ASSUME TypeOK, OwnInv, NEW c \in Callers, NEW how \in {"closed", "dropped"},
         Discard(c, how), queue' = queue
  PROVE  OwnInv' /\ Alive' \subseteq Alive
<1>1. /\ \A e \in Engines : life'[e] = IF e \in Elems(held[c]) THEN how ELSE life[e]
      /\ held'[c] = <<>> /\ \A d \in Callers : d # c => held'[d] = held[d]  BY DEF Discard, HeldBy, Elems, TypeOK
<1>2. Elems(held'[c]) = {} /\ Distinct(held'[c])  BY <1>1, ElemsFew
<1>3. OwnInv'  BY <1>1, <1>2, OwnInSets, OwnInSetsNext, ElemsAreEngines, ZenonT(60)
<1>4. QED  BY <1>1, <1>3 DEF Alive

\* The head of the queue goes to a caller.
LEMMA PopOwns ==
  ASSUME TypeOK, OwnInv, NEW c \in Callers, Pop(c)
  PROVE  OwnInv' /\ Alive' \subseteq Alive
<1> DEFINE e == Head(queue)
<1>1. /\ queue # <<>> /\ queue \in Seq(Engines) /\ Distinct(queue)
      /\ held \in [Callers -> Seq(Engines)]
      /\ life \in [Engines -> {"unborn", "idle", "lent", "closed", "dropped"}]  BY OwnInSets DEF Pop, TypeOK
<1>2. /\ e \in Elems(queue) /\ e \in Engines
      /\ Elems(Tail(queue)) = Elems(queue) \ {e} /\ Distinct(Tail(queue))  BY <1>1, ElemsTail
<1>3. /\ queue' = Tail(queue)
      /\ held' = [held EXCEPT ![c] = Append(held[c], e)]
      /\ life' = [life EXCEPT ![e] = "lent"]  BY DEF Pop
<1> HIDE DEF e
<1>4. /\ held'[c] = Append(held[c], e) /\ \A d \in Callers : d # c => held'[d] = held[d]
      /\ life'[e] = "lent" /\ \A f \in Engines : f # e => life'[f] = life[f]  BY <1>1, <1>2, <1>3
<1>5. /\ life[e] = "idle" /\ \A d \in Callers : e \notin Elems(held[d])  BY <1>2, OwnInSets
<1>6. Elems(held'[c]) = Elems(held[c]) \cup {e} /\ Distinct(held'[c])
  BY <1>1, <1>2, <1>4, <1>5, ElemsAppend, OwnInSets
<1>7. OwnInv'
 <2>1. \A d \in Callers : Elems(held'[d]) \cap Elems(queue') = {}  BY <1>2, <1>3, <1>4, <1>5, <1>6, OwnInSets
 <2>2. \A d, f \in Callers : d # f => Elems(held'[d]) \cap Elems(held'[f]) = {}
  <3>1. \A d, f \in Callers : d # f => Elems(held[d]) \cap Elems(held[f]) = {}  BY OwnInSets
  <3>2. \A d \in Callers : d # c => held'[d] = held[d]  BY <1>4
  <3>3. \A d \in Callers : d # c => Elems(held'[d]) \cap Elems(held'[c]) = {}  BY <1>5, <1>6, <3>1, <3>2
  <3>4. QED  BY <3>1, <3>2, <3>3
 <2>3. \A f \in Elems(queue') : life'[f] = "idle"  BY <1>2, <1>3, <1>4, OwnInSets, ElemsAreEngines
 <2>4. \A d \in Callers : \A f \in Elems(held'[d]) : life'[f] = "lent"
   BY <1>4, <1>5, <1>6, OwnInSets, ElemsAreEngines, ZenonT(60)
 <2>5. Distinct(queue') /\ \A d \in Callers : Distinct(held'[d])  BY <1>2, <1>3, <1>4, <1>6, OwnInSets
 <2>6. QED  BY <2>1, <2>2, <2>3, <2>4, <2>5, OwnInSetsNext
<1>8. Alive' \subseteq Alive  BY <1>4, <1>5 DEF Alive
<1>9. QED  BY <1>7, <1>8

\* The first engine a caller holds goes back to the queue, or is closed.
LEMMA ReturnOwns ==
  ASSUME TypeOK, OwnInv, NEW c \in Callers, held[c] # <<>>,
         Push(c) \/ ReleaseClosed(c)
  PROVE  OwnInv' /\ Alive' \subseteq Alive
<1> DEFINE e == Head(held[c])
<1>1. /\ queue \in Seq(Engines) /\ held[c] \in Seq(Engines) /\ Distinct(held[c])
      /\ held \in [Callers -> Seq(Engines)]
      /\ life \in [Engines -> {"unborn", "idle", "lent", "closed", "dropped"}]  BY OwnInSets DEF TypeOK
<1>2. /\ e \in Elems(held[c]) /\ e \in Engines
      /\ Elems(Tail(held[c])) = Elems(held[c]) \ {e} /\ Distinct(Tail(held[c]))  BY <1>1, ElemsTail
<1>3. PICK how \in {"idle", "closed"} :
        /\ held' = [held EXCEPT ![c] = Tail(held[c])]
        /\ life' = [life EXCEPT ![e] = how]
        /\ \/ how = "idle" /\ queue' = Append(queue, e)
           \/ how = "closed" /\ queue' = queue  BY DEF Push, ReleaseClosed
<1> HIDE DEF e
<1>4. /\ held'[c] = Tail(held[c]) /\ \A d \in Callers : d # c => held'[d] = held[d]
      /\ life'[e] = how /\ \A f \in Engines : f # e => life'[f] = life[f]  BY <1>1, <1>2, <1>3
<1>5. /\ life[e] = "lent" /\ e \notin Elems(queue)
      /\ \A d \in Callers : d # c => e \notin Elems(held[d])  BY <1>2, OwnInSets
<1>6. /\ Distinct(queue')
      /\ \/ how = "idle" /\ Elems(queue') = Elems(queue) \cup {e}
         \/ how = "closed" /\ Elems(queue') = Elems(queue)
 <2>1. CASE how = "idle" /\ queue' = Append(queue, e)
  <3>1. /\ Elems(Append(queue, e)) = Elems(queue) \cup {e}
        /\ Distinct(queue) /\ e \notin Elems(queue) => Distinct(Append(queue, e))  BY <1>1, <1>2, ElemsAppend
  <3>2. QED  BY <1>5, <2>1, <3>1, OwnInSets
 <2>2. CASE how = "closed" /\ queue' = queue  BY <2>2, OwnInSets
 <2>3. QED  BY <1>3, <2>1, <2>2
<1>7. OwnInv'
 <2>1. \A d \in Callers : Elems(held'[d]) \cap Elems(queue') = {}  BY <1>2, <1>4, <1>5, <1>6, OwnInSets
 <2>2. \A d, f \in Callers : d # f => Elems(held'[d]) \cap Elems(held'[f]) = {}  BY <1>2, <1>4, <1>5, OwnInSets
 <2>3. \A f \in Elems(queue') : life'[f] = "idle"  BY <1>4, <1>5, <1>6, OwnInSets, ElemsAreEngines
 <2>4. \A d \in Callers : \A f \in Elems(held'[d]) : life'[f] = "lent"
   BY <1>2, <1>4, <1>5, OwnInSets, ElemsAreEngines
 <2>5. Distinct(queue') /\ \A d \in Callers : Distinct(held'[d])  BY <1>2, <1>4, <1>6, OwnInSets
 <2>6. QED  BY <2>1, <2>2, <2>3, <2>4, <2>5, OwnInSetsNext
<1>8. Alive' \subseteq Alive  BY <1>4, <1>5 DEF Alive
<1>9. QED  BY <1>7, <1>8

\* A new engine: it was unborn, so nobody could have it.
LEMMA BuildOwns ==
  ASSUME TypeOK, OwnInv, NEW c \in Callers, Build(c)
  PROVE  OwnInv' /\ \E e \in Engines : e \notin Alive /\ Alive' \subseteq Alive \cup {e}
<1>1. PICK e \in Engines : /\ life[e] = "unborn"
                           /\ life' = [life EXCEPT ![e] = "lent"]
                           /\ held' = [held EXCEPT ![c] = <<e>>]
                           /\ queue' = queue  BY DEF Build, Born
<1>2. /\ held'[c] = <<e>> /\ \A d \in Callers : d # c => held'[d] = held[d]
      /\ life'[e] = "lent" /\ \A f \in Engines : f # e => life'[f] = life[f]  BY <1>1 DEF TypeOK
<1>3. Elems(held'[c]) = {e} /\ Distinct(held'[c])  BY <1>2, ElemsFew
<1>4. e \notin Elems(queue) /\ \A d \in Callers : e \notin Elems(held[d])  BY <1>1, OwnInSets
<1>5. OwnInv'
 <2>1. \A d \in Callers : Elems(held'[d]) \cap Elems(queue') = {}  BY <1>1, <1>2, <1>3, <1>4, OwnInSets
 <2>2. \A d, f \in Callers : d # f => Elems(held'[d]) \cap Elems(held'[f]) = {}  BY <1>2, <1>3, <1>4, OwnInSets
 <2>3. \A f \in Elems(queue') : life'[f] = "idle"  BY <1>1, <1>2, <1>4, OwnInSets, ElemsAreEngines
 <2>4. \A d \in Callers : \A f \in Elems(held'[d]) : life'[f] = "lent"
   BY <1>2, <1>3, <1>4, OwnInSets, ElemsAreEngines
 <2>5. Distinct(queue') /\ \A d \in Callers : Distinct(held'[d])  BY <1>1, <1>2, <1>3, OwnInSets
 <2>6. QED  BY <2>1, <2>2, <2>3, <2>4, <2>5, OwnInSetsNext
<1>6. e \notin Alive /\ Alive' \subseteq Alive \cup {e}  BY <1>1, <1>2 DEF Alive
<1>7. QED  BY <1>5, <1>6

\* close drains the queue.
LEMMA DrainOwns ==
  ASSUME TypeOK, OwnInv, CloseDrain
  PROVE  OwnInv' /\ Alive' \subseteq Alive
<1>1. /\ \A e \in Engines : life'[e] = IF e \in Elems(queue) THEN "closed" ELSE life[e]
      /\ held' = held /\ queue' = <<>>  BY DEF CloseDrain, Queued, Elems
<1>2. Elems(queue') = {} /\ Distinct(queue')  BY <1>1, ElemsFew
<1>3. OwnInv'  BY <1>1, <1>2, OwnInSets, OwnInSetsNext, ElemsAreEngines
<1>4. QED  BY <1>1, <1>3 DEF Alive

-----------------------------------------------------------------------------
(* Every action: the owners, and the cap.                                  *)

\* Until it is counted out by a failed build, every engine that lives or is
\* being built has its place in the live count.
LiveCounted == Cardinality(Alive) + Cardinality(At({"build"})) <= total

\* No step but Grow adds a builder.
NoBuilderAdded == \A d \in Callers : pc'[d] = "build" => pc[d] = "build"

LEMMA NotToBuild ==
  ASSUME TypeOK, NEW c \in Callers, NEW p, p # "build", Goto(c, p) \/ AddPermit(c, p)
  PROVE  NoBuilderAdded
BY DEF TypeOK, Goto, AddPermit, NoBuilderAdded

LEMMA SizesKnown ==
  /\ IsFiniteSet(Alive) /\ Cardinality(Alive) \in Nat
  /\ IsFiniteSet(At({"build"})) /\ Cardinality(At({"build"})) \in Nat
  /\ IsFiniteSet(Engines) /\ Max \in Nat
<1>1. IsFiniteSet(Engines) /\ Max \in Nat  BY FS_Interval, PoolAssumption DEF Engines
<1>2. IsFiniteSet(Alive) /\ Cardinality(Alive) \in Nat  BY <1>1, FS_Subset, FS_CardinalityType DEF Alive
<1>3. IsFiniteSet(At({"build"})) /\ Cardinality(At({"build"})) \in Nat  BY AtIsFinite DEF At
<1>4. QED  BY <1>1, <1>2, <1>3

\* Nothing new lives and nobody starts to build: the count covers it still.
LEMMA FewerKeepsCount ==
  ASSUME TypeOK, LiveCounted, Alive' \subseteq Alive, NoBuilderAdded, total' = total
  PROVE  LiveCounted'
<1>1. At({"build"})' \subseteq At({"build"})  BY DEF At, NoBuilderAdded
<1>2. /\ Cardinality(Alive') <= Cardinality(Alive) /\ Cardinality(Alive') \in Nat
      /\ Cardinality(At({"build"})') <= Cardinality(At({"build"}))
      /\ Cardinality(At({"build"})') \in Nat  BY <1>1, SizesKnown, FS_Subset, FS_CardinalityType
<1>3. total \in Nat  BY SizesKnown DEF TypeOK
<1>4. QED  BY <1>2, <1>3, SizesKnown DEF LiveCounted

\* A step that leaves the engines where they are.
LEMMA OwnersStay ==
  ASSUME OwnInv, UNCHANGED <<queue, held, life>>
  PROVE  OwnInv' /\ Alive' \subseteq Alive
BY OwnInSets, OwnInSetsNext DEF Alive

LEMMA AcquiringOwns ==
  ASSUME PoolInv, OwnInv, LiveCounted, NEW c \in Callers,
         \/ NextRound(c) \/ TryIdle(c) \/ TakePermit(c) \/ Granted(c)
         \/ WokenByClose(c) \/ Recheck(c) \/ Pop(c) \/ PopNothing(c)
  PROVE  OwnInv' /\ LiveCounted'
<1>0. TypeOK  BY DEF PoolInv
<1>1. FirstStep # "build" /\ AfterPop(c) # "build"  BY DEF FirstStep, AfterPop
<1>2. NoBuilderAdded
 <2>1. CASE NextRound(c)  BY <1>0, <1>1, <2>1, NotToBuild DEF NextRound
 <2>2. CASE TryIdle(c)
  <3>1. CASE Goto(c, "grow")  BY <1>0, <3>1, NotToBuild
  <3>2. CASE pc' = [pc EXCEPT ![c] = "recheck"]  BY <1>0, <3>2 DEF TypeOK, NoBuilderAdded
  <3>3. QED  BY <2>2, <3>1, <3>2 DEF TryIdle
 <2>3. CASE TakePermit(c)  BY <1>0, <2>3 DEF TakePermit, TypeOK, NoBuilderAdded
 <2>4. CASE Granted(c)  BY <1>0, <2>4, NotToBuild DEF Granted
 <2>5. CASE WokenByClose(c)  BY <1>0, <2>5, NotToBuild DEF WokenByClose
 <2>6. CASE Recheck(c)  BY <1>0, <2>6, NotToBuild DEF Recheck
 <2>7. CASE Pop(c) \/ PopNothing(c)  BY <1>0, <1>1, <2>7, NotToBuild DEF Pop, PopNothing
 <2>8. QED  BY <2>1, <2>2, <2>3, <2>4, <2>5, <2>6, <2>7
<1>3. OwnInv' /\ Alive' \subseteq Alive
 <2>1. CASE Refuse(c)  BY <1>0, <2>1, DiscardOwns DEF Refuse
 <2>2. CASE Pop(c)  BY <1>0, <2>2, PopOwns
 <2>3. CASE UNCHANGED <<queue, held, life>>  BY <2>3, OwnersStay
 <2>4. QED  BY <2>1, <2>2, <2>3 DEF NextRound, TryIdle, TakePermit, Granted, WokenByClose, Recheck, PopNothing
<1>4. total' = total  BY DEF NextRound, TryIdle, TakePermit, Granted, WokenByClose, Recheck, Pop, PopNothing, Refuse
<1>5. QED  BY <1>0, <1>2, <1>3, <1>4, FewerKeepsCount

\* The live count and the builders move together; a new engine was a builder's.
LEMMA GrowingOwns ==
  ASSUME PoolInv, OwnInv, LiveCounted, NEW c \in Callers,
         Grow(c) \/ Build(c) \/ BuildFails(c)
  PROVE  OwnInv' /\ LiveCounted'
<1>0. /\ TypeOK /\ total \in Nat /\ pc \in [Callers -> Places]
      /\ {"build", "permit", "using", "away"} \subseteq Places  BY SizesKnown DEF PoolInv, TypeOK, Places
<1>1. CASE Grow(c)
 <2>1. OwnInv' /\ Alive' \subseteq Alive /\ pc[c] = "grow"  BY <1>1, OwnersStay DEF Grow
 <2>2. CASE total' = total /\ Goto(c, "permit")  BY <1>0, <2>1, <2>2, NotToBuild, FewerKeepsCount
 <2>3. CASE total' = total + 1 /\ Goto(c, "build")
  <3>1. Cardinality(At({"build"})') = Cardinality(At({"build"})) + 1  BY <1>0, <2>1, <2>3, BuilderMoves DEF Goto
  <3>2. Alive' = Alive  BY <1>1 DEF Grow, Alive
  <3>3. QED  BY <1>0, <2>1, <2>3, <3>1, <3>2, SizesKnown DEF LiveCounted
 <2>4. QED  BY <1>1, <2>2, <2>3 DEF Grow
<1>2. CASE Build(c)
 <2>1. PICK e \in Engines : e \notin Alive /\ Alive' \subseteq Alive \cup {e}  BY <1>0, <1>2, BuildOwns
 <2>2. /\ Cardinality(Alive') <= Cardinality(Alive) + 1 /\ Cardinality(Alive') \in Nat
  <3>1. IsFiniteSet(Alive \cup {e}) /\ Cardinality(Alive \cup {e}) = Cardinality(Alive) + 1
    BY <2>1, SizesKnown, FS_AddElement
  <3>2. QED  BY <2>1, <3>1, FS_Subset, FS_CardinalityType
 <2>3. /\ Cardinality(At({"build"})') = Cardinality(At({"build"})) - 1
       /\ Cardinality(At({"build"})') \in Nat  BY <1>0, <1>2, BuilderMoves DEF Build, Goto
 <2>4. total' = total  BY <1>2 DEF Build
 <2>5. LiveCounted'  BY <1>0, <2>2, <2>3, <2>4, SizesKnown DEF LiveCounted
 <2>6. QED  BY <1>0, <1>2, <2>5, BuildOwns
<1>3. CASE BuildFails(c)
 <2>1. OwnInv' /\ Alive' = Alive  BY <1>3, OwnersStay DEF BuildFails, Alive
 <2>2. /\ Cardinality(At({"build"})') = Cardinality(At({"build"})) - 1
       /\ Cardinality(At({"build"})') \in Nat /\ total' = total - 1
   BY <1>0, <1>3, BuilderMoves DEF BuildFails, Goto
 <2>3. QED  BY <1>0, <2>1, <2>2, SizesKnown DEF LiveCounted
<1>4. QED  BY <1>1, <1>2, <1>3

LEMMA RestOwns ==
  ASSUME PoolInv, OwnInv, LiveCounted, NEW c \in Callers,
         \/ BeginCall(c) \/ BeginInitAll(c) \/ Working(c) \/ Releasing(c)
         \/ DropWaiting(c) \/ DropWorking(c)
  PROVE  OwnInv' /\ LiveCounted'
<1>0. TypeOK /\ (pc[c] \in {"release", "push"} => held[c] # <<>>)  BY DEF PoolInv, Holding
<1>1. NoBuilderAdded
 <2>1. CASE BeginCall(c) \/ BeginInitAll(c)  BY <1>0, <2>1, NotToBuild DEF BeginCall, BeginInitAll, FirstStep
 <2>2. CASE Working(c) \/ DropWorking(c)
   BY <1>0, <2>2, NotToBuild DEF Working, Invoked, Reinitialised, ReinitFails, DropWorking
 <2>3. CASE Releasing(c)
  <3>1. \A b : (IF b THEN "away" ELSE "release") # "build"  OBVIOUS
  <3>2. CASE ReleaseClosed(c) \/ Post(c)  BY <1>0, <3>1, <3>2, NotToBuild DEF ReleaseClosed, Post
  <3>3. CASE ReleaseOpen(c) \/ ReleaseFits(c) \/ Push(c)
    BY <1>0, <3>3, NotToBuild DEF ReleaseOpen, ReleaseFits, Push
  <3>4. QED  BY <2>3, <3>2, <3>3 DEF Releasing
 <2>4. CASE DropWaiting(c)
  <3>1. CASE AddPermit(c, "away")  BY <1>0, <3>1, NotToBuild
  <3>2. CASE pc' = [pc EXCEPT ![c] = "away"]  BY <1>0, <3>2 DEF TypeOK, NoBuilderAdded
  <3>3. QED  BY <2>4, <3>1, <3>2 DEF DropWaiting
 <2>5. QED  BY <2>1, <2>2, <2>3, <2>4
<1>2. OwnInv' /\ Alive' \subseteq Alive
 <2>1. CASE ReinitFails(c) \/ DropWaiting(c) \/ DropWorking(c)
   BY <1>0, <2>1, DiscardOwns DEF ReinitFails, Refuse, DropWaiting, DropWorking
 <2>2. CASE Push(c) \/ ReleaseClosed(c)  BY <1>0, <2>2, ReturnOwns DEF Push, ReleaseClosed
 <2>3. CASE UNCHANGED <<queue, held, life>>  BY <2>3, OwnersStay
 <2>4. QED
   BY <2>1, <2>2, <2>3
      DEF BeginCall, BeginInitAll, Working, Invoked, Reinitialised, Releasing,
          ReleaseOpen, ReleaseFits, Post
<1>3. total' = total
  BY DEF BeginCall, BeginInitAll, Working, Invoked, Reinitialised, ReinitFails, Refuse,
         Releasing, ReleaseClosed, ReleaseOpen, ReleaseFits, Push, Post, DropWaiting,
         DropWorking
<1>4. QED  BY <1>0, <1>1, <1>2, <1>3, FewerKeepsCount

LEMMA ClosingOwns ==
  ASSUME PoolInv, OwnInv, LiveCounted, Closing
  PROVE  OwnInv' /\ LiveCounted'
<1>0. TypeOK  BY DEF PoolInv
<1>1. NoBuilderAdded /\ total' = total  BY DEF Closing, CloseFlag, CloseSemaphore, CloseDrain, NoBuilderAdded
<1>2. OwnInv' /\ Alive' \subseteq Alive  BY <1>0, OwnersStay, DrainOwns DEF Closing, CloseFlag, CloseSemaphore
<1>3. QED  BY <1>0, <1>1, <1>2, FewerKeepsCount

\* A pool starts with its eager engines idle, each once in the queue.
LEMMA OwnersInitially == Init => OwnInv /\ LiveCounted
<1> SUFFICES ASSUME Init PROVE OwnInv /\ LiveCounted  OBVIOUS
<1>1. /\ Max \in Nat /\ total \in 0..Max /\ total \in Nat /\ queue = [i \in 1..total |-> i]
      /\ held = [c \in Callers |-> <<>>]
      /\ life = [e \in Engines |-> IF e <= total THEN "idle" ELSE "unborn"]
      /\ pc = [c \in Callers |-> "away"]  BY PoolAssumption DEF Init
<1>2. Elems(queue) = 1..total /\ Distinct(queue)  BY <1>1 DEF Elems, Distinct
<1>3. \A c \in Callers : Elems(held[c]) = {} /\ Distinct(held[c])  BY <1>1, ElemsFew
<1>4. \A e \in 1..total : e \in Engines /\ e <= total  BY <1>1 DEF Engines
<1>5. OwnInv  BY <1>1, <1>2, <1>3, <1>4, OwnInSets
<1>6. LiveCounted
 <2>1. Alive = 1..total  BY <1>1, <1>4 DEF Alive, Engines
 <2>2. At({"build"}) = {}  BY <1>1 DEF At
 <2>3. Cardinality(1..total) = total /\ Cardinality({}) = 0  BY <1>1, FS_Interval, FS_EmptySet
 <2>4. Cardinality(Alive) = total /\ Cardinality(At({"build"})) = 0  BY <2>1, <2>2, <2>3
 <2>5. QED  BY <1>1, <2>4 DEF LiveCounted
<1>7. QED  BY <1>5, <1>6

LEMMA OwnersInvariant == Spec => [](OwnInv /\ LiveCounted)
<1>1. PoolInv /\ OwnInv /\ LiveCounted /\ [Next]_vars => OwnInv' /\ LiveCounted'
 <2> SUFFICES ASSUME PoolInv, OwnInv, LiveCounted, [Next]_vars
              PROVE  OwnInv' /\ LiveCounted'  OBVIOUS
 <2>1. ASSUME NEW c \in Callers, Acquiring(c) PROVE OwnInv' /\ LiveCounted'
   BY <2>1, AcquiringOwns, GrowingOwns DEF Acquiring
 <2>2. ASSUME NEW c \in Callers, BuildFails(c) PROVE OwnInv' /\ LiveCounted'  BY <2>2, GrowingOwns
 <2>3. ASSUME NEW c \in Callers,
              \/ BeginCall(c) \/ BeginInitAll(c) \/ Working(c) \/ Releasing(c)
              \/ DropWaiting(c) \/ DropWorking(c)
       PROVE  OwnInv' /\ LiveCounted'  BY <2>3, RestOwns
 <2>4. CASE Closing  BY <2>4, ClosingOwns
 <2>5. CASE UNCHANGED vars
  <3>1. UNCHANGED <<queue, held, life, pc, total>>  BY <2>5 DEF vars
  <3>2. OwnInv' /\ Alive' \subseteq Alive /\ NoBuilderAdded  BY <3>1, OwnersStay DEF NoBuilderAdded
  <3>3. QED  BY <3>1, <3>2, FewerKeepsCount DEF PoolInv
 <2>6. ASSUME NEW c \in Callers, CallRefused(c) PROVE OwnInv' /\ LiveCounted'  BY <2>5, <2>6 DEF CallRefused
 <2>7. QED  BY <2>1, <2>2, <2>3, <2>4, <2>5, <2>6 DEF Next
<1>2. QED  BY <1>1, OwnersInitially, PoolInvariant, PTL DEF Spec

\* The engine a release brings back is not in the queue, and with those that
\* are it is still within the cap: there is room for it.
LEMMA ReleaseFinds ==
  ASSUME PoolInv, OwnInv, LiveCounted
  PROVE  ReleaseAlwaysFits
<1> SUFFICES ASSUME NEW c \in Callers, pc[c] \in {"fit", "push"}
             PROVE  Len(queue) < Max  BY DEF ReleaseAlwaysFits, At
<1> DEFINE e == Head(held[c])
<1>1. /\ TypeOK /\ held[c] # <<>> /\ queue \in Seq(Engines) /\ held[c] \in Seq(Engines)
      /\ total \in 0..Max  BY DEF PoolInv, Holding, TypeOK
<1>2. /\ e \in Elems(held[c]) /\ e \in Engines
      /\ e \notin Elems(queue) /\ life[e] = "lent"  BY <1>1, ElemsTail, OwnInSets
<1>3. Elems(queue) \cup {e} \subseteq Alive  BY <1>1, <1>2, OwnInSets, ElemsAreEngines DEF Alive
<1>4. IsFiniteSet(Elems(queue)) /\ Cardinality(Elems(queue)) = Len(queue) /\ Len(queue) \in Nat
  BY <1>1, ElemsCount, OwnInSets, LenProperties
<1>5. Cardinality(Elems(queue) \cup {e}) = Len(queue) + 1  BY <1>2, <1>4, FS_AddElement
<1>6. Len(queue) + 1 <= Cardinality(Alive)  BY <1>3, <1>5, SizesKnown, FS_Subset
<1>7. QED  BY <1>1, <1>4, <1>6, SizesKnown DEF LiveCounted

\* pool.rs l. 92-159 and pool_autogrow.rs l. 130-240, for any number of callers
\* and any cap, with cancellations, failed builds and close in any order: an
\* engine has one owner, no engine that ended is lent again, no more engines
\* live than the cap allows, and the release's "unreachable" branch is so.
THEOREM PoolsAreSound == Spec => []PoolIsSound
<1>1. PoolInv /\ OwnInv /\ LiveCounted => PoolIsSound
 <2> SUFFICES ASSUME PoolInv, OwnInv, LiveCounted PROVE PoolIsSound  OBVIOUS
 <2>1. TypeOK /\ OneOwner /\ NoDeadEngine /\ ReleaseAlwaysFits  BY ReleaseFinds DEF PoolInv, OwnInv
 <2>2. CapHolds
  <3>1. total \in 0..Max  BY DEF PoolInv, TypeOK
  <3>2. QED  BY <3>1, SizesKnown DEF CapHolds, LiveCounted, Alive
 <2>3. QED  BY <2>1, <2>2 DEF PoolIsSound
<1>2. QED  BY <1>1, PoolInvariant, OwnersInvariant, PTL

-----------------------------------------------------------------------------
(* The engines and their sources: the inductive invariant, part by part.   *)
(* Callers, loops, versions and instances are any; what a part says is     *)
(* what the steps of the others must leave alone.                          *)

Actors == Calls \cup Loops
\* A program is a version of the script, or the call that passed it as a string.
Known == (1..MaxText) \cup Calls
EnginePlaces ==
  {"idle", "call", "fetch", "remote", "store", "probe", "push", "start", "hooks", "keep", "reset",
   "closing", "joining", "running", "ran", "send", "sent", "open", "wait", "gone", "done"}
Loading == {"fetch", "remote", "store", "probe"}
Act ==
  [op : AllOperations \cup {"none", "reload"}, pc : EnginePlaces, ver : {0} \cup Known,
   snap : Seq({0} \cup Known), via : Nat, must : 0..MaxText, ans : {"none", "ok", "failed", "quota"}]

\* What a caller, or a loop, is at goes with the call it made.
Shaped(a, r) ==
  /\ r \in Act
  /\ a \in Loops => /\ r.pc \in Loading \cup {"idle", "push", "wait", "gone"}
                    /\ r.op = (IF r.pc = "idle" THEN "none" ELSE "reload")
  /\ a \in Calls => r.op \in inst.ops \cup {"none"} /\ r.pc \notin {"wait", "gone"}
  /\ r.pc \in Loading => r.op \in {"load", "fromkey", "reload"}
  /\ r.pc = "push" => r.op \in {"load", "fromkey", "reload", "adhoc"}
  /\ r.pc = "start" => r.op \in {"fromkey", "adhoc"}
  /\ r.pc \in {"running", "ran"} => r.op \in {"run", "call", "fromkey", "adhoc"}
  /\ r.pc \in {"hooks", "keep", "reset"} => r.op = "init"
  /\ r.pc \in {"closing", "joining"} => r.op = "close"
  /\ r.pc = "open" => r.op = "watch"
  /\ r.pc \in {"push", "start", "store", "probe"} => r.ver \in Known
  /\ r.pc \in {"store", "probe"} => r.ver \in 1..MaxText
  /\ r.pc \in {"push", "start", "running"} /\ r.op # "run" /\ r.op # "call" =>
       IF r.op = "adhoc" THEN r.ver = a ELSE r.ver \in 1..MaxText
  /\ r.pc \in {"keep", "joining", "send", "sent"} => inst.engine = "javascript"
  /\ r.pc = "push" /\ r.op = "adhoc" => inst.engine \notin {"javascript", "starlark"}
  /\ r.pc \in {"running", "ran"} =>
       inst.engine = "lua" \/ (inst.engine = "starlark" /\ r.op # "call")
  /\ r.ans # "none" => r.pc = "done"

ActorsInv == act \in [Actors -> Act] /\ \A a \in Actors : Shaped(a, act[a])

SourcesInv ==
  /\ inst \in AllRecords /\ text \in 1..MaxText /\ faults \in Nat
  /\ stream \in [Loops \cup {"cache"} -> 1..(MaxText + 1)]
  /\ cache \in 0..MaxText /\ entry \in BOOLEAN /\ calm \in BOOLEAN

EnginesInv == programs \in Seq(Known) /\ left \in 0..99

\* A loop in the map has not been told to stop, and only those that were have ended.
LoopsInv ==
  /\ table \in Loops \cup {"none"} /\ aborted \subseteq Loops /\ table \notin aborted
  /\ table # "none" => act[table].pc # "idle"
  /\ \A l \in Loops : /\ l \in aborted => act[l].pc # "idle"
                      /\ act[l].pc = "gone" => l \in aborted

\* The worker threads: the sender leads to one that is up and has no last command;
\* while no close() met an init() halfway, each thread is the sender's or awaited by
\* a close(), and once it is quiet there is none.
ThreadTypes ==
  /\ worker \in [1..2 -> {"none", "up", "gone"}]
  /\ orders \in [1..2 -> Seq(Calls \cup {"drop"})]
  /\ sender \in 0..2 /\ joinable \in 0..2 /\ quiet \in {"no", "yes", "raced"}
  /\ inst.engine # "javascript" =>
       /\ sender = 0 /\ joinable = 0 /\ quiet = "no"
       /\ \A i \in 1..2 : worker[i] = "none"
OrdersInv ==
  /\ \A i \in 1..2 : /\ worker[i] = "none" => orders[i] = <<>>
                     /\ \A n \in 1..Len(orders[i]) :
                          IF orders[i][n] = "drop" THEN i # sender
                          ELSE act[orders[i][n]].pc \in {"sent", "done"}
  /\ \A c \in Calls : act[c].pc \in {"send", "keep"} => act[c].via \in 1..2 /\ worker[act[c].via] # "none"
SenderInv ==
  /\ inst.engine = "javascript" => (inited <=> sender # 0)
  /\ sender # 0 => worker[sender] = "up"
JoinersInv ==
  quiet # "raced" =>
    /\ \A c \in Calls : act[c].pc = "keep" => act[c].via = sender
    /\ (\A c \in Calls : act[c].pc # "keep") => joinable = sender
    /\ \A i \in 1..2 : worker[i] = "up" =>
         i = sender \/ \E c \in Calls : act[c].pc = "joining" /\ act[c].via = i
QuietInv ==
  quiet = "yes" => ~inited /\ \A i \in 1..2 : worker[i] # "up"

\* A run that no other overlaps owns lua's flag.
FlagInv ==
  inst.engine = "lua" =>
    \A a \in Actors :
      act[a].pc \in {"running", "ran"} /\ act[a].must = 1 =>
        /\ \A b \in Actors : act[b].pc \in {"running", "ran"} => b = a
        /\ act[a].pc = "running" => ~tripped
        /\ act[a].pc = "ran" => (tripped <=> act[a].via = 1)

\* starlark: the strings in the set are those whose run was answered ok.
StringsInv ==
  inst.engine = "starlark" /\ {"init", "close"} \cap inst.ops = {} =>
    \A c \in Calls :
      (\E n \in 1..Len(programs) : programs[n] = c)
        <=> act[c].pc = "done" /\ act[c].op = "adhoc" /\ act[c].ans = "ok"

\* The cached source, while its stream could be opened: what a caller may not fall
\* short of is neither in flight nor in the cache in an older version, unless the
\* stream has a tick that evicts it.
CachedInv ==
  inst.source = "cached" /\ faults = 0 =>
    /\ entry => stream["cache"] <= text
    /\ \A c \in Calls :
         /\ act[c].must <= text
         /\ \A a \in Actors :
              /\ act[a].pc \in {"store", "probe"} => act[a].ver >= act[c].must
              /\ act[a].pc = "probe" => cache = 0 \/ cache >= act[c].must
         /\ entry => cache = 0 \/ cache >= act[c].must \/ stream["cache"] < act[c].must
         /\ act[c].pc \in {"push", "start"} /\ act[c].op \in {"load", "fromkey"} =>
              act[c].ver >= act[c].must
CalmInv ==
  inst.source = "cached" /\ faults = 0 /\ calm =>
    /\ \A a \in Actors :
         /\ act[a].pc \in {"store", "probe"} => act[a].ver = text
         /\ act[a].pc = "probe" => cache \in {0, text}
    /\ entry => cache = 0 \/ cache >= stream["cache"]

Typed == ActorsInv /\ SourcesInv /\ EnginesInv
ThreadsInv == ThreadTypes /\ OrdersInv /\ SenderInv /\ JoinersInv /\ QuietInv
EngineInv == Typed /\ LoopsInv /\ ThreadsInv /\ FlagInv /\ StringsInv /\ CachedInv /\ CalmInv

-----------------------------------------------------------------------------
(* Steps that one actor takes, and what they leave of the invariant.       *)

\* What one actor's step does to all of them.
Others(a) == \A b \in Actors : b # a => act'[b] = act[b]

\* An actor that stays in shape keeps all of them in shape.
LEMMA Reshaped ==
  ASSUME ActorsInv, inst' = inst, act' \in [Actors -> Act], NEW a \in Actors, Others(a),
         Shaped(a, act'[a])
  PROVE  ActorsInv'
BY DEF ActorsInv, Shaped, Others

\* An actor moves on, and the others stay where they are.
LEMMA Goes ==
  ASSUME ActorsInv, NEW a \in Actors, NEW p \in EnginePlaces, E!Goes(a, p)
  PROVE  /\ act' \in [Actors -> Act] /\ Others(a)
         /\ act'[a] = [act[a] EXCEPT !.pc = p]
<1>1. act[a] \in Act /\ [act[a] EXCEPT !.pc = p] \in Act  BY ZenonT(60) DEF ActorsInv, Act
<1>2. act' = [act EXCEPT ![a] = [act[a] EXCEPT !.pc = p]]  BY DEF E!Goes
<1> QED BY <1>1, <1>2 DEF ActorsInv, Others

\* An actor moves on by an incarnation, a stream or an outcome.
LEMMA GoesBy ==
  ASSUME ActorsInv, NEW a \in Actors, NEW p \in EnginePlaces, NEW v \in Nat, E!GoesBy(a, p, v)
  PROVE  /\ act' \in [Actors -> Act] /\ Others(a)
         /\ act'[a].pc = p /\ act'[a].via = v
         /\ act'[a].op = act[a].op /\ act'[a].ver = act[a].ver /\ act'[a].snap = act[a].snap
         /\ act'[a].must = act[a].must /\ act'[a].ans = act[a].ans
<1>1. act[a] \in Act /\ [act[a] EXCEPT !.pc = p, !.via = v] \in Act  BY ZenonT(60) DEF ActorsInv, Act
<1>2. act' = [act EXCEPT ![a] = [act[a] EXCEPT !.pc = p, !.via = v]]  BY <1>1 DEF E!GoesBy, ActorsInv, Act
<1>3. act'[a] = [act[a] EXCEPT !.pc = p, !.via = v]  BY <1>1, <1>2 DEF ActorsInv
<1> QED BY <1>1, <1>2, <1>3 DEF ActorsInv, Others, Act

\* An actor moves on with a version.
LEMMA Takes ==
  ASSUME ActorsInv, NEW a \in Actors, NEW p \in EnginePlaces, NEW v \in Known, E!Takes(a, p, v)
  PROVE  /\ act' \in [Actors -> Act] /\ Others(a)
         /\ act'[a].pc = p /\ act'[a].ver = v
         /\ act'[a].op = act[a].op /\ act'[a].via = act[a].via /\ act'[a].snap = act[a].snap
         /\ act'[a].must = act[a].must /\ act'[a].ans = act[a].ans
<1>1. act[a] \in Act /\ [act[a] EXCEPT !.pc = p, !.ver = v] \in Act  BY ZenonT(60) DEF ActorsInv, Act
<1>2. act' = [act EXCEPT ![a] = [act[a] EXCEPT !.pc = p, !.ver = v]]  BY <1>1 DEF E!Takes, ActorsInv, Act
<1>3. act'[a] = [act[a] EXCEPT !.pc = p, !.ver = v]  BY <1>1, <1>2 DEF ActorsInv
<1> QED BY <1>1, <1>2, <1>3 DEF ActorsInv, Others, Act

Rest == [op |-> "none", pc |-> "idle", ver |-> 0, snap |-> <<>>, via |-> 0, must |-> 0, ans |-> "none"]

\* A call returns, and a loop goes back to its wait.
LEMMA Answers ==
  ASSUME ActorsInv, NEW a \in Actors, NEW s \in {"ok", "failed", "quota"}, E!Answer(a, s)
  PROVE  /\ act' \in [Actors -> Act] /\ Others(a)
         /\ act'[a] = IF a \in Loops THEN [Rest EXCEPT !.op = "reload", !.pc = "wait", !.must = act[a].must]
                      ELSE [Rest EXCEPT !.op = act[a].op, !.pc = "done", !.ans = s]
<1> DEFINE r == IF a \in Loops THEN [Rest EXCEPT !.op = "reload", !.pc = "wait", !.must = act[a].must]
                ELSE [Rest EXCEPT !.op = act[a].op, !.pc = "done", !.ans = s]
<1>1. act[a] \in Act /\ <<>> \in Seq({0} \cup Known) /\ 0 \in 0..MaxText  BY ScriptsAssumption DEF ActorsInv
<1>2. r \in Act  BY <1>1, ZenonT(60) DEF Act, Rest, EnginePlaces
<1>3. act' = [act EXCEPT ![a] = r]  BY DEF E!Answer, E!Idle, Rest, E!None
<1> QED BY <1>2, <1>3 DEF ActorsInv, Others

\* A call that has returned.
LEMMA DoneIsAct ==
  ASSUME NEW o \in AllOperations \cup {"none", "reload"}, NEW s \in {"ok", "failed", "quota"}
  PROVE  [Rest EXCEPT !.op = o, !.pc = "done", !.ans = s] \in Act
<1>1. <<>> \in Seq({0} \cup Known)  OBVIOUS
<1>2. 0 \in 0..MaxText /\ 0 \in {0} \cup Known /\ 0 \in Nat  BY ScriptsAssumption
<1>3. "idle" \in EnginePlaces /\ "done" \in EnginePlaces  BY DEF EnginePlaces
<1>4. Rest \in Act  BY <1>1, <1>2, <1>3 DEF Act, Rest
<1>5. s \in {"none", "ok", "failed", "quota"}  OBVIOUS
<1> QED BY <1>3, <1>4, <1>5 DEF Act

\* What a call that returns leaves behind.
LEMMA Returns ==
  ASSUME ActorsInv, NEW c \in Calls, NEW s \in {"ok", "failed", "quota"}, E!Answer(c, s)
  PROVE  /\ act' \in [Actors -> Act] /\ Others(c)
         /\ act'[c].op = act[c].op /\ act'[c].pc = "done" /\ act'[c].ans = s /\ act'[c].must = 0
<1>1. c \in Actors /\ c \notin Loops  BY ScriptsAssumption, SMTT(60) DEF Actors
<1>2. /\ act' \in [Actors -> Act] /\ Others(c)
      /\ act'[c] = [Rest EXCEPT !.op = act[c].op, !.pc = "done", !.ans = s]  BY <1>1, Answers, ZenonT(60)
<1> QED BY <1>2 DEF Rest

\* A step that is nothing to the loops, the worker threads, lua's flag, starlark's
\* strings, the cached source: what it leaves of the actors.
LoopsRest ==
  \A l \in Loops : /\ act'[l].pc = "idle" <=> act[l].pc = "idle"
                   /\ act'[l].pc = "gone" => act[l].pc = "gone"
ThreadsRest ==
  inst.engine = "javascript" =>
    \A c \in Calls : act'[c] = act[c] \/ /\ act[c].pc \notin {"keep", "joining", "sent", "done"}
                                         /\ act'[c].pc \notin {"keep", "joining", "send"}
FlagRests ==
  inst.engine = "lua" =>
    \A a \in Actors : act'[a] = act[a] \/ /\ act[a].pc # "ran"
                                          /\ act'[a].pc \notin {"running", "ran"}
Finished(r) == r.pc = "done" /\ r.op = "adhoc" /\ r.ans = "ok"
StringsRest ==
  inst.engine = "starlark" =>
    \A c \in Calls : act'[c] = act[c] \/ (act[c].pc # "done" /\ ~Finished(act'[c]))
CacheRests ==
  inst.source = "cached" =>
    \A a \in Actors :
      /\ act'[a].pc \in {"store", "probe"} => act'[a] = act[a]
      /\ a \in Calls => \/ act'[a].must \in {0, 1}
                        \/ act'[a].must = act[a].must
      /\ act'[a].pc \in {"push", "start"} /\ act'[a].op \in {"load", "fromkey"} =>
           /\ act[a].pc \in {"push", "start"} /\ act'[a].op = act[a].op
           /\ act'[a].ver = act[a].ver /\ act'[a].must = act[a].must
AllRest == LoopsRest /\ ThreadsRest /\ FlagRests /\ StringsRest /\ CacheRests

Quiet(a, r) ==
  /\ act[a].pc \notin {"keep", "joining", "sent", "done", "ran", "gone"}
  /\ a \in Loops => act[a].pc # "idle"
  /\ r.pc \notin {"keep", "joining", "send", "running", "ran", "gone", "store", "probe", "idle"}
  /\ inst.engine = "starlark" => ~Finished(r)
  /\ r.must = act[a].must \/ r.must = 0
  /\ r.pc \in {"push", "start"} /\ r.op \in {"load", "fromkey"} =>
       act[a].pc \in {"push", "start"} /\ r.op = act[a].op /\ r.ver = act[a].ver /\ r.must = act[a].must

\* Such a step of one actor is nothing to the rest.
LEMMA QuietRests ==
  ASSUME ActorsInv, inst' = inst, act' \in [Actors -> Act], NEW a \in Actors, Others(a), Quiet(a, act'[a])
  PROVE  AllRest
<1>1. LoopsRest  BY DEF LoopsRest, Quiet, Others, Actors
<1>2. ThreadsRest  BY DEF ThreadsRest, Quiet, Others, Actors
<1>3. FlagRests  BY DEF FlagRests, Quiet, Others, Actors
<1>4. StringsRest  BY DEF StringsRest, Quiet, Others, Actors
<1>5. CacheRests  BY DEF CacheRests, Quiet, Others, Actors
<1> QED BY <1>1, <1>2, <1>3, <1>4, <1>5 DEF AllRest

\* A call is answered, a reload is over.
LEMMA AnswerRests ==
  ASSUME ActorsInv, inst' = inst, NEW a \in Actors, NEW s \in {"ok", "failed", "quota"}, E!Answer(a, s),
         act[a].pc \notin {"keep", "joining", "sent", "done", "ran", "gone", "idle", "wait"},
         inst.engine = "starlark" /\ act[a].op = "adhoc" => s # "ok"
  PROVE  ActorsInv' /\ AllRest
<1>1. /\ act' \in [Actors -> Act] /\ Others(a)
      /\ act'[a] = IF a \in Loops THEN [Rest EXCEPT !.op = "reload", !.pc = "wait", !.must = act[a].must]
                   ELSE [Rest EXCEPT !.op = act[a].op, !.pc = "done", !.ans = s]  BY Answers, ZenonT(60)
<1>2. Shaped(a, act[a])  BY DEF ActorsInv
<1>3. Shaped(a, act'[a])  BY <1>1, <1>2, ScriptsAssumption DEF Shaped, Rest, Actors, Loading
<1>4. Quiet(a, act'[a])  BY <1>1 DEF Quiet, Rest, Finished
<1> QED BY <1>1, <1>3, <1>4, QuietRests, Reshaped, SMTT(60)

\* Every answer keeps the actors in shape.
LEMMA AnswerShapes ==
  ASSUME ActorsInv, inst' = inst, NEW a \in Actors, NEW s \in {"ok", "failed", "quota"}, E!Answer(a, s)
  PROVE  ActorsInv'
<1>1. /\ act' \in [Actors -> Act] /\ Others(a)
      /\ act'[a] = IF a \in Loops THEN [Rest EXCEPT !.op = "reload", !.pc = "wait", !.must = act[a].must]
                   ELSE [Rest EXCEPT !.op = act[a].op, !.pc = "done", !.ans = s]  BY Answers, ZenonT(60)
<1>2. Shaped(a, act[a])  BY DEF ActorsInv
<1>3. Shaped(a, act'[a])  BY <1>1, <1>2, ScriptsAssumption DEF Shaped, Rest, Actors, Loading
<1> QED BY <1>1, <1>3, Reshaped, SMTT(60)

\* An actor goes on, quietly.
LEMMA GoesRests ==
  ASSUME ActorsInv, inst' = inst, NEW a \in Actors, NEW p \in EnginePlaces, E!Goes(a, p),
         act[a].pc \notin {"keep", "joining", "sent", "done", "ran", "gone", "idle", "wait", "push"},
         p \notin {"keep", "joining", "send", "running", "ran", "gone", "store", "probe", "idle", "push",
                   "start", "done"},
         Shaped(a, [act[a] EXCEPT !.pc = p])
  PROVE  ActorsInv' /\ AllRest
<1>1. /\ act' \in [Actors -> Act] /\ Others(a)
      /\ act'[a] = [act[a] EXCEPT !.pc = p]  BY Goes
<1>2. act[a] \in Act  BY DEF ActorsInv
<1>3. Quiet(a, act'[a])  BY <1>1, <1>2 DEF Quiet, Finished, Act
<1> QED BY <1>1, <1>3, QuietRests, Reshaped

\* What such a step keeps.
LEMMA LoopsKeep ==
  ASSUME LoopsInv, LoopsRest, UNCHANGED <<table, aborted>>
  PROVE  LoopsInv'
BY DEF LoopsInv, LoopsRest

\* All watchers are stopped.
LEMMA StopKeeps ==
  ASSUME LoopsInv, LoopsRest, E!StopWatchers
  PROVE  LoopsInv'
BY ScriptsAssumption DEF LoopsInv, LoopsRest, E!StopWatchers, E!None

\* The worker threads are as they were.
LEMMA ThreadsKeep ==
  ASSUME ThreadsInv, ActorsInv, ActorsInv', ThreadsRest, UNCHANGED <<inst, worker, orders, sender, joinable, quiet>>,
         inst.engine = "javascript" => inited' = inited
  PROVE  ThreadsInv'
<1>1. ThreadTypes'  BY DEF ThreadsInv, ThreadTypes
<1>2. CASE inst.engine = "javascript"
 <2>1. OrdersInv'
  <3>1. ASSUME NEW i \in 1..2, NEW n \in 1..Len(orders[i]), orders[i][n] # "drop"
        PROVE  act'[orders[i][n]].pc \in {"sent", "done"}
   <4>1. orders[i][n] \in Calls  BY <3>1 DEF ThreadsInv, ThreadTypes
   <4>2. act[orders[i][n]].pc \in {"sent", "done"}  BY <3>1 DEF ThreadsInv, OrdersInv
   <4> QED BY <1>2, <4>1, <4>2 DEF ThreadsRest
  <3>2. ASSUME NEW c \in Calls, act'[c].pc \in {"send", "keep"}
        PROVE  act'[c].via \in 1..2 /\ worker[act'[c].via] # "none"
    BY <1>2, <3>2 DEF ThreadsRest, ThreadsInv, OrdersInv
  <3> QED BY <3>1, <3>2 DEF ThreadsInv, OrdersInv
 <2>2. SenderInv' /\ QuietInv'  BY <1>2 DEF ThreadsInv, SenderInv, QuietInv
 <2>3. JoinersInv'  BY <1>2 DEF ThreadsInv, JoinersInv, ThreadsRest
 <2> QED BY <1>1, <2>1, <2>2, <2>3 DEF ThreadsInv
<1>3. CASE inst.engine # "javascript"
 <2>1. /\ sender' = 0 /\ joinable' = 0 /\ quiet' = "no" /\ inst'.engine # "javascript"
       /\ \A i \in 1..2 : worker'[i] = "none" /\ orders'[i] = <<>>  BY <1>3 DEF ThreadsInv, ThreadTypes, OrdersInv
 <2>2. \A c \in Calls : act'[c].pc \notin {"send", "keep"}  BY <1>3, <2>1 DEF ActorsInv, Shaped, Actors
 <2> QED BY <1>1, <2>1, <2>2 DEF ThreadsInv, OrdersInv, SenderInv, JoinersInv, QuietInv
<1> QED BY <1>2, <1>3

\* So is lua's flag.
LEMMA FlagKeeps ==
  ASSUME FlagInv, FlagRests, UNCHANGED inst, inst.engine = "lua" => tripped' = tripped
  PROVE  FlagInv'
BY DEF FlagInv, FlagRests

\* The strings among the programs stay those.
SameStrings ==
  inst.engine = "starlark" /\ {"init", "close"} \cap inst.ops = {} =>
    \A c \in Calls : (\E n \in 1..Len(programs') : programs'[n] = c)
                       <=> (\E n \in 1..Len(programs) : programs[n] = c)

\* And the strings that ran.
LEMMA StringsKeep ==
  ASSUME StringsInv, StringsRest, UNCHANGED inst, SameStrings
  PROVE  StringsInv'
BY DEF StringsInv, StringsRest, SameStrings, Finished

\* And the cached source, which may forget.
LEMMA CacheKeeps ==
  ASSUME CachedInv, CalmInv, SourcesInv, ActorsInv, ActorsInv', CacheRests,
         UNCHANGED <<inst, text, entry, calm>>, faults' = 0 => faults = 0, cache' \in {cache, 0},
         stream'["cache"] = stream["cache"]
  PROVE  CachedInv' /\ CalmInv'
<1>1. CalmInv'  BY DEF CalmInv, CacheRests
<1>2. CachedInv'
 <2> SUFFICES ASSUME inst.source = "cached", faults = 0, NEW c \in Calls
              PROVE  /\ entry => stream["cache"] <= text
                     /\ act'[c].must <= text
                     /\ \A a \in Actors :
                          /\ act'[a].pc \in {"store", "probe"} => act'[a].ver >= act'[c].must
                          /\ act'[a].pc = "probe" => cache' = 0 \/ cache' >= act'[c].must
                     /\ entry => cache' = 0 \/ cache' >= act'[c].must \/ stream["cache"] < act'[c].must
                     /\ act'[c].pc \in {"push", "start"} /\ act'[c].op \in {"load", "fromkey"} =>
                          act'[c].ver >= act'[c].must  BY DEF CachedInv, SourcesInv
 <2>1. /\ text \in Nat /\ text >= 1 /\ cache \in Nat /\ c \in Actors
       /\ \A a \in Actors : act'[a].pc \in {"store", "probe"} => act'[a].ver \in Nat /\ act'[a].ver >= 1
   BY ScriptsAssumption DEF SourcesInv, ActorsInv, Shaped, Actors
 <2>2. act'[c].must \in {0, 1, act[c].must}  BY <2>1 DEF CacheRests
 <2>3. CASE act'[c].must \in {0, 1}
  <3>1. act'[c].pc \in {"push", "start"} /\ act'[c].op \in {"load", "fromkey"} =>
          act'[c].ver \in Nat /\ act'[c].ver >= 1  BY <2>1 DEF ActorsInv, Shaped
  <3>2. entry => stream["cache"] <= text  BY DEF CachedInv
  <3> QED BY <2>1, <2>3, <3>1, <3>2
 <2>4. CASE act'[c].must = act[c].must  BY <2>1, <2>4 DEF CachedInv, CacheRests
 <2> QED BY <2>2, <2>3, <2>4
<1> QED BY <1>1, <1>2

\* All of it, and all of it but the cached source.
ThreadVars == <<worker, orders, sender, joinable, quiet>>

\* All of it, for a step that is nothing to the threads, the flag and the strings.
LEMMA BesideCache ==
  ASSUME EngineInv, Typed', LoopsInv', ThreadsRest, FlagRests, StringsRest, CachedInv', CalmInv',
         UNCHANGED <<inst, tripped>>, UNCHANGED ThreadVars,
         inst.engine = "javascript" => inited' = inited, SameStrings
  PROVE  EngineInv'
<1>1. ThreadsInv'  BY ThreadsKeep DEF EngineInv, Typed, ThreadVars
<1>2. FlagInv'  BY FlagKeeps DEF EngineInv
<1>3. StringsInv'  BY StringsKeep DEF EngineInv
<1> QED BY <1>1, <1>2, <1>3 DEF EngineInv

RestVars == <<inst, worker, orders, sender, joinable, quiet, tripped, text, stream, cache, entry, calm>>

\* All of it, for a step that is nothing to the cached source either.
LEMMA RestKeeps ==
  ASSUME EngineInv, Typed', AllRest, UNCHANGED RestVars, faults' = 0 => faults = 0,
         inst.engine = "javascript" => inited' = inited, SameStrings, LoopsInv'
  PROVE  EngineInv'
<1>1. CachedInv' /\ CalmInv'  BY CacheKeeps DEF EngineInv, Typed, AllRest, RestVars
<1> QED BY <1>1, BesideCache DEF AllRest, RestVars, ThreadVars

StepsRight == E!ClosedJsIsQuietStep /\ E!VerdictIsOwnStep

\* What a step must not do, it does not do if no run of lua is answered.
LEMMA RestIsRight ==
  ASSUME EngineInv, FlagRests, UNCHANGED <<inst, orders>>
  PROVE  StepsRight
<1>1. E!ClosedJsIsQuietStep
 <2>1. \A i \in 1..2 : Len(orders[i]) \in Nat  BY DEF EngineInv, ThreadsInv, ThreadTypes
 <2> QED BY <2>1 DEF E!ClosedJsIsQuietStep, E!Incs
<1>2. E!VerdictIsOwnStep  BY DEF E!VerdictIsOwnStep, E!engine, E!Actors, E!At, FlagRests, Actors
<1> QED BY <1>1, <1>2 DEF StepsRight

\* A step that answers a caller, or lets it go on, and is nothing to the rest.
SmallStep ==
  /\ UNCHANGED RestVars /\ UNCHANGED faults /\ EnginesInv'
  /\ inst.engine = "javascript" => inited' = inited
  /\ SameStrings
  /\ UNCHANGED <<table, aborted>> \/ E!StopWatchers

\* Such a step keeps the invariant.
LEMMA SmallKeeps ==
  ASSUME EngineInv, ActorsInv', AllRest, SmallStep
  PROVE  EngineInv' /\ StepsRight
<1>1. SourcesInv'  BY DEF EngineInv, Typed, SourcesInv, SmallStep, RestVars
<1>2. LoopsInv'  BY LoopsKeep, StopKeeps DEF SmallStep, EngineInv, AllRest
<1>3. EngineInv'  BY <1>1, <1>2, RestKeeps DEF SmallStep, Typed
<1>4. StepsRight  BY RestIsRight DEF SmallStep, RestVars, AllRest
<1> QED BY <1>3, <1>4

\* A call that returns at once.
LEMMA AnsweredKeeps ==
  ASSUME EngineInv, SmallStep, NEW a \in Actors, NEW s \in {"ok", "failed", "quota"}, E!Answer(a, s),
         act[a].pc \notin {"keep", "joining", "sent", "done", "ran", "gone", "idle", "wait"},
         inst.engine = "starlark" /\ act[a].op = "adhoc" => s # "ok"
  PROVE  EngineInv' /\ StepsRight
<1>1. ActorsInv' /\ AllRest  BY AnswerRests DEF SmallStep, RestVars, EngineInv, Typed
<1> QED BY <1>1, SmallKeeps

\* A call that goes on at once.
LEMMA WentKeeps ==
  ASSUME EngineInv, SmallStep, NEW a \in Actors, NEW p \in EnginePlaces, E!Goes(a, p),
         act[a].pc \notin {"keep", "joining", "sent", "done", "ran", "gone", "idle", "wait", "push"},
         p \notin {"keep", "joining", "send", "running", "ran", "gone", "store", "probe", "idle", "push",
                   "start", "done"},
         Shaped(a, [act[a] EXCEPT !.pc = p])
  PROVE  EngineInv' /\ StepsRight
<1>1. ActorsInv' /\ AllRest  BY GoesRests DEF SmallStep, RestVars, EngineInv, Typed
<1> QED BY <1>1, SmallKeeps

\* A caller's call, before it is under way.
LEMMA AtCall ==
  ASSUME EngineInv, NEW c \in Calls, NEW ops, E!Calling(c, ops)
  PROVE  /\ c \in Actors /\ c \notin Loops /\ act[c] \in Act /\ Shaped(c, act[c])
         /\ act[c].pc = "call" /\ act[c].op \in ops /\ act[c].ans = "none"
         /\ act[c].pc \notin {"keep", "joining", "sent", "done", "ran", "gone", "idle", "wait", "push"}
BY ScriptsAssumption DEF EngineInv, Typed, ActorsInv, Shaped, E!Calling, E!At, Actors

\* A list that stays keeps its strings.
LEMMA UnchangedStrings == programs' = programs => SameStrings
BY DEF SameStrings

-----------------------------------------------------------------------------
(* One lemma for each action, all with the same conclusion: the invariant *)
(* stays, and the step is one the code may take.                           *)

\* set_source().
LEMMA BindStep ==
  ASSUME EngineInv, NEW c \in Calls, E!Bind(c)
  PROVE  EngineInv' /\ StepsRight
<1>1. E!Calling(c, {"bind"}) /\ E!Answer(c, "ok")  BY DEF E!Bind
<1>2. SmallStep
  BY UnchangedStrings DEF E!Bind, SmallStep, RestVars, E!sourceVars, E!jsVars, EngineInv, Typed, EnginesInv
<1> QED BY <1>1, <1>2, AtCall, AnsweredKeeps

\* Globals, and what wasm refuses.
LEMMA AccessStep ==
  ASSUME EngineInv, NEW c \in Calls, E!Access(c)
  PROVE  EngineInv' /\ StepsRight
<1>1. PICK s \in {"ok", "failed"} : E!Calling(c, {"global", "call", "watch", "stop"}) /\ E!Answer(c, s)
  BY Zenon DEF E!Access, E!LuaGlobal, E!StarlarkGlobal, E!CelGlobal, E!CelCall, E!StarlarkCall, E!WasmStubs,
         E!Accessed, E!Calling
<1>2. SmallStep
  BY UnchangedStrings DEF E!Access, SmallStep, RestVars, E!sourceVars, E!engineVars, EngineInv, Typed, EnginesInv
<1> QED BY <1>1, <1>2, AtCall, AnsweredKeeps

\* set_quota().
LEMMA QuotaStep ==
  ASSUME EngineInv, NEW c \in Calls, E!SetQuota(c)
  PROVE  EngineInv' /\ StepsRight
<1>1. E!Calling(c, {"quota"}) /\ E!Answer(c, "ok")  BY DEF E!SetQuota
<1>2. inst.budget \in 0..98  BY DEF EngineInv, Typed, SourcesInv, AllRecords
<1>3. SmallStep
  BY <1>2, UnchangedStrings DEF E!SetQuota, SmallStep, RestVars, E!sourceVars, E!jsVars, EngineInv, Typed, EnginesInv
<1> QED BY <1>1, <1>3, AtCall, AnsweredKeeps

\* stop_watch().
LEMMA StopStep ==
  ASSUME EngineInv, NEW c \in Calls, E!StopWatch(c)
  PROVE  EngineInv' /\ StepsRight
<1>1. E!Calling(c, {"stop"}) /\ E!Answer(c, "ok")  BY DEF E!StopWatch
<1>2. SmallStep
  BY UnchangedStrings DEF E!StopWatch, SmallStep, RestVars, E!sourceVars, E!jsVars, EngineInv, Typed, EnginesInv
<1> QED BY <1>1, <1>2, AtCall, AnsweredKeeps

\* The source is asked, or the string goes its way.
LEMMA LoadStep ==
  ASSUME EngineInv, NEW c \in Calls, E!Load(c)
  PROVE  EngineInv' /\ StepsRight
<1>1. SmallStep
  BY UnchangedStrings DEF E!Load, SmallStep, RestVars, E!sourceVars, E!engineVars, EngineInv, Typed, EnginesInv
<1>2. CASE E!Fetches(c)
 <2>1. E!Calling(c, {"load", "fromkey"}) /\ (E!Goes(c, "fetch") \/ E!Answer(c, "failed"))  BY <1>2 DEF E!Fetches
 <2>2. Shaped(c, [act[c] EXCEPT !.pc = "fetch"])  BY <2>1, AtCall DEF Shaped, Act, EnginePlaces, Loading
 <2> QED BY <1>1, <2>1, <2>2, AtCall, AnsweredKeeps, WentKeeps DEF EnginePlaces
<1>3. ASSUME NEW p \in {"push", "start"}, E!Given(c, p), p = "push" <=> inst.engine \notin {"javascript", "starlark"}
      PROVE  EngineInv' /\ StepsRight
 <2>1. E!Calling(c, {"adhoc"}) /\ (E!Takes(c, p, c) \/ E!Answer(c, "failed"))  BY <1>3 DEF E!Given
 <2>2. CASE E!Answer(c, "failed")  BY <1>1, <2>1, <2>2, AtCall, AnsweredKeeps
 <2>3. CASE E!Takes(c, p, c)
  <3>1. ActorsInv /\ c \in Actors /\ c \in Known /\ p \in EnginePlaces
    BY DEF EngineInv, Typed, EnginePlaces, Known, Actors
  <3>2. /\ act' \in [Actors -> Act] /\ Others(c)
        /\ act'[c].pc = p /\ act'[c].ver = c /\ act'[c].op = act[c].op /\ act'[c].ans = act[c].ans
        /\ act'[c].must = act[c].must  BY <2>3, <3>1, Takes
  <3>3. Shaped(c, act'[c])  BY <1>3, <2>1, <3>1, <3>2, AtCall DEF Shaped, Loading
  <3>4. Quiet(c, act'[c])  BY <1>3, <2>1, <3>2, AtCall DEF Quiet, Finished
  <3>5. ActorsInv' /\ AllRest
    BY <1>1, <2>1, <3>1, <3>2, <3>3, <3>4, AtCall, QuietRests, Reshaped DEF EngineInv, Typed, SmallStep, RestVars
  <3> QED BY <1>1, <3>5, SmallKeeps
 <2> QED BY <2>1, <2>2, <2>3
<1>4. \/ E!Fetches(c)
      \/ E!Given(c, "push") /\ inst.engine \notin {"javascript", "starlark"}
      \/ E!Given(c, "start") /\ inst.engine \in {"javascript", "starlark"}
  BY DEF E!Load, E!engine, E!LuaLoad, E!JsLoad, E!StarlarkLoad, E!CelLoad, E!WasmLoad,
         E!LuaString, E!JsString, E!StarlarkString, E!CelString, E!WasmString
<1> QED BY <1>2, <1>3, <1>4

\* The program is compiled, or queued.
LEMMA PushStep ==
  ASSUME EngineInv, NEW a \in Actors, E!Push(a)
  PROVE  EngineInv' /\ StepsRight
<1>1. /\ act[a].pc = "push" /\ Shaped(a, act[a]) /\ act[a] \in Act /\ act[a].ver \in Known
      /\ act[a].ans = "none"  BY DEF E!Push, E!At, EngineInv, Typed, ActorsInv, Shaped
<1>2. \/ E!Answer(a, "failed") /\ programs' = programs
      \/ programs' = Append(programs, act[a].ver) /\ E!Pushed(a)
  BY DEF E!Push, E!LuaCompile, E!CelCompile, E!WasmCompile, E!Compiled, E!JsQueue, E!StarlarkQueue, E!Queued
<1>3. SameStrings
 <2>1. CASE programs' = programs  BY <2>1, UnchangedStrings
 <2>2. CASE programs' = Append(programs, act[a].ver) /\ inst.engine = "starlark"
  <3>1. act[a].ver \notin Calls  BY <1>1, <2>2, ScriptsAssumption DEF Shaped
  <3>2. /\ Len(programs') = Len(programs) + 1 /\ Len(programs) \in Nat
        /\ \A n \in 1..Len(programs) : programs'[n] = programs[n]
        /\ programs'[Len(programs) + 1] = act[a].ver
    BY <1>1, <2>2, AppendProperties DEF EngineInv, Typed, EnginesInv
  <3>3. \A n \in 1..Len(programs') : n \in 1..Len(programs) \/ n = Len(programs) + 1  BY <3>2
  <3>4. \A n \in 1..Len(programs) : n \in 1..Len(programs')  BY <3>2
  <3> QED BY <3>1, <3>2, <3>3, <3>4 DEF SameStrings
 <2> QED BY <1>2, <2>1, <2>2 DEF SameStrings
<1>4. SmallStep
  BY <1>1, <1>2, <1>3 DEF E!Push, SmallStep, RestVars, E!sourceVars, E!jsVars, EngineInv, Typed, EnginesInv
<1>5. CASE E!Answer(a, "failed")  BY <1>1, <1>4, <1>5, AnsweredKeeps
<1>6. CASE E!Answer(a, "ok") /\ act[a].op \in {"load", "reload"}  BY <1>1, <1>4, <1>6, AnsweredKeeps
<1>7. CASE E!Goes(a, "start") /\ act[a].op \notin {"load", "reload"}
 <2>1. /\ act' \in [Actors -> Act] /\ Others(a)
       /\ act'[a] = [act[a] EXCEPT !.pc = "start"]  BY <1>7, Goes DEF EngineInv, Typed, EnginePlaces
 <2>2. /\ act'[a].pc = "start" /\ act'[a].ver = act[a].ver /\ act'[a].op = act[a].op
       /\ act'[a].ans = "none" /\ act'[a].must = act[a].must  BY <1>1, <2>1 DEF Act
 <2>3. Shaped(a, act'[a])  BY <1>1, <1>7, <2>1, <2>2 DEF Shaped, Loading, Actors
 <2>4. Quiet(a, act'[a])  BY <1>1, <2>2 DEF Quiet, Finished
 <2>5. ActorsInv' /\ AllRest
   BY <1>4, <2>1, <2>3, <2>4, QuietRests, Reshaped DEF EngineInv, Typed, SmallStep, RestVars
 <2> QED BY <1>4, <2>5, SmallKeeps
<1> QED BY <1>2, <1>5, <1>6, <1>7 DEF E!Pushed

\* init(), where there is no worker thread to start.
LEMMA InitStep ==
  ASSUME EngineInv, NEW c \in Calls, E!EngineInit(c), inst.engine # "javascript"
  PROVE  EngineInv' /\ StepsRight
<1>1. /\ UNCHANGED <<inst, E!sourceVars, bound, table, aborted, tripped, worker, orders, sender, joinable>>
      /\ quiet' = quiet
 <2>1. quiet = "no"  BY DEF EngineInv, ThreadsInv, ThreadTypes
 <2> QED BY <2>1 DEF E!EngineInit, E!LuaInit, E!JsInit, E!StarlarkInit, E!CelInit, E!WasmInit, E!jsVars, E!engine
<1>2. /\ inst.budget \in 0..98
      /\ programs \in Seq(Known) /\ left \in 0..99  BY DEF EngineInv, Typed, SourcesInv, EnginesInv, AllRecords
<1>3. CASE E!LuaInit(c)
 <2>1. SmallStep
  <3>1. EnginesInv'
   <4>1. left' = left \/ left' = inst.budget  BY <1>3 DEF E!LuaInit
   <4>2. programs' = programs  BY <1>3 DEF E!LuaInit
   <4>3. left' \in 0..99
    <5>1. inst.budget \in 0..98 /\ left \in 0..99  BY <1>2
    <5> QED BY <4>1, <5>1
   <4> QED BY <1>2, <4>2, <4>3 DEF EnginesInv
  <3> QED BY <1>1, <1>3, <3>1, UnchangedStrings DEF SmallStep, E!LuaInit, RestVars, E!sourceVars, E!engine
 <2>2. CASE E!Calling(c, {"init"}) /\ (E!Answer(c, "failed") \/ E!Goes(c, "hooks"))
  <3>1. Shaped(c, [act[c] EXCEPT !.pc = "hooks"])  BY <2>2, AtCall DEF Shaped, Act, EnginePlaces, Loading
  <3> QED BY <2>1, <2>2, <3>1, AtCall, AnsweredKeeps, WentKeeps DEF EnginePlaces
 <2>3. CASE act[c].pc = "hooks" /\ (E!Answer(c, "failed") \/ E!Answer(c, "ok"))
  <3>1. inst.engine # "starlark" /\ c \in Actors  BY <1>3 DEF E!LuaInit, E!engine, Actors
  <3> QED BY <2>1, <2>3, <3>1, AnsweredKeeps
 <2> QED BY <1>3, <2>2, <2>3 DEF E!LuaInit, E!At
<1>4. CASE E!StarlarkInit(c)
 <2>0. c \in Actors /\ (act[c].pc = "reset" => act[c].op = "init" /\ "init" \in inst.ops)
   BY DEF Actors, EngineInv, Typed, ActorsInv, Shaped
 <2>1. SmallStep
  <3>1. EnginesInv'
   <4>1. programs' \in Seq(Known) /\ left' = left
    <5>1. programs' = programs \/ programs' = <<>>  BY <1>4 DEF E!StarlarkInit, E!jsVars
    <5>2. left' = left  BY <1>4 DEF E!StarlarkInit, E!jsVars
    <5>3. <<>> \in Seq(Known)  OBVIOUS
    <5>4. programs' \in Seq(Known)  BY <1>2, <5>1, <5>3
    <5> QED BY <1>2, <5>2, <5>4
   <4> QED BY <1>1, <1>2, <4>1 DEF EnginesInv
  <3>2. programs' # programs => "init" \in inst.ops  BY <1>4, <2>0 DEF E!StarlarkInit, E!At
  <3>3. SameStrings  BY <3>2 DEF SameStrings
  <3> QED BY <1>1, <1>4, <3>1, <3>3 DEF SmallStep, E!StarlarkInit, RestVars, E!sourceVars, E!engine
 <2>2. CASE E!Calling(c, {"init"}) /\ (E!Answer(c, "failed") \/ E!Goes(c, "reset"))
  <3>1. Shaped(c, [act[c] EXCEPT !.pc = "reset"])  BY <2>2, AtCall DEF Shaped, Act, EnginePlaces, Loading
  <3> QED BY <2>1, <2>2, <3>1, AtCall, AnsweredKeeps, WentKeeps DEF EnginePlaces
 <2>3. CASE act[c].pc = "reset" /\ E!Answer(c, "ok")  BY <2>0, <2>1, <2>3, AnsweredKeeps
 <2> QED BY <1>4, <2>2, <2>3 DEF E!StarlarkInit, E!At
<1>5. CASE E!CelInit(c) \/ E!WasmInit(c)
 <2>1. SmallStep
  <3>1. EnginesInv'  BY <1>1, <1>2, <1>5, ZenonT(60) DEF E!CelInit, E!WasmInit, EnginesInv
  <3> QED BY <1>1, <1>5, <3>1, UnchangedStrings DEF SmallStep, E!CelInit, E!WasmInit, RestVars, E!sourceVars, E!engine
 <2>2. E!Calling(c, {"init"}) /\ (E!Answer(c, "failed") \/ E!Answer(c, "ok"))  BY <1>5 DEF E!CelInit, E!WasmInit
 <2> QED BY <2>1, <2>2, AtCall, AnsweredKeeps
<1> QED BY <1>3, <1>4, <1>5 DEF E!EngineInit, E!JsInit, E!engine

\* close(), where there is no worker thread to end.
LEMMA CloseStep ==
  ASSUME EngineInv, NEW c \in Calls, E!EngineClose(c), inst.engine # "javascript"
  PROVE  EngineInv' /\ StepsRight
<1>1. /\ UNCHANGED <<inst, E!sourceVars, tripped, worker, orders, sender, joinable, quiet>>
      /\ UNCHANGED <<table, aborted>> \/ E!StopWatchers
  BY DEF E!EngineClose, E!LuaClose, E!JsClose, E!StarlarkClose, E!CelClose, E!WasmClose, E!jsVars, E!engine
<1>2. EnginesInv'
 <2>1. programs \in Seq(Known) /\ left \in 0..99 /\ <<>> \in Seq(Known)  BY DEF EngineInv, Typed, EnginesInv
 <2>2. (programs' = programs \/ programs' = <<>>) /\ (left' = left \/ left' = 99)
   BY DEF E!EngineClose, E!LuaClose, E!JsClose, E!StarlarkClose, E!CelClose, E!WasmClose,
          E!jsVars, E!engine, E!Unarmed
 <2>3. left' \in 0..99
  <3>1. left \in 0..99  BY <2>1
  <3>2. left' = left \/ left' = 99  BY <2>2
  <3> QED BY <3>1, <3>2
 <2>4. programs' \in Seq(Known)
  <3>1. programs \in Seq(Known) /\ <<>> \in Seq(Known)  BY <2>1
  <3>2. programs' = programs \/ programs' = <<>>  BY <2>2
  <3> QED BY <3>1, <3>2
 <2> QED BY <2>3, <2>4 DEF EnginesInv
<1>3. c \in Actors /\ act[c].pc \in {"call", "closing"} /\ act[c].op = "close" /\ "close" \in inst.ops
 <2>1. (act[c].pc = "call" /\ act[c].op = "close") \/ act[c].pc = "closing"
   BY DEF E!EngineClose, E!LuaClose, E!JsClose, E!StarlarkClose, E!CelClose, E!WasmClose, E!Calling, E!At, E!engine
 <2> QED BY <2>1 DEF Actors, EngineInv, Typed, ActorsInv, Shaped
<1>4. SmallStep  BY <1>1, <1>2, <1>3 DEF SmallStep, RestVars, E!sourceVars, SameStrings
<1>5. \/ E!Answer(c, "ok") \/ E!Answer(c, "failed")
      \/ E!Goes(c, "closing") /\ act[c].pc = "call"
  BY DEF E!EngineClose, E!LuaClose, E!JsClose, E!StarlarkClose, E!CelClose, E!WasmClose, E!Calling, E!At, E!engine
<1>6. Shaped(c, [act[c] EXCEPT !.pc = "closing"])
  BY <1>3, ScriptsAssumption, SMTT(60) DEF Shaped, Act, EnginePlaces, Loading, EngineInv, Typed, ActorsInv
<1> QED BY <1>3, <1>4, <1>5, <1>6, AnsweredKeeps, WentKeeps DEF EnginePlaces

\* A caller makes its call: what it may not fall short of is not in flight, nor in
\* the cache, in an older version.
LEMMA BeginStep ==
  ASSUME EngineInv, NEW c \in Calls, E!Begin(c)
  PROVE  EngineInv' /\ StepsRight
<1>1. /\ UNCHANGED <<inst, text, faults, stream, cache, entry, calm, inited, bound, programs, table, aborted,
                     left, tripped, frozen, worker, orders, sender, joinable, quiet>>
      /\ act[c].pc = "idle"  BY DEF E!Begin, E!At, E!sourceVars, E!engineVars
<1>2. /\ ActorsInv /\ SourcesInv /\ c \in Actors /\ c \notin Loops /\ act[c] \in Act /\ Shaped(c, act[c])
      /\ text \in 0..MaxText /\ 0 \in 0..MaxText
  BY ScriptsAssumption DEF EngineInv, Typed, Actors, ActorsInv, SourcesInv
<1>3. PICK op \in inst.ops :
        act' = [act EXCEPT ![c].op = op, ![c].pc = "call", ![c].must = IF calm THEN text ELSE 0]  BY DEF E!Begin
<1>4. op \in AllOperations  BY <1>2 DEF SourcesInv, AllRecords
<1> DEFINE m == IF calm THEN text ELSE 0
<1>5. /\ act' \in [Actors -> Act] /\ Others(c)
      /\ act'[c].op = op /\ act'[c].pc = "call" /\ act'[c].must = m
      /\ act'[c].ver = act[c].ver /\ act'[c].via = act[c].via /\ act'[c].snap = act[c].snap
      /\ act'[c].ans = act[c].ans
 <2>1. [act[c] EXCEPT !.op = op, !.pc = "call", !.must = m] \in Act
   BY <1>2, <1>4, ZenonT(60) DEF Act, EnginePlaces
 <2>2. act' = [act EXCEPT ![c] = [act[c] EXCEPT !.op = op, !.pc = "call", !.must = m]]
   BY <1>2, <1>3 DEF ActorsInv, Act
 <2>3. act'[c] = [act[c] EXCEPT !.op = op, !.pc = "call", !.must = m]  BY <1>2, <2>2 DEF ActorsInv
 <2> QED BY <1>2, <2>1, <2>2, <2>3 DEF ActorsInv, Others, Act
<1>6. Shaped(c, act'[c])  BY <1>1, <1>2, <1>5 DEF Shaped, Loading
<1>7. Typed'  BY <1>1, <1>2, <1>5, <1>6, Reshaped DEF Typed, SourcesInv, EnginesInv, EngineInv
<1>8. LoopsRest /\ ThreadsRest /\ FlagRests /\ StringsRest
  BY <1>1, <1>2, <1>5 DEF LoopsRest, ThreadsRest, FlagRests, StringsRest, Others, Actors, Finished
<1>9. LoopsInv'  BY <1>1, <1>8, LoopsKeep DEF EngineInv
<1>10. CalmInv'  BY <1>1, <1>5 DEF EngineInv, CalmInv, Others
<1>11. CachedInv'
 <2> SUFFICES ASSUME inst.source = "cached", faults = 0, NEW d \in Calls
              PROVE  /\ entry => stream["cache"] <= text
                     /\ act'[d].must <= text
                     /\ \A a \in Actors :
                          /\ act'[a].pc \in {"store", "probe"} => act'[a].ver >= act'[d].must
                          /\ act'[a].pc = "probe" => cache = 0 \/ cache >= act'[d].must
                     /\ entry => cache = 0 \/ cache >= act'[d].must \/ stream["cache"] < act'[d].must
                     /\ act'[d].pc \in {"push", "start"} /\ act'[d].op \in {"load", "fromkey"} =>
                          act'[d].ver >= act'[d].must  BY <1>1 DEF CachedInv
 <2>1. /\ text \in Nat /\ cache \in Nat /\ stream["cache"] \in Nat /\ d \in Actors
       /\ \A a \in Actors : act[a].pc \in {"store", "probe"} => act[a].ver \in Nat
   BY <1>2, ScriptsAssumption DEF SourcesInv, ActorsInv, Shaped, Actors
 <2>2. CASE d # c  BY <1>5, <2>1, <2>2 DEF EngineInv, CachedInv, Others
 <2>3. CASE d = c /\ ~calm  BY <1>5, <2>1, <2>3 DEF EngineInv, CachedInv, Others
 <2>4. CASE d = c /\ calm  BY <1>5, <2>1, <2>4 DEF EngineInv, CachedInv, CalmInv, Others
 <2> QED BY <2>2, <2>3, <2>4
<1>12. EngineInv'  BY <1>1, <1>7, <1>8, <1>9, <1>10, <1>11, BesideCache, UnchangedStrings DEF ThreadVars
<1> QED BY <1>1, <1>8, <1>12, RestIsRight

\* An edit where the script lives: a load in flight is no longer calm.
LEMMA EditStep ==
  ASSUME EngineInv, E!Edit
  PROVE  EngineInv' /\ StepsRight
<1>1. /\ UNCHANGED <<inst, faults, stream, cache, entry, inited, bound, programs, table, aborted,
                     left, tripped, frozen, worker, orders, sender, joinable, quiet, act>>
      /\ text < inst.last /\ text' = text + 1  BY DEF E!Edit, E!engineVars
<1>2. /\ inst.last \in 1..MaxText /\ text \in 1..MaxText /\ MaxText \in Nat
      /\ \A c \in Calls : act[c].must \in 0..MaxText
      /\ stream["cache"] \in 1..(MaxText + 1)
  BY ScriptsAssumption DEF EngineInv, Typed, SourcesInv, ActorsInv, Act, AllRecords, Actors
<1>3. calm' \in BOOLEAN /\ (calm' => calm /\ \A a \in Actors : act[a].pc \notin {"store", "probe"})
  BY DEF E!Edit, E!Fetching, E!Actors, Actors, EngineInv, Typed, SourcesInv
<1>4. Typed'
 <2>1. SourcesInv'
  <3>1. text' \in 1..MaxText  BY <1>1, <1>2
  <3> QED BY <1>1, <1>3, <3>1 DEF EngineInv, Typed, SourcesInv
 <2> QED BY <1>1, <2>1 DEF EngineInv, Typed, ActorsInv, Shaped, EnginesInv
<1>5. LoopsRest /\ ThreadsRest /\ FlagRests /\ StringsRest
  BY <1>1 DEF LoopsRest, ThreadsRest, FlagRests, StringsRest
<1>6. LoopsInv'  BY <1>1, <1>5, LoopsKeep DEF EngineInv
<1>7. CalmInv'  BY <1>1, <1>3 DEF EngineInv, CalmInv
<1>8. CachedInv'  BY <1>1, <1>2 DEF EngineInv, CachedInv
<1>9. EngineInv'  BY <1>1, <1>4, <1>5, <1>6, <1>7, <1>8, BesideCache, UnchangedStrings DEF ThreadVars
<1> QED BY <1>1, <1>5, <1>9, RestIsRight

\* The cached source forgets.
LEMMA InvalidateStep ==
  ASSUME EngineInv, NEW c \in Calls, E!Invalidate(c)
  PROVE  EngineInv' /\ StepsRight
<1>1. /\ UNCHANGED <<inst, text, faults, stream, entry, calm, inited, bound, programs, table, aborted,
                     left, tripped, frozen, worker, orders, sender, joinable, quiet>>
      /\ cache' = 0 /\ E!Calling(c, {"invalidate"}) /\ E!Answer(c, "ok")  BY DEF E!Invalidate, E!engineVars
<1>2. ActorsInv' /\ AllRest  BY <1>1, AtCall, AnswerRests DEF EngineInv, Typed
<1>3. Typed'  BY <1>1, <1>2, ScriptsAssumption DEF EngineInv, Typed, SourcesInv, EnginesInv
<1>4. LoopsInv'  BY <1>1, <1>2, LoopsKeep DEF EngineInv, AllRest
<1>5. CachedInv' /\ CalmInv'  BY <1>1, <1>2, CacheKeeps DEF EngineInv, AllRest, Typed
<1>7. EngineInv'  BY <1>1, <1>2, <1>3, <1>4, <1>5, BesideCache, UnchangedStrings DEF ThreadVars, AllRest
<1> QED BY <1>1, <1>2, <1>7, RestIsRight DEF AllRest

-----------------------------------------------------------------------------
(* Loading.                                                                *)

\* A load goes on: what that is to all but the cached source.
LEMMA LoadGoesOn ==
  ASSUME EngineInv, NEW a \in Actors, act[a].pc \in Loading,
         act' \in [Actors -> Act], Others(a), Shaped(a, act'[a]), act'[a].op = act[a].op,
         act'[a].pc \in {"remote", "store", "probe", "push", "start", "done", "wait"},
         UNCHANGED <<inst, text, calm>>, UNCHANGED E!engineVars, SourcesInv', CachedInv', CalmInv'
  PROVE  EngineInv' /\ StepsRight
<1>1. Shaped(a, act[a])  BY DEF EngineInv, Typed, ActorsInv
<1>2. Typed'  BY Reshaped DEF Typed, EngineInv, EnginesInv, E!engineVars
<1>3. LoopsRest  BY DEF LoopsRest, Others, Loading, Actors
<1>4. ThreadsRest  BY DEF ThreadsRest, Others, Loading, Actors
<1>5. FlagRests  BY DEF FlagRests, Others, Loading, Actors
<1>6. StringsRest  BY <1>1 DEF StringsRest, Others, Loading, Actors, Finished, Shaped
<1>7. LoopsInv'  BY <1>3, LoopsKeep DEF EngineInv, E!engineVars
<1>8. EngineInv'  BY <1>2, <1>4, <1>5, <1>6, <1>7, BesideCache, UnchangedStrings DEF ThreadVars, E!engineVars
<1> QED BY <1>5, <1>8, RestIsRight DEF E!engineVars

\* A fetched program goes on its way.
LEMMA FetchedGoes ==
  ASSUME ActorsInv, NEW a \in Actors, act[a].pc \in Loading, NEW v \in 1..MaxText, E!Fetched(a, v)
  PROVE  /\ act' \in [Actors -> Act] /\ Others(a) /\ Shaped(a, act'[a])
         /\ act'[a].op = act[a].op /\ act'[a].must = act[a].must
         /\ act'[a].pc \in {"push", "start"} /\ act'[a].ver = v
<1>1. PICK p \in {"push", "start"} :
        E!Takes(a, p, v) /\ (p = "start" <=> inst.engine \in {"javascript", "starlark"} /\ act[a].op = "fromkey")
  BY DEF E!Fetched, E!engine
<1>2. p \in EnginePlaces /\ v \in Known /\ Shaped(a, act[a])  BY DEF EnginePlaces, Known, ActorsInv
<1>3. /\ act' \in [Actors -> Act] /\ Others(a)
      /\ act'[a].pc = p /\ act'[a].ver = v /\ act'[a].ans = act[a].ans
      /\ act'[a].op = act[a].op /\ act'[a].must = act[a].must  BY <1>1, <1>2, Takes
<1>4. Shaped(a, act'[a])  BY <1>1, <1>2, <1>3 DEF Shaped, Loading
<1> QED BY <1>3, <1>4

\* A load that fails.
LEMMA FailedGoes ==
  ASSUME ActorsInv, NEW a \in Actors, act[a].pc \in Loading, E!Answer(a, "failed")
  PROVE  /\ act' \in [Actors -> Act] /\ Others(a) /\ Shaped(a, act'[a])
         /\ act'[a].op = act[a].op /\ (a \in Calls => act'[a].must = 0)
         /\ act'[a].pc \in {"done", "wait"}
<1>1. /\ act' \in [Actors -> Act] /\ Others(a)
      /\ act'[a] = IF a \in Loops THEN [Rest EXCEPT !.op = "reload", !.pc = "wait", !.must = act[a].must]
                   ELSE [Rest EXCEPT !.op = act[a].op, !.pc = "done", !.ans = "failed"]  BY Answers, ZenonT(60)
<1>2. Shaped(a, act[a])  BY DEF ActorsInv
<1>3. Shaped(a, act'[a])  BY <1>1, <1>2, ScriptsAssumption DEF Shaped, Rest, Actors, Loading
<1>4. act'[a].op = act[a].op  BY <1>1, <1>2 DEF Shaped, Rest, Loading
<1> QED BY <1>1, <1>3, <1>4, ScriptsAssumption, SMTT(60) DEF Rest

\* A load from a source that is not the cached one.
LEMMA PlainFetch ==
  ASSUME EngineInv, NEW a \in Actors, E!At(a, "fetch"), inst.source # "cached",
         UNCHANGED <<inst, text, calm, stream, cache, entry>>, UNCHANGED E!engineVars, faults' \in Nat,
         E!Answer(a, "failed") \/ \E v \in {1, text} : E!Fetched(a, v)
  PROVE  EngineInv' /\ StepsRight
<1>1. /\ act[a].pc \in Loading /\ ActorsInv /\ SourcesInv
      /\ 1 \in 1..MaxText /\ text \in 1..MaxText
  BY ScriptsAssumption DEF E!At, Loading, EngineInv, Typed, SourcesInv
<1>2. /\ act' \in [Actors -> Act] /\ Others(a) /\ Shaped(a, act'[a]) /\ act'[a].op = act[a].op
      /\ act'[a].pc \in {"push", "start", "done", "wait"}
 <2>1. CASE E!Answer(a, "failed")  BY <1>1, <2>1, FailedGoes
 <2>2. CASE \E v \in {1, text} : E!Fetched(a, v)
  <3>1. PICK v \in 1..MaxText : E!Fetched(a, v)  BY <1>1, <2>2
  <3> QED BY <1>1, <3>1, FetchedGoes
 <2> QED BY <2>1, <2>2
<1>3. SourcesInv'  BY <1>1 DEF SourcesInv
<1>4. CachedInv' /\ CalmInv'  BY DEF CachedInv, CalmInv
<1> QED BY <1>1, <1>2, <1>3, <1>4, LoadGoesOn

\* What the cached source's invariants ask of one caller, for the proofs below.
OfCall(c) ==
  /\ act[c].must <= text
  /\ \A a \in Actors :
       /\ act[a].pc \in {"store", "probe"} => act[a].ver >= act[c].must
       /\ act[a].pc = "probe" => cache = 0 \/ cache >= act[c].must
  /\ entry => cache = 0 \/ cache >= act[c].must \/ stream["cache"] < act[c].must
  /\ act[c].pc \in {"push", "start"} /\ act[c].op \in {"load", "fromkey"} =>
       act[c].ver >= act[c].must

\* The invariant, call by call.
LEMMA ByCall ==
  CachedInv <=> (inst.source = "cached" /\ faults = 0 =>
                   (entry => stream["cache"] <= text) /\ \A c \in Calls : OfCall(c))
BY DEF CachedInv, OfCall

\* The cached source at its four steps.
CachedShape(a) ==
  /\ SourcesInv /\ ActorsInv /\ text \in Nat /\ text >= 1 /\ text <= MaxText /\ MaxText \in Nat
  /\ cache \in Nat /\ stream["cache"] \in Nat
  /\ \A b \in Actors : act[b].must \in Nat /\ act[b].ver \in {0} \cup Known
  /\ act[a].pc \in Loading /\ Shaped(a, act[a])

\* What the invariant gives of a load in flight.
LEMMA CachedShaped ==
  ASSUME EngineInv, NEW a \in Actors, act[a].pc \in Loading
  PROVE  CachedShape(a)
BY ScriptsAssumption DEF CachedShape, EngineInv, Typed, SourcesInv, ActorsInv, Act

\* What a step of the cached source has to do for a caller.
LEMMA ForCall ==
  ASSUME EngineInv, EngineInv => SourcesInv /\ ActorsInv, NEW a \in Actors, CachedShape(a),
         inst' = inst, text' = text, inst.source = "cached" /\ faults' = 0 => faults = 0,
         inst.source = "cached" /\ faults' = 0 => (entry' => stream'["cache"] <= text),
         inst.source = "cached" /\ faults' = 0 => \A c \in Calls : OfCall(c)'
  PROVE  CachedInv'
BY DEF CachedInv, OfCall

\* The others, and what nobody may fall short of, are as before.
LEMMA OthersHold ==
  ASSUME NEW a \in Actors, CachedShape(a), Others(a), NEW c \in Calls, OfCall(c), text' = text,
         act'[a].must = act[a].must \/ act'[a].must = 0,
         act'[a].pc \in {"store", "probe"} => act'[a].ver \in Nat /\ act'[a].ver >= act[c].must,
         act'[a].pc = "probe" => cache' = 0 \/ cache' >= act[c].must,
         cache' \in Nat, cache' = 0 \/ cache' = cache \/ cache' >= act[c].must,
         entry' => cache' = 0 \/ cache' >= act[c].must \/ stream'["cache"] < act[c].must,
         stream'["cache"] \in Nat, stream'["cache"] < act[c].must => stream'["cache"] = stream["cache"],
         a = c /\ act'[a].pc \in {"push", "start"} /\ act'[a].op \in {"load", "fromkey"} =>
           act'[a].ver \in Nat /\ act'[a].ver >= act[a].must
  PROVE  OfCall(c)'
<1>1. /\ c \in Actors /\ act'[c].must \in Nat /\ act'[c].must \in {act[c].must, 0}
      /\ act[c].must \in Nat /\ text \in Nat  BY DEF Others, CachedShape, Actors
<1>2. act'[c].must <= text'  BY <1>1 DEF OfCall
<1>3. ASSUME NEW b \in Actors
      PROVE  /\ act'[b].pc \in {"store", "probe"} => act'[b].ver >= act'[c].must
             /\ act'[b].pc = "probe" => cache' = 0 \/ cache' >= act'[c].must
 <2>1. CASE b = a  BY <1>1, <2>1
 <2>2. CASE b # a
  <3>1. act'[b] = act[b]  BY <2>2 DEF Others
  <3>2. act[b].pc \in {"store", "probe"} => act[b].ver \in Nat /\ act[b].ver >= act[c].must
   <4>1. act[b].pc \in {"store", "probe"} => act[b].ver \in 1..MaxText  BY DEF CachedShape, ActorsInv, Shaped
   <4> QED BY <4>1 DEF OfCall
  <3>3. act[b].pc = "probe" => cache = 0 \/ cache >= act[c].must  BY DEF OfCall
  <3> QED BY <1>1, <3>1, <3>2, <3>3 DEF CachedShape
 <2> QED BY <2>1, <2>2
<1>4. entry' => cache' = 0 \/ cache' >= act'[c].must \/ stream'["cache"] < act'[c].must  BY <1>1
<1>5. act'[c].pc \in {"push", "start"} /\ act'[c].op \in {"load", "fromkey"} => act'[c].ver >= act'[c].must
 <2>1. CASE a = c  BY <1>1, <2>1
 <2>2. CASE a # c
  <3>1. act'[c] = act[c]  BY <1>1, <2>2 DEF Others
  <3> QED BY <3>1 DEF OfCall
 <2> QED BY <2>1, <2>2
<1> QED BY <1>2, <1>3, <1>4, <1>5 DEF OfCall

\* A tick is taken, and what is kept is served or dropped.
LEMMA DrainStep ==
  ASSUME EngineInv, NEW a \in Actors, E!At(a, "fetch"), E!Drain(a),
         UNCHANGED <<inst, text, calm, faults>>, UNCHANGED E!engineVars
  PROVE  EngineInv' /\ StepsRight
<1> DEFINE kept == IF stream["cache"] < text THEN 0 ELSE cache
<1>1. /\ act[a].pc \in Loading /\ act[a].pc = "fetch" /\ SourcesInv /\ ActorsInv /\ CachedShape(a)
  BY CachedShaped DEF E!At, Loading, EngineInv, Typed
<1>2. /\ cache' = kept /\ entry' = entry /\ kept \in 0..MaxText
      /\ stream' = [stream EXCEPT !["cache"] = IF stream["cache"] # MaxText + 1 THEN text ELSE stream["cache"]]
 <2>1. cache' = kept /\ entry' = entry  BY DEF E!Drain
 <2>2. kept \in 0..MaxText  BY <1>1 DEF SourcesInv, CachedShape
 <2>3. stream' = [stream EXCEPT !["cache"] = IF stream["cache"] # MaxText + 1 THEN text ELSE stream["cache"]]
   BY DEF E!Drain, E!Shut
 <2> QED BY <2>1, <2>2, <2>3
<1>3. /\ SourcesInv'
      /\ stream'["cache"] = (IF stream["cache"] # MaxText + 1 THEN text ELSE stream["cache"])
      /\ stream'["cache"] \in Nat
 <2>1. stream["cache"] \in 1..(MaxText + 1) /\ text \in 1..(MaxText + 1)  BY <1>1 DEF SourcesInv, CachedShape
 <2>2. stream' \in [Loops \cup {"cache"} -> 1..(MaxText + 1)]  BY <1>1, <1>2, <2>1 DEF SourcesInv
 <2>3. stream'["cache"] = (IF stream["cache"] # MaxText + 1 THEN text ELSE stream["cache"])
   BY <1>1, <1>2 DEF SourcesInv
 <2>4. SourcesInv'  BY <1>1, <1>2, <2>2 DEF SourcesInv
 <2> QED BY <2>1, <2>3, <2>4
<1>4. /\ act' \in [Actors -> Act] /\ Others(a) /\ Shaped(a, act'[a])
      /\ act'[a].op = act[a].op /\ act'[a].must = act[a].must
      /\ \/ act'[a].pc = "remote"
         \/ act'[a].pc \in {"push", "start"} /\ act'[a].ver = kept /\ entry /\ kept # 0
 <2>1. CASE entry /\ kept # 0
  <3>1. kept \in 1..MaxText  BY <1>1, <1>2, <2>1 DEF CachedShape
  <3>2. E!Fetched(a, kept)  BY <2>1 DEF E!Drain
  <3> QED BY <1>1, <2>1, <3>1, <3>2, FetchedGoes
 <2>2. CASE ~(entry /\ kept # 0)
  <3>1. PICK n \in Nat : E!GoesBy(a, "remote", n)  BY <2>2 DEF E!Drain
  <3>2. /\ act' \in [Actors -> Act] /\ Others(a)
        /\ act'[a].pc = "remote" /\ act'[a].ans = act[a].ans
        /\ act'[a].op = act[a].op /\ act'[a].must = act[a].must
   <4>1. "remote" \in EnginePlaces /\ ActorsInv  BY <1>1 DEF EnginePlaces
   <4> QED BY <3>1, <4>1, GoesBy
  <3>3. act[a] \in Act  BY <1>1 DEF ActorsInv
  <3>4. Shaped(a, act'[a]) /\ act'[a].op = act[a].op /\ act'[a].must = act[a].must /\ act'[a].pc = "remote"
    BY <1>1, <3>2, <3>3 DEF Shaped, Act, CachedShape, Loading
  <3> QED BY <3>2, <3>4
 <2> QED BY <2>1, <2>2
<1>5. CachedInv'
 <2> SUFFICES ASSUME inst.source = "cached", faults = 0
              PROVE  (entry => stream'["cache"] <= text) /\ \A c \in Calls : OfCall(c)'
   BY <1>1, <1>2, ForCall DEF EngineInv, Typed
 <2>1. (entry => stream["cache"] <= text) /\ \A c \in Calls : OfCall(c)  BY ByCall DEF EngineInv
 <2>2. entry => stream["cache"] # MaxText + 1  BY <1>1, <2>1 DEF CachedShape
 <2>3. ASSUME NEW c \in Calls
       PROVE  OfCall(c)'
  <3>1. OfCall(c) /\ act[c].must \in Nat /\ act[c].must <= text  BY <1>1, <2>1 DEF OfCall, CachedShape, Actors
  <3>2. kept = 0 \/ kept = cache  OBVIOUS
  <3>3. entry => kept = 0 \/ kept >= act[c].must  BY <1>1, <3>1 DEF OfCall, CachedShape
  <3>4. cache' \in Nat  BY <1>2, <1>1 DEF CachedShape
  <3>5. stream'["cache"] < act[c].must => stream'["cache"] = stream["cache"]  BY <1>1, <1>3, <3>1 DEF CachedShape
  <3> HIDE DEF kept
  <3> QED BY <1>1, <1>2, <1>3, <1>4, <3>1, <3>2, <3>3, <3>4, <3>5, OthersHold
 <2> QED BY <1>1, <1>3, <2>1, <2>2, <2>3 DEF CachedShape
<1>6. CalmInv'
 <2> SUFFICES ASSUME inst.source = "cached", faults = 0, calm
              PROVE  /\ \A b \in Actors :
                          /\ act'[b].pc \in {"store", "probe"} => act'[b].ver = text
                          /\ act'[b].pc = "probe" => cache' \in {0, text}
                     /\ entry => cache' = 0 \/ cache' >= stream'["cache"]  BY <1>1, <1>2 DEF CalmInv
 <2>1. ASSUME NEW b \in Actors
       PROVE  /\ act'[b].pc \in {"store", "probe"} => act'[b].ver = text
              /\ act'[b].pc = "probe" => cache' \in {0, text}  BY <1>2, <1>4 DEF EngineInv, CalmInv, Others
 <2>2. entry => kept = 0 \/ kept >= stream'["cache"]
  <3>1. entry => stream["cache"] <= text /\ (cache = 0 \/ cache >= stream["cache"])
    BY DEF EngineInv, CachedInv, CalmInv
  <3> QED BY <1>1, <1>3, <3>1 DEF CachedShape
 <2> QED BY <1>2, <2>1, <2>2
<1> HIDE DEF kept
<1> QED BY <1>1, <1>3, <1>4, <1>5, <1>6, LoadGoesOn

\* The source is asked.
LEMMA RemoteStep ==
  ASSUME EngineInv, NEW a \in Actors, E!CacheRemote(a), UNCHANGED <<inst, text, calm>>, UNCHANGED E!engineVars
  PROVE  EngineInv' /\ StepsRight
<1>1. /\ act[a].pc \in Loading /\ act[a].pc = "remote" /\ SourcesInv /\ ActorsInv /\ CachedShape(a)
      /\ UNCHANGED <<stream, cache, entry, faults>>
  BY CachedShaped DEF E!CacheRemote, E!At, Loading, EngineInv, Typed
<1>2. /\ act' \in [Actors -> Act] /\ Others(a) /\ Shaped(a, act'[a])
      /\ act'[a].op = act[a].op /\ (act'[a].must = act[a].must \/ (a \in Calls => act'[a].must = 0))
      /\ \/ act'[a].pc \in {"done", "wait"}
         \/ act'[a].pc = "store" /\ act'[a].ver = text
 <2>1. CASE E!Answer(a, "failed")  BY <1>1, <2>1, FailedGoes
 <2>2. CASE E!Takes(a, "store", text)
  <3>1. "store" \in EnginePlaces /\ text \in Known /\ text \in 1..MaxText
    BY <1>1 DEF EnginePlaces, Known, CachedShape
  <3>2. /\ act' \in [Actors -> Act] /\ Others(a)
        /\ act'[a].pc = "store" /\ act'[a].ver = text /\ act'[a].ans = act[a].ans
        /\ act'[a].op = act[a].op /\ act'[a].must = act[a].must  BY <1>1, <2>2, <3>1, Takes
  <3>3. Shaped(a, act'[a])  BY <1>1, <3>1, <3>2 DEF Shaped, CachedShape, Loading
  <3> QED BY <3>2, <3>3
 <2> QED BY <2>1, <2>2 DEF E!CacheRemote
<1>3. SourcesInv'  BY <1>1 DEF SourcesInv
<1>4. CachedInv'
 <2> SUFFICES ASSUME inst.source = "cached", faults = 0
              PROVE  (entry => stream'["cache"] <= text) /\ \A c \in Calls : OfCall(c)'
   BY <1>1, ForCall DEF EngineInv, Typed
 <2>1. (entry => stream["cache"] <= text) /\ \A c \in Calls : OfCall(c)  BY ByCall DEF EngineInv
 <2>2. ASSUME NEW c \in Calls
       PROVE  OfCall(c)'
  <3>1. OfCall(c) /\ act[c].must \in Nat /\ act[c].must <= text /\ text \in Nat /\ cache \in Nat
        /\ stream["cache"] \in Nat  BY <1>1, <2>1 DEF OfCall, CachedShape, Actors
  <3>2. entry => cache = 0 \/ cache >= act[c].must \/ stream["cache"] < act[c].must  BY <3>1 DEF OfCall
  <3>3. CASE a \in Calls \/ act'[a].must = act[a].must  BY <1>1, <1>2, <3>1, <3>2, <3>3, OthersHold
  <3>4. CASE a \notin Calls
   <4>1. act'[c] = act[c] /\ \A b \in Calls : b # a  BY <1>2, <3>4 DEF Others, Actors
   <4>2. \A b \in Actors : b = a \/ act'[b] = act[b]  BY <1>2 DEF Others
   <4> QED BY <1>1, <1>2, <3>1, <4>1, <4>2 DEF OfCall
  <3> QED BY <3>3, <3>4
 <2> QED BY <1>1, <2>1, <2>2
<1>5. CalmInv'  BY <1>1, <1>2 DEF EngineInv, CalmInv, Others
<1> QED BY <1>1, <1>2, <1>3, <1>4, <1>5, LoadGoesOn

\* What was fetched is put in the cache.
LEMMA StoreStep ==
  ASSUME EngineInv, NEW a \in Actors, E!CacheStore(a), UNCHANGED <<inst, text, calm>>, UNCHANGED E!engineVars
  PROVE  EngineInv' /\ StepsRight
<1>1. /\ act[a].pc \in Loading /\ act[a].pc = "store" /\ SourcesInv /\ ActorsInv /\ CachedShape(a)
      /\ UNCHANGED <<stream, entry, faults>> /\ cache' = act[a].ver
  BY CachedShaped DEF E!CacheStore, E!At, Loading, EngineInv, Typed
<1>2. act[a].ver \in 1..MaxText /\ act[a].ver \in Nat  BY <1>1 DEF CachedShape, Shaped
<1>3. /\ act' \in [Actors -> Act] /\ Others(a) /\ Shaped(a, act'[a])
      /\ act'[a].op = act[a].op /\ act'[a].must = act[a].must
      /\ act'[a].pc \in {"push", "start", "probe"} /\ act'[a].ver = act[a].ver
 <2>1. CASE E!Fetched(a, act[a].ver)  BY <1>1, <1>2, <2>1, FetchedGoes
 <2>2. CASE E!Goes(a, "probe")
  <3>1. "probe" \in EnginePlaces /\ act[a] \in Act  BY <1>1 DEF EnginePlaces, ActorsInv
  <3>2. /\ act' \in [Actors -> Act] /\ Others(a)
        /\ act'[a] = [act[a] EXCEPT !.pc = "probe"]  BY <1>1, <2>2, <3>1, Goes
  <3>3. /\ act'[a].pc = "probe" /\ act'[a].ver = act[a].ver /\ act'[a].ans = act[a].ans
        /\ act'[a].op = act[a].op /\ act'[a].must = act[a].must  BY <3>1, <3>2 DEF Act
  <3>4. Shaped(a, act'[a])  BY <1>1, <3>2, <3>3 DEF Shaped, CachedShape, Loading
  <3> QED BY <3>2, <3>3, <3>4
 <2> QED BY <2>1, <2>2 DEF E!CacheStore
<1>4. SourcesInv'  BY <1>1, <1>2 DEF SourcesInv
<1>5. CachedInv'
 <2> SUFFICES ASSUME inst.source = "cached", faults = 0
              PROVE  (entry => stream'["cache"] <= text) /\ \A c \in Calls : OfCall(c)'
   BY <1>1, ForCall DEF EngineInv, Typed
 <2>1. (entry => stream["cache"] <= text) /\ \A c \in Calls : OfCall(c)  BY ByCall DEF EngineInv
 <2>2. ASSUME NEW c \in Calls
       PROVE  OfCall(c)'
  <3>1. OfCall(c) /\ act[c].must \in Nat /\ act[a].ver >= act[c].must /\ stream["cache"] \in Nat
    BY <1>1, <2>1 DEF OfCall, CachedShape, Actors
  <3> QED BY <1>1, <1>2, <1>3, <3>1, OthersHold
 <2> QED BY <1>1, <2>1, <2>2
<1>6. CalmInv'
 <2> SUFFICES ASSUME inst.source = "cached", faults = 0, calm
              PROVE  /\ \A b \in Actors :
                          /\ act'[b].pc \in {"store", "probe"} => act'[b].ver = text
                          /\ act'[b].pc = "probe" => cache' \in {0, text}
                     /\ entry => cache' = 0 \/ cache' >= stream'["cache"]  BY <1>1 DEF CalmInv
 <2>1. act[a].ver = text  BY <1>1 DEF EngineInv, CalmInv
 <2>2. entry => stream["cache"] <= text  BY DEF EngineInv, CachedInv
 <2>3. ASSUME NEW b \in Actors
       PROVE  act'[b].pc \in {"store", "probe"} => act'[b].ver = text  BY <1>3, <2>1 DEF EngineInv, CalmInv, Others
 <2> QED BY <1>1, <2>1, <2>2, <2>3
<1> QED BY <1>1, <1>3, <1>4, <1>5, <1>6, LoadGoesOn

\* The stream is opened, on the key's first load.
LEMMA ProbeStep ==
  ASSUME EngineInv, NEW a \in Actors, E!CacheProbe(a), UNCHANGED <<inst, text, calm>>, UNCHANGED E!engineVars
  PROVE  EngineInv' /\ StepsRight
<1>1. /\ act[a].pc \in Loading /\ act[a].pc = "probe" /\ SourcesInv /\ ActorsInv /\ CachedShape(a)
      /\ cache' = cache /\ entry' = TRUE /\ E!Fetched(a, act[a].ver)
  BY CachedShaped DEF E!CacheProbe, E!At, Loading, EngineInv, Typed
<1>2. act[a].ver \in 1..MaxText /\ act[a].ver \in Nat /\ faults \in Nat  BY <1>1 DEF CachedShape, Shaped, SourcesInv
<1>3. /\ act' \in [Actors -> Act] /\ Others(a) /\ Shaped(a, act'[a])
      /\ act'[a].op = act[a].op /\ act'[a].must = act[a].must
      /\ act'[a].pc \in {"push", "start"} /\ act'[a].ver = act[a].ver  BY <1>1, <1>2, FetchedGoes
<1>4. \/ stream' = [stream EXCEPT !["cache"] = text] /\ faults' = faults
      \/ stream' = stream /\ faults' = faults + 1  BY DEF E!CacheProbe, E!Fails
<1>5. SourcesInv'
 <2>1. text \in 1..(MaxText + 1)  BY <1>1 DEF CachedShape
 <2>2. stream' \in [Loops \cup {"cache"} -> 1..(MaxText + 1)]  BY <1>1, <1>4, <2>1 DEF SourcesInv
 <2>3. faults' \in Nat  BY <1>2, <1>4
 <2> QED BY <1>1, <2>2, <2>3 DEF SourcesInv
<1>6. faults' = 0 => faults = 0 /\ stream'["cache"] = text  BY <1>1, <1>2, <1>4 DEF SourcesInv
<1>7. CachedInv'
 <2> SUFFICES ASSUME inst.source = "cached", faults' = 0
              PROVE  (entry' => stream'["cache"] <= text) /\ \A c \in Calls : OfCall(c)'
   BY <1>1, <1>6, ForCall DEF EngineInv, Typed
 <2>1. \A c \in Calls : OfCall(c)  BY <1>6, ByCall DEF EngineInv
 <2>2. ASSUME NEW c \in Calls
       PROVE  OfCall(c)'
  <3>1. /\ OfCall(c) /\ act[c].must \in Nat /\ act[a].ver >= act[c].must /\ cache \in Nat
        /\ cache = 0 \/ cache >= act[c].must
        /\ act[c].must <= text /\ text \in Nat  BY <1>1, <2>1 DEF OfCall, CachedShape, Actors
  <3>2. stream'["cache"] \in Nat /\ ~(stream'["cache"] < act[c].must)  BY <1>6, <3>1
  <3> QED BY <1>1, <1>2, <1>3, <3>1, <3>2, OthersHold
 <2> QED BY <1>1, <1>6, <2>2 DEF CachedShape
<1>8. CalmInv'
 <2> SUFFICES ASSUME inst.source = "cached", faults' = 0, calm
              PROVE  /\ \A b \in Actors :
                          /\ act'[b].pc \in {"store", "probe"} => act'[b].ver = text
                          /\ act'[b].pc = "probe" => cache' \in {0, text}
                     /\ cache' = 0 \/ cache' >= stream'["cache"]  BY <1>1 DEF CalmInv
 <2>1. cache \in {0, text} /\ text \in Nat  BY <1>1, <1>6 DEF EngineInv, CalmInv, CachedShape
 <2>2. ASSUME NEW b \in Actors
       PROVE  /\ act'[b].pc \in {"store", "probe"} => act'[b].ver = text
              /\ act'[b].pc = "probe" => cache' \in {0, text}  BY <1>1, <1>3, <1>6 DEF EngineInv, CalmInv, Others
 <2> QED BY <1>1, <1>6, <2>1, <2>2
<1> QED BY <1>1, <1>3, <1>5, <1>7, <1>8, LoadGoesOn

\* A load, from any of the sources.
LEMMA FetchStep ==
  ASSUME EngineInv, NEW a \in Actors, E!Fetch(a)
  PROVE  EngineInv' /\ StepsRight
<1>1. UNCHANGED <<inst, text, calm>> /\ UNCHANGED E!engineVars  BY DEF E!Fetch
<1>2. CASE E!CacheRemote(a)  BY <1>1, <1>2, RemoteStep
<1>3. CASE E!CacheStore(a)  BY <1>1, <1>3, StoreStep
<1>4. CASE E!CacheProbe(a)  BY <1>1, <1>4, ProbeStep
<1>5. CASE E!At(a, "fetch") /\ inst.source = "cached" /\ E!Drain(a) /\ UNCHANGED faults  BY <1>1, <1>5, DrainStep
<1>6. CASE /\ E!At(a, "fetch")
           /\ \/ (E!MemoryLoad(a) \/ E!FileLoad(a) \/ E!FirstOkLoad(a)) /\ UNCHANGED <<stream, cache, entry, faults>>
              \/ (E!ConfigLoad(a) \/ E!TransformLoad(a) \/ E!FallbackLoad(a)) /\ UNCHANGED <<stream, cache, entry>>
 <2>1. faults \in Nat  BY DEF EngineInv, Typed, SourcesInv
 <2>2. faults' \in Nat /\ UNCHANGED <<stream, cache, entry>> /\ inst.source # "cached"
  <3>1. faults' = faults \/ faults' = faults + 1
    BY <1>6 DEF E!ConfigLoad, E!TransformLoad, E!FallbackLoad, E!Fails
  <3>2. UNCHANGED <<stream, cache, entry>> /\ inst.source # "cached"
    BY <1>6 DEF E!MemoryLoad, E!FileLoad, E!FirstOkLoad, E!ConfigLoad, E!TransformLoad, E!FallbackLoad
  <3> QED BY <2>1, <3>1, <3>2
 <2>3. E!Answer(a, "failed") \/ \E v \in {1, text} : E!Fetched(a, v)
   BY <1>6 DEF E!MemoryLoad, E!FileLoad, E!FirstOkLoad, E!ConfigLoad, E!TransformLoad, E!FallbackLoad, E!Reads
 <2> QED BY <1>1, <1>6, <2>2, <2>3, PlainFetch
<1> QED BY <1>2, <1>3, <1>4, <1>5, <1>6 DEF E!Fetch

-----------------------------------------------------------------------------
(* Running.                                                                *)

\* An answer is nothing to the loops in the map nor to the cached source.
LEMMA AnswerLeaves ==
  ASSUME ActorsInv, inst' = inst, NEW a \in Actors, NEW s \in {"ok", "failed", "quota"}, E!Answer(a, s),
         act[a].pc \notin {"idle", "gone"}
  PROVE  ActorsInv' /\ LoopsRest /\ CacheRests
<1>1. /\ act' \in [Actors -> Act] /\ Others(a)
      /\ act'[a] = IF a \in Loops THEN [Rest EXCEPT !.op = "reload", !.pc = "wait", !.must = act[a].must]
                   ELSE [Rest EXCEPT !.op = act[a].op, !.pc = "done", !.ans = s]  BY Answers, ZenonT(60)
<1>2. ActorsInv'  BY AnswerShapes
<1>3. LoopsRest  BY <1>1 DEF LoopsRest, Others, Actors, Rest
<1>4. CacheRests
 <2>1. act'[a].pc \in {"wait", "done"} /\ (a \in Calls => act'[a].must = 0)  BY <1>1, ScriptsAssumption DEF Rest
 <2>2. \A b \in Actors : b # a => act'[b] = act[b]  BY <1>1 DEF Others
 <2> QED BY <2>1, <2>2 DEF CacheRests
<1> QED BY <1>2, <1>3, <1>4, SMTT(60)

\* No command is taken from the worker threads.
LEMMA QueuesRight ==
  ASSUME EngineInv, UNCHANGED orders
  PROVE  E!ClosedJsIsQuietStep
<1>1. \A i \in 1..2 : Len(orders[i]) \in Nat  BY DEF EngineInv, ThreadsInv, ThreadTypes
<1> QED BY <1>1 DEF E!ClosedJsIsQuietStep, E!Incs

\* A caller that starts a run.
LEMMA AtStart ==
  ASSUME EngineInv, NEW a \in Actors, E!Starting(a) \/ E!Calling(a, {"global", "call"})
  PROVE  /\ a \in Calls /\ a \notin Loops /\ act[a] \in Act /\ Shaped(a, act[a]) /\ act[a].ans = "none"
         /\ \/ act[a].pc = "call" /\ act[a].op \in {"run", "global", "call"}
            \/ act[a].pc = "start" /\ act[a].op \in {"fromkey", "adhoc"}
<1>1. act[a] \in Act /\ Shaped(a, act[a])  BY DEF EngineInv, Typed, ActorsInv
<1>2. act[a].pc \in {"call", "start"}  BY DEF E!Starting, E!Calling, E!At
<1>3. a \in Calls /\ a \notin Loops  BY <1>1, <1>2, ScriptsAssumption DEF Shaped, Loading, Actors
<1> QED BY <1>1, <1>2, <1>3 DEF E!Starting, E!Calling, E!At, Shaped

\* Runs of cel and wasm are answered at once.
LEMMA CelWasmRun ==
  ASSUME EngineInv, NEW a \in Actors, E!CelRun(a) \/ E!WasmRun(a),
         UNCHANGED <<inst, inited, bound, table, aborted, quiet>>, UNCHANGED E!sourceVars
  PROVE  EngineInv' /\ StepsRight
<1>1. PICK s \in {"ok", "failed"} : E!Starting(a) /\ E!Answer(a, s)  BY DEF E!CelRun, E!WasmRun
<1>2. /\ inst.engine # "starlark" /\ UNCHANGED <<programs, left, tripped, frozen>> /\ UNCHANGED E!jsVars
  BY DEF E!CelRun, E!WasmRun, E!engine
<1>3. SmallStep
  BY <1>2, UnchangedStrings DEF SmallStep, RestVars, E!sourceVars, E!jsVars, EngineInv, Typed, EnginesInv
<1>4. act[a].pc \notin {"keep", "joining", "sent", "done", "ran", "gone", "idle", "wait"}  BY <1>1, AtStart
<1> QED BY <1>1, <1>2, <1>3, <1>4, AnsweredKeeps

\* What starlark runs beside the set.
LEMMA ExtraIs ==
  ASSUME EngineInv, NEW a \in Actors, inst.engine = "starlark",
         act[a].pc \in {"start", "running"} \/ act[a].op = "run"
  PROVE  /\ E!Extra(a) \in Seq(Known)
         /\ IF act[a].op = "run" THEN E!Extra(a) = <<>> ELSE E!Extra(a) = <<act[a].ver>>
<1>1. act[a].op # "run" => act[a].ver \in Known
 <2>1. Shaped(a, act[a])  BY DEF EngineInv, Typed, ActorsInv
 <2> QED BY <2>1 DEF Shaped, Known, Actors
<1>2. act[a].op # "run" => <<act[a].ver>> \in Seq(Known)  BY <1>1
<1>3. <<>> \in Seq(Known)  OBVIOUS
<1> QED BY <1>2, <1>3 DEF E!Extra

\* starlark copies the set.
LEMMA StarlarkStarts ==
  ASSUME EngineInv, NEW a \in Actors, E!StarlarkStart(a),
         UNCHANGED <<inst, inited, bound, table, aborted, quiet>>, UNCHANGED E!sourceVars
  PROVE  EngineInv' /\ StepsRight
<1>1. /\ inst.engine = "starlark" /\ UNCHANGED <<programs, left, tripped, frozen>> /\ UNCHANGED E!jsVars
      /\ E!Starting(a)  BY DEF E!StarlarkStart, E!engine
<1>2. SmallStep
  BY <1>1, UnchangedStrings DEF SmallStep, RestVars, E!sourceVars, E!jsVars, EngineInv, Typed, EnginesInv
<1>3. /\ a \in Calls /\ a \notin Loops /\ act[a] \in Act /\ Shaped(a, act[a]) /\ act[a].ans = "none"
      /\ \/ act[a].pc = "call" /\ act[a].op = "run"
         \/ act[a].pc = "start" /\ act[a].op \in {"fromkey", "adhoc"}
  BY <1>1, AtStart DEF E!Starting, E!Calling, E!At
<1>4. CASE E!Answer(a, "failed")  BY <1>2, <1>3, <1>4, AnsweredKeeps
<1>5. CASE act' = [act EXCEPT ![a].pc = "running", ![a].snap = programs \o E!Extra(a)]
 <2>1. programs \o E!Extra(a) \in Seq({0} \cup Known)
  <3>1. programs \in Seq(Known) /\ E!Extra(a) \in Seq(Known)
    BY <1>1, <1>3, ExtraIs DEF EngineInv, Typed, EnginesInv
  <3>2. programs \o E!Extra(a) \in Seq(Known)  BY <3>1
  <3>3. Known \subseteq {0} \cup Known  OBVIOUS
  <3> QED BY <3>2, <3>3
 <2>2. [act[a] EXCEPT !.pc = "running", !.snap = programs \o E!Extra(a)] \in Act
   BY <1>3, <2>1 DEF Act, EnginePlaces
 <2>3. act' = [act EXCEPT ![a] = [act[a] EXCEPT !.pc = "running", !.snap = programs \o E!Extra(a)]]
   BY <1>3, <1>5 DEF EngineInv, Typed, ActorsInv, Act
 <2>4. /\ act' \in [Actors -> Act] /\ Others(a)
       /\ act'[a].pc = "running" /\ act'[a].ver = act[a].ver /\ act'[a].op = act[a].op
       /\ act'[a].ans = act[a].ans /\ act'[a].must = act[a].must
  <3>1. act'[a] = [act[a] EXCEPT !.pc = "running", !.snap = programs \o E!Extra(a)]
    BY <2>3 DEF EngineInv, Typed, ActorsInv
  <3> QED BY <1>3, <2>2, <2>3, <3>1 DEF EngineInv, Typed, ActorsInv, Others, Act
 <2>5. Shaped(a, act'[a])  BY <1>1, <1>3, <2>4 DEF Shaped, Loading, Actors
 <2>6. ActorsInv'  BY <1>2, <2>4, <2>5, Reshaped DEF EngineInv, Typed, SmallStep, RestVars
 <2>7. LoopsRest /\ ThreadsRest /\ FlagRests
   BY <1>1, <1>3, <2>4 DEF LoopsRest, ThreadsRest, FlagRests, Others, Actors
 <2>8. StringsRest /\ CacheRests  BY <1>3, <2>4 DEF StringsRest, CacheRests, Others, Actors, Finished
 <2> QED BY <1>2, <2>6, <2>7, <2>8, SmallKeeps DEF AllRest
<1> QED BY <1>4, <1>5 DEF E!StarlarkStart

\* A script that ran joins the set.
LEMMA StarlarkRuns ==
  ASSUME EngineInv, NEW a \in Actors, E!StarlarkRun(a),
         UNCHANGED <<inst, inited, bound, table, aborted, quiet>>, UNCHANGED E!sourceVars
  PROVE  EngineInv' /\ StepsRight
<1>1. /\ inst.engine = "starlark" /\ UNCHANGED <<left, tripped>> /\ UNCHANGED E!jsVars
      /\ act[a].pc = "running" /\ ActorsInv /\ SourcesInv  BY DEF E!StarlarkRun, E!engine, E!At, EngineInv, Typed
<1>2. /\ act[a] \in Act /\ Shaped(a, act[a]) /\ a \in Calls /\ a \notin Loops
 <2>1. act[a] \in Act /\ Shaped(a, act[a])  BY <1>1 DEF ActorsInv
 <2> QED BY <1>1, <2>1, ScriptsAssumption DEF Shaped, Loading, Actors
<1>3. CASE E!Answer(a, "failed") /\ UNCHANGED <<programs, frozen>>
 <2>1. SmallStep
   BY <1>1, <1>3, UnchangedStrings DEF SmallStep, RestVars, E!sourceVars, E!jsVars, EngineInv, Typed, EnginesInv
 <2> QED BY <1>1, <1>3, <2>1, AnsweredKeeps
<1>4. CASE E!Answer(a, "ok") /\ programs' = programs \o E!Extra(a)
 <2>1. /\ act' \in [Actors -> Act] /\ Others(a)
       /\ act'[a].op = act[a].op /\ act'[a].pc = "done" /\ act'[a].ans = "ok"  BY <1>1, <1>2, <1>4, Returns
 <2>2. ActorsInv' /\ LoopsRest /\ CacheRests  BY <1>1, <1>4, AnswerLeaves
 <2>3. ThreadsRest /\ FlagRests  BY <1>1 DEF ThreadsRest, FlagRests
 <2>4. programs \in Seq(Known) /\ E!Extra(a) \in Seq(Known)  BY <1>1, ExtraIs DEF EngineInv, Typed, EnginesInv
 <2>5. programs' \in Seq(Known)  BY <1>4, <2>4
 <2>6. SourcesInv' /\ EnginesInv'  BY <1>1, <2>5 DEF SourcesInv, EnginesInv, E!sourceVars, EngineInv, Typed
 <2>7. LoopsInv'  BY <2>2, LoopsKeep DEF EngineInv
 <2>8. ThreadsInv'  BY <1>1, <2>2, <2>3, ThreadsKeep DEF EngineInv, Typed, E!jsVars
 <2>9. FlagInv' /\ CachedInv' /\ CalmInv'  BY <1>1, <2>2, <2>3, FlagKeeps, CacheKeeps DEF EngineInv, E!sourceVars
 <2>10. StringsInv'
  <3> SUFFICES ASSUME {"init", "close"} \cap inst.ops = {}, NEW c \in Calls
               PROVE  (\E n \in 1..Len(programs') : programs'[n] = c)
                        <=> act'[c].pc = "done" /\ act'[c].op = "adhoc" /\ act'[c].ans = "ok"
    BY <1>1 DEF StringsInv
  <3>1. (\E n \in 1..Len(programs) : programs[n] = c)
          <=> act[c].pc = "done" /\ act[c].op = "adhoc" /\ act[c].ans = "ok"  BY <1>1 DEF EngineInv, StringsInv
  <3>2. (\E n \in 1..Len(programs') : programs'[n] = c)
          <=> (\E n \in 1..Len(programs) : programs[n] = c) \/ (act[a].op # "run" /\ c = act[a].ver)
   <4>1. CASE act[a].op = "run"
    <5>1. programs' = programs  BY <1>1, <1>4, <2>4, <4>1, ExtraIs
    <5> QED BY <4>1, <5>1
   <4>2. CASE act[a].op # "run"
    <5>1. programs' = programs \o <<act[a].ver>> /\ act[a].ver \in Known
      BY <1>1, <1>2, <1>4, <4>2, ExtraIs DEF Shaped, Known
    <5>2. /\ Len(programs') = Len(programs) + 1 /\ Len(programs) \in Nat
          /\ \A n \in 1..Len(programs) : programs'[n] = programs[n]
          /\ programs'[Len(programs) + 1] = act[a].ver  BY <2>4, <5>1
    <5>3. \A n \in 1..Len(programs') : n \in 1..Len(programs) \/ n = Len(programs) + 1  BY <5>2
    <5>4. Len(programs) + 1 \in 1..Len(programs') /\ \A n \in 1..Len(programs) : n \in 1..Len(programs')
      BY <5>2
    <5> QED BY <4>2, <5>2, <5>3, <5>4
   <4> QED BY <4>1, <4>2
  <3>3. act[a].op # "run" => (c = act[a].ver <=> c = a /\ act[a].op = "adhoc")
   <4>1. act[a].op # "run" => IF act[a].op = "adhoc" THEN act[a].ver = a ELSE act[a].ver \in 1..MaxText
     BY <1>1, <1>2 DEF Shaped
   <4>2. c \notin 1..MaxText  BY ScriptsAssumption
   <4> QED BY <4>1, <4>2
  <3> QED BY <1>1, <2>1, <3>1, <3>2, <3>3 DEF Others, Actors
 <2>11. EngineInv'  BY <2>2, <2>6, <2>7, <2>8, <2>9, <2>10 DEF EngineInv, Typed
 <2> QED BY <1>1, <2>3, <2>11, RestIsRight DEF E!jsVars
<1> QED BY <1>3, <1>4 DEF E!StarlarkRun

\* What lua's steps are to the rest: a run starts, ends, or stays where it is.
LuaSide ==
  /\ UNCHANGED <<inst, programs, inited, bound, table, aborted, quiet>> /\ UNCHANGED E!sourceVars /\ UNCHANGED E!jsVars

\* Such a step keeps the invariant, given the flag.
LEMMA LuaKeeps ==
  ASSUME EngineInv, inst.engine = "lua", LuaSide, left' \in 0..99,
         ActorsInv', LoopsRest, CacheRests, FlagInv', E!VerdictIsOwnStep
  PROVE  EngineInv' /\ StepsRight
<1>1. SourcesInv' /\ EnginesInv'  BY DEF SourcesInv, EnginesInv, LuaSide, E!sourceVars, EngineInv, Typed
<1>2. ThreadsRest /\ StringsRest /\ SameStrings  BY UnchangedStrings DEF ThreadsRest, StringsRest, LuaSide
<1>3. LoopsInv'  BY LoopsKeep DEF LuaSide, EngineInv
<1>4. ThreadsInv'  BY <1>2, ThreadsKeep DEF LuaSide, E!jsVars, EngineInv, Typed
<1>5. StringsInv'  BY <1>2, StringsKeep DEF LuaSide, EngineInv
<1>6. CachedInv' /\ CalmInv'  BY CacheKeeps DEF LuaSide, E!sourceVars, EngineInv, Typed
<1>7. EngineInv'  BY <1>1, <1>3, <1>4, <1>5, <1>6 DEF EngineInv, Typed
<1> QED BY <1>7, QueuesRight DEF StepsRight, LuaSide, E!jsVars

\* A run starts, and no other one that is on the way owns the flag any more.
LEMMA GuardedStep ==
  ASSUME EngineInv, inst.engine = "lua", NEW a \in Actors, NEW progs \in Seq({0} \cup Known),
         (act[a].pc = "call" /\ act[a].op \in {"run", "call"}) \/ act[a].pc = "start",
         E!Guarded(a, progs), LuaSide, left' = left
  PROVE  EngineInv' /\ StepsRight
<1>1. /\ ActorsInv /\ act[a] \in Act /\ Shaped(a, act[a]) /\ left \in 0..99
      /\ 0 \in 0..MaxText /\ 1 \in 0..MaxText  BY ScriptsAssumption DEF EngineInv, Typed, ActorsInv, EnginesInv
<1>2. a \in Calls /\ a \notin Loops /\ act[a].ans = "none" /\ act[a].op \in {"run", "call", "fromkey", "adhoc"}
  BY <1>1, ScriptsAssumption DEF Shaped, Loading, Actors
<1> DEFINE m == IF E!Running = {} THEN 1 ELSE 0
           g(b) == IF b = a THEN [act[a] EXCEPT !.pc = "running", !.snap = progs, !.must = m]
                   ELSE IF b \in E!Running THEN [act[b] EXCEPT !.must = 0] ELSE act[b]
<1>3. act' = [b \in Actors |-> g(b)] /\ tripped' = FALSE  BY DEF E!Guarded, E!Actors, Actors
<1>4. ASSUME NEW b \in Actors
      PROVE  /\ act[b] \in Act /\ g(b) \in Act /\ Shaped(b, g(b))
             /\ b # a => /\ g(b).pc = act[b].pc /\ g(b).op = act[b].op /\ g(b).ver = act[b].ver
                         /\ g(b).must = act[b].must \/ (act[b].pc \in {"running", "ran"} /\ g(b).must = 0)
                         /\ act[b].pc \notin {"running", "ran"} => g(b) = act[b]
                         /\ act[b].pc \in {"running", "ran"} => g(b).must = 0
             /\ b = a => g(b).pc = "running" /\ g(b).must = m
 <2>1. act[b] \in Act /\ Shaped(b, act[b])  BY <1>1 DEF ActorsInv
 <2>2. b \in E!Running <=> act[b].pc \in {"running", "ran"}  BY DEF E!Running, E!Actors, Actors
 <2>3. CASE b = a
  <3>1. g(b) = [act[a] EXCEPT !.pc = "running", !.snap = progs, !.must = m]  BY <2>3
  <3>2. g(b) \in Act  BY <1>1, <3>1, ZenonT(60) DEF Act, EnginePlaces
  <3>3. /\ g(b).pc = "running" /\ g(b).must = m /\ g(b).op = act[a].op /\ g(b).ver = act[a].ver
        /\ g(b).ans = act[a].ans  BY <1>1, <3>1 DEF Act
  <3>4. Shaped(b, g(b))
   <4> HIDE DEF g
   <4> QED BY <1>1, <1>2, <2>3, <3>2, <3>3 DEF Shaped, Loading
  <3> QED BY <2>1, <2>3, <3>2, <3>3, <3>4
 <2>4. CASE b # a /\ b \in E!Running
  <3>1. g(b) = [act[b] EXCEPT !.must = 0]  BY <2>4
  <3>2. g(b) \in Act  BY <1>1, <2>1, <3>1, SMTT(60) DEF Act
  <3>3. /\ g(b).pc = act[b].pc /\ g(b).must = 0 /\ g(b).op = act[b].op /\ g(b).ver = act[b].ver
        /\ g(b).ans = act[b].ans  BY <2>1, <3>1 DEF Act
  <3>4. Shaped(b, g(b))
   <4> HIDE DEF g
   <4> QED BY <2>1, <3>2, <3>3 DEF Shaped, Loading
  <3> QED BY <2>1, <2>2, <2>4, <3>2, <3>3, <3>4
 <2>5. CASE b # a /\ b \notin E!Running  BY <2>1, <2>2, <2>5
 <2> QED BY <2>3, <2>4, <2>5
<1>5. \A b \in Actors : act'[b] = g(b)  BY <1>3
<1> HIDE DEF g, m
<1>6. act' \in [Actors -> Act] /\ ActorsInv'
 <2>1. act' \in [Actors -> Act]  BY <1>3, <1>4
 <2>2. \A b \in Actors : Shaped(b, act'[b])  BY <1>4, <1>5
 <2> QED BY <2>1, <2>2 DEF ActorsInv, Shaped, LuaSide
<1>7. LoopsRest  BY <1>2, <1>4, <1>5 DEF LoopsRest, Actors
<1>8. CacheRests
 <2>1. act'[a].must \in {0, 1}  BY <1>4, <1>5 DEF m
 <2>2. ASSUME NEW b \in Actors
       PROVE  /\ act'[b].pc \in {"store", "probe"} => act'[b] = act[b]
              /\ act'[b].must \in {0, 1} \/ act'[b].must = act[b].must
              /\ act'[b].pc \in {"push", "start"} => act'[b] = act[b]  BY <1>4, <1>5, <2>1
 <2> QED BY <2>2 DEF CacheRests
<1>9. FlagInv'
 <2> SUFFICES ASSUME NEW x \in Actors, act'[x].pc \in {"running", "ran"}, act'[x].must = 1
              PROVE  /\ \A b \in Actors : act'[b].pc \in {"running", "ran"} => b = x
                     /\ act'[x].pc = "running" => ~tripped'
                     /\ act'[x].pc = "ran" => (tripped' <=> act'[x].via = 1)  BY DEF FlagInv
 <2>1. x = a  BY <1>4, <1>5
 <2>2. m = 1 /\ act'[x].pc = "running"  BY <1>4, <1>5, <2>1
 <2>3. E!Running = {}  BY <2>2 DEF m
 <2>4. \A b \in Actors : act[b].pc \notin {"running", "ran"}  BY <2>3 DEF E!Running, E!Actors, Actors
 <2>5. \A b \in Actors : act'[b].pc \in {"running", "ran"} => b = x  BY <1>4, <1>5, <2>1, <2>4
 <2> QED BY <1>3, <2>2, <2>5
<1>10. E!VerdictIsOwnStep
 <2>1. ASSUME NEW x \in Actors, act[x].pc = "ran"
       PROVE  act'[x].pc # "done"  BY <1>4, <1>5, <2>1
 <2> QED BY <2>1 DEF E!VerdictIsOwnStep, E!At, E!Actors, Actors
<1> QED BY <1>1, <1>6, <1>7, <1>8, <1>9, <1>10, LuaKeeps

\* A run of lua, or a call of a script's function.
LEMMA LuaStarts ==
  ASSUME EngineInv, NEW a \in Actors, E!LuaStart(a) \/ E!LuaCall(a),
         UNCHANGED <<inst, inited, bound, table, aborted, quiet>>, UNCHANGED E!sourceVars
  PROVE  EngineInv' /\ StepsRight
<1>1. /\ inst.engine = "lua" /\ LuaSide /\ left' = left
      /\ E!Starting(a) \/ E!Calling(a, {"global", "call"})
  BY DEF E!LuaStart, E!LuaCall, LuaSide, E!engine, E!Calling
<1>2. \/ E!Answer(a, "failed") /\ tripped' = tripped
      \/ E!Guarded(a, programs) /\ E!Starting(a)
      \/ E!Guarded(a, <<1>>) /\ E!Calling(a, {"call"})  BY DEF E!LuaStart, E!LuaCall
<1>3. act[a].pc \in {"call", "start"}  BY <1>1, AtStart
<1>4. CASE E!Answer(a, "failed") /\ tripped' = tripped
 <2>1. SmallStep
   BY <1>1, <1>4, UnchangedStrings DEF SmallStep, RestVars, LuaSide, E!sourceVars, E!jsVars, EngineInv, Typed, EnginesInv
 <2> QED BY <1>3, <1>4, <2>1, AnsweredKeeps
<1>5. CASE E!Guarded(a, programs) /\ E!Starting(a)
 <2>1. programs \in Seq(Known)  BY DEF EngineInv, Typed, EnginesInv
 <2>2. programs \in Seq({0} \cup Known)
  <3>1. Known \subseteq {0} \cup Known  OBVIOUS
  <3> QED BY <2>1, <3>1
 <2>3. (act[a].pc = "call" /\ act[a].op \in {"run", "call"}) \/ act[a].pc = "start"
   BY <1>5, AtStart DEF E!Starting, E!Calling, E!At
 <2> QED BY <1>1, <1>3, <1>5, <2>2, <2>3, GuardedStep
<1>6. CASE E!Guarded(a, <<1>>) /\ E!Calling(a, {"call"})
 <2>1. <<1>> \in Seq({0} \cup Known)
  <3>1. 1 \in {0} \cup Known  BY ScriptsAssumption DEF Known
  <3> QED BY <3>1
 <2>2. act[a].op = "call"  BY <1>6 DEF E!Calling
 <2> QED BY <1>1, <1>3, <1>6, <2>1, <2>2, GuardedStep
<1> QED BY <1>2, <1>4, <1>5, <1>6

\* A run is over, but for its verdict.
LEMMA LuaRuns ==
  ASSUME EngineInv, NEW a \in Actors, E!LuaRun(a),
         UNCHANGED <<inst, inited, bound, table, aborted, quiet>>, UNCHANGED E!sourceVars
  PROVE  EngineInv' /\ StepsRight
<1> DEFINE n == Len(act[a].snap)
           trips == left # 99 /\ left <= n
<1>1. /\ inst.engine = "lua" /\ LuaSide /\ act[a].pc = "running"
      /\ ActorsInv /\ act[a] \in Act /\ Shaped(a, act[a]) /\ left \in 0..99 /\ n \in Nat
  BY DEF E!LuaRun, LuaSide, E!engine, E!At, EngineInv, Typed, EnginesInv, ActorsInv, Act
<1>2. /\ left' = (IF left = 99 THEN left ELSE IF left > n THEN left - n ELSE 0)
      /\ tripped' = (tripped \/ trips)
      /\ E!GoesBy(a, "ran", IF trips THEN 1 ELSE 0)  BY DEF E!LuaRun, E!Unarmed
<1>3. left' \in 0..99
 <2> HIDE DEF n, trips
 <2> QED BY <1>1, <1>2
<1>4. /\ act' \in [Actors -> Act] /\ Others(a)
      /\ act'[a].pc = "ran" /\ act'[a].via = (IF trips THEN 1 ELSE 0)
      /\ act'[a].op = act[a].op /\ act'[a].ver = act[a].ver
      /\ act'[a].must = act[a].must /\ act'[a].ans = act[a].ans
 <2> HIDE DEF trips
 <2>1. "ran" \in EnginePlaces /\ (IF trips THEN 1 ELSE 0) \in Nat  BY DEF EnginePlaces
 <2> QED BY <1>1, <1>2, <2>1, GoesBy
<1> HIDE DEF trips
<1>5. a \in Calls /\ a \notin Loops  BY <1>1, ScriptsAssumption DEF Shaped, Loading, Actors
<1>6. Shaped(a, act'[a])  BY <1>1, <1>4, <1>5 DEF Shaped, Loading
<1>7. ActorsInv'  BY <1>1, <1>4, <1>6, Reshaped DEF LuaSide
<1>8. LoopsRest  BY <1>4, <1>5 DEF LoopsRest, Others, Actors
<1>9. CacheRests  BY <1>4 DEF CacheRests, Others, Actors
<1>10. FlagInv'
 <2> SUFFICES ASSUME NEW x \in Actors, act'[x].pc \in {"running", "ran"}, act'[x].must = 1
              PROVE  /\ \A b \in Actors : act'[b].pc \in {"running", "ran"} => b = x
                     /\ act'[x].pc = "running" => ~tripped'
                     /\ act'[x].pc = "ran" => (tripped' <=> act'[x].via = 1)  BY DEF FlagInv
 <2>1. act[x].pc \in {"running", "ran"} /\ act[x].must = 1  BY <1>1, <1>4 DEF Others
 <2>2. \A b \in Actors : act[b].pc \in {"running", "ran"} => b = x  BY <1>1, <2>1 DEF EngineInv, FlagInv
 <2>3. x = a /\ ~tripped  BY <1>1, <2>1, <2>2 DEF EngineInv, FlagInv
 <2>4. \A b \in Actors : act'[b].pc \in {"running", "ran"} => b = x  BY <1>4, <2>2, <2>3 DEF Others
 <2>5. CASE trips  BY <1>2, <1>4, <2>3, <2>4, <2>5
 <2>6. CASE ~trips
  <3>1. ~tripped'  BY <1>2, <2>3, <2>6, Zenon
  <3>2. act'[x].via = 0 /\ act'[x].pc = "ran"  BY <1>4, <2>3, <2>6
  <3> QED BY <2>4, <3>1, <3>2
 <2> QED BY <2>5, <2>6
<1>11. E!VerdictIsOwnStep  BY <1>1, <1>4 DEF E!VerdictIsOwnStep, E!At, E!Actors, Actors, Others
<1> QED BY <1>1, <1>3, <1>7, <1>8, <1>9, <1>10, <1>11, LuaKeeps

\* The verdict: of a run that owns the flag, whether the hook stopped it.
LEMMA LuaEnds ==
  ASSUME EngineInv, NEW a \in Actors, E!LuaEnd(a),
         UNCHANGED <<inst, inited, bound, table, aborted, quiet>>, UNCHANGED E!sourceVars
  PROVE  EngineInv' /\ StepsRight
<1> DEFINE s == IF tripped THEN "quota" ELSE IF act[a].via = 1 THEN "failed" ELSE "ok"
<1>1. /\ inst.engine = "lua" /\ LuaSide /\ act[a].pc = "ran" /\ left' = left /\ left \in 0..99 /\ tripped' = tripped
      /\ ActorsInv /\ Shaped(a, act[a]) /\ E!Answer(a, s)
  BY DEF E!LuaEnd, E!LuaVerdict, LuaSide, E!engine, E!At, EngineInv, Typed, EnginesInv, ActorsInv
<1>2. a \in Calls /\ a \notin Loops /\ inst' = inst  BY <1>1, ScriptsAssumption DEF Shaped, Loading, Actors, LuaSide
<1>3. s \in {"ok", "failed", "quota"}  OBVIOUS
<1> HIDE DEF s
<1>4. /\ Others(a) /\ act'[a].pc = "done" /\ act'[a].ans = s  BY <1>1, <1>2, <1>3, Returns
<1>5. ActorsInv' /\ LoopsRest /\ CacheRests  BY <1>1, <1>2, <1>3, AnswerLeaves
<1>6. FlagInv'  BY <1>1, <1>2, <1>4 DEF EngineInv, FlagInv, Others
<1>7. E!VerdictIsOwnStep
 <2> SUFFICES ASSUME NEW x \in Actors, act[x].pc = "ran", act[x].must = 1, act'[x].pc = "done"
              PROVE  (act'[x].ans = "quota") = (act[x].via = 1)  BY DEF E!VerdictIsOwnStep, E!At, E!Actors, Actors
 <2>1. x = a  BY <1>4 DEF Others
 <2>2. tripped <=> act[a].via = 1  BY <1>1, <2>1 DEF EngineInv, FlagInv
 <2> QED BY <1>4, <2>1, <2>2 DEF s
<1> QED BY <1>1, <1>5, <1>6, <1>7, LuaKeeps

\* What javascript's steps are to the rest of the engine.
JsSide ==
  /\ UNCHANGED <<inst, text, faults, stream, cache, entry, calm, left, tripped, frozen>>

\* Such a step keeps the invariant, given the threads.
LEMMA JsKeeps ==
  ASSUME EngineInv, inst.engine = "javascript", JsSide,
         ActorsInv', LoopsInv', CacheRests, programs' \in Seq(Known), ThreadsInv', E!ClosedJsIsQuietStep
  PROVE  EngineInv' /\ StepsRight
<1>1. SourcesInv' /\ EnginesInv'  BY DEF SourcesInv, EnginesInv, JsSide, EngineInv, Typed
<1>2. FlagInv' /\ StringsInv'  BY DEF FlagInv, StringsInv, JsSide
<1>3. CachedInv' /\ CalmInv'  BY CacheKeeps DEF JsSide, EngineInv, Typed
<1>4. E!VerdictIsOwnStep  BY DEF E!VerdictIsOwnStep, E!engine
<1> QED BY <1>1, <1>2, <1>3, <1>4 DEF EngineInv, Typed, StepsRight

\* A caller takes the sender.
LEMMA JsStarts ==
  ASSUME EngineInv, NEW a \in Actors, E!JsStart(a),
         UNCHANGED <<inst, inited, bound, table, aborted, quiet>>, UNCHANGED E!sourceVars
  PROVE  EngineInv' /\ StepsRight
<1>1. /\ inst.engine = "javascript" /\ UNCHANGED <<programs, left, tripped, frozen>> /\ UNCHANGED E!jsVars
      /\ E!Starting(a) \/ E!Calling(a, {"global", "call"})
      /\ ActorsInv /\ programs \in Seq(Known)  BY DEF E!JsStart, E!engine, EngineInv, Typed, EnginesInv
<1>2. /\ a \in Calls /\ a \notin Loops /\ act[a] \in Act /\ Shaped(a, act[a]) /\ act[a].ans = "none"
      /\ \/ act[a].pc = "call" /\ act[a].op \in {"run", "global", "call"}
         \/ act[a].pc = "start" /\ act[a].op \in {"fromkey", "adhoc"}  BY <1>1, AtStart
<1>3. CASE E!Answer(a, "failed")
 <2>1. SmallStep
   BY <1>1, UnchangedStrings DEF SmallStep, RestVars, E!sourceVars, E!jsVars, EngineInv, Typed, EnginesInv
 <2> QED BY <1>1, <1>2, <1>3, <2>1, AnsweredKeeps
<1>4. CASE ~E!Answer(a, "failed")
 <2>1. PICK codes \in {programs, <<>>, <<act[a].ver>>} :
         /\ sender # 0
         /\ act' = [act EXCEPT ![a].pc = "send", ![a].via = sender, ![a].snap = codes]  BY <1>4 DEF E!JsStart
 <2>2. codes \in Seq({0} \cup Known)
  <3>1. Known \subseteq {0} \cup Known /\ act[a].ver \in {0} \cup Known  BY <1>2 DEF Act
  <3>2. programs \in Seq({0} \cup Known)  BY <1>1, <3>1
  <3>3. <<>> \in Seq({0} \cup Known) /\ <<act[a].ver>> \in Seq({0} \cup Known)  BY <3>1
  <3> QED BY <3>2, <3>3
 <2>3. sender \in 1..2 /\ sender \in Nat /\ worker[sender] = "up"
   BY <2>1 DEF EngineInv, ThreadsInv, ThreadTypes, SenderInv
 <2> DEFINE r == [act[a] EXCEPT !.pc = "send", !.via = sender, !.snap = codes]
 <2>4. r \in Act  BY <1>2, <2>2, <2>3 DEF Act, EnginePlaces
 <2>5. act' = [act EXCEPT ![a] = r]  BY <1>1, <1>2, <2>1 DEF ActorsInv, Act
 <2>6. act'[a] = r  BY <1>1, <2>5 DEF ActorsInv
 <2>7. /\ act'[a].pc = "send" /\ act'[a].via = sender /\ act'[a].op = act[a].op
       /\ act'[a].ver = act[a].ver /\ act'[a].must = act[a].must /\ act'[a].ans = act[a].ans  BY <1>2, <2>6 DEF Act
 <2>8. act' \in [Actors -> Act] /\ Others(a)  BY <1>1, <2>4, <2>5 DEF ActorsInv, Others
 <2> HIDE DEF r
 <2>9. Shaped(a, act'[a])  BY <1>1, <1>2, <2>7, <2>8 DEF Shaped, Loading
 <2>10. ActorsInv'  BY <1>1, <2>8, <2>9, Reshaped
 <2>11. LoopsInv'
  <3>1. LoopsRest  BY <1>2, <2>8 DEF LoopsRest, Others, Actors
  <3> QED BY <1>1, <3>1, LoopsKeep DEF EngineInv
 <2>12. CacheRests  BY <2>7, <2>8 DEF CacheRests, Others, Actors
 <2>13. ThreadsInv'
  <3>1. UNCHANGED <<inst, worker, orders, sender, joinable, quiet, inited>>  BY <1>1 DEF E!jsVars
  <3>2. ThreadTypes' /\ SenderInv' /\ QuietInv'
    BY <3>1 DEF ThreadTypes, SenderInv, QuietInv, EngineInv, ThreadsInv
  <3>3. \A c \in Calls : act'[c] = act[c] \/ (c = a /\ act[c].pc \in {"call", "start"} /\ act'[c].pc = "send")
    BY <1>2, <2>7, <2>8 DEF Others, Actors
  <3>4. OrdersInv'
   <4>1. ASSUME NEW i \in 1..2, NEW n \in 1..Len(orders[i]), orders[i][n] # "drop"
         PROVE  act'[orders[i][n]].pc \in {"sent", "done"}
    <5>1. orders[i][n] \in Calls  BY <4>1 DEF EngineInv, ThreadsInv, ThreadTypes
    <5>2. act[orders[i][n]].pc \in {"sent", "done"}  BY <4>1 DEF EngineInv, ThreadsInv, OrdersInv
    <5> QED BY <3>3, <5>1, <5>2
   <4>2. ASSUME NEW c \in Calls, act'[c].pc \in {"send", "keep"}
         PROVE  act'[c].via \in 1..2 /\ worker[act'[c].via] # "none"
     BY <2>3, <2>7, <3>3, <4>2 DEF EngineInv, ThreadsInv, OrdersInv
   <4> QED BY <3>1, <4>1, <4>2 DEF OrdersInv, EngineInv, ThreadsInv
  <3>5. JoinersInv'  BY <3>1, <3>3 DEF JoinersInv, EngineInv, ThreadsInv
  <3> QED BY <3>2, <3>4, <3>5 DEF ThreadsInv
 <2> QED BY <1>1, <2>10, <2>11, <2>12, <2>13, JsKeeps, QueuesRight DEF JsSide, E!sourceVars, E!jsVars
<1> QED BY <1>3, <1>4

\* The command is queued.
LEMMA JsSends ==
  ASSUME EngineInv, NEW a \in Actors, E!JsSend(a),
         UNCHANGED <<inst, inited, bound, table, aborted, quiet>>, UNCHANGED E!sourceVars
  PROVE  EngineInv' /\ StepsRight
<1>1. /\ inst.engine = "javascript" /\ UNCHANGED <<programs, left, tripped, frozen, worker, sender, joinable>>
      /\ act[a].pc = "send" /\ ActorsInv /\ programs \in Seq(Known)
  BY DEF E!JsSend, E!engine, E!At, EngineInv, Typed, EnginesInv
<1>2. /\ act[a] \in Act /\ Shaped(a, act[a])
      /\ a \in Calls /\ a \notin Loops
 <2>1. act[a] \in Act /\ Shaped(a, act[a])  BY <1>1 DEF ActorsInv
 <2> QED BY <1>1, <2>1, ScriptsAssumption DEF Shaped, Loading, Actors
<1>3. CASE E!Answer(a, "failed") /\ UNCHANGED orders
 <2>1. SmallStep
   BY <1>1, <1>3, UnchangedStrings DEF SmallStep, RestVars, E!sourceVars, EngineInv, Typed, EnginesInv
 <2> QED BY <1>1, <1>2, <1>3, <2>1, AnsweredKeeps
<1>4. CASE E!Goes(a, "sent") /\ orders' = [orders EXCEPT ![act[a].via] = Append(orders[act[a].via], a)]
 <2> DEFINE v == act[a].via
 <2>1. v \in 1..2 /\ worker[v] # "none"  BY <1>1, <1>2 DEF EngineInv, ThreadsInv, OrdersInv
 <2>2. /\ act' \in [Actors -> Act] /\ Others(a) /\ act'[a] = [act[a] EXCEPT !.pc = "sent"]
   BY <1>1, <1>4, Goes DEF EnginePlaces
 <2>3. /\ act'[a].pc = "sent" /\ act'[a].op = act[a].op
       /\ act'[a].ver = act[a].ver /\ act'[a].must = act[a].must /\ act'[a].ans = act[a].ans  BY <1>2, <2>2 DEF Act
 <2>4. Shaped(a, act'[a])  BY <1>1, <1>2, <2>2, <2>3 DEF Shaped, Loading
 <2>5. ActorsInv'  BY <1>1, <2>2, <2>4, Reshaped
 <2>6. LoopsInv'
  <3>1. LoopsRest  BY <1>2, <2>2 DEF LoopsRest, Others, Actors
  <3> QED BY <1>1, <3>1, LoopsKeep DEF EngineInv
 <2>7. CacheRests  BY <2>2, <2>3 DEF CacheRests, Others, Actors
 <2>8. /\ orders \in [1..2 -> Seq(Calls \cup {"drop"})] /\ orders[v] \in Seq(Calls \cup {"drop"})
       /\ a \in Calls \cup {"drop"} /\ Len(orders[v]) \in Nat  BY <1>2, <2>1 DEF EngineInv, ThreadsInv, ThreadTypes
 <2>9. /\ Append(orders[v], a) \in Seq(Calls \cup {"drop"}) /\ Len(Append(orders[v], a)) = Len(orders[v]) + 1
       /\ \A n \in 1..Len(orders[v]) : Append(orders[v], a)[n] = orders[v][n]
       /\ Append(orders[v], a)[Len(orders[v]) + 1] = a  BY <2>8, AppendProperties
 <2>10. /\ orders' \in [1..2 -> Seq(Calls \cup {"drop"})]
        /\ \A i \in 1..2 : orders'[i] = IF i = v THEN Append(orders[v], a) ELSE orders[i]
   BY <1>4, <2>1, <2>8, <2>9
 <2> HIDE DEF v
 <2>11. E!ClosedJsIsQuietStep
  <3>1. ASSUME NEW i \in 1..2
        PROVE  Len(orders'[i]) >= Len(orders[i])
   <4>1. Len(orders[i]) \in Nat  BY <2>8
   <4> QED BY <2>8, <2>9, <2>10, <4>1
  <3> QED BY <3>1 DEF E!ClosedJsIsQuietStep, E!Incs
 <2>12. ThreadsInv'
  <3>1. UNCHANGED <<inst, worker, sender, joinable, quiet, inited>>  BY <1>1
  <3>2. ThreadTypes' /\ SenderInv' /\ QuietInv'
    BY <1>1, <2>10 DEF ThreadTypes, SenderInv, QuietInv, EngineInv, ThreadsInv
  <3>3. \A c \in Calls : IF c = a THEN act'[c].pc = "sent" /\ act[c].pc = "send" ELSE act'[c] = act[c]
    BY <1>1, <2>2, <2>3 DEF Others, Actors
  <3>4. ASSUME NEW i \in 1..2, NEW n \in 1..Len(orders'[i])
        PROVE  IF orders'[i][n] = "drop" THEN i # sender ELSE act'[orders'[i][n]].pc \in {"sent", "done"}
   <4>1. CASE orders'[i][n] = a  BY <2>3, <4>1, <1>2, ScriptsAssumption
   <4>2. CASE orders'[i][n] # a
    <5>1. n \in 1..Len(orders[i]) /\ orders'[i][n] = orders[i][n]
     <6>1. CASE i # v  BY <2>10, <6>1
     <6>2. CASE i = v
      <7>1. n \in 1..(Len(orders[v]) + 1)  BY <2>9, <2>10, <6>2
      <7>2. n # Len(orders[v]) + 1  BY <2>9, <2>10, <4>2, <6>2
      <7>3. n \in 1..Len(orders[v])  BY <2>8, <7>1, <7>2
      <7> QED BY <2>9, <2>10, <6>2, <7>3
     <6> QED BY <6>1, <6>2
    <5>2. orders[i][n] \in Calls \cup {"drop"}  BY <2>8, <5>1
    <5>3. IF orders[i][n] = "drop" THEN i # sender ELSE act[orders[i][n]].pc \in {"sent", "done"}
      BY <5>1 DEF EngineInv, ThreadsInv, OrdersInv
    <5> QED BY <3>3, <4>2, <5>1, <5>2, <5>3
   <4> QED BY <4>1, <4>2
  <3>5. ASSUME NEW i \in 1..2, worker[i] = "none"
        PROVE  orders'[i] = <<>>  BY <2>1, <2>10, <3>5 DEF EngineInv, ThreadsInv, OrdersInv
  <3>6. ASSUME NEW c \in Calls, act'[c].pc \in {"send", "keep"}
        PROVE  act'[c].via \in 1..2 /\ worker[act'[c].via] # "none"
    BY <3>3, <3>6 DEF EngineInv, ThreadsInv, OrdersInv
  <3>7. OrdersInv'  BY <3>1, <3>4, <3>5, <3>6 DEF OrdersInv
  <3>8. JoinersInv'  BY <3>1, <3>3 DEF JoinersInv, EngineInv, ThreadsInv
  <3> QED BY <3>2, <3>7, <3>8 DEF ThreadsInv
 <2> QED BY <1>1, <2>5, <2>6, <2>7, <2>11, <2>12, JsKeeps DEF JsSide, E!sourceVars
<1> QED BY <1>3, <1>4 DEF E!JsSend

\* A step of a run, in any of the engines.
LEMMA RunStep ==
  ASSUME EngineInv, NEW a \in Actors, E!Run(a)
  PROVE  EngineInv' /\ StepsRight
<1>1. UNCHANGED <<inst, inited, bound, table, aborted, quiet>> /\ UNCHANGED E!sourceVars  BY DEF E!Run
<1>2. CASE E!LuaStart(a) \/ E!LuaCall(a)  BY <1>1, <1>2, LuaStarts
<1>3. CASE E!LuaRun(a)  BY <1>1, <1>3, LuaRuns
<1>4. CASE E!LuaEnd(a)  BY <1>1, <1>4, LuaEnds
<1>5. CASE E!JsStart(a)  BY <1>1, <1>5, JsStarts
<1>6. CASE E!JsSend(a)  BY <1>1, <1>6, JsSends
<1>7. CASE E!StarlarkStart(a)  BY <1>1, <1>7, StarlarkStarts
<1>8. CASE E!StarlarkRun(a)  BY <1>1, <1>8, StarlarkRuns
<1>9. CASE E!CelRun(a) \/ E!WasmRun(a)  BY <1>1, <1>9, CelWasmRun
<1> QED BY <1>2, <1>3, <1>4, <1>5, <1>6, <1>7, <1>8, <1>9 DEF E!Run

\* What a worker thread's steps leave.
WorkerSide ==
  UNCHANGED <<inst, text, faults, stream, cache, entry, calm, inited, bound, programs, table, aborted,
              left, tripped, frozen, sender, joinable, quiet>>

\* A step that takes commands and answers callers keeps the invariant.
LEMMA WorkerKeeps ==
  ASSUME EngineInv, inst.engine = "javascript", WorkerSide, quiet # "yes", ActorsInv', LoopsRest, CacheRests,
         ThreadTypes', SenderInv',
         \A i \in 1..2 : worker[i] = "none" <=> worker'[i] = "none",
         \A i \in 1..2 : worker'[i] = "up" => worker[i] = "up",
         \A i \in 1..2 : worker'[i] = "none" => orders'[i] = <<>>,
         \A i \in 1..2 : \A n \in 1..Len(orders'[i]) : \E k \in 1..Len(orders[i]) : orders'[i][n] = orders[i][k],
         \A c \in Calls : act'[c] = act[c] \/ (act[c].pc \in {"sent", "done"} /\ act'[c].pc = "done")
  PROVE  EngineInv' /\ StepsRight
<1>1. LoopsInv'  BY LoopsKeep DEF EngineInv, WorkerSide
<1>2. OrdersInv'
 <2>1. ASSUME NEW i \in 1..2, NEW n \in 1..Len(orders'[i])
       PROVE  IF orders'[i][n] = "drop" THEN i # sender ELSE act'[orders'[i][n]].pc \in {"sent", "done"}
  <3>1. PICK k \in 1..Len(orders[i]) : orders'[i][n] = orders[i][k]  OBVIOUS
  <3>2. orders[i][k] \in Calls \cup {"drop"}  BY DEF EngineInv, ThreadsInv, ThreadTypes
  <3>3. IF orders[i][k] = "drop" THEN i # sender ELSE act[orders[i][k]].pc \in {"sent", "done"}
    BY DEF EngineInv, ThreadsInv, OrdersInv
  <3> QED BY <3>1, <3>2, <3>3
 <2>2. ASSUME NEW c \in Calls, act'[c].pc \in {"send", "keep"}
       PROVE  act'[c].via \in 1..2 /\ worker'[act'[c].via] # "none"  BY <2>2 DEF EngineInv, ThreadsInv, OrdersInv
 <2> QED BY <2>1, <2>2 DEF OrdersInv, WorkerSide
<1>3. JoinersInv'
 <2> SUFFICES ASSUME quiet # "raced"
              PROVE  /\ \A c \in Calls : act'[c].pc = "keep" => act'[c].via = sender
                     /\ (\A c \in Calls : act'[c].pc # "keep") => joinable = sender
                     /\ \A i \in 1..2 : worker'[i] = "up" =>
                          i = sender \/ \E c \in Calls : act'[c].pc = "joining" /\ act'[c].via = i
   BY DEF JoinersInv, WorkerSide
 <2>1. /\ \A c \in Calls : act[c].pc = "keep" => act[c].via = sender
       /\ (\A c \in Calls : act[c].pc # "keep") => joinable = sender
       /\ \A i \in 1..2 : worker[i] = "up" =>
            i = sender \/ \E c \in Calls : act[c].pc = "joining" /\ act[c].via = i
   BY DEF EngineInv, ThreadsInv, JoinersInv
 <2>2. \A c \in Calls : act[c].pc \in {"keep", "joining"} \/ act'[c].pc = "keep" => act'[c] = act[c]  OBVIOUS
 <2>3. \A i \in 1..2 : worker'[i] = "up" =>
         i = sender \/ \E c \in Calls : act'[c].pc = "joining" /\ act'[c].via = i
  <3>1. SUFFICES ASSUME NEW i \in 1..2, worker'[i] = "up", i # sender
                 PROVE  \E c \in Calls : act'[c].pc = "joining" /\ act'[c].via = i  OBVIOUS
  <3>2. PICK c \in Calls : act[c].pc = "joining" /\ act[c].via = i  BY <2>1, <3>1
  <3>3. act'[c] = act[c]  BY <2>2, <3>2
  <3> QED BY <3>2, <3>3
 <2> QED BY <2>1, <2>2, <2>3, SMTT(60)
<1>4. QuietInv'  BY DEF QuietInv, WorkerSide
<1>5. ThreadsInv'  BY <1>2, <1>3, <1>4 DEF ThreadsInv
<1>6. programs' \in Seq(Known)  BY DEF EngineInv, Typed, EnginesInv, WorkerSide
<1>7. E!ClosedJsIsQuietStep  BY DEF E!ClosedJsIsQuietStep
<1> QED BY <1>1, <1>5, <1>6, <1>7, JsKeeps DEF JsSide, WorkerSide

\* A worker thread takes its next command, or its last.
LEMMA WorkerStep ==
  ASSUME EngineInv, NEW i \in 1..2, E!Worker(i)
  PROVE  EngineInv' /\ StepsRight
<1>1. WorkerSide /\ worker[i] = "up" /\ orders[i] # <<>> /\ ActorsInv
  BY DEF E!Worker, E!WorkerTakes, WorkerSide, E!sourceVars, EngineInv, Typed
<1>2. inst.engine = "javascript" /\ quiet # "yes"  BY <1>1 DEF EngineInv, ThreadsInv, ThreadTypes, QuietInv
<1>3. /\ orders \in [1..2 -> Seq(Calls \cup {"drop"})] /\ worker \in [1..2 -> {"none", "up", "gone"}]
      /\ orders[i] \in Seq(Calls \cup {"drop"})  BY DEF EngineInv, ThreadsInv, ThreadTypes
<1> DEFINE h == Head(orders[i])
           tl == Tail(orders[i])
<1>4. /\ Len(orders[i]) \in Nat /\ 1 \in 1..Len(orders[i]) /\ h = orders[i][1]
      /\ tl \in Seq(Calls \cup {"drop"}) /\ Len(tl) = Len(orders[i]) - 1
      /\ \A n \in 1..Len(tl) : tl[n] = orders[i][n + 1]  BY <1>1, <1>3, HeadTailProperties, EmptySeq
<1>5. \A n \in 1..Len(tl) : n + 1 \in 1..Len(orders[i])
 <2> HIDE DEF tl
 <2> QED BY <1>4
<1>6. \A k \in 1..Len(orders[i]) :
        /\ orders[i][k] \in Calls \cup {"drop"}
        /\ IF orders[i][k] = "drop" THEN i # sender ELSE act[orders[i][k]].pc \in {"sent", "done"}
  BY <1>3 DEF EngineInv, ThreadsInv, OrdersInv
<1>7. CASE h = "drop"
 <2> DEFINE owed == E!Range(tl) \ {"drop"}
 <2>1. \A b \in owed : b \in Calls /\ act[b].pc \in {"sent", "done"}
  <3> SUFFICES ASSUME NEW b \in owed
               PROVE  b \in Calls /\ act[b].pc \in {"sent", "done"}  OBVIOUS
  <3>1. PICK n \in 1..Len(tl) : b = tl[n]  BY <1>4 DEF E!Range
  <3>2. b = orders[i][n + 1] /\ n + 1 \in 1..Len(orders[i]) /\ b # "drop"  BY <1>4, <1>5, <3>1
  <3> QED BY <1>6, <3>2
 <2>2. /\ worker' = [worker EXCEPT ![i] = "gone"] /\ orders' = [orders EXCEPT ![i] = <<>>]
       /\ act' = [b \in Actors |-> IF b \in owed THEN [Rest EXCEPT !.op = act[b].op, !.pc = "done", !.ans = "failed"]
                                   ELSE act[b]]
   BY <1>7 DEF E!Worker, E!WorkerTakes, E!Idle, Rest, E!None, E!Actors, Actors
 <2> HIDE DEF owed, tl, h
 <2>3. i # sender  BY <1>4, <1>6, <1>7
 <2>4. \A b \in Actors : IF b \in owed THEN act'[b] = [Rest EXCEPT !.op = act[b].op, !.pc = "done", !.ans = "failed"]
                         ELSE act'[b] = act[b]  BY <2>2
 <2>5. ASSUME NEW b \in Actors
       PROVE  act'[b] \in Act /\ Shaped(b, act'[b])
  <3>1. act[b] \in Act /\ Shaped(b, act[b])  BY <1>1 DEF ActorsInv
  <3>2. CASE b \in owed
   <4>1. b \in Calls /\ b \notin Loops /\ <<>> \in Seq({0} \cup Known) /\ 0 \in 0..MaxText
     BY <2>1, <3>2, ScriptsAssumption
   <4>2. act'[b] \in Act
    <5>1. act[b].op \in AllOperations \cup {"none", "reload"}  BY <3>1 DEF Act
    <5>2. act'[b] = [Rest EXCEPT !.op = act[b].op, !.pc = "done", !.ans = "failed"]  BY <2>4, <3>2, ZenonT(60)
    <5>3. [Rest EXCEPT !.op = act[b].op, !.pc = "done", !.ans = "failed"] \in Act  BY <5>1, DoneIsAct
    <5> QED BY <5>2, <5>3
   <4>3. Shaped(b, act'[b])
    <5>1. act'[b].op = act[b].op /\ act'[b].pc = "done"  BY <2>4, <3>2 DEF Rest
    <5>2. act[b].op \in inst.ops \cup {"none"}  BY <3>1, <4>1 DEF Shaped
    <5> QED BY <4>1, <4>2, <5>1, <5>2 DEF Shaped, Loading
   <4> QED BY <4>2, <4>3
  <3> QED BY <2>4, <3>1, <3>2
 <2>6. ActorsInv'
  <3>1. act' \in [Actors -> Act]  BY <2>2, <2>4, <2>5
  <3> QED BY <1>1, <2>5, <3>1 DEF ActorsInv, Shaped, WorkerSide
 <2>7. \A c \in Calls : act'[c] = act[c] \/ (act[c].pc \in {"sent", "done"} /\ act'[c].pc = "done")
   BY <2>1, <2>4 DEF Actors, Rest
 <2>8. LoopsRest /\ CacheRests
  <3>1. \A l \in Loops : act'[l] = act[l]  BY <2>1, <2>4, ScriptsAssumption DEF Actors
  <3>2. \A b \in Actors : act'[b] = act[b] \/ (act'[b].pc = "done" /\ act'[b].must = 0)  BY <2>4 DEF Rest
  <3> QED BY <3>1, <3>2 DEF LoopsRest, CacheRests
 <2>9. /\ worker' \in [1..2 -> {"none", "up", "gone"}]
       /\ orders' \in [1..2 -> Seq(Calls \cup {"drop"})]
       /\ \A j \in 1..2 : IF j = i THEN worker'[j] = "gone" /\ orders'[j] = <<>>
                          ELSE worker'[j] = worker[j] /\ orders'[j] = orders[j]
  <3>1. worker' \in [1..2 -> {"none", "up", "gone"}]  BY <1>3, <2>2
  <3>2. <<>> \in Seq(Calls \cup {"drop"})  OBVIOUS
  <3>3. orders' \in [1..2 -> Seq(Calls \cup {"drop"})]  BY <1>3, <2>2, <3>2
  <3> QED BY <1>3, <2>2, <3>1, <3>3
 <2>10. ThreadTypes' /\ SenderInv'
   BY <1>1, <1>2, <2>3, <2>9 DEF ThreadTypes, SenderInv, WorkerSide, EngineInv, ThreadsInv
 <2>11. /\ \A j \in 1..2 : worker[j] = "none" <=> worker'[j] = "none"
        /\ \A j \in 1..2 : worker'[j] = "up" => worker[j] = "up"
        /\ \A j \in 1..2 : worker'[j] = "none" => orders'[j] = <<>>
   BY <1>1, <2>9 DEF EngineInv, ThreadsInv, OrdersInv
 <2>12. \A j \in 1..2 : \A n \in 1..Len(orders'[j]) : \E k \in 1..Len(orders[j]) : orders'[j][n] = orders[j][k]
   BY <2>9
 <2> QED BY <1>1, <1>2, <2>6, <2>7, <2>8, <2>10, <2>11, <2>12, WorkerKeeps
<1>8. CASE h # "drop"
 <2>1. h \in Calls /\ act[h].pc \in {"sent", "done"}  BY <1>4, <1>6, <1>8
 <2>2. PICK s \in {"ok", "failed"} : E!Answer(h, s)  BY <1>8 DEF E!Worker, E!WorkerTakes
 <2>3. orders' = [orders EXCEPT ![i] = tl] /\ worker' = worker  BY <1>8 DEF E!Worker, E!WorkerTakes
 <2> HIDE DEF tl, h
 <2>4. h \in Actors /\ h \notin Loops /\ inst' = inst  BY <1>1, <2>1, ScriptsAssumption DEF Actors, WorkerSide
 <2>5. ActorsInv' /\ LoopsRest /\ CacheRests  BY <1>1, <2>1, <2>2, <2>4, AnswerLeaves
 <2>6. Others(h) /\ act'[h].pc = "done"  BY <1>1, <2>1, <2>2, Returns
 <2>7. \A c \in Calls : act'[c] = act[c] \/ (act[c].pc \in {"sent", "done"} /\ act'[c].pc = "done")
   BY <2>1, <2>6 DEF Others, Actors
 <2>8. /\ orders' \in [1..2 -> Seq(Calls \cup {"drop"})]
       /\ \A j \in 1..2 : orders'[j] = IF j = i THEN tl ELSE orders[j]  BY <1>3, <1>4, <2>3
 <2>9. ThreadTypes' /\ SenderInv'
   BY <1>1, <1>2, <2>3, <2>8 DEF ThreadTypes, SenderInv, WorkerSide, EngineInv, ThreadsInv
 <2>10. /\ \A j \in 1..2 : worker[j] = "none" <=> worker'[j] = "none"
        /\ \A j \in 1..2 : worker'[j] = "up" => worker[j] = "up"
        /\ \A j \in 1..2 : worker'[j] = "none" => orders'[j] = <<>>
   BY <1>1, <2>3, <2>8 DEF EngineInv, ThreadsInv, OrdersInv
 <2>11. ASSUME NEW j \in 1..2, NEW n \in 1..Len(orders'[j])
        PROVE  \E k \in 1..Len(orders[j]) : orders'[j][n] = orders[j][k]  BY <1>4, <1>5, <2>8
 <2> QED BY <1>1, <1>2, <2>5, <2>7, <2>9, <2>10, <2>11, WorkerKeeps
<1> QED BY <1>7, <1>8

-----------------------------------------------------------------------------
(* The javascript thread, the watches, and all of it.                      *)

\* init() in javascript: the thread and the sender, then the handle, then the hooks.
LEMMA JsInitStep ==
  ASSUME EngineInv, NEW c \in Calls, E!EngineInit(c), inst.engine = "javascript"
  PROVE  EngineInv' /\ StepsRight
<1>1. /\ E!JsInit(c) /\ JsSide /\ UNCHANGED <<table, aborted, orders, programs>>
      /\ quiet' = (IF quiet = "yes" /\ inited' # inited THEN "no" ELSE quiet)
  BY DEF E!EngineInit, E!LuaInit, E!JsInit, E!StarlarkInit, E!CelInit, E!WasmInit, JsSide, E!sourceVars, E!engine
<1>2. /\ ActorsInv /\ c \in Actors /\ c \notin Loops /\ act[c] \in Act /\ Shaped(c, act[c])
      /\ programs \in Seq(Known) /\ ThreadTypes /\ OrdersInv /\ SenderInv /\ JoinersInv /\ QuietInv
      /\ LoopsInv  BY ScriptsAssumption DEF EngineInv, Typed, ActorsInv, Actors, EnginesInv, ThreadsInv
<1>3. CASE E!Calling(c, {"init"}) /\ inited /\ E!Answer(c, "failed") /\ UNCHANGED <<inited, worker, sender, joinable>>
 <2>1. quiet' = quiet  BY <1>1, <1>3
 <2>2. SmallStep
   BY <1>1, <1>3, <2>1, UnchangedStrings DEF SmallStep, RestVars, JsSide, EngineInv, Typed, EnginesInv
 <2> QED BY <1>3, <2>2, AtCall, AnsweredKeeps
<1>4. CASE /\ E!Calling(c, {"init"}) /\ ~inited /\ joinable' = joinable
           /\ \E i \in 1..2 :
                /\ worker[i] = "none" /\ \A j \in 1..(i - 1) : worker[j] # "none"
                /\ inited' = TRUE
                /\ worker' = [worker EXCEPT ![i] = "up"] /\ sender' = i
                /\ E!GoesBy(c, "keep", i)
 <2>1. PICK i \in 1..2 : /\ worker[i] = "none"
                         /\ inited' = TRUE
                         /\ worker' = [worker EXCEPT ![i] = "up"] /\ sender' = i
                         /\ E!GoesBy(c, "keep", i)  BY <1>4
 <2>2. /\ act[c].pc = "call" /\ act[c].op = "init" /\ act[c].ans = "none" /\ sender = 0
   BY <1>2, <1>4, AtCall DEF SenderInv, E!Calling
 <2>3. /\ act' \in [Actors -> Act] /\ Others(c)
       /\ act'[c].pc = "keep" /\ act'[c].via = i
       /\ act'[c].op = act[c].op /\ act'[c].ver = act[c].ver
       /\ act'[c].must = act[c].must /\ act'[c].ans = act[c].ans
  <3>1. "keep" \in EnginePlaces /\ i \in Nat  BY DEF EnginePlaces
  <3> QED BY <1>2, <2>1, <3>1, GoesBy
 <2>4. Shaped(c, act'[c])  BY <1>2, <2>2, <2>3 DEF Shaped, Loading
 <2>5. ActorsInv'  BY <1>1, <1>2, <2>3, <2>4, Reshaped DEF JsSide
 <2>6. LoopsInv'
  <3>1. LoopsRest  BY <1>2, <2>2, <2>3 DEF LoopsRest, Others, Actors
  <3> QED BY <1>1, <1>2, <3>1, LoopsKeep
 <2>7. CacheRests  BY <2>3 DEF CacheRests, Others, Actors
 <2>8. /\ worker' \in [1..2 -> {"none", "up", "gone"}]
       /\ \A j \in 1..2 : worker'[j] = IF j = i THEN "up" ELSE worker[j]  BY <1>2, <2>1 DEF ThreadTypes
 <2>9. \A d \in Calls : d # c => act'[d] = act[d]  BY <2>3 DEF Others, Actors
 <2>10. ThreadTypes' /\ SenderInv' /\ QuietInv'
  <3>1. inited' # inited  BY <1>4, <2>1
  <3>2. quiet' # "yes" /\ quiet' \in {"no", "raced"}  BY <1>1, <1>2, <3>1 DEF ThreadTypes
  <3>3. QuietInv'  BY <3>2 DEF QuietInv
  <3>4. SenderInv'  BY <2>1, <2>8 DEF SenderInv
  <3>5. ThreadTypes'
   <4>1. sender' \in 0..2  BY <2>1
   <4>2. orders' \in [1..2 -> Seq(Calls \cup {"drop"})] /\ joinable' \in 0..2 /\ inst'.engine = "javascript"
     BY <1>1, <1>2, <1>4 DEF ThreadTypes, JsSide
   <4> QED BY <2>8, <3>2, <4>1, <4>2 DEF ThreadTypes
  <3> QED BY <3>3, <3>4, <3>5
 <2>11. OrdersInv'
  <3>1. ASSUME NEW j \in 1..2, NEW n \in 1..Len(orders[j])
        PROVE  IF orders[j][n] = "drop" THEN j # i ELSE act'[orders[j][n]].pc \in {"sent", "done"}
   <4>1. orders[j][n] \in Calls \cup {"drop"}  BY <1>2 DEF ThreadTypes
   <4>2. orders[j][n] # "drop" => act[orders[j][n]].pc \in {"sent", "done"}  BY <1>2 DEF OrdersInv
   <4>3. j # i
    <5>1. SUFFICES ASSUME j = i PROVE FALSE  OBVIOUS
    <5>2. orders[i] = <<>>  BY <1>2, <2>1 DEF OrdersInv
    <5>3. Len(orders[j]) = 0  BY <5>1, <5>2
    <5> QED BY <5>3
   <4> QED BY <2>2, <2>9, <4>1, <4>2, <4>3
  <3>2. ASSUME NEW d \in Calls, act'[d].pc \in {"send", "keep"}
        PROVE  act'[d].via \in 1..2 /\ worker'[act'[d].via] # "none"
    BY <1>2, <2>3, <2>8, <2>9, <3>2 DEF OrdersInv
  <3> QED BY <1>1, <1>2, <2>1, <2>8, <3>1, <3>2 DEF OrdersInv
 <2>12. JoinersInv'
  <3> SUFFICES ASSUME quiet' # "raced"
               PROVE  /\ \A d \in Calls : act'[d].pc = "keep" => act'[d].via = i
                      /\ \E d \in Calls : act'[d].pc = "keep"
                      /\ \A j \in 1..2 : worker'[j] = "up" =>
                           j = i \/ \E d \in Calls : act'[d].pc = "joining" /\ act'[d].via = j
    BY <2>1 DEF JoinersInv
  <3>1. quiet # "raced"  BY <1>1
  <3>2. \A d \in Calls : act[d].pc # "keep"
   <4>1. \A d \in Calls : act[d].pc = "keep" => act[d].via = 0 /\ act[d].via \in 1..2
     BY <1>2, <2>2, <3>1 DEF JoinersInv, OrdersInv
   <4> QED BY <4>1
  <3>3. ASSUME NEW j \in 1..2, worker'[j] = "up", j # i
        PROVE  \E d \in Calls : act'[d].pc = "joining" /\ act'[d].via = j
   <4>1. worker[j] = "up" /\ j # sender  BY <2>2, <2>8, <3>3
   <4>2. PICK d \in Calls : act[d].pc = "joining" /\ act[d].via = j  BY <1>2, <3>1, <4>1 DEF JoinersInv
   <4> QED BY <2>2, <2>9, <4>2
  <3> QED BY <2>3, <2>9, <3>2, <3>3
 <2>13. ThreadsInv'  BY <2>10, <2>11, <2>12 DEF ThreadsInv
 <2> QED BY <1>1, <1>2, <2>5, <2>6, <2>7, <2>13, JsKeeps, QueuesRight
<1>5. CASE /\ E!At(c, "keep") /\ joinable' = act[c].via /\ E!Goes(c, "hooks")
           /\ UNCHANGED <<inited, worker, sender>>
 <2>1. act[c].pc = "keep" /\ quiet' = quiet /\ act[c].via \in 1..2  BY <1>1, <1>2, <1>5 DEF E!At, OrdersInv
 <2>2. /\ act' \in [Actors -> Act] /\ Others(c) /\ act'[c] = [act[c] EXCEPT !.pc = "hooks"]
   BY <1>2, <1>5, Goes DEF EnginePlaces
 <2>3. /\ act'[c].pc = "hooks" /\ act'[c].op = act[c].op
       /\ act'[c].ver = act[c].ver /\ act'[c].must = act[c].must /\ act'[c].ans = act[c].ans  BY <1>2, <2>2 DEF Act
 <2>4. Shaped(c, act'[c])  BY <1>2, <2>1, <2>2, <2>3 DEF Shaped, Loading
 <2>5. ActorsInv'  BY <1>1, <1>2, <2>2, <2>4, Reshaped DEF JsSide
 <2>6. LoopsInv'
  <3>1. LoopsRest  BY <1>2, <2>2 DEF LoopsRest, Others, Actors
  <3> QED BY <1>1, <1>2, <3>1, LoopsKeep
 <2>7. CacheRests  BY <2>2, <2>3 DEF CacheRests, Others, Actors
 <2>8. \A d \in Calls : d # c => act'[d] = act[d]  BY <2>2 DEF Others, Actors
 <2>9. ThreadTypes' /\ SenderInv' /\ QuietInv'
   BY <1>1, <1>2, <1>5, <2>1 DEF ThreadTypes, SenderInv, QuietInv, JsSide
 <2>10. OrdersInv'
  <3>1. ASSUME NEW j \in 1..2, NEW n \in 1..Len(orders[j]), orders[j][n] # "drop"
        PROVE  act'[orders[j][n]].pc \in {"sent", "done"}
   <4>1. orders[j][n] \in Calls  BY <1>2, <3>1 DEF ThreadTypes
   <4>2. act[orders[j][n]].pc \in {"sent", "done"}  BY <1>2, <3>1 DEF OrdersInv
   <4> QED BY <2>1, <2>8, <4>1, <4>2
  <3>2. ASSUME NEW d \in Calls, act'[d].pc \in {"send", "keep"}
        PROVE  act'[d].via \in 1..2 /\ worker[act'[d].via] # "none"  BY <1>2, <2>3, <2>8, <3>2 DEF OrdersInv
  <3> QED BY <1>1, <1>2, <1>5, <3>1, <3>2 DEF OrdersInv
 <2>11. JoinersInv'
  <3> SUFFICES ASSUME quiet # "raced"
               PROVE  /\ \A d \in Calls : act'[d].pc = "keep" => act'[d].via = sender
                      /\ joinable' = sender
                      /\ \A j \in 1..2 : worker[j] = "up" =>
                           j = sender \/ \E d \in Calls : act'[d].pc = "joining" /\ act'[d].via = j
    BY <1>5, <2>1 DEF JoinersInv
  <3>1. joinable' = sender  BY <1>2, <1>5, <2>1 DEF JoinersInv
  <3>2. \A d \in Calls : act'[d].pc = "keep" => act'[d].via = sender  BY <1>2, <2>3, <2>8 DEF JoinersInv
  <3>3. ASSUME NEW j \in 1..2, worker[j] = "up", j # sender
        PROVE  \E d \in Calls : act'[d].pc = "joining" /\ act'[d].via = j
   <4>1. PICK d \in Calls : act[d].pc = "joining" /\ act[d].via = j  BY <1>2, <3>3 DEF JoinersInv
   <4> QED BY <2>1, <2>8, <4>1
  <3> QED BY <3>1, <3>2, <3>3
 <2>12. ThreadsInv'  BY <2>9, <2>10, <2>11 DEF ThreadsInv
 <2> QED BY <1>1, <1>2, <2>5, <2>6, <2>7, <2>12, JsKeeps, QueuesRight
<1>6. CASE /\ E!At(c, "hooks") /\ (E!Answer(c, "ok") \/ E!Answer(c, "failed"))
           /\ UNCHANGED <<inited, worker, sender, joinable>>
 <2>1. quiet' = quiet /\ act[c].pc = "hooks"  BY <1>1, <1>6 DEF E!At
 <2>2. SmallStep
   BY <1>1, <1>6, <2>1, UnchangedStrings DEF SmallStep, RestVars, JsSide, EngineInv, Typed, EnginesInv
 <2> QED BY <1>2, <1>6, <2>1, <2>2, AnsweredKeeps
<1> QED BY <1>1, <1>3, <1>4, <1>5, <1>6 DEF E!JsInit, E!Incs

\* close() in javascript: the watchers, then the last command, then the wait for the thread.
LEMMA JsCloseStep ==
  ASSUME EngineInv, NEW c \in Calls, E!EngineClose(c), inst.engine = "javascript"
  PROVE  EngineInv' /\ StepsRight
<1>1. /\ E!JsClose(c) /\ JsSide
      /\ UNCHANGED <<table, aborted>> \/ E!StopWatchers
  BY DEF E!EngineClose, E!LuaClose, E!JsClose, E!StarlarkClose, E!CelClose, E!WasmClose, JsSide, E!sourceVars, E!engine
<1>2. /\ ActorsInv /\ c \in Actors /\ c \notin Loops /\ act[c] \in Act /\ Shaped(c, act[c])
      /\ programs \in Seq(Known) /\ ThreadTypes /\ OrdersInv /\ SenderInv /\ JoinersInv /\ QuietInv
      /\ LoopsInv /\ <<>> \in Seq(Known)
  BY ScriptsAssumption DEF EngineInv, Typed, ActorsInv, Actors, EnginesInv, ThreadsInv
<1>3. CASE /\ E!Calling(c, {"close"}) /\ E!Goes(c, "closing")
           /\ UNCHANGED <<inited, bound, programs, quiet>> /\ UNCHANGED E!jsVars
 <2>1. SmallStep
   BY <1>1, <1>3, UnchangedStrings DEF SmallStep, RestVars, JsSide, E!jsVars, EngineInv, Typed, EnginesInv
 <2>2. Shaped(c, [act[c] EXCEPT !.pc = "closing"])  BY <1>2, <1>3, AtCall DEF Shaped, Act, EnginePlaces, Loading
 <2> QED BY <1>3, <2>1, <2>2, AtCall, WentKeeps DEF EnginePlaces
<1>4. CASE /\ E!At(c, "closing")
           /\ inited' = FALSE
           /\ orders' = [i \in 1..2 |-> IF i = sender THEN Append(orders[i], "drop") ELSE orders[i]]
           /\ sender' = 0 /\ joinable' = 0
           /\ E!GoesBy(c, "joining", joinable)
           /\ quiet' = (IF \E d \in Calls : E!At(d, "keep") THEN "raced" ELSE quiet)
           /\ UNCHANGED <<table, aborted, bound, programs, worker>>
 <2>1. act[c].pc = "closing"  BY <1>4 DEF E!At
 <2>2. /\ act' \in [Actors -> Act] /\ Others(c)
       /\ act'[c].pc = "joining" /\ act'[c].via = joinable
       /\ act'[c].op = act[c].op /\ act'[c].ver = act[c].ver
       /\ act'[c].must = act[c].must /\ act'[c].ans = act[c].ans
  <3>1. "joining" \in EnginePlaces /\ joinable \in Nat  BY <1>2 DEF EnginePlaces, ThreadTypes
  <3> QED BY <1>2, <1>4, <3>1, GoesBy
 <2>3. Shaped(c, act'[c])  BY <1>2, <2>1, <2>2 DEF Shaped, Loading
 <2>4. ActorsInv'  BY <1>1, <1>2, <2>2, <2>3, Reshaped DEF JsSide
 <2>5. LoopsInv'
  <3>1. LoopsRest  BY <1>2, <2>1, <2>2 DEF LoopsRest, Others, Actors
  <3> QED BY <1>2, <1>4, <3>1, LoopsKeep
 <2>6. CacheRests  BY <2>2 DEF CacheRests, Others, Actors
 <2>7. \A d \in Calls : d # c => act'[d] = act[d]  BY <2>2 DEF Others, Actors
 <2>8. ASSUME NEW i \in 1..2
       PROVE  /\ orders[i] \in Seq(Calls \cup {"drop"}) /\ orders'[i] \in Seq(Calls \cup {"drop"})
              /\ Len(orders[i]) \in Nat /\ Len(orders'[i]) >= Len(orders[i])
              /\ \A n \in 1..Len(orders'[i]) :
                   orders'[i][n] = "drop" \/ (n \in 1..Len(orders[i]) /\ orders'[i][n] = orders[i][n])
  <3>1. orders[i] \in Seq(Calls \cup {"drop"}) /\ "drop" \in Calls \cup {"drop"} /\ Len(orders[i]) \in Nat
    BY <1>2 DEF ThreadTypes
  <3>2. CASE i = sender
   <4>1. orders'[i] = Append(orders[i], "drop")  BY <1>4, <3>2
   <4>2. /\ orders'[i] \in Seq(Calls \cup {"drop"}) /\ Len(orders'[i]) = Len(orders[i]) + 1
         /\ \A n \in 1..Len(orders[i]) : orders'[i][n] = orders[i][n]
         /\ orders'[i][Len(orders[i]) + 1] = "drop"  BY <3>1, <4>1, AppendProperties
   <4>3. \A n \in 1..Len(orders'[i]) : n \in 1..Len(orders[i]) \/ n = Len(orders[i]) + 1  BY <3>1, <4>2
   <4>4. Len(orders'[i]) >= Len(orders[i])  BY <3>1, <4>2
   <4> QED BY <3>1, <4>2, <4>3, <4>4
  <3>3. CASE i # sender
   <4>1. orders'[i] = orders[i]  BY <1>4, <3>3
   <4> QED BY <3>1, <4>1
  <3> QED BY <3>2, <3>3
 <2>9. orders' \in [1..2 -> Seq(Calls \cup {"drop"})]  BY <1>4, <2>8
 <2>10. quiet' \in {"no", "yes", "raced"} /\ (quiet' # "raced" => quiet' = quiet /\ \A d \in Calls : act[d].pc # "keep")
   BY <1>2, <1>4 DEF E!At, ThreadTypes
 <2>11. ThreadTypes' /\ SenderInv' /\ QuietInv'
  <3>1. ThreadTypes'  BY <1>1, <1>2, <1>4, <2>9, <2>10 DEF ThreadTypes, JsSide
  <3>2. SenderInv'  BY <1>4 DEF SenderInv
  <3>3. QuietInv'  BY <1>2, <1>4, <2>10 DEF QuietInv
  <3> QED BY <3>1, <3>2, <3>3
 <2>12. OrdersInv'
  <3>1. ASSUME NEW i \in 1..2, NEW n \in 1..Len(orders'[i])
        PROVE  IF orders'[i][n] = "drop" THEN i # 0 ELSE act'[orders'[i][n]].pc \in {"sent", "done"}
   <4>1. CASE orders'[i][n] = "drop"  BY <4>1
   <4>2. CASE orders'[i][n] # "drop"
    <5>1. n \in 1..Len(orders[i]) /\ orders'[i][n] = orders[i][n]  BY <2>8, <4>2
    <5>2. orders[i][n] \in Calls  BY <2>8, <4>2, <5>1
    <5>3. act[orders[i][n]].pc \in {"sent", "done"}  BY <1>2, <4>2, <5>1 DEF OrdersInv
    <5> QED BY <2>1, <2>7, <4>2, <5>1, <5>2, <5>3
   <4> QED BY <4>1, <4>2
  <3>2. ASSUME NEW i \in 1..2, worker[i] = "none"
        PROVE  orders'[i] = <<>>
   <4>1. i # sender /\ orders[i] = <<>>  BY <1>2, <3>2 DEF OrdersInv, SenderInv
   <4> QED BY <1>4, <4>1
  <3>3. ASSUME NEW d \in Calls, act'[d].pc \in {"send", "keep"}
        PROVE  act'[d].via \in 1..2 /\ worker[act'[d].via] # "none"  BY <1>2, <2>2, <2>7, <3>3 DEF OrdersInv
  <3> QED BY <1>4, <3>1, <3>2, <3>3 DEF OrdersInv
 <2>13. JoinersInv'
  <3> SUFFICES ASSUME quiet' # "raced"
               PROVE  /\ \A d \in Calls : act'[d].pc # "keep"
                      /\ \A i \in 1..2 : worker[i] = "up" => \E d \in Calls : act'[d].pc = "joining" /\ act'[d].via = i
    BY <1>4 DEF JoinersInv
  <3>1. quiet # "raced" /\ \A d \in Calls : act[d].pc # "keep"  BY <2>10
  <3>2. joinable = sender  BY <1>2, <3>1 DEF JoinersInv
  <3>3. ASSUME NEW i \in 1..2, worker[i] = "up"
        PROVE  \E d \in Calls : act'[d].pc = "joining" /\ act'[d].via = i
   <4>1. CASE i = sender  BY <2>2, <3>2, <4>1
   <4>2. CASE i # sender
    <5>1. PICK d \in Calls : act[d].pc = "joining" /\ act[d].via = i  BY <1>2, <3>1, <3>3, <4>2 DEF JoinersInv
    <5> QED BY <2>1, <2>7, <5>1
   <4> QED BY <4>1, <4>2
  <3>4. \A d \in Calls : act'[d].pc # "keep"  BY <2>2, <2>7, <3>1
  <3> QED BY <3>3, <3>4
 <2>14. ThreadsInv'  BY <2>11, <2>12, <2>13 DEF ThreadsInv
 <2>15. E!ClosedJsIsQuietStep  BY <2>8 DEF E!ClosedJsIsQuietStep, E!Incs
 <2> QED BY <1>1, <1>2, <1>4, <2>4, <2>5, <2>6, <2>14, <2>15, JsKeeps
<1>5. CASE /\ E!At(c, "joining")
           /\ act[c].via # 0 => worker[act[c].via] = "gone"
           /\ programs' = <<>>
           /\ E!Answer(c, "ok")
           /\ quiet' = (IF quiet = "no" /\ ~inited /\ \A d \in Calls \ {c} : act[d].pc # "joining"
                        THEN "yes" ELSE quiet)
           /\ UNCHANGED <<table, aborted, inited>> /\ UNCHANGED E!jsVars
 <2>1. act[c].pc = "joining" /\ UNCHANGED <<worker, orders, sender, joinable, inited>>  BY <1>5 DEF E!At, E!jsVars
 <2>2. inst' = inst  BY <1>1 DEF JsSide
 <2>3. /\ act' \in [Actors -> Act] /\ Others(c) /\ act'[c].pc = "done"  BY <1>2, <1>5, Returns
 <2>4. ActorsInv' /\ LoopsRest /\ CacheRests  BY <1>2, <1>5, <2>1, <2>2, AnswerLeaves
 <2>5. LoopsInv'  BY <1>2, <1>5, <2>4, LoopsKeep
 <2>6. \A d \in Calls : d # c => act'[d] = act[d]  BY <2>3 DEF Others, Actors
 <2>7. /\ quiet' \in {"no", "yes", "raced"} /\ (quiet' = "raced" <=> quiet = "raced")
       /\ quiet' = "yes" => \/ quiet = "yes"
                            \/ quiet = "no" /\ ~inited /\ \A d \in Calls \ {c} : act[d].pc # "joining"
   BY <1>2, <1>5 DEF ThreadTypes
 <2>8. quiet # "raced" =>
         /\ \A d \in Calls : act[d].pc = "keep" => act[d].via = sender
         /\ (\A d \in Calls : act[d].pc # "keep") => joinable = sender
         /\ \A i \in 1..2 : worker[i] = "up" =>
              i = sender \/ \E d \in Calls \ {c} : act[d].pc = "joining" /\ act[d].via = i
  <3>1. SUFFICES ASSUME quiet # "raced", NEW i \in 1..2, worker[i] = "up", i # sender
                 PROVE  \E d \in Calls \ {c} : act[d].pc = "joining" /\ act[d].via = i  BY <1>2 DEF JoinersInv
  <3>2. PICK d \in Calls : act[d].pc = "joining" /\ act[d].via = i  BY <1>2, <3>1 DEF JoinersInv
  <3>3. d # c  BY <1>5, <3>1, <3>2
  <3> QED BY <3>2, <3>3
 <2>9. ThreadTypes' /\ SenderInv'  BY <1>2, <2>1, <2>2, <2>7 DEF ThreadTypes, SenderInv
 <2>10. JoinersInv'
  <3> SUFFICES ASSUME quiet # "raced"
               PROVE  /\ \A d \in Calls : act'[d].pc = "keep" => act'[d].via = sender
                      /\ (\A d \in Calls : act'[d].pc # "keep") => joinable = sender
                      /\ \A i \in 1..2 : worker[i] = "up" =>
                           i = sender \/ \E d \in Calls : act'[d].pc = "joining" /\ act'[d].via = i
    BY <2>1, <2>7 DEF JoinersInv
  <3>1. (\A d \in Calls : act'[d].pc # "keep") => \A d \in Calls : act[d].pc # "keep"  BY <2>1, <2>6
  <3>2. ASSUME NEW i \in 1..2, worker[i] = "up", i # sender
        PROVE  \E d \in Calls : act'[d].pc = "joining" /\ act'[d].via = i
   <4>1. PICK d \in Calls \ {c} : act[d].pc = "joining" /\ act[d].via = i  BY <2>8, <3>2
   <4> QED BY <2>6, <4>1
  <3>3. \A d \in Calls : act'[d].pc = "keep" => act'[d].via = sender  BY <2>3, <2>6, <2>8
  <3> QED BY <2>8, <3>1, <3>2, <3>3
 <2>11. QuietInv'
  <3> SUFFICES ASSUME quiet' = "yes"
               PROVE  ~inited /\ \A i \in 1..2 : worker[i] # "up"  BY <2>1 DEF QuietInv
  <3>1. CASE quiet = "yes"  BY <1>2, <3>1 DEF QuietInv
  <3>2. CASE quiet = "no" /\ ~inited /\ \A d \in Calls \ {c} : act[d].pc # "joining"
   <4>1. sender = 0  BY <1>2, <3>2 DEF SenderInv
   <4>2. \A i \in 1..2 : worker[i] # "up"  BY <2>8, <3>2, <4>1
   <4> QED BY <3>2, <4>2
  <3> QED BY <2>7, <3>1, <3>2
 <2>12. OrdersInv'
  <3>1. ASSUME NEW j \in 1..2, NEW n \in 1..Len(orders[j]), orders[j][n] # "drop"
        PROVE  act'[orders[j][n]].pc \in {"sent", "done"}
   <4>1. orders[j][n] \in Calls  BY <1>2, <3>1 DEF ThreadTypes
   <4>2. act[orders[j][n]].pc \in {"sent", "done"}  BY <1>2, <3>1 DEF OrdersInv
   <4> QED BY <2>3, <2>6, <4>1, <4>2
  <3>2. ASSUME NEW d \in Calls, act'[d].pc \in {"send", "keep"}
        PROVE  act'[d].via \in 1..2 /\ worker[act'[d].via] # "none"  BY <1>2, <2>3, <2>6, <3>2 DEF OrdersInv
  <3> QED BY <1>2, <2>1, <3>1, <3>2 DEF OrdersInv
 <2>13. ThreadsInv'  BY <2>9, <2>10, <2>11, <2>12 DEF ThreadsInv
 <2> QED BY <1>1, <1>2, <1>5, <2>1, <2>4, <2>5, <2>13, JsKeeps, QueuesRight
<1> QED BY <1>1, <1>3, <1>4, <1>5 DEF E!JsClose, E!Incs

\* start_watch(): the call, and once the stream is open the loop.
LEMMA WatchStep ==
  ASSUME EngineInv, NEW c \in Calls, E!StartWatch(c)
  PROVE  EngineInv' /\ StepsRight
<1>1. /\ UNCHANGED <<inst, text, cache, entry, calm, inited, bound, programs, aborted, left, tripped, frozen, quiet>>
      /\ UNCHANGED <<worker, orders, sender, joinable>> /\ E!WatchCall(c)
  BY DEF E!StartWatch, E!LuaWatch, E!JsWatch, E!StarlarkWatch, E!CelWatch, E!jsVars
<1>2. /\ ActorsInv /\ SourcesInv /\ c \in Actors /\ c \notin Loops /\ act[c] \in Act /\ Shaped(c, act[c])
      /\ programs \in Seq(Known) /\ left \in 0..99 /\ LoopsInv
  BY ScriptsAssumption DEF EngineInv, Typed, ActorsInv, Actors, EnginesInv
<1>3. CASE /\ E!Calling(c, {"watch"}) /\ (E!Goes(c, "open") \/ E!Answer(c, "failed"))
           /\ UNCHANGED <<faults, stream, table>>
 <2>1. SmallStep  BY <1>1, <1>2, <1>3, UnchangedStrings DEF SmallStep, RestVars, EnginesInv
 <2>2. Shaped(c, [act[c] EXCEPT !.pc = "open"])  BY <1>2, <1>3, AtCall DEF Shaped, Act, EnginePlaces, Loading
 <2> QED BY <1>3, <2>1, <2>2, AtCall, AnsweredKeeps, WentKeeps DEF EnginePlaces
<1>4. CASE E!Spawns(c)
 <2> DEFINE l == CHOOSE x \in Loops : E!At(x, "idle")
 <2>1. /\ l \in Loops /\ act[l].pc = "idle" /\ act[c].pc = "open" /\ E!Opens(l) /\ table' = l
       /\ act' = [act EXCEPT ![c] = [Rest EXCEPT !.op = "watch", !.pc = "done", !.ans = "ok"],
                             ![l] = [Rest EXCEPT !.op = "reload", !.pc = "wait"]]
   BY <1>4 DEF E!Spawns, E!At, E!Idle, Rest, E!None
 <2> HIDE DEF l
 <2>2. l \in Actors /\ l \notin Calls /\ c # l  BY <2>1, ScriptsAssumption DEF Actors
 <2>3. <<>> \in Seq({0} \cup Known) /\ 0 \in 0..MaxText  BY ScriptsAssumption
 <2>4. /\ [Rest EXCEPT !.op = "watch", !.pc = "done", !.ans = "ok"] \in Act
       /\ [Rest EXCEPT !.op = "reload", !.pc = "wait"] \in Act  BY <2>3 DEF Act, Rest, EnginePlaces, AllOperations
 <2>5. /\ act' \in [Actors -> Act]
       /\ act'[c] = [Rest EXCEPT !.op = "watch", !.pc = "done", !.ans = "ok"]
       /\ act'[l] = [Rest EXCEPT !.op = "reload", !.pc = "wait"]
       /\ \A b \in Actors : b # c /\ b # l => act'[b] = act[b]  BY <1>2, <2>1, <2>2, <2>4 DEF ActorsInv
 <2>6. /\ act'[c].op = "watch" /\ act'[c].pc = "done" /\ act'[c].must = 0
       /\ act'[l].op = "reload" /\ act'[l].pc = "wait" /\ act'[l].ans = "none"  BY <2>5 DEF Rest
 <2>7. act[c].op = "watch"  BY <1>2, <2>1 DEF Shaped
 <2>8. ActorsInv'
  <3>1. Shaped(c, act'[c])  BY <1>2, <2>5, <2>6, <2>7 DEF Shaped, Loading
  <3>2. Shaped(l, act'[l])  BY <2>1, <2>2, <2>5, <2>6 DEF Shaped, Loading
  <3>3. \A b \in Actors : Shaped(b, act'[b])  BY <1>2, <2>5, <3>1, <3>2 DEF ActorsInv
  <3> QED BY <1>1, <2>5, <3>3 DEF ActorsInv, Shaped
 <2>9. faults \in Nat /\ faults' \in Nat /\ (faults' = 0 => faults = 0)
  <3>1. faults' = faults \/ faults' = faults + 1  BY <2>1 DEF E!Opens, E!Fails
  <3>2. faults \in Nat  BY <1>2 DEF SourcesInv
  <3> QED BY <3>1, <3>2
 <2>10. /\ stream' \in [Loops \cup {"cache"} -> 1..(MaxText + 1)]
        /\ stream'["cache"] = stream["cache"]
  <3>1. PICK v \in 1..(MaxText + 1) : stream' = [stream EXCEPT ![l] = v]
   <4>1. text \in 1..(MaxText + 1) /\ MaxText \in 1..(MaxText + 1)  BY <1>2, ScriptsAssumption DEF SourcesInv
   <4> QED BY <2>1, <4>1 DEF E!Opens
  <3>2. l # "cache"  BY <2>1, ScriptsAssumption
  <3> QED BY <1>2, <3>1, <3>2 DEF SourcesInv
 <2>11. Typed'  BY <1>1, <1>2, <2>8, <2>9, <2>10 DEF Typed, SourcesInv, EnginesInv
 <2>12. LoopsInv'
  <3>1. l \notin aborted  BY <1>2, <2>1 DEF LoopsInv
  <3>2. \A x \in Loops : x # l => act'[x] = act[x]  BY <1>2, <2>5 DEF Actors
  <3> QED BY <1>1, <1>2, <2>1, <2>6, <3>1, <3>2, ZenonT(60) DEF LoopsInv
 <2>13. ThreadsRest /\ FlagRests /\ StringsRest
  <3>1. \A b \in Actors : act'[b] = act[b] \/ /\ act[b].pc \in {"open", "idle"} /\ act'[b].pc \in {"done", "wait"}
                                              /\ act'[b].op # "adhoc"  BY <2>1, <2>5, <2>6
  <3>2. \A d \in Calls : d \in Actors  BY DEF Actors
  <3>3. ThreadsRest  BY <3>1, <3>2 DEF ThreadsRest
  <3>4. FlagRests  BY <3>1 DEF FlagRests
  <3>5. StringsRest  BY <3>1, <3>2 DEF StringsRest, Finished
  <3> QED BY <3>3, <3>4, <3>5
 <2>14. CacheRests  BY <2>2, <2>5, <2>6 DEF CacheRests
 <2>15. CachedInv' /\ CalmInv'  BY <1>1, <1>2, <2>8, <2>9, <2>10, <2>14, CacheKeeps DEF EngineInv
 <2>16. EngineInv'  BY <1>1, <2>11, <2>12, <2>13, <2>15, BesideCache, UnchangedStrings DEF ThreadVars
 <2> QED BY <1>1, <2>13, <2>16, RestIsRight
<1> QED BY <1>1, <1>3, <1>4 DEF E!WatchCall

\* A loop's own steps.
LoopSide ==
  UNCHANGED <<inst, text, faults, cache, entry, calm, inited, bound, programs, table, aborted, left, tripped,
              frozen, worker, orders, sender, joinable, quiet>>

\* A step of a loop keeps the invariant, given the map of loops.
LEMMA LoopKeeps ==
  ASSUME EngineInv, NEW l \in Loops, LoopSide, act' \in [Actors -> Act], Others(l), LoopsInv',
         act[l].pc \in {"wait", "fetch", "remote"}, Shaped(l, act'[l]),
         act'[l].pc \in {"wait", "fetch", "gone"},
         stream' \in [Loops \cup {"cache"} -> 1..(MaxText + 1)], stream'["cache"] = stream["cache"]
  PROVE  EngineInv' /\ StepsRight
<1>1. l \in Actors /\ l \notin Calls  BY ScriptsAssumption DEF Actors
<1>2. Typed'
 <2>1. ActorsInv'  BY <1>1, Reshaped DEF EngineInv, Typed, LoopSide
 <2>2. SourcesInv' /\ EnginesInv'  BY DEF EngineInv, Typed, SourcesInv, EnginesInv, LoopSide
 <2> QED BY <2>1, <2>2 DEF Typed
<1>3. \A d \in Calls : act'[d] = act[d]  BY <1>1 DEF Others, Actors
<1>4. ThreadsRest /\ StringsRest  BY <1>3 DEF ThreadsRest, StringsRest
<1>5. FlagRests  BY DEF FlagRests, Others
<1>6. CacheRests  BY <1>1 DEF CacheRests, Others
<1>7. CachedInv' /\ CalmInv'  BY <1>2, <1>6, CacheKeeps DEF EngineInv, Typed, LoopSide
<1>8. EngineInv'  BY <1>2, <1>4, <1>5, <1>7, BesideCache, UnchangedStrings DEF ThreadVars, LoopSide
<1> QED BY <1>5, <1>8, RestIsRight DEF LoopSide

\* A tick.
LEMMA TickStep ==
  ASSUME EngineInv, NEW l \in Loops, E!Ticks(l)
  PROVE  EngineInv' /\ StepsRight
<1>1. LoopSide /\ act[l].pc = "wait" /\ l \in Actors /\ l # "cache" /\ stream' = [stream EXCEPT ![l] = text]
  BY ScriptsAssumption DEF E!Ticks, E!Reload, E!At, LoopSide, E!engineVars, Actors
<1>2. /\ ActorsInv /\ SourcesInv /\ act[l] \in Act /\ Shaped(l, act[l])
      /\ text \in 0..MaxText /\ text \in 1..(MaxText + 1)
  BY <1>1, ScriptsAssumption DEF EngineInv, Typed, ActorsInv, SourcesInv
<1>3. /\ stream' \in [Loops \cup {"cache"} -> 1..(MaxText + 1)]
      /\ stream'["cache"] = stream["cache"]  BY <1>1, <1>2 DEF SourcesInv
<1>4. /\ act' \in [Actors -> Act] /\ Others(l) /\ Shaped(l, act'[l])
      /\ act'[l].pc \in {"wait", "fetch"}
 <2>1. CASE act' = act  BY <1>1, <1>2, <2>1 DEF ActorsInv, Others
 <2>2. CASE act' = [act EXCEPT ![l].pc = "fetch", ![l].must = text]
  <3> DEFINE r == [act[l] EXCEPT !.pc = "fetch", !.must = text]
  <3>1. r \in Act  BY <1>2 DEF Act, EnginePlaces
  <3>2. act' = [act EXCEPT ![l] = r]  BY <1>1, <1>2, <2>2 DEF ActorsInv, Act
  <3>3. act'[l] = r  BY <1>1, <1>2, <3>2 DEF ActorsInv
  <3>4. act'[l].pc = "fetch" /\ act'[l].op = act[l].op /\ act'[l].ans = act[l].ans /\ act'[l] \in Act
    BY <1>2, <3>1, <3>3 DEF Act
  <3>5. act' \in [Actors -> Act] /\ Others(l)  BY <1>1, <1>2, <3>1, <3>2 DEF ActorsInv, Others
  <3>6. Shaped(l, act'[l])  BY <1>1, <1>2, <3>4, ScriptsAssumption DEF Shaped, Loading
  <3> QED BY <3>4, <3>5, <3>6
 <2> QED BY <2>1, <2>2 DEF E!Ticks, E!Reload
<1>5. LoopsRest  BY <1>1, <1>4 DEF LoopsRest, Others, Actors
<1>6. LoopsInv'  BY <1>1, <1>5, LoopsKeep DEF EngineInv, LoopSide
<1> QED BY <1>1, <1>3, <1>4, <1>6, LoopKeeps

\* The end of an aborted loop.
LEMMA EndStep ==
  ASSUME EngineInv, NEW l \in Loops, E!LoopEnds(l)
  PROVE  EngineInv' /\ StepsRight
<1>1. /\ LoopSide /\ act[l].pc \in {"wait", "fetch", "remote"} /\ l \in Actors /\ l # "cache" /\ l \in aborted
      /\ stream' = [stream EXCEPT ![l] = MaxText + 1]
      /\ E!Goes(l, "gone")  BY ScriptsAssumption DEF E!LoopEnds, LoopSide, E!engineVars, Actors, E!Shut
<1>2. /\ ActorsInv /\ SourcesInv /\ act[l] \in Act /\ Shaped(l, act[l])
      /\ MaxText + 1 \in 1..(MaxText + 1)  BY <1>1, ScriptsAssumption DEF EngineInv, Typed, ActorsInv, SourcesInv
<1>3. /\ stream' \in [Loops \cup {"cache"} -> 1..(MaxText + 1)]
      /\ stream'["cache"] = stream["cache"]  BY <1>1, <1>2 DEF SourcesInv
<1>4. act' \in [Actors -> Act] /\ Others(l) /\ act'[l] = [act[l] EXCEPT !.pc = "gone"]
  BY <1>1, <1>2, Goes DEF EnginePlaces
<1>5. /\ act'[l].pc = "gone" /\ act'[l].op = act[l].op /\ act'[l].ans = act[l].ans  BY <1>2, <1>4 DEF Act
<1>6. Shaped(l, act'[l])  BY <1>1, <1>2, <1>4, <1>5, ScriptsAssumption DEF Shaped, Loading
<1>7. LoopsInv'
 <2>1. \A x \in Loops : x # l => act'[x] = act[x]  BY <1>4 DEF Others, Actors
 <2> QED BY <1>1, <1>5, <2>1 DEF LoopsInv, EngineInv, LoopSide
<1> QED BY <1>1, <1>3, <1>4, <1>5, <1>6, <1>7, LoopKeeps


\* Every step of the engines keeps the invariant, and is right.
LEMMA EngineStep ==
  ASSUME EngineInv, E!Next
  PROVE  EngineInv' /\ StepsRight
<1>1. CASE E!Edit  BY <1>1, EditStep
<1>2. ASSUME NEW c \in Calls, E!Begin(c) \/ E!CallSteps(c)
      PROVE  EngineInv' /\ StepsRight
 <2>1. CASE E!Begin(c)  BY <2>1, BeginStep
 <2>2. CASE E!Invalidate(c)  BY <2>2, InvalidateStep
 <2>3. CASE E!EngineInit(c)  BY <2>3, InitStep, JsInitStep
 <2>4. CASE E!EngineClose(c)  BY <2>4, CloseStep, JsCloseStep
 <2>5. CASE E!Bind(c) \/ E!Load(c) \/ E!Access(c)  BY <2>5, BindStep, LoadStep, AccessStep
 <2>6. CASE E!SetQuota(c) \/ E!StartWatch(c) \/ E!StopWatch(c)  BY <2>6, QuotaStep, WatchStep, StopStep
 <2> QED BY <1>2, <2>1, <2>2, <2>3, <2>4, <2>5, <2>6 DEF E!CallSteps
<1>3. ASSUME NEW a \in Actors, E!Steps(a)
      PROVE  EngineInv' /\ StepsRight  BY <1>3, FetchStep, PushStep, RunStep DEF E!Steps
<1>4. ASSUME NEW i \in 1..2, E!Worker(i)
      PROVE  EngineInv' /\ StepsRight  BY <1>4, WorkerStep
<1>5. ASSUME NEW l \in Loops, E!Ticks(l) \/ E!LoopEnds(l)
      PROVE  EngineInv' /\ StepsRight  BY <1>5, TickStep, EndStep
<1> QED BY <1>1, <1>2, <1>3, <1>4, <1>5 DEF E!Next, E!Actors, Actors, E!Incs

\* So does a step of the pools.
LEMMA EngineRests ==
  ASSUME EngineInv, UNCHANGED engineVars
  PROVE  EngineInv' /\ StepsRight
<1>1. AllRest  BY DEF AllRest, LoopsRest, ThreadsRest, FlagRests, StringsRest, CacheRests, engineVars
<1>2. ActorsInv'  BY DEF EngineInv, Typed, ActorsInv, Shaped, engineVars
<1>3. SmallStep  BY UnchangedStrings DEF SmallStep, RestVars, engineVars, EngineInv, Typed, EnginesInv
<1> QED BY <1>1, <1>2, <1>3, SmallKeeps

\* The engines start out with it.
LEMMA EngineInitially == E!Init => EngineInv
<1> SUFFICES ASSUME E!Init PROVE EngineInv  OBVIOUS
<1>1. /\ inst \in AllRecords /\ text = 1 /\ faults = 0
      /\ stream = [x \in Loops \cup {"cache"} |-> MaxText + 1]
      /\ cache = 0 /\ entry = FALSE /\ inited = inst.up
      /\ programs = (IF inst.up THEN <<1>> ELSE <<>>)
      /\ table = "none" /\ aborted = {}
      /\ left = (IF inst.up /\ inst.budget > 0 THEN inst.budget ELSE 99)
      /\ worker = [i \in 1..2 |-> IF inst.up /\ inst.engine = "javascript" /\ i = 1 THEN "up" ELSE "none"]
      /\ orders = [i \in 1..2 |-> <<>>]
      /\ sender = (IF inst.up /\ inst.engine = "javascript" THEN 1 ELSE 0)
      /\ joinable = sender
      /\ act = [a \in Actors |-> Rest]
      /\ quiet = "no" /\ calm = TRUE
  BY ScriptsAssumption DEF E!Init, E!Shut, E!None, E!Unarmed, E!engine, E!Incs, E!Actors, Actors, E!Idle, Rest
<1>2. MaxText \in Nat /\ MaxText >= 1 /\ inst.budget \in 0..98 /\ inst.up \in BOOLEAN
  BY <1>1, ScriptsAssumption DEF AllRecords
<1>3. \A a \in Actors : act[a] = Rest  BY <1>1
<1>4. ActorsInv
 <2>1. <<>> \in Seq({0} \cup Known) /\ 0 \in 0..MaxText  BY <1>2
 <2>2. Rest \in Act  BY <2>1 DEF Act, Rest, EnginePlaces
 <2>3. \A a \in Actors : Shaped(a, Rest)  BY <2>2 DEF Shaped, Rest, Loading
 <2> QED BY <1>1, <1>3, <2>2, <2>3 DEF ActorsInv
<1>5. SourcesInv
 <2>1. text \in 1..MaxText /\ cache \in 0..MaxText /\ MaxText + 1 \in 1..(MaxText + 1)  BY <1>1, <1>2
 <2> QED BY <1>1, <2>1 DEF SourcesInv
<1>6. programs \in Seq(Known)
 <2>1. 1 \in Known  BY <1>2 DEF Known
 <2>2. <<1>> \in Seq(Known) /\ <<>> \in Seq(Known)  BY <2>1
 <2> QED BY <1>1, <2>2
<1>7. left \in 0..99
 <2>1. left = inst.budget \/ left = 99  BY <1>1
 <2> QED BY <1>2, <2>1
<1>8. LoopsInv
 <2>1. \A l \in Loops : act[l].pc = "idle"  BY <1>3 DEF Actors, Rest
 <2> QED BY <1>1, <2>1 DEF LoopsInv
<1>9. ThreadsInv
 <2>1. /\ \A c \in Calls : act[c].pc = "idle"
       /\ \A i \in 1..2 : orders[i] = <<>>
       /\ \A i \in 1..2 : worker[i] = (IF inst.up /\ inst.engine = "javascript" /\ i = 1 THEN "up" ELSE "none")
   BY <1>1, <1>3 DEF Actors, Rest
 <2>2. ThreadTypes
  <3>1. <<>> \in Seq(Calls \cup {"drop"})  OBVIOUS
  <3>2. orders \in [1..2 -> Seq(Calls \cup {"drop"})]  BY <1>1, <3>1
  <3>3. worker \in [1..2 -> {"none", "up", "gone"}]  BY <1>1
  <3> QED BY <1>1, <2>1, <3>2, <3>3 DEF ThreadTypes
 <2>3. OrdersInv
  <3>1. \A i \in 1..2 : Len(orders[i]) = 0  BY <2>1
  <3>2. \A i \in 1..2 : \A n \in 1..Len(orders[i]) : FALSE  BY <3>1
  <3> QED BY <2>1, <3>2 DEF OrdersInv
 <2>4. SenderInv  BY <1>1, <1>2, <2>1 DEF SenderInv
 <2>5. JoinersInv  BY <1>1, <2>1 DEF JoinersInv
 <2>6. QuietInv  BY <1>1 DEF QuietInv
 <2> QED BY <2>2, <2>3, <2>4, <2>5, <2>6 DEF ThreadsInv
<1>10. FlagInv  BY <1>3 DEF FlagInv, Rest
<1>11. StringsInv
 <2>1. \A n \in 1..Len(programs) : programs[n] = 1
  <3>1. CASE inst.up  BY <1>1, <3>1
  <3>2. CASE ~inst.up
   <4>1. Len(programs) = 0  BY <1>1, <3>2
   <4> QED BY <4>1
  <3> QED BY <3>1, <3>2
 <2>2. 1 \notin Calls  BY <1>2, ScriptsAssumption
 <2>3. \A c \in Calls : act[c].pc = "idle"  BY <1>3 DEF Actors, Rest
 <2> QED BY <2>1, <2>2, <2>3 DEF StringsInv
<1>12. CachedInv /\ CalmInv
 <2>1. \A a \in Actors : act[a].pc = "idle" /\ act[a].must = 0  BY <1>3 DEF Rest
 <2> QED BY <1>1, <2>1 DEF CachedInv, CalmInv, Actors
<1> QED BY <1>4, <1>5, <1>6, <1>7, <1>8, <1>9, <1>10, <1>11, <1>12 DEF EngineInv, Typed, EnginesInv

\* The invariant holds along every behaviour.
LEMMA EnginesAlong == MCSpec => []EngineInv
<1>1. MCInit => EngineInv  BY EngineInitially DEF MCInit
<1>2. EngineInv /\ [MCNext]_allVars => EngineInv'
 <2> SUFFICES ASSUME EngineInv, [MCNext]_allVars PROVE EngineInv'  OBVIOUS
 <2>1. CASE E!Next  BY <2>1, EngineStep
 <2>2. CASE UNCHANGED engineVars  BY <2>2, EngineRests
 <2> QED BY <2>1, <2>2 DEF MCNext, InPool, InEngines, allVars, engineVars
<1> QED BY <1>1, <1>2, PTL DEF MCSpec

\* In every state of the engines the ranges are kept, an answered script is in
\* starlark's set, and a load from the cached source is fresh: for any callers,
\* loops, versions and instances.
THEOREM EnginesHold == MCSpec => []LoadsHold
<1>1. EngineInv => LoadsHold
 <2> SUFFICES ASSUME EngineInv PROVE E!TypeOK /\ E!AnsweredScriptsStay /\ E!CachedLoadIsFresh  BY DEF LoadsHold
 <2>1. /\ ActorsInv /\ SourcesInv /\ programs \in Seq(Known) /\ left \in 0..99 /\ LoopsInv
       /\ ThreadTypes /\ SenderInv  BY DEF EngineInv, Typed, EnginesInv, ThreadsInv
 <2>2. \A c \in Calls : c \in E!Range(programs) <=> \E n \in 1..Len(programs) : programs[n] = c
   BY <2>1 DEF E!Range
 <2>3. E!TypeOK
  <3>1. E!Range(programs) \subseteq (1..MaxText) \cup Calls  BY <2>1 DEF E!Range, Known
  <3>2. \A x \in DOMAIN stream : stream[x] \in 1..E!Shut  BY <2>1 DEF SourcesInv, E!Shut
  <3>3. sender # 0 => worker[sender] = "up" /\ inited  BY <2>1 DEF ThreadTypes, SenderInv
  <3>4. table # "none" => table \in Loops \ aborted /\ act[table].pc \notin {"idle", "gone"}  BY <2>1 DEF LoopsInv
  <3>5. \A a \in Actors : act[a].ans \in {"none", "ok", "failed", "quota"}  BY <2>1 DEF ActorsInv, Act
  <3>6. text \in 1..MaxText /\ cache \in 0..MaxText /\ sender \in {0} \cup E!Incs /\ joinable \in {0} \cup E!Incs
    BY <2>1 DEF SourcesInv, ThreadTypes, E!Incs
  <3> QED BY <2>1, <3>1, <3>2, <3>3, <3>4, <3>5, <3>6 DEF E!TypeOK, E!Unarmed, E!None, E!Actors, Actors
 <2>4. E!AnsweredScriptsStay
  <3>1. \A c \in Calls : act[c].ans # "none" => act[c].pc = "done"  BY <2>1 DEF ActorsInv, Shaped, Actors
  <3> QED BY <2>2, <3>1 DEF E!AnsweredScriptsStay, E!engine, EngineInv, StringsInv
 <2>5. E!CachedLoadIsFresh  BY DEF E!CachedLoadIsFresh, EngineInv, CachedInv
 <2> QED BY <2>3, <2>4, <2>5
<1> QED BY <1>1, EnginesAlong, PTL

\* No command is taken from a javascript worker while its engine is closed and
\* quiet, and the verdict on a run of lua that owns the flag is about that run.
THEOREM EngineRunsAreTheirOwn == MCSpec => RunsAreTheirOwn
<1>1. EngineInv /\ [MCNext]_allVars => (turn = "engines" => E!ClosedJsIsQuietStep /\ E!VerdictIsOwnStep)
 <2> SUFFICES ASSUME EngineInv, [MCNext]_allVars PROVE E!ClosedJsIsQuietStep /\ E!VerdictIsOwnStep  OBVIOUS
 <2>1. CASE E!Next  BY <2>1, EngineStep DEF StepsRight
 <2>2. CASE UNCHANGED engineVars  BY <2>2, EngineRests DEF StepsRight
 <2> QED BY <2>1, <2>2 DEF MCNext, InPool, InEngines, allVars, engineVars
<1>2. EngineInv /\ [MCNext]_allVars => [(turn = "engines" => E!ClosedJsIsQuietStep /\ E!VerdictIsOwnStep)]_allVars
  BY <1>1
<1> QED BY <1>2, EnginesAlong, PTL DEF MCSpec, RunsAreTheirOwn
=============================================================================
