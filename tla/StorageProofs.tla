---------------------------- MODULE StorageProofs ----------------------------
(***************************************************************************)
(* The repositories, for any constants: the cache-aside decorator, then    *)
(* the tables of the seven engines under any clients.                      *)
(*                                                                         *)
(* The cache never holds a row older than the last write that returned,    *)
(* whatever loads, writes and dropped futures do.  The generation carries  *)
(* the argument: an invalidation makes it larger than every snapshot taken *)
(* before, so a load whose snapshot still matches read the row after every *)
(* completed write.                                                        *)
(*                                                                         *)
(* Of a table, TableInv says that what a client knows and has done fits    *)
(* the call its plan is at, for every plan of every engine; CreatedInv     *)
(* that a creation that goes on or was answered ok has its rows, unless    *)
(* an operation that may take them has begun since.                        *)
(***************************************************************************)
EXTENDS CacheAside, Storage, FiniteSetTheorems, SequenceTheorems, WellFoundedInduction, TLAPS

\* Scope(r) is the reader's own scope, one of the Scopes.
LEMMA ScopeType == ASSUME NEW r \in Readers PROVE Scope(r) \in Scopes
BY CacheAssumption DEF Scope

\* CacheRepo: every variable keeps its type.
THEOREM TypeCorrect == Spec => []TypeOK
<1>1. Init => TypeOK  BY CacheAssumption DEF Init, TypeOK, Outcome
<1>2. TypeOK /\ [Next]_vars => TypeOK'
 <2> SUFFICES ASSUME TypeOK, [Next]_vars PROVE TypeOK'  OBVIOUS
 <2> USE DEF TypeOK, backend, state, readers
 <2>1. ASSUME NEW r \in Readers, Hit(r) PROVE TypeOK'  BY <2>1, ScopeType DEF Hit, Becomes
 <2>2. ASSUME NEW r \in Readers, Join(r) PROVE TypeOK'
  <3>1. Scope(r) \in Scopes  BY ScopeType
  <3>2. (CHOOSE l \in Loaders : Scope(l) = Scope(r)) \in Readers
        \/ ~(\E l \in Loaders : Scope(l) = Scope(r))  BY DEF Loaders
  <3>3. since' \in [Readers -> Nat]  BY <2>2, <3>2 DEF Join
  <3>4. waiters' \in [Scopes -> SUBSET Readers]
        /\ \A s \in Scopes : waiters'[s] # {} => s \in inflight'  BY <2>2, <3>1 DEF Join
  <3>5. snap' \in [Readers -> Nat]  BY <2>2 DEF Join, Miss
  <3>6. cached' \subseteq Scopes /\ expired' \subseteq cached'  BY <2>2 DEF Join, Miss
  <3>7. at' \in [Readers -> {"idle", "loading", "fetched", "waiting", "done", "dropped"}]
    BY <2>2 DEF Join, Becomes
  <3>8. QED
   <4>1. /\ db' = db /\ generation' = generation /\ completed' = completed
         /\ inflight' = inflight /\ entry' = entry /\ got' = got
         /\ wat' = wat /\ wrote' = wrote  BY <2>2 DEF Join
   <4>2. {snap', since'} \subseteq [Readers -> Nat]  BY <3>3, <3>5
   <4>3. {db', generation', completed'} \subseteq Nat  BY <4>1
   <4>4. entry' \in [Scopes -> Outcome] /\ got' \in [Readers -> Outcome]  BY <4>1
   <4>5. QED  BY <3>4, <3>6, <3>7, <4>1, <4>2, <4>3, <4>4, Zenon
 <2>3. ASSUME NEW r \in Readers, Load(r) PROVE TypeOK'  BY <2>3, ScopeType DEF Load, Miss, Becomes
 <2>4. ASSUME NEW r \in Readers, BackendReads(r) PROVE TypeOK'
  <3>1. at' \in [Readers -> {"idle", "loading", "fetched", "waiting", "done", "dropped"}]
    BY <2>4 DEF BackendReads, Becomes
  <3>2. got' \in [Readers -> Outcome]
   <4>1. PICK ok \in BOOLEAN :
           got' = [got EXCEPT ![r] = [ok |-> ok, ver |-> db, scope |-> ScopeOf[r]]]  BY <2>4 DEF BackendReads
   <4>2. [ok |-> ok, ver |-> db, scope |-> ScopeOf[r]] \in Outcome  BY CacheAssumption DEF Outcome
   <4>3. QED  BY <4>1, <4>2
  <3>3. QED  BY <2>4, <3>1, <3>2 DEF BackendReads
 <2>5. ASSUME NEW r \in Readers, Land(r) PROVE TypeOK'
  <3>1. Scope(r) \in Scopes  BY ScopeType
  <3>2. at' \in [Readers -> {"idle", "loading", "fetched", "waiting", "done", "dropped"}]  BY <2>5 DEF Land
  <3>3. got' \in [Readers -> Outcome]  BY <2>5 DEF Land
  <3>4. /\ cached' \subseteq Scopes /\ expired' \subseteq cached'
        /\ entry' \in [Scopes -> Outcome]  BY <2>5, <3>1 DEF Land
  <3>5. /\ inflight' \subseteq Scopes /\ waiters' \in [Scopes -> SUBSET Readers]
        /\ \A s \in Scopes : waiters'[s] # {} => s \in inflight'  BY <2>5, <3>1 DEF Land
  <3>6. QED  BY <2>5, <3>2, <3>3, <3>4, <3>5 DEF Land
 <2>6. ASSUME NEW r \in Readers, GetDropped(r) PROVE TypeOK'  BY <2>6 DEF GetDropped, Becomes
 <2>7. ASSUME NEW s \in Scopes, Expire(s) PROVE TypeOK'  BY <2>7 DEF Expire
 <2>8. ASSUME NEW w \in Writers, Commit(w) \/ Refused(w) PROVE TypeOK'  BY <2>8 DEF Commit, Refused
 <2>9. ASSUME NEW w \in Writers, Invalidate(w) \/ WriteDropped(w) PROVE TypeOK'
   BY <2>9 DEF Invalidate, WriteDropped
 <2>10. CASE UNCHANGED vars  BY <2>10 DEF vars
 <2>11. QED  BY <2>1, <2>2, <2>3, <2>4, <2>5, <2>6, <2>7, <2>8, <2>9, <2>10 DEF Next, Proceeds, Rest
<1>3. QED  BY <1>1, <1>2, PTL DEF Spec

-----------------------------------------------------------------------------

\* No write has completed that the engine has not committed.
Committed == completed <= db /\ \A w \in Writers : wrote[w] <= db

\* Snapshots are taken from the generation, which only grows.
SnapshotsOld == \A r \in Readers : snap[r] <= generation

\* A load whose snapshot still matches has read the row of the last completed
\* write, or a newer one.
MatchingLoadsFresh ==
  \A r \in Readers :
    at[r] = "fetched" /\ snap[r] = generation => got[r].ver >= completed

FreshInv == Committed /\ SnapshotsOld /\ MatchingLoadsFresh /\ NoStaleEntry

LEMMA FreshInvariant == Spec => []FreshInv
<1>1. Init => FreshInv  BY DEF Init, FreshInv, Committed, SnapshotsOld, MatchingLoadsFresh, NoStaleEntry
<1>2. TypeOK /\ FreshInv /\ [Next]_vars => FreshInv'
 <2> SUFFICES ASSUME TypeOK, FreshInv, [Next]_vars PROVE FreshInv'  OBVIOUS
 <2> USE DEF FreshInv, Committed, SnapshotsOld, MatchingLoadsFresh,
             NoStaleEntry, TypeOK, backend, state, readers
 <2>1. ASSUME NEW r \in Readers, Hit(r) PROVE FreshInv'  BY <2>1 DEF Hit, Becomes
 <2>2. ASSUME NEW r \in Readers, Join(r) PROVE FreshInv'  BY <2>2 DEF Join, Miss, Becomes
 <2>3. ASSUME NEW r \in Readers, Load(r) PROVE FreshInv'  BY <2>3 DEF Load, Miss, Becomes
 <2>4. ASSUME NEW r \in Readers, BackendReads(r) PROVE FreshInv'
  <3>1. got'[r].ver = db /\ \A q \in Readers \ {r} : got'[q] = got[q]  BY <2>4 DEF BackendReads
  <3>2. \A q \in Readers \ {r} : at'[q] = at[q]  BY <2>4 DEF BackendReads, Becomes
  <3>3. QED  BY <2>4, <3>1, <3>2 DEF BackendReads
 <2>5. ASSUME NEW r \in Readers, Land(r) PROVE FreshInv'
  <3>1. \A q \in Readers : at'[q] = "fetched" => at[q] = "fetched" /\ got'[q] = got[q]  BY <2>5 DEF Land
  <3>2. MatchingLoadsFresh'  BY <2>5, <3>1 DEF Land
  <3>3. NoStaleEntry'
   <4>1. CASE Repopulates(r)
    <5>1. got[r].ver >= completed  BY <2>5, <4>1 DEF Land, Repopulates
    <5>2. QED  BY <2>5, <4>1, <5>1, ScopeType DEF Land
   <4>2. CASE ~Repopulates(r)  BY <2>5, <4>2 DEF Land
   <4>3. QED  BY <4>1, <4>2
  <3>4. Committed' /\ SnapshotsOld'  BY <2>5 DEF Land
  <3>5. QED  BY <3>2, <3>3, <3>4
 <2>6. ASSUME NEW r \in Readers, GetDropped(r) PROVE FreshInv'  BY <2>6 DEF GetDropped, Becomes
 <2>7. ASSUME NEW s \in Scopes, Expire(s) PROVE FreshInv'  BY <2>7 DEF Expire
 <2>8. ASSUME NEW w \in Writers, Commit(w) \/ Refused(w) PROVE FreshInv'
  <3>1. db' >= db /\ \A v \in Writers : wrote'[v] <= db'  BY <2>8 DEF Commit, Refused
  <3>2. QED  BY <2>8, <3>1 DEF Commit, Refused
 <2>9. ASSUME NEW w \in Writers, Invalidate(w) PROVE FreshInv'
  <3>1. completed' <= db /\ completed' \in Nat  BY <2>9 DEF Invalidate
  <3>2. \A r \in Readers : snap'[r] < generation'  BY <2>9 DEF Invalidate
  <3>3. QED  BY <2>9, <3>1, <3>2 DEF Invalidate
 <2>10. ASSUME NEW w \in Writers, WriteDropped(w) PROVE FreshInv'  BY <2>10 DEF WriteDropped
 <2>11. CASE UNCHANGED vars  BY <2>11 DEF vars
 <2>12. QED  BY <2>1, <2>2, <2>3, <2>4, <2>5, <2>6, <2>7, <2>8, <2>9, <2>10, <2>11 DEF Next, Proceeds, Rest
<1>3. QED  BY <1>1, <1>2, TypeCorrect, PTL DEF Spec

\* CacheRepo::get_async l. 169-184 and invalidate l. 116-120: "a load that
\* started before a write committed must not repopulate the cache with a stale
\* row after the write invalidated".
THEOREM CacheIsNeverStale == Spec => []NoStaleEntry
<1>1. FreshInv => NoStaleEntry  BY DEF FreshInv
<1>2. QED  BY <1>1, FreshInvariant, PTL

-----------------------------------------------------------------------------
(* What a read answers.  The three promises of CacheAnswers lean on what   *)
(* the joiners of a key are: readers of that very scope, that wait for its *)
(* one load and registered no later than it.                               *)

\* A load holds its key, and no two loads hold the same one.
LoadsHoldKeys == OneLoadPerKey /\ \A l \in Loaders : Scope(l) \in inflight

\* The joiners of a key are waiting, or were dropped while they did, for a
\* load of their own scope.
JoinersAreOwn ==
  \A s \in Scopes : \A j \in waiters[s] :
    ScopeOf[j] = s /\ at[j] \in {"waiting", "dropped"}

\* A read is promised no more than had completed; what a load has read keeps
\* the promise of the load, and the load's promise covers its joiners'.
PromisesKept ==
  /\ \A r \in Readers : since[r] <= completed
  /\ \A r \in Readers : at[r] = "fetched" => got[r].ver >= since[r]
  /\ \A l \in Loaders : \A j \in waiters[Scope(l)] : since[j] <= since[l]
  /\ ReadsAsFreshAsTheirLoad

AnswerInv == LoadsHoldKeys /\ JoinersAreOwn /\ ScopesApart /\ PromisesKept

\* Only the reader itself moves when its own step is neither a landing nor a
\* write.
LEMMA OthersStay ==
  ASSUME TypeOK, NEW r \in Readers, NEW place, Becomes(r, place)
  PROVE  at'[r] = place /\ \A q \in Readers \ {r} : at'[q] = at[q]
BY DEF TypeOK, Becomes

LEMMA AnswerInvariant == Spec => []AnswerInv
<1>1. Init => AnswerInv
  BY DEF Init, AnswerInv, LoadsHoldKeys, OneLoadPerKey, JoinersAreOwn, ScopesApart,
         PromisesKept, ReadsAsFreshAsTheirLoad, Loaders
<1>2. TypeOK /\ FreshInv /\ AnswerInv /\ [Next]_vars => AnswerInv'
 <2> SUFFICES ASSUME TypeOK, FreshInv, AnswerInv, [Next]_vars PROVE AnswerInv'  OBVIOUS
 <2>s. \A r \in Readers : Scope(r) = ScopeOf[r] /\ Scope(r) \in Scopes  BY ScopeType DEF Scope
 <2> USE DEF AnswerInv, LoadsHoldKeys, OneLoadPerKey, JoinersAreOwn, ScopesApart,
             PromisesKept, ReadsAsFreshAsTheirLoad, backend, state, readers
 <2>1. ASSUME NEW r \in Readers, Hit(r) PROVE AnswerInv'
  <3>1. at'[r] = "done" /\ \A q \in Readers \ {r} : at'[q] = at[q]  BY <2>1, OthersStay DEF Hit
  <3>2. Loaders' = Loaders  BY <2>1, <3>1 DEF Hit, Loaders
  <3>3. /\ got' = [got EXCEPT ![r] = entry[Scope(r)]]
        /\ since' = [since EXCEPT ![r] = completed]
        /\ UNCHANGED <<backend, state, completed, snap>>
        /\ Scope(r) \in cached /\ at[r] = "idle"  BY <2>1 DEF Hit
  <3>4. got'[r] = entry[Scope(r)] /\ since'[r] = completed
        /\ \A q \in Readers \ {r} : got'[q] = got[q] /\ since'[q] = since[q]  BY <3>3 DEF TypeOK
  <3>5. entry[Scope(r)].ver >= completed  BY <3>3 DEF FreshInv, NoStaleEntry
  <3>6. LoadsHoldKeys' /\ ScopesApart'  BY <2>s, <3>2, <3>3, <3>4 DEF Scope
  <3>7. r \notin Loaders /\ \A s \in Scopes : r \notin waiters[s]  BY <3>3 DEF Loaders
  <3>8. JoinersAreOwn'  BY <3>1, <3>3, <3>7 DEF TypeOK
  <3>9. PromisesKept'
   <4>1. \A q \in Readers : since'[q] <= completed'  BY <3>3, <3>4 DEF TypeOK
   <4>2. \A q \in Readers : at'[q] = "fetched" => got'[q].ver >= since'[q]  BY <3>1, <3>3, <3>4
   <4>3. \A l \in Loaders' : \A j \in waiters'[Scope(l)] : since'[j] <= since'[l]
     BY <2>s, <3>2, <3>3, <3>4, <3>7 DEF TypeOK, Loaders
   <4>4. ReadsAsFreshAsTheirLoad'  BY <3>1, <3>3, <3>4, <3>5
   <4>5. QED  BY <4>1, <4>2, <4>3, <4>4 DEF Scope
  <3>10. QED  BY <3>6, <3>8, <3>9
 <2>2. ASSUME NEW r \in Readers, Join(r) PROVE AnswerInv'
  <3>1. at'[r] = "waiting" /\ \A q \in Readers \ {r} : at'[q] = at[q]  BY <2>2, OthersStay DEF Join
  <3>2. /\ at[r] = "idle" /\ got' = got /\ completed' = completed /\ entry' = entry
        /\ inflight' = inflight /\ cached' = cached \ {Scope(r)}
        /\ waiters' = [waiters EXCEPT ![Scope(r)] = @ \cup {r}]  BY <2>2 DEF Join, Miss
  <3>3. Loaders' = Loaders /\ r \notin Loaders  BY <3>1, <3>2 DEF Loaders
  <3>4. \A q \in Readers \ {r} : since'[q] = since[q]  BY <2>2 DEF Join, TypeOK
  <3>5. since'[r] \in Nat /\ since'[r] <= completed
        /\ \A l \in Loaders : Scope(l) = Scope(r) => since'[r] <= since[l]
   <4>1. CASE \E l \in Loaders : Scope(l) = Scope(r)
    <5>1. PICK l \in Loaders : l = CHOOSE k \in Loaders : Scope(k) = Scope(r)  BY <4>1
    <5>2. Scope(l) = Scope(r) /\ l \in Readers  BY <4>1, <5>1 DEF Loaders
    <5>3. since'[r] = since[l]  BY <2>2, <4>1, <5>1 DEF Join, TypeOK
    <5>4. \A k \in Loaders : Scope(k) = Scope(r) => k = l  BY <2>s, <5>2 DEF Loaders
    <5>5. QED  BY <5>2, <5>3, <5>4 DEF TypeOK
   <4>2. CASE ~\E l \in Loaders : Scope(l) = Scope(r)  BY <2>2, <4>2 DEF Join, TypeOK
   <4>3. QED  BY <4>1, <4>2
  <3>6. LoadsHoldKeys' /\ ScopesApart'  BY <3>2, <3>3 DEF Scope
  <3>7. \A s \in Scopes : waiters'[s] = IF s = Scope(r) THEN waiters[s] \cup {r}
                                                        ELSE waiters[s]  BY <2>s, <3>2, ZenonT(60) DEF TypeOK
  <3>8. JoinersAreOwn'  BY <2>s, <3>1, <3>2, <3>7 DEF TypeOK
  <3>9. PromisesKept'
   <4>1. \A q \in Readers : since'[q] <= completed'  BY <3>2, <3>4, <3>5
   <4>2. \A q \in Readers : at'[q] = "fetched" => got'[q].ver >= since'[q]  BY <3>1, <3>2, <3>4
   <4>3. ASSUME NEW l \in Loaders, NEW j, j \in waiters'[Scope(l)]
         PROVE  since'[j] <= since'[l]
    <5>1. l \in Readers \ {r} /\ since'[l] = since[l] /\ Scope(l) \in Scopes  BY <2>s, <3>3, <3>4 DEF Loaders
    <5>2. CASE j = r
     <6>1. r \notin waiters[Scope(l)]  BY <3>2, <5>1
     <6>2. Scope(l) = Scope(r)  BY <3>7, <4>3, <5>1, <5>2, <6>1
     <6>3. QED  BY <3>5, <5>1, <5>2, <6>2
    <5>3. CASE j # r
     <6>0. \/ waiters'[Scope(l)] = waiters[Scope(l)] \cup {r}
           \/ waiters'[Scope(l)] = waiters[Scope(l)]  BY <3>7, <5>1, Zenon
     <6>1. j \in waiters[Scope(l)]  BY <4>3, <5>3, <6>0
     <6>2. /\ j \in Readers
           /\ since[j] <= since[l]
      <7>1. waiters[Scope(l)] \subseteq Readers  BY <5>1 DEF TypeOK
      <7>2. \A k \in waiters[Scope(l)] : since[k] <= since[l]  OBVIOUS
      <7>3. QED  BY <6>1, <7>1, <7>2
     <6>3. QED  BY <3>4, <5>1, <5>3, <6>2
    <5>4. QED  BY <5>2, <5>3
   <4>4. ReadsAsFreshAsTheirLoad'  BY <3>1, <3>2, <3>4
   <4>5. QED  BY <3>3, <4>1, <4>2, <4>3, <4>4 DEF Scope
  <3>10. QED  BY <3>6, <3>8, <3>9
 <2>3. ASSUME NEW r \in Readers, Load(r) PROVE AnswerInv'
  <3>1. at'[r] = "loading" /\ \A q \in Readers \ {r} : at'[q] = at[q]  BY <2>3, OthersStay DEF Load
  <3>2. /\ at[r] = "idle" /\ got' = got /\ completed' = completed /\ entry' = entry
        /\ inflight' = inflight \cup {Scope(r)} /\ cached' = cached \ {Scope(r)}
        /\ waiters' = waiters /\ Scope(r) \notin inflight
        /\ since' = [since EXCEPT ![r] = completed]  BY <2>3 DEF Load, Miss
  <3>3. Loaders' = Loaders \cup {r} /\ r \notin Loaders  BY <3>1, <3>2 DEF Loaders
  <3>4. since'[r] = completed /\ \A q \in Readers \ {r} : since'[q] = since[q]  BY <3>2 DEF TypeOK
  <3>5. \A l \in Loaders : Scope(l) # Scope(r)  BY <3>2
  <3>6. waiters[Scope(r)] = {} /\ \A s \in Scopes : r \notin waiters[s]  BY <2>s, <3>2 DEF TypeOK
  <3>7. LoadsHoldKeys' /\ ScopesApart'  BY <2>s, <3>2, <3>3, <3>5 DEF Scope, Loaders
  <3>8. JoinersAreOwn'  BY <3>1, <3>2, <3>6 DEF TypeOK
  <3>9. PromisesKept'
   <4>1. \A q \in Readers : since'[q] <= completed'  BY <3>2, <3>4 DEF TypeOK
   <4>2. \A q \in Readers : at'[q] = "fetched" => got'[q].ver >= since'[q]  BY <3>1, <3>2, <3>4
   <4>3. \A l \in Loaders' : \A j \in waiters'[Scope(l)] : since'[j] <= since'[l]
     BY <2>s, <3>2, <3>3, <3>4, <3>6 DEF TypeOK, Loaders
   <4>4. ReadsAsFreshAsTheirLoad'  BY <3>1, <3>2, <3>4
   <4>5. QED  BY <4>1, <4>2, <4>3, <4>4 DEF Scope
  <3>10. QED  BY <3>7, <3>8, <3>9
 <2>4. ASSUME NEW r \in Readers, BackendReads(r) PROVE AnswerInv'
  <3>1. at'[r] = "fetched" /\ \A q \in Readers \ {r} : at'[q] = at[q]  BY <2>4, OthersStay DEF BackendReads
  <3>2. /\ at[r] = "loading" /\ UNCHANGED <<backend, state, completed, snap, since>>  BY <2>4 DEF BackendReads
  <3>3. Loaders' = Loaders  BY <3>1, <3>2 DEF Loaders
  <3>4. got'[r].ver = db /\ got'[r].scope = ScopeOf[r]
        /\ \A q \in Readers \ {r} : got'[q] = got[q]  BY <2>4 DEF BackendReads, TypeOK
  <3>5. since[r] <= db  BY DEF FreshInv, Committed, TypeOK
  <3>6. LoadsHoldKeys' /\ ScopesApart'  BY <3>2, <3>3, <3>4 DEF Scope
  <3>j. JoinersAreOwn'  BY <3>1, <3>2 DEF TypeOK
  <3>7. PromisesKept'  BY <3>1, <3>2, <3>3, <3>4, <3>5 DEF Scope, TypeOK
  <3>8. QED  BY <3>6, <3>j, <3>7
 <2>5. ASSUME NEW r \in Readers, Land(r) PROVE AnswerInv'
  <3> DEFINE s == Scope(r)
             riders == {j \in waiters[s] : at[j] = "waiting"}
  <3>1. /\ at[r] = "fetched" /\ inflight' = inflight \ {s}
        /\ waiters' = [waiters EXCEPT ![s] = {}]
        /\ at' = [q \in Readers |-> IF q \in riders \cup {r} THEN "done" ELSE at[q]]
        /\ got' = [q \in Readers |-> IF q \in riders THEN got[r] ELSE got[q]]
        /\ since' = since /\ completed' = completed  BY <2>5 DEF Land
  <3>2. s \in Scopes /\ r \in Loaders /\ ScopeOf[r] = s  BY <2>s, <3>1 DEF Loaders
  <3>3. riders \subseteq Readers /\ r \notin riders  BY <3>1, <3>2 DEF TypeOK
  <3>4. Loaders' = Loaders \ {r}  BY <3>1, <3>3 DEF Loaders
  <3>5. \A l \in Loaders \ {r} : Scope(l) # s  BY <2>s, <3>2 DEF Loaders
  <3>6. \A t \in Scopes : waiters'[t] = IF t = s THEN {} ELSE waiters[t]  BY <3>1 DEF TypeOK
  <3>7. LoadsHoldKeys'  BY <3>1, <3>4, <3>5 DEF Scope
  <3>8. JoinersAreOwn'
   <4> SUFFICES ASSUME NEW t \in Scopes \ {s}, NEW j \in waiters[t]
                PROVE  ScopeOf[j] = t /\ at'[j] \in {"waiting", "dropped"}  BY <3>6
   <4>1. j \in Readers /\ ScopeOf[j] = t /\ at[j] \in {"waiting", "dropped"}  BY DEF TypeOK
   <4>2. j \notin riders \cup {r}  BY <3>1, <3>2, <4>1
   <4>3. QED  BY <3>1, <4>1, <4>2
  <3>9. ScopesApart'
   <4>1. \A q \in Readers : got'[q].scope = ScopeOf[q]  BY <3>1, <3>2, <3>3
   <4>2. CASE Repopulates(r)
    <5>1. /\ cached' = cached \cup {s} /\ entry' = [entry EXCEPT ![s] = got[r]]
          /\ got[r].ok /\ got[r].scope = s  BY <2>5, <3>2, <4>2 DEF Land, Repopulates
    <5>2. \A t \in Scopes : entry'[t] = IF t = s THEN got[r] ELSE entry[t]  BY <5>1 DEF TypeOK
    <5>3. QED  BY <3>2, <4>1, <5>1, <5>2 DEF TypeOK
   <4>3. CASE ~Repopulates(r)  BY <2>5, <4>1, <4>3 DEF Land
   <4>4. QED  BY <4>2, <4>3
  <3>10. PromisesKept'
   <4>1. \A q \in Readers : since'[q] <= completed'  BY <3>1
   <4>2. \A q \in Readers : at'[q] = "fetched" => got'[q].ver >= since'[q]  BY <3>1
   <4>3. \A l \in Loaders' : \A j \in waiters'[Scope(l)] : since'[j] <= since'[l]
     BY <2>s, <3>1, <3>4, <3>5, <3>6 DEF Loaders
   <4>4. ASSUME NEW q \in Readers, at'[q] = "done", got'[q].ok
         PROVE  got'[q].ver >= since'[q]
    <5>1. CASE q = r  BY <3>1, <3>3, <5>1
    <5>2. CASE q \in riders
     <6>1. since[q] <= since[r] /\ got[r].ver >= since[r] /\ got'[q] = got[r]  BY <3>1, <3>2, <5>2
     <6>2. got[r].ver \in Nat  BY DEF TypeOK, Outcome
     <6>3. QED  BY <3>1, <6>1, <6>2 DEF TypeOK
    <5>3. CASE q \notin riders \cup {r}  BY <3>1, <4>4, <5>3
    <5>4. QED  BY <5>1, <5>2, <5>3
   <4>5. QED  BY <4>1, <4>2, <4>3, <4>4 DEF Scope
  <3>11. QED  BY <3>7, <3>8, <3>9, <3>10
 <2>6. ASSUME NEW r \in Readers, GetDropped(r) PROVE AnswerInv'
  <3>1. at'[r] = "dropped" /\ \A q \in Readers \ {r} : at'[q] = at[q]  BY <2>6, OthersStay DEF GetDropped
  <3>2. UNCHANGED <<backend, state, completed, snap, got, since>>  BY <2>6 DEF GetDropped
  <3>3. Loaders' = Loaders \ {r}  BY <3>1 DEF Loaders
  <3>4. LoadsHoldKeys' /\ ScopesApart' /\ JoinersAreOwn'  BY <3>1, <3>2, <3>3 DEF Scope, TypeOK
  <3>5. PromisesKept'  BY <3>1, <3>2, <3>3 DEF Scope
  <3>6. QED  BY <3>4, <3>5
 <2>7. ASSUME NEW s \in Scopes, Expire(s) PROVE AnswerInv'  BY <2>7 DEF Expire, Loaders, Scope
 <2>8. ASSUME NEW w \in Writers, Commit(w) \/ Refused(w) \/ WriteDropped(w)
       PROVE  AnswerInv'  BY <2>8 DEF Commit, Refused, WriteDropped, Loaders, Scope
 <2>9. ASSUME NEW w \in Writers, Invalidate(w) PROVE AnswerInv'
  <3>1. completed' >= completed /\ completed' \in Nat  BY <2>9 DEF Invalidate, TypeOK
  <3>2. /\ cached' = {} /\ entry' = entry /\ inflight' = inflight /\ waiters' = waiters
        /\ UNCHANGED readers  BY <2>9 DEF Invalidate
  <3>3. LoadsHoldKeys' /\ ScopesApart' /\ JoinersAreOwn'  BY <3>2 DEF Loaders, Scope
  <3>4. \A q \in Readers : since'[q] <= completed'  BY <3>1, <3>2 DEF TypeOK
  <3>5. QED  BY <3>2, <3>3, <3>4 DEF Loaders, Scope
 <2>10. CASE UNCHANGED vars  BY <2>10 DEF vars, Loaders, Scope
 <2>11. QED  BY <2>1, <2>2, <2>3, <2>4, <2>5, <2>6, <2>7, <2>8, <2>9, <2>10 DEF Next, Proceeds, Rest
<1>3. QED  BY <1>1, <1>2, TypeCorrect, FreshInvariant, PTL DEF Spec

\* CacheRepo::get_async l. 131-194, for any number of readers, writers and
\* viewer scopes: what a hit, a joiner or a load answers was read under the
\* caller's own scope, is as fresh as the load behind it, and comes from the
\* only load of its key.
THEOREM AnswersAreOwnAndFresh == Spec => []CacheAnswers
<1>1. TypeOK /\ AnswerInv => CacheAnswers  BY DEF CacheAnswers, AnswerInv, LoadsHoldKeys, PromisesKept
<1>2. QED  BY <1>1, TypeCorrect, AnswerInvariant, PTL

-----------------------------------------------------------------------------
(* The table of a repository, under any clients.                           *)
Kinds == {"create", "batch", "update", "upsert", "delete", "walk", "tombstone", "restore", "purge"}
Names == {"InsertClaimed", "InsertAll", "NextIds", "Put", "FetchUnscoped", "FetchAllIds", "EnsureIdFree",
          "Append1", "Bulk", "Undo", "PatchWhere", "RemoveWhere", "RemoveSeen", "WriteCells", "Rewrite",
          "Erase", "PollGone", "Probe", "Peek", "ReadDoc", "Recheck", "NeedAlive", "NeedDead", "Turn"}
Naming == {"NextIds", "InsertClaimed"}
Adding == {"InsertClaimed", "InsertAll", "Put", "Append1", "Bulk"}
Changing == {"PatchWhere", "RemoveWhere", "RemoveSeen", "WriteCells", "Rewrite", "Erase"}
Writing == Adding \cup Changing \cup {"Undo"}
MayMiss == {"Probe", "ReadDoc", "Recheck", "NeedAlive", "NeedDead", "FetchUnscoped", "PatchWhere", "RemoveWhere"}
MayClash == {"NextIds", "EnsureIdFree", "FetchAllIds", "InsertAll", "InsertClaimed", "Undo"}
Locals == [seen : SUBSET Rows, cleared : BOOLEAN, ids : Seq(Nat), item : Nat, landed : SUBSET Ids,
           failed : BOOLEAN, fills : BOOLEAN, paged : BOOLEAN, cursor : Nat, got : Seq(Nat)]

\* What the operations of a client are like.
IsOp(o) ==
  /\ o \in [kind : Kinds \cup {"none"}, ids : Seq(Nat), viewer : {"all", "a"}, owner : {"a", "b", "same"},
            nullpk : BOOLEAN, mark : {"keep", "dead", "alive"}]
  /\ 1 \in DOMAIN o.ids /\ \A k \in DOMAIN o.ids : o.ids[k] \in Ids \cup {0}
  /\ o.kind \in {"create", "batch", "upsert"} => o.owner \in {"a", "b"}
  /\ o.kind \notin {"create", "batch"} => o.ids = <<1>>
  /\ o.kind = "update" => o.mark = "keep"
  /\ o.kind = "create" => o.ids = <<2>> \/ o = Op("create", <<0>>, "all", "a")
  /\ o.kind = "batch" => o.ids \in {<<0, 0>>, <<2, 0>>, <<2, 1>>}

LEMMA KeysAre == Ids \subseteq Nat \ {0} /\ 1 \in Ids /\ 2 \in Ids /\ IsFiniteSet(Ids)
<1>1. PICK n \in Nat : n >= 2 /\ Ids = 1 .. n  BY StorageAssumption
<1>2. IsFiniteSet(1 .. n)  BY <1>1, FS_Interval
<1> QED  BY <1>1, <1>2

LEMMA OpIs ==
  ASSUME NEW kind \in Kinds \cup {"none"}, NEW ids, NEW viewer \in {"all", "a"},
         NEW owner \in {"a", "b", "same"},
         ids \in Seq(Nat) /\ 1 \in DOMAIN ids /\ \A k \in DOMAIN ids : ids[k] \in Ids \cup {0},
         kind \in {"create", "batch", "upsert"} => owner \in {"a", "b"},
         kind \notin {"create", "batch"} => ids = << 1 >>,
         kind = "batch" => ids \in {<<0, 0>>, <<2, 0>>, <<2, 1>>},
         kind = "create" => ids = << 2 >> \/ (ids = << 0 >> /\ viewer = "all" /\ owner = "a")
  PROVE  IsOp(Op(kind, ids, viewer, owner)) /\ Op(kind, ids, viewer, owner).kind = kind
<1> DEFINE mark == CASE kind = "tombstone" -> "dead" [] kind = "restore" -> "alive" [] OTHER -> "keep"
           o == Op(kind, ids, viewer, owner)
<1>1. mark \in {"keep", "dead", "alive"} /\ (kind = "update" => mark = "keep")  OBVIOUS
<1>2. o = [kind |-> kind, ids |-> ids, viewer |-> viewer, owner |-> owner, nullpk |-> FALSE, mark |-> mark]
  BY DEF Op
<1>3. kind = "create" => ids = <<2>> \/ o = Op("create", <<0>>, "all", "a")  OBVIOUS
<1> HIDE DEF mark, o
<1>4. o \in [kind : Kinds \cup {"none"}, ids : Seq(Nat), viewer : {"all", "a"}, owner : {"a", "b", "same"},
             nullpk : BOOLEAN, mark : {"keep", "dead", "alive"}]  BY <1>1, <1>2
<1>6. o.kind = kind /\ o.ids = ids /\ o.owner = owner /\ o.mark = mark  BY <1>2
<1>8. IsOp(o)  BY <1>1, <1>3, <1>4, <1>6 DEF IsOp
<1> QED  BY <1>6, <1>8 DEF o

LEMMA OpsAre == ASSUME NEW o \in Operations PROVE IsOp(o) /\ o.kind \in Kinds
<1>0. 1 \in Ids /\ 2 \in Ids  BY KeysAre
<1> DEFINE Fits(ids) == ids \in Seq(Nat) /\ 1 \in DOMAIN ids /\ \A k \in DOMAIN ids : ids[k] \in Ids \cup {0}
<1>1. Fits(<<0>>) /\ Fits(<<1>>) /\ Fits(<<2>>) /\ Fits(<<0, 0>>) /\ Fits(<<2, 0>>) /\ Fits(<<2, 1>>)  BY <1>0
<1> DEFINE Good(p) == IsOp(p) /\ p.kind \in Kinds
           Plain(kind, ids, viewer, owner) ==
             /\ kind \in Kinds /\ viewer \in {"all", "a"} /\ owner \in {"a", "b", "same"} /\ Fits(ids)
             /\ kind \in {"create", "batch", "upsert"} => owner \in {"a", "b"}
             /\ kind \notin {"create", "batch"} => ids = <<1>>
             /\ kind = "batch" => ids \in {<<0, 0>>, <<2, 0>>, <<2, 1>>}
             /\ kind = "create" => ids = <<2>> \/ (ids = <<0>> /\ viewer = "all" /\ owner = "a")
<1>3. ASSUME NEW kind, NEW ids, NEW viewer, NEW owner, Plain(kind, ids, viewer, owner)
      PROVE  Good(Op(kind, ids, viewer, owner))  BY <1>3, OpIs
<1>4. Good([Op("update", <<1>>, "all", "same") EXCEPT !.nullpk = TRUE])
 <2> DEFINE p == Op("update", <<1>>, "all", "same")
            q == [p EXCEPT !.nullpk = TRUE]
 <2>1. Plain("update", <<1>>, "all", "same")
  <3> HIDE DEF Fits
  <3> QED  BY <1>1 DEF Kinds
 <2>2. Good(p)  BY <1>3, <2>1
 <2>3. p.kind = "update"  BY DEF Op
 <2> HIDE DEF p
 <2>4. q \in [kind : Kinds \cup {"none"}, ids : Seq(Nat), viewer : {"all", "a"}, owner : {"a", "b", "same"},
              nullpk : BOOLEAN, mark : {"keep", "dead", "alive"}]  BY <2>2 DEF IsOp
 <2>5. q.kind = p.kind /\ q.ids = p.ids /\ q.owner = p.owner /\ q.mark = p.mark  BY <2>2 DEF IsOp
 <2> HIDE DEF q
 <2>6. IsOp(q)  BY <2>2, <2>3, <2>4, <2>5 DEF IsOp
 <2> QED  BY <2>2, <2>5, <2>6 DEF p, q
<1>5. /\ Plain("create", <<0>>, "all", "a") /\ Plain("create", <<2>>, "all", "a")
      /\ Plain("batch", <<0, 0>>, "all", "a") /\ Plain("batch", <<2, 0>>, "all", "a") /\ Plain("batch", <<2, 1>>, "all", "a")
 <2> HIDE DEF Fits
 <2> QED  BY <1>1 DEF Kinds
<1>6. /\ \A v \in {"all", "a"} : \A k \in {"delete", "walk"} : Plain(k, <<1>>, v, "same")
      /\ \A v \in {"all", "a"} : \A w \in {"b", "same"} : Plain("update", <<1>>, v, w)
      /\ \A v \in {"all", "a"} : Plain("upsert", <<1>>, v, "b")
      /\ \A v \in {"all", "a"} : \A k \in {"tombstone", "restore", "purge"} : Plain(k, <<1>>, v, "same")
 <2> HIDE DEF Fits
 <2> QED  BY <1>1 DEF Kinds
<1> HIDE DEF Plain, Good, Fits
<1>7. ASSUME o \in Creates \cup Batches PROVE Good(o)  BY <1>3, <1>5, <1>7 DEF Creates, Batches
<1>8. ASSUME o \in Updates PROVE Good(o)
 <2>1. /\ Plain("update", <<1>>, "all", "b") /\ Plain("update", <<1>>, "a", "same")
       /\ Plain("update", <<1>>, "a", "b")  BY <1>6
 <2>2. /\ Good(Op("update", <<1>>, "all", "b")) /\ Good(Op("update", <<1>>, "a", "same"))
       /\ Good(Op("update", <<1>>, "a", "b"))  BY <1>3, <2>1
 <2>3. \/ o = Op("update", <<1>>, "all", "b") \/ o = Op("update", <<1>>, "a", "same")
       \/ o = Op("update", <<1>>, "a", "b") \/ o = [Op("update", <<1>>, "all", "same") EXCEPT !.nullpk = TRUE]
   BY <1>8 DEF Updates
 <2> QED  BY <1>4, <2>2, <2>3
<1>9. ASSUME o \in Upserts \cup Deletes \cup Walks PROVE Good(o)  BY <1>3, <1>6, <1>9 DEF Upserts, Deletes, Walks
<1>10. ASSUME o \in Tombstones \cup Restores \cup Purges PROVE Good(o)
  BY <1>3, <1>6, <1>10 DEF Tombstones, Restores, Purges
<1>11. Good(o)  BY <1>7, <1>8, <1>9, <1>10 DEF Operations
<1> QED  BY <1>11 DEF Good

LEMMA IdleIs == IsOp(Idle) /\ Idle.kind = "none"
BY KeysAre DEF Idle, Op, IsOp, Kinds

LEMMA FreshIs == ASSUME NEW o, IsOp(o) PROVE Fresh(o) \in Locals
BY DEF Fresh, IsOp, Locals

(* What every call keeps: the rows of a key are rows, finite in number and *)
(* one where the store sees to it, and hold their key where no engine      *)
(* takes it away; none appears in the name of another client.              *)
Holding == {"cassandra", "influxdb"}
AllKeyed(m) == \A x \in m : x.keyed
RowsOK(e, m) ==
  /\ m \in SUBSET Rows /\ IsFiniteSet(m)
  /\ e # "clickhouse" => \A x, y \in m : x = y
  /\ e \in Holding => AllKeyed(m)
Own(c, m, s) == \A r \in m : r.by # c => r \in s
IsTable(e, t) == t \in [Ids -> SUBSET Rows] /\ \A i \in Ids : RowsOK(e, t[i])
IsLocal(e, o, l) ==
  /\ l \in Locals /\ RowsOK(e, l.seen)
  /\ Len(l.ids) = Len(o.ids) /\ l.item < Len(l.ids)
  /\ \A k \in DOMAIN l.ids : l.ids[k] \in Ids \cup {0}
  /\ l.fills = (e # "elasticsearch")
Known(l) == \A k \in DOMAIN l.ids : l.ids[k] \in Ids

\* A call is made by a client on a table, with what it remembers.
Calling(e, t, c, o, l, name) ==
  /\ e \in AllEngines /\ c \in Clients /\ IsOp(o) /\ IsLocal(e, o, l) /\ IsTable(e, t)
  /\ name \in Adding => o.owner \in {"a", "b"}
  /\ name \notin Naming => Known(l)
  /\ name = "Append1" => e = "clickhouse"
  /\ name \in {"Bulk", "Undo"} => e = "elasticsearch"

\* What it says, where it writes, and what it remembers then.
Says(t, name, x) ==
  /\ x.says \in {"on", "again", "notfound", "conflict", "backend"}
  /\ x.says \in {"notfound", "conflict", "backend"} => x.table = t
  /\ x.says = "notfound" => name \in MayMiss
  /\ x.says = "conflict" => name \in MayClash
  /\ x.says = "again" => name \in {"Undo", "Turn"}
Writes(e, t, c, o, l, name, x) ==
  /\ IsTable(e, x.table)
  /\ name \notin Writing => x.table = t
  /\ \A i \in Ids : Own(c, x.table[i], t[i])
  /\ name \in Changing => \A i \in Ids \ {1} : x.table[i] = t[i]
  /\ name \in Adding => \A i \in Ids : t[i] \subseteq x.table[i] \/ (name = "Put" /\ \E k \in DOMAIN l.ids : l.ids[k] = i)
Remembers(e, o, l, name, x) ==
  /\ IsLocal(e, o, x.local)
  /\ l.cleared => x.local.cleared
  /\ name \in {"Probe", "Recheck"} /\ x.says = "on" => x.local.cleared
  /\ name \notin Naming => x.local.ids = l.ids
  /\ name \in Naming /\ x.says = "on" => Known(x.local)
  /\ name \notin {"EnsureIdFree", "Append1"} => x.local.item = l.item
  /\ name \notin {"Bulk", "Undo"} => x.local.landed = l.landed /\ x.local.failed = l.failed
  /\ name # "Turn" => x.local.paged = l.paged /\ x.local.cursor = l.cursor /\ x.local.got = l.got
Tame(e, t, c, o, l, name, x) ==
  Says(t, name, x) /\ Writes(e, t, c, o, l, name, x) /\ Remembers(e, o, l, name, x)

LEMMA OutcomeIs ==
  ASSUME NEW t, NEW l, NEW says, NEW x \in After(t, l, says)
  PROVE  x.table = t /\ x.local = l /\ x.says = says
BY DEF After

LEMMA UnlessIs ==
  ASSUME NEW bad \in BOOLEAN, NEW why, NEW t, NEW l, NEW x \in Unless(bad, why, t, l)
  PROVE  x.table = t /\ x.local = l /\ (IF bad THEN x.says = why ELSE x.says = "on")
BY DEF Unless, After

\* Locals but for one of their parts.
LEMMA LocalIs ==
  ASSUME NEW l \in Locals
  PROVE  /\ l = [seen |-> l.seen, cleared |-> l.cleared, ids |-> l.ids, item |-> l.item, landed |-> l.landed,
                 failed |-> l.failed, fills |-> l.fills, paged |-> l.paged, cursor |-> l.cursor, got |-> l.got]
         /\ l.seen \in SUBSET Rows /\ l.ids \in Seq(Nat) /\ l.item \in Nat /\ l.landed \in SUBSET Ids
         /\ l.cursor \in Nat /\ l.got \in Seq(Nat)
         /\ l.cleared \in BOOLEAN /\ l.failed \in BOOLEAN /\ l.fills \in BOOLEAN /\ l.paged \in BOOLEAN
<1>1. /\ l.seen \in SUBSET Rows /\ l.ids \in Seq(Nat) /\ l.item \in Nat /\ l.landed \in SUBSET Ids
      /\ l.cursor \in Nat /\ l.got \in Seq(Nat)  BY DEF Locals
<1>2. l.cleared \in BOOLEAN  BY DEF Locals
<1>3. l.failed \in BOOLEAN  BY DEF Locals
<1>4. l.fills \in BOOLEAN  BY DEF Locals
<1>5. l.paged \in BOOLEAN  BY DEF Locals
<1>6. l = [seen |-> l.seen, cleared |-> l.cleared, ids |-> l.ids, item |-> l.item, landed |-> l.landed,
           failed |-> l.failed, fills |-> l.fills, paged |-> l.paged, cursor |-> l.cursor, got |-> l.got]
  BY DEF Locals
<1> QED  BY <1>1, <1>2, <1>3, <1>4, <1>5, <1>6

LEMMA SeenPut ==
  ASSUME NEW l \in Locals, NEW m \in SUBSET Rows, NEW k, k = [l EXCEPT !.seen = m]
  PROVE  /\ k.seen = m /\ k.cleared = l.cleared /\ k.ids = l.ids /\ k.item = l.item /\ k.landed = l.landed
         /\ k.failed = l.failed /\ k.fills = l.fills /\ k.paged = l.paged /\ k.cursor = l.cursor /\ k.got = l.got
         /\ k \in Locals
BY LocalIs DEF Locals

LEMMA IdsPut ==
  ASSUME NEW l \in Locals, NEW m \in Seq(Nat), NEW k, k = [l EXCEPT !.ids = m]
  PROVE  /\ k.seen = l.seen /\ k.cleared = l.cleared /\ k.ids = m /\ k.item = l.item /\ k.landed = l.landed
         /\ k.failed = l.failed /\ k.fills = l.fills /\ k.paged = l.paged /\ k.cursor = l.cursor /\ k.got = l.got
         /\ k \in Locals
BY LocalIs DEF Locals

LEMMA ItemPut ==
  ASSUME NEW l \in Locals, NEW m \in Nat, NEW k, k = [l EXCEPT !.item = m]
  PROVE  /\ k.seen = l.seen /\ k.cleared = l.cleared /\ k.ids = l.ids /\ k.item = m /\ k.landed = l.landed
         /\ k.failed = l.failed /\ k.fills = l.fills /\ k.paged = l.paged /\ k.cursor = l.cursor /\ k.got = l.got
         /\ k \in Locals
BY LocalIs DEF Locals

LEMMA LandedPut ==
  ASSUME NEW l \in Locals, NEW m \in SUBSET Ids, NEW k, k = [l EXCEPT !.landed = m]
  PROVE  /\ k.seen = l.seen /\ k.cleared = l.cleared /\ k.ids = l.ids /\ k.item = l.item /\ k.landed = m
         /\ k.failed = l.failed /\ k.fills = l.fills /\ k.paged = l.paged /\ k.cursor = l.cursor /\ k.got = l.got
         /\ k \in Locals
BY LocalIs DEF Locals

LEMMA RowIs ==
  ASSUME NEW c \in Clients, NEW o, IsOp(o), o.owner \in {"a", "b"}, NEW keyed \in BOOLEAN
  PROVE  NewRow(c, o, keyed) \in Rows /\ NewRow(c, o, keyed).by = c /\ NewRow(c, o, keyed).keyed = keyed
BY DEF NewRow, Rows

LEMMA PatchIs ==
  ASSUME NEW c \in Clients, NEW o, IsOp(o), NEW r \in Rows
  PROVE  /\ Patched(c, o, r) \in Rows /\ Patched(c, o, r).by = c /\ Patched(c, o, r).keyed = r.keyed
         /\ o.mark = "keep" => Patched(c, o, r).dead = r.dead
<1> DEFINE own == IF o.owner = "same" THEN r.owner ELSE o.owner
           dd == CASE o.mark = "keep" -> r.dead [] o.mark = "dead" -> TRUE [] OTHER -> FALSE
<1>1. r = [by |-> r.by, owner |-> r.owner, keyed |-> r.keyed, dead |-> r.dead]  BY DEF Rows
<1>2. own \in {"a", "b", "null"} /\ (o.mark = "keep" => dd = r.dead)  BY DEF IsOp, Rows
<1>3. dd \in BOOLEAN
 <2>1. CASE o.mark = "keep"  BY <2>1 DEF Rows
 <2>2. CASE o.mark = "dead"  BY <2>2
 <2>3. CASE o.mark \notin {"keep", "dead"}  BY <2>3
 <2> QED  BY <2>1, <2>2, <2>3
<1>4. Patched(c, o, r) = [r EXCEPT !.by = c, !.owner = own, !.dead = dd]  BY Zenon DEF Patched
<1> HIDE DEF own, dd
<1>5. [r EXCEPT !.by = c, !.owner = own, !.dead = dd] \in Rows  BY <1>2, <1>3 DEF Rows
<1>6. /\ [r EXCEPT !.by = c, !.owner = own, !.dead = dd].by = c
      /\ [r EXCEPT !.by = c, !.owner = own, !.dead = dd].keyed = r.keyed
      /\ [r EXCEPT !.by = c, !.owner = own, !.dead = dd].dead = dd  BY <1>1
<1> QED  BY <1>2, <1>4, <1>5, <1>6

LEMMA UnkeyIs ==
  ASSUME NEW o, NEW r \in Rows
  PROVE  Unkeyed(o, r) \in Rows /\ Unkeyed(o, r).by = r.by /\ Unkeyed(o, r).dead = r.dead
BY DEF Unkeyed, Rows

\* What may take the place of the rows of a key.
LEMMA Nothing == ASSUME NEW e PROVE RowsOK(e, {}) /\ \A c, s : Own(c, {}, s)
BY FS_EmptySet DEF RowsOK, Own, AllKeyed

LEMMA OneRow ==
  ASSUME NEW e, NEW c, NEW r \in Rows, r.by = c, e \in Holding => r.keyed, NEW m, m = {r}
  PROVE  RowsOK(e, m) /\ \A s : Own(c, m, s)
BY FS_Singleton DEF RowsOK, Own, AllKeyed

LEMMA Fewer ==
  ASSUME NEW e, NEW s, RowsOK(e, s), NEW m \in SUBSET s
  PROVE  RowsOK(e, m) /\ \A c : Own(c, m, s)
<1>1. IsFiniteSet(m)  BY FS_Subset DEF RowsOK
<1> QED  BY <1>1 DEF RowsOK, Own, AllKeyed

LEMMA OneMore ==
  ASSUME NEW s, RowsOK("clickhouse", s), NEW c, NEW r \in Rows, r.by = c, NEW m, m = s \cup {r}
  PROVE  RowsOK("clickhouse", m) /\ Own(c, m, s)
<1>1. IsFiniteSet(m)  BY FS_AddElement DEF RowsOK
<1> QED  BY <1>1 DEF RowsOK, Own, Holding

LEMMA TableOf ==
  ASSUME NEW e, NEW u, DOMAIN u = Ids, u = [i \in DOMAIN u |-> u[i]], \A i \in Ids : RowsOK(e, u[i])
  PROVE  IsTable(e, u)
BY DEF IsTable, RowsOK

\* A call that looks only.
LEMMA Looking ==
  ASSUME NEW e, NEW t, NEW c, NEW o, NEW l, NEW name \in Names \ Writing, Calling(e, t, c, o, l, name),
         NEW x, x.table = t, Says(t, name, x), Remembers(e, o, l, name, x)
  PROVE  Tame(e, t, c, o, l, name, x)
<1>1. name \notin Changing /\ name \notin Adding  BY DEF Writing
<1> QED  BY <1>1 DEF Tame, Writes, Own, Calling

(* The calls that look.                                                    *)
LEMMA FindsScope ==
  ASSUME NEW e \in AllEngines \ {"elasticsearch"}, NEW v, NEW r, Finds(e, v, r)
  PROVE  InScope(v, r)
BY DEF Finds, MemoryGet, SeaormGet, MongoGet, CassandraGet, InfluxGet, ClickhouseGet, AllEngines

LEMMA FoundIs ==
  ASSUME NEW e, NEW t, IsTable(e, t), NEW o, IsOp(o), o.ids = << 1 >>
  PROVE  Found(e, t, o) \subseteq t[1] /\ RowsOK(e, Found(e, t, o))
<1>1. Found(e, t, o) \subseteq t[1]  BY DEF Found
<1>2. RowsOK(e, t[1])  BY KeysAre DEF IsTable
<1> QED  BY <1>1, <1>2, Fewer

LEMMA SeenChange ==
  ASSUME NEW e, NEW o, NEW l, IsLocal(e, o, l), NEW m, RowsOK(e, m)
  PROVE  LET k == [l EXCEPT !.seen = m]
         IN  /\ IsLocal(e, o, k) /\ k.cleared = l.cleared /\ k.ids = l.ids /\ k.item = l.item /\ k.landed = l.landed
             /\ k.failed = l.failed /\ k.paged = l.paged /\ k.cursor = l.cursor /\ k.got = l.got
<1> DEFINE k == [l EXCEPT !.seen = m]
<1>1. l \in Locals /\ m \in SUBSET Rows  BY DEF IsLocal, RowsOK
<1>2. /\ k.seen = m /\ k.cleared = l.cleared /\ k.ids = l.ids /\ k.item = l.item /\ k.landed = l.landed
      /\ k.failed = l.failed /\ k.fills = l.fills /\ k.paged = l.paged /\ k.cursor = l.cursor /\ k.got = l.got
      /\ k \in Locals  BY <1>1, SeenPut
<1> HIDE DEF k
<1>3. IsLocal(e, o, k)  BY <1>2 DEF IsLocal
<1> QED  BY <1>2, <1>3 DEF k

LEMMA ClearedChange ==
  ASSUME NEW e, NEW o, NEW l, IsLocal(e, o, l)
  PROVE  LET k == [l EXCEPT !.cleared = TRUE]
         IN  /\ IsLocal(e, o, k) /\ k.seen = l.seen /\ k.cleared /\ k.ids = l.ids /\ k.item = l.item /\ k.landed = l.landed
             /\ k.failed = l.failed /\ k.paged = l.paged /\ k.cursor = l.cursor /\ k.got = l.got
<1> DEFINE k == [l EXCEPT !.cleared = TRUE]
<1>1. l \in Locals  BY DEF IsLocal
<1>2. /\ k.seen = l.seen /\ k.cleared /\ k.ids = l.ids /\ k.item = l.item /\ k.landed = l.landed
      /\ k.failed = l.failed /\ k.fills = l.fills /\ k.paged = l.paged /\ k.cursor = l.cursor /\ k.got = l.got
      /\ k \in Locals  BY <1>1 DEF Locals
<1> HIDE DEF k
<1>3. IsLocal(e, o, k)  BY <1>2 DEF IsLocal
<1> QED  BY <1>2, <1>3 DEF k

\* Neither the table nor what it remembers changes.
LEMMA Idly ==
  ASSUME NEW e, NEW t, NEW c, NEW o, NEW l, NEW name \in Names \ Writing, Calling(e, t, c, o, l, name),
         name \notin {"Probe", "Recheck"} \cup Naming, NEW bad \in BOOLEAN, NEW why \in {"notfound", "conflict", "backend"},
         why = "notfound" => name \in MayMiss, why = "conflict" => name \in MayClash,
         NEW x \in Unless(bad, why, t, l)
  PROVE  Tame(e, t, c, o, l, name, x)
<1>1. x.table = t /\ x.local = l /\ x.says \in {why, "on"}  BY UnlessIs
<1>2. Says(t, name, x)  BY <1>1 DEF Says
<1>3. Remembers(e, o, l, name, x)  BY <1>1 DEF Remembers, Calling
<1> QED  BY <1>1, <1>2, <1>3, Looking

LEMMA ProbeTame ==
  ASSUME NEW e, NEW t, NEW c, NEW o, NEW l, Calling(e, t, c, o, l, "Probe"), o.ids = << 1 >>, NEW x \in Probe(e, t, o, l)
  PROVE  Tame(e, t, c, o, l, "Probe", x)
<1> DEFINE rows == Found(e, t, o)
<1>0. rows \subseteq t[1] /\ RowsOK(e, rows) /\ IsLocal(e, o, l)  BY FoundIs DEF Calling
<1>1. CASE rows = {}
 <2>1. x.table = t /\ x.local = l /\ x.says = "notfound"  BY <1>1 DEF Probe, Refuse, After
 <2>2. Says(t, "Probe", x)  BY <2>1 DEF Says, MayMiss
 <2>3. Remembers(e, o, l, "Probe", x)  BY <2>1, <1>0 DEF Remembers, Naming
 <2> QED  BY <2>1, <2>2, <2>3, Looking DEF Names, Writing, Adding, Changing
<1>2. CASE rows # {}
 <2>1. PICK r \in rows : x = [table |-> t, local |-> [l EXCEPT !.seen = {r}, !.cleared = TRUE], says |-> "on"]
   BY <1>2 DEF Probe
 <2> DEFINE m == [l EXCEPT !.seen = {r}]
            k == [m EXCEPT !.cleared = TRUE]
 <2>2. RowsOK(e, {r})  BY <1>0, Fewer
 <2>3. /\ IsLocal(e, o, m) /\ m.cleared = l.cleared /\ m.ids = l.ids /\ m.item = l.item /\ m.landed = l.landed
       /\ m.failed = l.failed /\ m.paged = l.paged /\ m.cursor = l.cursor /\ m.got = l.got
   BY <1>0, <2>2, SeenChange
 <2>4. x.local = k /\ x.table = t /\ x.says = "on"  BY <2>1
 <2> HIDE DEF m
 <2>5. /\ IsLocal(e, o, k) /\ k.cleared /\ k.ids = m.ids /\ k.item = m.item /\ k.landed = m.landed
       /\ k.failed = m.failed /\ k.paged = m.paged /\ k.cursor = m.cursor /\ k.got = m.got  BY <2>3, ClearedChange
 <2> HIDE DEF k
 <2>6. Says(t, "Probe", x)  BY <2>4 DEF Says
 <2>7. Remembers(e, o, l, "Probe", x)  BY <2>3, <2>4, <2>5 DEF Remembers, Naming
 <2> QED  BY <2>4, <2>6, <2>7, Looking DEF Names, Writing, Adding, Changing
<1> QED  BY <1>1, <1>2

LEMMA PeekTame ==
  ASSUME NEW e, NEW t, NEW c, NEW o, NEW l, Calling(e, t, c, o, l, "Peek"), o.ids = << 1 >>, NEW x \in Peek(e, t, o, l)
  PROVE  Tame(e, t, c, o, l, "Peek", x)
<1> DEFINE m == [l EXCEPT !.seen = Found(e, t, o)]
<1>0. RowsOK(e, Found(e, t, o)) /\ IsLocal(e, o, l)  BY FoundIs DEF Calling
<1>1. x.table = t /\ x.local = m /\ x.says = "on"  BY DEF Peek, After
<1>2. /\ IsLocal(e, o, m) /\ m.cleared = l.cleared /\ m.ids = l.ids /\ m.item = l.item /\ m.landed = l.landed
      /\ m.failed = l.failed /\ m.paged = l.paged /\ m.cursor = l.cursor /\ m.got = l.got  BY <1>0, SeenChange
<1> HIDE DEF m
<1>3. Says(t, "Peek", x)  BY <1>1 DEF Says
<1>4. Remembers(e, o, l, "Peek", x)  BY <1>1, <1>2 DEF Remembers, Naming
<1> QED  BY <1>1, <1>3, <1>4, Looking DEF Names, Writing, Adding, Changing

LEMMA ReadDocTame ==
  ASSUME NEW e, NEW t, NEW c, NEW o, NEW l, Calling(e, t, c, o, l, "ReadDoc"), o.ids = << 1 >>, NEW x \in ReadDoc(t, o, l)
  PROVE  Tame(e, t, c, o, l, "ReadDoc", x)
<1> DEFINE m == [l EXCEPT !.seen = t[1]]
<1>0. RowsOK(e, t[1]) /\ IsLocal(e, o, l)  BY KeysAre DEF Calling, IsTable
<1>1. x.table = t /\ x.local = m /\ x.says \in {"notfound", "on"}  BY DEF ReadDoc, Unless, After
<1>2. /\ IsLocal(e, o, m) /\ m.cleared = l.cleared /\ m.ids = l.ids /\ m.item = l.item /\ m.landed = l.landed
      /\ m.failed = l.failed /\ m.paged = l.paged /\ m.cursor = l.cursor /\ m.got = l.got  BY <1>0, SeenChange
<1> HIDE DEF m
<1>3. Says(t, "ReadDoc", x)  BY <1>1 DEF Says, MayMiss
<1>4. Remembers(e, o, l, "ReadDoc", x)  BY <1>1, <1>2 DEF Remembers, Naming
<1> QED  BY <1>1, <1>3, <1>4, Looking DEF Names, Writing, Adding, Changing

LEMMA RecheckTame ==
  ASSUME NEW e, NEW t, NEW c, NEW o, NEW l, Calling(e, t, c, o, l, "Recheck"), NEW x \in Recheck(t, o, l)
  PROVE  Tame(e, t, c, o, l, "Recheck", x)
<1> DEFINE m == [l EXCEPT !.cleared = TRUE]
<1>0. IsLocal(e, o, l)  BY DEF Calling
<1>1. x.table = t /\ x.local = m /\ x.says \in {"notfound", "on"}  BY DEF Recheck, Unless, After
<1>2. /\ IsLocal(e, o, m) /\ m.cleared /\ m.ids = l.ids /\ m.item = l.item /\ m.landed = l.landed
      /\ m.failed = l.failed /\ m.paged = l.paged /\ m.cursor = l.cursor /\ m.got = l.got  BY <1>0, ClearedChange
<1> HIDE DEF m
<1>3. Says(t, "Recheck", x)  BY <1>1 DEF Says, MayMiss
<1>4. Remembers(e, o, l, "Recheck", x)  BY <1>1, <1>2 DEF Remembers, Naming
<1> QED  BY <1>1, <1>3, <1>4, Looking DEF Names, Writing, Adding, Changing

LEMMA NeedTame ==
  ASSUME NEW e, NEW t, NEW c, NEW o, NEW l, NEW name \in {"NeedAlive", "NeedDead"}, Calling(e, t, c, o, l, name),
         NEW dead, NEW x \in AliveProbe(e, t, o, l, dead)
  PROVE  Tame(e, t, c, o, l, name, x)
BY Idly DEF AliveProbe, Names, Writing, Adding, Changing, Naming, MayMiss

LEMMA FetchUnscopedTame ==
  ASSUME NEW e, NEW t, NEW c, NEW o, NEW l, Calling(e, t, c, o, l, "FetchUnscoped"), NEW x \in FetchUnscoped(t, l)
  PROVE  Tame(e, t, c, o, l, "FetchUnscoped", x)
BY Idly DEF FetchUnscoped, Names, Writing, Adding, Changing, Naming, MayMiss

LEMMA FetchAllIdsTame ==
  ASSUME NEW e, NEW t, NEW c, NEW o, NEW l, Calling(e, t, c, o, l, "FetchAllIds"), NEW x \in FetchAllIds(t, l)
  PROVE  Tame(e, t, c, o, l, "FetchAllIds", x)
BY Idly DEF FetchAllIds, Names, Writing, Adding, Changing, Naming, MayClash

LEMMA PollGoneTame ==
  ASSUME NEW e, NEW t, NEW c, NEW o, NEW l, Calling(e, t, c, o, l, "PollGone"), NEW x \in PollGone(e, t, o, l)
  PROVE  Tame(e, t, c, o, l, "PollGone", x)
<1>1. x \in Unless(Found(e, t, o) # {}, "backend", t, l)  BY DEF PollGone, Refuse, Unless, After
<1> QED  BY <1>1, Idly DEF Names, Writing, Adding, Changing, Naming

LEMMA IdsChange ==
  ASSUME NEW e, NEW o, NEW l, IsLocal(e, o, l), NEW m \in Seq(Ids), Len(m) = Len(o.ids)
  PROVE  LET k == [l EXCEPT !.ids = m]
         IN  /\ IsLocal(e, o, k) /\ Known(k) /\ k.cleared = l.cleared /\ k.ids = m /\ k.item = l.item /\ k.landed = l.landed
             /\ k.failed = l.failed /\ k.paged = l.paged /\ k.cursor = l.cursor /\ k.got = l.got
<1> DEFINE k == [l EXCEPT !.ids = m]
<1>0. \A j \in DOMAIN m : m[j] \in Ids  OBVIOUS
<1>1. l \in Locals /\ m \in Seq(Nat) /\ \A j \in DOMAIN m : m[j] \in Ids
 <2>1. Ids \subseteq Nat  BY KeysAre
 <2>2. m \in Seq(Nat)  BY <2>1, SeqMonotonic
 <2>3. l \in Locals  BY DEF IsLocal
 <2> QED  BY <1>0, <2>2, <2>3
<1>2. /\ k.seen = l.seen /\ k.cleared = l.cleared /\ k.ids = m /\ k.item = l.item /\ k.landed = l.landed
      /\ k.failed = l.failed /\ k.fills = l.fills /\ k.paged = l.paged /\ k.cursor = l.cursor /\ k.got = l.got
      /\ k \in Locals  BY <1>1, IdsPut
<1> HIDE DEF k
<1>3. IsLocal(e, o, k)  BY <1>1, <1>2 DEF IsLocal
<1>4. Known(k)  BY <1>1, <1>2 DEF Known
<1> QED  BY <1>2, <1>3, <1>4 DEF k

LEMMA ItemChange ==
  ASSUME NEW e, NEW o, NEW l, IsLocal(e, o, l), NEW m \in Nat, m < Len(l.ids)
  PROVE  LET k == [l EXCEPT !.item = m]
         IN  /\ IsLocal(e, o, k) /\ k.cleared = l.cleared /\ k.ids = l.ids /\ k.item = m /\ k.landed = l.landed
             /\ k.failed = l.failed /\ k.paged = l.paged /\ k.cursor = l.cursor /\ k.got = l.got
<1> DEFINE k == [l EXCEPT !.item = m]
<1>1. l \in Locals  BY DEF IsLocal
<1>2. /\ k.seen = l.seen /\ k.cleared = l.cleared /\ k.ids = l.ids /\ k.item = m /\ k.landed = l.landed
      /\ k.failed = l.failed /\ k.fills = l.fills /\ k.paged = l.paged /\ k.cursor = l.cursor /\ k.got = l.got
      /\ k \in Locals  BY <1>1, ItemPut
<1> HIDE DEF k
<1>3. IsLocal(e, o, k)  BY <1>2 DEF IsLocal
<1> QED  BY <1>2, <1>3 DEF k

\* The next of the items, after the last the first.
NextItem(l) == (l.item + 1) % Len(l.ids)
LEMMA NextItemIs ==
  ASSUME NEW e, NEW o, NEW l, IsLocal(e, o, l), IsOp(o)
  PROVE  /\ NextItem(l) \in Nat /\ NextItem(l) < Len(l.ids) /\ l.item + 1 \in DOMAIN l.ids
         /\ NextItem(l) = (IF l.item + 1 = Len(l.ids) THEN 0 ELSE l.item + 1)
<1>1. l.item \in Nat /\ l.ids \in Seq(Nat) /\ l.item < Len(l.ids) /\ l \in Locals  BY DEF IsLocal, Locals
<1>2. Len(l.ids) \in Nat /\ DOMAIN l.ids = 1 .. Len(l.ids)  BY <1>1
<1>3. \A n \in Nat, i \in Nat : i < n => (i + 1) % n = (IF i + 1 = n THEN 0 ELSE i + 1)
 <2> TAKE n \in Nat, i \in Nat
 <2> HAVE i < n
 <2>1. CASE i + 1 = n
  <3>1. n % n = 0  OBVIOUS
  <3> QED  BY <2>1, <3>1
 <2>2. CASE i + 1 < n  BY <2>2
 <2> QED  BY <2>1, <2>2
<1> DEFINE i == l.item
           n == Len(l.ids)
<1> HIDE DEF i, n
<1>6. i \in Nat /\ n \in Nat /\ i < n  BY <1>1, <1>2 DEF i, n
<1>7. (i + 1) % n = (IF i + 1 = n THEN 0 ELSE i + 1)  BY <1>3, <1>6
<1>4. NextItem(l) = (IF l.item + 1 = Len(l.ids) THEN 0 ELSE l.item + 1)  BY <1>7 DEF NextItem, i, n
<1> QED  BY <1>1, <1>2, <1>4

LEMMA NumberedIs ==
  ASSUME NEW o, IsOp(o), NEW n, NEW ids, ids = Numbered(o.ids, n), Range(ids) \subseteq Ids
  PROVE  ids \in Seq(Ids) /\ Len(ids) = Len(o.ids)
<1>1. o.ids \in Seq(Nat)  BY DEF IsOp
<1>2. DOMAIN ids = 1 .. Len(o.ids) /\ Len(o.ids) \in Nat  BY <1>1 DEF Numbered
<1>3. \A k \in DOMAIN ids : ids[k] \in Ids  BY DEF Range
<1>4. ids = [k \in 1 .. Len(o.ids) |-> ids[k]]  BY <1>1 DEF Numbered
<1>5. ids \in [1 .. Len(o.ids) -> Ids]  BY <1>2, <1>3, <1>4
<1> QED  BY <1>2, <1>5

LEMMA NextIdsTame ==
  ASSUME NEW e, NEW t, NEW c, NEW o, NEW l, Calling(e, t, c, o, l, "NextIds"), NEW x \in NextIds(t, o, l)
  PROVE  Tame(e, t, c, o, l, "NextIds", x)
<1> DEFINE top == Max({0} \cup {i \in DOMAIN t : \E r \in t[i] : r.keyed})
           ids == Numbered(o.ids, top + 1)
           k == [l EXCEPT !.ids = ids]
<1>1. Range(ids) \subseteq Ids /\ x \in Unless(~IsInjective(ids), "conflict", t, k)  BY DEF NextIds
<1> HIDE DEF top
<1>2. ids \in Seq(Ids) /\ Len(ids) = Len(o.ids)  BY <1>1, NumberedIs DEF Calling
<1>0. IsLocal(e, o, l)  BY DEF Calling
<1> HIDE DEF ids
<1>3. /\ IsLocal(e, o, k) /\ Known(k) /\ k.cleared = l.cleared /\ k.ids = ids /\ k.item = l.item /\ k.landed = l.landed
      /\ k.failed = l.failed /\ k.paged = l.paged /\ k.cursor = l.cursor /\ k.got = l.got  BY <1>0, <1>2, IdsChange
<1>4. x.table = t /\ x.local = k /\ x.says \in {"conflict", "on"}  BY <1>1 DEF Unless, After
<1> HIDE DEF k
<1>5. Says(t, "NextIds", x)  BY <1>4 DEF Says, MayClash
<1>6. Remembers(e, o, l, "NextIds", x)  BY <1>3, <1>4 DEF Remembers, Naming
<1> QED  BY <1>4, <1>5, <1>6, Looking DEF Names, Writing, Adding, Changing

LEMMA EnsureIdFreeTame ==
  ASSUME NEW e, NEW t, NEW c, NEW o, NEW l, Calling(e, t, c, o, l, "EnsureIdFree"), NEW x \in EnsureIdFree(t, l)
  PROVE  Tame(e, t, c, o, l, "EnsureIdFree", x) /\ x.local.item = NextItem(l)
<1> DEFINE k == [l EXCEPT !.item = NextItem(l)]
<1>0. IsLocal(e, o, l) /\ IsOp(o)  BY DEF Calling
<1>1. x.table = t /\ x.local = k /\ x.says \in {"conflict", "on"}  BY DEF Unless, After, EnsureIdFree, NextItem
<1>2. NextItem(l) \in Nat /\ NextItem(l) < Len(l.ids)  BY <1>0, NextItemIs
<1>3. /\ IsLocal(e, o, k) /\ k.cleared = l.cleared /\ k.ids = l.ids /\ k.item = NextItem(l) /\ k.landed = l.landed
      /\ k.failed = l.failed /\ k.paged = l.paged /\ k.cursor = l.cursor /\ k.got = l.got  BY <1>0, <1>2, ItemChange
<1> HIDE DEF k
<1>5. Says(t, "EnsureIdFree", x)  BY <1>1 DEF Says, MayClash
<1>6. Remembers(e, o, l, "EnsureIdFree", x)  BY <1>1, <1>3 DEF Remembers, Naming
<1> QED  BY <1>1, <1>3, <1>5, <1>6, Looking DEF Names, Writing, Adding, Changing

(* The calls that write.                                                   *)
Mine(c, m) == \E r \in m : r.by = c
Placed(c, u, ids) == \A k \in DOMAIN ids : Mine(c, u[ids[k]])

LEMMA InsertAllIs ==
  ASSUME NEW e, NEW t, NEW c \in Clients, NEW o, IsOp(o), o.owner \in {"a", "b"}, IsTable(e, t),
         NEW l, Known(l), NEW x \in InsertAll(t, c, o, l)
  PROVE  /\ x.local = l
         /\ \/ x.says = "conflict" /\ x.table = t
            \/ /\ x.says = "on" /\ IsTable(e, x.table) /\ Placed(c, x.table, l.ids)
               /\ \A i \in Ids : Own(c, x.table[i], t[i]) /\ t[i] \subseteq x.table[i]
<1> DEFINE bad == ~IsInjective(l.ids) \/ \E i \in Range(l.ids) : t[i] # {}
           u == Stored(t, c, o, l.ids, TRUE)
<1>0. x \in IF bad THEN Refuse(t, l, "conflict") ELSE After(u, l, "on")  BY Zenon DEF InsertAll
<1>1. CASE bad
 <2> HIDE DEF bad, u
 <2> QED  BY <1>0, <1>1 DEF Refuse, After
<1>2. CASE ~bad
 <2>1. x.local = l /\ x.says = "on" /\ x.table = u
  <3> HIDE DEF bad, u
  <3> QED  BY <1>0, <1>2 DEF After
 <2>2. \A i \in Range(l.ids) : t[i] = {}  BY <1>2
 <2>3. \A k \in DOMAIN l.ids : l.ids[k] \in Range(l.ids) /\ l.ids[k] \in Ids  BY DEF Range, Known
 <2> DEFINE r == NewRow(c, o, TRUE)
 <2>4. r \in Rows /\ r.by = c /\ r.keyed  BY RowIs
 <2>5. DOMAIN t = Ids  BY DEF IsTable
 <2>6. /\ DOMAIN u = Ids /\ u = [i \in DOMAIN u |-> u[i]]
       /\ \A i \in Ids : u[i] = IF i \in Range(l.ids) THEN {r} ELSE t[i]  BY <2>5 DEF Stored
 <2> HIDE DEF u, r
 <2>7. ASSUME NEW i \in Ids PROVE RowsOK(e, u[i]) /\ Own(c, u[i], t[i]) /\ t[i] \subseteq u[i]
  <3>1. CASE i \in Range(l.ids)
   <4>1. u[i] = {r} /\ t[i] = {}  BY <2>2, <2>6, <3>1
   <4> QED  BY <4>1, <2>4, OneRow
  <3>2. CASE i \notin Range(l.ids)  BY <2>6, <3>2 DEF IsTable, Own
  <3> QED  BY <3>1, <3>2
 <2>8. IsTable(e, u)  BY <2>6, <2>7, TableOf
 <2>9. Placed(c, u, l.ids)  BY <2>3, <2>4, <2>6 DEF Placed, Mine
 <2> QED  BY <2>1, <2>7, <2>8, <2>9
<1> QED  BY <1>1, <1>2

LEMMA InsertAllTame ==
  ASSUME NEW e, NEW t, NEW c, NEW o, NEW l, Calling(e, t, c, o, l, "InsertAll"), NEW x \in InsertAll(t, c, o, l)
  PROVE  Tame(e, t, c, o, l, "InsertAll", x) /\ (x.says = "on" => Placed(c, x.table, x.local.ids))
<1>1. c \in Clients /\ IsOp(o) /\ o.owner \in {"a", "b"} /\ IsTable(e, t) /\ Known(l) /\ IsLocal(e, o, l)
  BY DEF Calling, Adding, Naming
<1>2. /\ x.local = l
      /\ \/ x.says = "conflict" /\ x.table = t
         \/ /\ x.says = "on" /\ IsTable(e, x.table) /\ Placed(c, x.table, l.ids)
            /\ \A i \in Ids : Own(c, x.table[i], t[i]) /\ t[i] \subseteq x.table[i]  BY <1>1, InsertAllIs
<1>3. Says(t, "InsertAll", x)  BY <1>2 DEF Says, MayClash
<1>4. Writes(e, t, c, o, l, "InsertAll", x)  BY <1>1, <1>2 DEF Writes, Writing, Adding, Changing, Own
<1>5. Remembers(e, o, l, "InsertAll", x)  BY <1>1, <1>2 DEF Remembers, Naming
<1> QED  BY <1>2, <1>3, <1>4, <1>5 DEF Tame

LEMMA InsertClaimedTame ==
  ASSUME NEW e, NEW t, NEW c, NEW o, NEW l, Calling(e, t, c, o, l, "InsertClaimed"), NEW x \in InsertClaimed(t, c, o, l)
  PROVE  Tame(e, t, c, o, l, "InsertClaimed", x) /\ (x.says = "on" => Placed(c, x.table, x.local.ids))
<1>1. /\ c \in Clients /\ IsOp(o) /\ o.owner \in {"a", "b"} /\ IsTable(e, t) /\ IsLocal(e, o, l)
      /\ DOMAIN t = Ids  BY DEF Calling, Adding, IsTable
<1>2. CASE x \in Refuse(t, l, "conflict")
 <2>1. x.table = t /\ x.local = l /\ x.says = "conflict"  BY <1>2 DEF Refuse, After
 <2>2. Says(t, "InsertClaimed", x)  BY <2>1 DEF Says, MayClash
 <2>3. Writes(e, t, c, o, l, "InsertClaimed", x)  BY <1>1, <2>1 DEF Writes, Changing, Own
 <2>4. Remembers(e, o, l, "InsertClaimed", x)  BY <1>1, <2>1 DEF Remembers, Naming
 <2> QED  BY <2>1, <2>2, <2>3, <2>4 DEF Tame
<1>3. ASSUME NEW ids \in Claims(t, o), x \in InsertAll(t, c, o, [l EXCEPT !.ids = ids])
      PROVE  Tame(e, t, c, o, l, "InsertClaimed", x) /\ (x.says = "on" => Placed(c, x.table, x.local.ids))
 <2> DEFINE k == [l EXCEPT !.ids = ids]
 <2>1. ids \in [DOMAIN o.ids -> Ids] /\ o.ids \in Seq(Nat)  BY <1>1 DEF Claims, IsOp
 <2>2. ids \in Seq(Ids) /\ Len(ids) = Len(o.ids)  BY <2>1
 <2>3. /\ IsLocal(e, o, k) /\ Known(k) /\ k.cleared = l.cleared /\ k.ids = ids /\ k.item = l.item /\ k.landed = l.landed
       /\ k.failed = l.failed /\ k.paged = l.paged /\ k.cursor = l.cursor /\ k.got = l.got
   BY <1>1, <2>2, IdsChange
 <2>4. x \in InsertAll(t, c, o, k)  BY <1>3
 <2> HIDE DEF k
 <2>5. /\ x.local = k
       /\ \/ x.says = "conflict" /\ x.table = t
          \/ /\ x.says = "on" /\ IsTable(e, x.table) /\ Placed(c, x.table, k.ids)
             /\ \A i \in Ids : Own(c, x.table[i], t[i]) /\ t[i] \subseteq x.table[i]
   BY <1>1, <2>3, <2>4, InsertAllIs
 <2>6. Says(t, "InsertClaimed", x)  BY <2>5 DEF Says, MayClash
 <2>7. Writes(e, t, c, o, l, "InsertClaimed", x)  BY <1>1, <2>5 DEF Writes, Writing, Adding, Changing, Own
 <2>8. Remembers(e, o, l, "InsertClaimed", x)  BY <2>3, <2>5 DEF Remembers, Naming
 <2> QED  BY <2>5, <2>6, <2>7, <2>8 DEF Tame
<1>4. x \in Refuse(t, l, "conflict") \/ \E ids \in Claims(t, o) : x \in InsertAll(t, c, o, [l EXCEPT !.ids = ids])
  BY DEF InsertClaimed
<1> QED  BY <1>2, <1>3, <1>4

LEMMA PutTame ==
  ASSUME NEW e, NEW t, NEW c, NEW o, NEW l, Calling(e, t, c, o, l, "Put"), NEW x \in Put(t, c, o, l)
  PROVE  Tame(e, t, c, o, l, "Put", x) /\ x.says = "on" /\ Placed(c, x.table, x.local.ids)
<1> DEFINE Here(i) == \E k \in DOMAIN l.ids : l.ids[k] = i
           Keyed(i) == \E k \in DOMAIN l.ids : l.ids[k] = i /\ (o.ids[k] # 0 \/ l.fills)
           u == [i \in DOMAIN t |-> IF Here(i) THEN {NewRow(c, o, Keyed(i))} ELSE t[i]]
<1>0. x \in After(u, l, "on")  BY Zenon DEF Put
<1>1. x.table = u /\ x.local = l /\ x.says = "on"
 <2> HIDE DEF u
 <2> QED  BY <1>0, OutcomeIs
<1>2. /\ DOMAIN t = Ids /\ c \in Clients /\ IsOp(o) /\ o.owner \in {"a", "b"} /\ IsTable(e, t)
      /\ Known(l) /\ IsLocal(e, o, l) /\ (e \in Holding => l.fills)
  BY DEF Calling, Adding, Naming, IsTable, IsLocal, Holding
<1>3. /\ DOMAIN u = Ids /\ u = [i \in DOMAIN u |-> u[i]]
      /\ \A i \in Ids : u[i] = IF Here(i) THEN {NewRow(c, o, Keyed(i))} ELSE t[i]  BY <1>2
<1>4. \A i : Here(i) /\ l.fills => Keyed(i)  OBVIOUS
<1>5. \A i : Keyed(i) \in BOOLEAN  OBVIOUS
<1>6. \A k \in DOMAIN l.ids : Here(l.ids[k]) /\ l.ids[k] \in Ids  BY <1>2 DEF Known
<1> HIDE DEF u, Keyed
<1>7. ASSUME NEW i \in Ids PROVE RowsOK(e, u[i]) /\ Own(c, u[i], t[i]) /\ (t[i] \subseteq u[i] \/ Here(i))
 <2>1. CASE Here(i)
  <3> DEFINE r == NewRow(c, o, Keyed(i))
  <3>1. r \in Rows /\ r.by = c /\ r.keyed = Keyed(i)  BY <1>2, <1>5, RowIs
  <3>2. u[i] = {r}  BY <1>3, <2>1
  <3>3. e \in Holding => r.keyed  BY <1>2, <1>4, <2>1, <3>1
  <3> HIDE DEF r
  <3> QED  BY <3>1, <3>2, <3>3, <2>1, OneRow
 <2>2. CASE ~Here(i)  BY <1>2, <1>3, <2>2 DEF IsTable, Own
 <2> QED  BY <2>1, <2>2
<1>8. IsTable(e, u)  BY <1>3, <1>7, TableOf
<1>9. Placed(c, u, l.ids)  BY <1>2, <1>3, <1>5, <1>6, RowIs DEF Placed, Mine
<1>10. Says(t, "Put", x)  BY <1>1 DEF Says
<1>11. Writes(e, t, c, o, l, "Put", x)  BY <1>1, <1>7, <1>8 DEF Writes, Writing, Adding, Changing
<1>12. Remembers(e, o, l, "Put", x)  BY <1>1, <1>2 DEF Remembers, Naming
<1> QED  BY <1>1, <1>9, <1>10, <1>11, <1>12 DEF Tame

\* A call that writes the rows of one key, of those it had there.
LEMMA OneKey ==
  ASSUME NEW e, NEW t, NEW c, NEW o, NEW l, NEW name \in Changing \cup {"Undo"}, Calling(e, t, c, o, l, name),
         NEW i \in Ids, name \in Changing => i = 1, NEW m, RowsOK(e, m), Own(c, m, t[i]),
         NEW x, x.table = [t EXCEPT ![i] = m]
  PROVE  Writes(e, t, c, o, l, name, x)
<1> DEFINE u == [t EXCEPT ![i] = m]
<1>1. DOMAIN t = Ids /\ IsTable(e, t) /\ t = [j \in Ids |-> t[j]]  BY DEF Calling, IsTable
<1>2. DOMAIN u = Ids /\ u = [j \in DOMAIN u |-> u[j]] /\ u[i] = m /\ \A j \in Ids \ {i} : u[j] = t[j]  BY <1>1
<1> HIDE DEF u
<1>3. \A j \in Ids : RowsOK(e, u[j]) /\ Own(c, u[j], t[j])  BY <1>1, <1>2 DEF IsTable, Own
<1>4. IsTable(e, u)  BY <1>2, <1>3, TableOf
<1>5. x.table = u  BY DEF u
<1>6. name \in Writing /\ name \notin Adding  BY DEF Writing, Adding, Changing
<1> QED  BY <1>2, <1>3, <1>4, <1>5, <1>6 DEF Writes

LEMMA SameMemory ==
  ASSUME NEW e, NEW o, NEW l, IsLocal(e, o, l), NEW x, x.local = l,
         NEW name \in Names \ ({"Probe", "Recheck"} \cup Naming)
  PROVE  Remembers(e, o, l, name, x)
BY DEF Remembers

LEMMA Append1Tame ==
  ASSUME NEW e, NEW t, NEW c, NEW o, NEW l, Calling(e, t, c, o, l, "Append1"), NEW x \in Append1(t, c, o, l)
  PROVE  /\ Tame(e, t, c, o, l, "Append1", x) /\ x.says = "on" /\ x.local.item = NextItem(l)
         /\ Mine(c, x.table[l.ids[l.item + 1]])
<1> DEFINE i == l.ids[l.item + 1]
           r == NewRow(c, o, TRUE)
           u == [t EXCEPT ![i] = @ \cup {r}]
           k == [l EXCEPT !.item = NextItem(l)]
<1>1. /\ DOMAIN t = Ids /\ c \in Clients /\ IsOp(o) /\ o.owner \in {"a", "b"} /\ IsTable(e, t) /\ t = [j \in Ids |-> t[j]]
      /\ Known(l) /\ IsLocal(e, o, l) /\ e = "clickhouse"  BY DEF Calling, Adding, Naming, IsTable
<1>2. NextItem(l) \in Nat /\ NextItem(l) < Len(l.ids) /\ l.item + 1 \in DOMAIN l.ids  BY <1>1, NextItemIs
<1>3. i \in Ids  BY <1>1, <1>2 DEF Known
<1>4. x \in After(u, k, "on")  BY Zenon DEF Append1, NextItem
<1>5. x.table = u /\ x.local = k /\ x.says = "on"
 <2> HIDE DEF u, k
 <2> QED  BY <1>4, OutcomeIs
<1>6. /\ IsLocal(e, o, k) /\ k.cleared = l.cleared /\ k.ids = l.ids /\ k.item = NextItem(l) /\ k.landed = l.landed
      /\ k.failed = l.failed /\ k.paged = l.paged /\ k.cursor = l.cursor /\ k.got = l.got  BY <1>1, <1>2, ItemChange
<1>7. r \in Rows /\ r.by = c  BY <1>1, RowIs
<1> HIDE DEF r, k, i
<1>8. DOMAIN u = Ids /\ u = [j \in DOMAIN u |-> u[j]] /\ u[i] = t[i] \cup {r} /\ \A j \in Ids \ {i} : u[j] = t[j]
  BY <1>1, <1>3
<1> HIDE DEF u
<1>9. ASSUME NEW j \in Ids PROVE RowsOK(e, u[j]) /\ Own(c, u[j], t[j]) /\ t[j] \subseteq u[j]
 <2>1. CASE j = i
  <3>1. RowsOK("clickhouse", t[i])  BY <1>1, <1>3 DEF IsTable
  <3> QED  BY <1>1, <1>7, <1>8, <2>1, <3>1, OneMore
 <2>2. CASE j # i  BY <1>1, <1>8, <2>2 DEF IsTable, Own
 <2> QED  BY <2>1, <2>2
<1>10. IsTable(e, u)  BY <1>8, <1>9, TableOf
<1>11. Says(t, "Append1", x)  BY <1>5 DEF Says
<1>12. Writes(e, t, c, o, l, "Append1", x)  BY <1>5, <1>9, <1>10 DEF Writes, Writing, Adding, Changing
<1>13. Remembers(e, o, l, "Append1", x)  BY <1>5, <1>6 DEF Remembers, Naming
<1>14. Mine(c, u[i])  BY <1>7, <1>8 DEF Mine
<1> QED  BY <1>5, <1>6, <1>11, <1>12, <1>13, <1>14 DEF Tame, i

LEMMA EraseTame ==
  ASSUME NEW e, NEW t, NEW c, NEW o, NEW l, Calling(e, t, c, o, l, "Erase"), o.ids = << 1 >>, NEW x \in Erase(t, o, l)
  PROVE  Tame(e, t, c, o, l, "Erase", x)
<1>1. x.table = [t EXCEPT ![1] = {}] /\ x.local = l /\ x.says = "on"  BY DEF Erase, After
<1>2. Writes(e, t, c, o, l, "Erase", x)  BY <1>1, Nothing, OneKey, KeysAre DEF Calling, Changing
<1>3. Remembers(e, o, l, "Erase", x)  BY <1>1, SameMemory DEF Calling, Names, Naming
<1>4. Says(t, "Erase", x)  BY <1>1 DEF Says
<1> QED  BY <1>2, <1>3, <1>4 DEF Tame

LEMMA RemoveSeenTame ==
  ASSUME NEW e, NEW t, NEW c, NEW o, NEW l, Calling(e, t, c, o, l, "RemoveSeen"), o.ids = << 1 >>, NEW x \in RemoveSeen(t, o, l)
  PROVE  Tame(e, t, c, o, l, "RemoveSeen", x)
<1>0. t = [i \in Ids |-> t[i]] /\ RowsOK(e, t[1]) /\ 1 \in Ids  BY KeysAre DEF Calling, IsTable
<1>1. x.table \in {t, [t EXCEPT ![1] = {}]} /\ x.local = l /\ x.says = "on"  BY DEF RemoveSeen, After
<1>2. Writes(e, t, c, o, l, "RemoveSeen", x)
 <2>1. CASE x.table = [t EXCEPT ![1] = {}]  BY <1>0, <2>1, Nothing, OneKey DEF Changing
 <2>2. CASE x.table = [t EXCEPT ![1] = t[1]]
  <3>1. Own(c, t[1], t[1])  BY DEF Own
  <3> QED  BY <1>0, <2>2, <3>1, OneKey DEF Changing
 <2>3. t = [t EXCEPT ![1] = t[1]]  BY <1>0
 <2> QED  BY <1>1, <2>1, <2>2, <2>3
<1>3. Remembers(e, o, l, "RemoveSeen", x)  BY <1>1, SameMemory DEF Calling, Names, Naming
<1>4. Says(t, "RemoveSeen", x)  BY <1>1 DEF Says
<1> QED  BY <1>2, <1>3, <1>4 DEF Tame

\* The rows of a set, each with the patch of an operation.
LEMMA PatchedRows ==
  ASSUME NEW e, NEW s, RowsOK(e, s), NEW c \in Clients, NEW o, IsOp(o), NEW m, m = {Patched(c, o, r) : r \in s}
  PROVE  RowsOK(e, m) /\ \A u : Own(c, m, u)
<1> DEFINE f == [r \in s |-> Patched(c, o, r)]
<1>1. \A r \in s : /\ r \in Rows /\ Patched(c, o, r) \in Rows /\ Patched(c, o, r).by = c
                    /\ Patched(c, o, r).keyed = r.keyed  BY PatchIs DEF RowsOK
<1>3. IsFiniteSet(m)
 <2>1. f \in Surjection(s, m)  BY <1>1 DEF Surjection
 <2> HIDE DEF f
 <2> QED  BY <2>1, FS_Surjection DEF RowsOK
<1>4. e \in Holding => AllKeyed(m)  BY <1>1 DEF AllKeyed, RowsOK
<1>5. e # "clickhouse" => \A x, y \in m : x = y  BY DEF RowsOK
<1>6. m \in SUBSET Rows /\ \A u : Own(c, m, u)  BY <1>1 DEF Own
<1> QED  BY <1>3, <1>4, <1>5, <1>6 DEF RowsOK

LEMMA RewriteTame ==
  ASSUME NEW e, NEW t, NEW c, NEW o, NEW l, Calling(e, t, c, o, l, "Rewrite"), o.ids = << 1 >>, NEW x \in Rewrite(t, c, o, l)
  PROVE  Tame(e, t, c, o, l, "Rewrite", x)
<1> DEFINE m == {Patched(c, o, r) : r \in l.seen}
<1>1. x.table = [t EXCEPT ![1] = m] /\ x.local = l /\ x.says = "on"  BY DEF Rewrite, After
<1>2. RowsOK(e, m) /\ \A u : Own(c, m, u)
 <2>1. RowsOK(e, l.seen) /\ c \in Clients /\ IsOp(o)  BY DEF Calling, IsLocal
 <2>2. m = {Patched(c, o, r) : r \in l.seen}  OBVIOUS
 <2> HIDE DEF m
 <2> QED  BY <2>1, <2>2, PatchedRows
<1> HIDE DEF m
<1>3. Writes(e, t, c, o, l, "Rewrite", x)  BY <1>1, <1>2, OneKey, KeysAre DEF Calling, Changing
<1>4. Remembers(e, o, l, "Rewrite", x)  BY <1>1, SameMemory DEF Calling, Names, Naming
<1>5. Says(t, "Rewrite", x)  BY <1>1 DEF Says
<1> QED  BY <1>3, <1>4, <1>5 DEF Tame

AllDead(m) == \A r \in m : r.dead = TRUE
LEMMA WriteCellsTame ==
  ASSUME NEW e, NEW t, NEW c, NEW o, NEW l, Calling(e, t, c, o, l, "WriteCells"), o.ids = << 1 >>, NEW x \in WriteCells(t, c, o, l)
  PROVE  /\ Tame(e, t, c, o, l, "WriteCells", x)
         /\ o.mark = "keep" /\ t[1] # {} /\ AllDead(t[1]) => AllDead(x.table[1])
<1> DEFINE new == [by |-> c, owner |-> "null", keyed |-> TRUE, dead |-> FALSE]
           old == IF t[1] = {} THEN {new} ELSE t[1]
           m == {Patched(c, o, r) : r \in old}
<1>0. RowsOK(e, t[1]) /\ c \in Clients /\ IsOp(o) /\ 1 \in Ids /\ DOMAIN t = Ids  BY KeysAre DEF Calling, IsTable
<1>1. x \in After([t EXCEPT ![1] = m], l, "on")  BY DEF WriteCells
<1>2. RowsOK(e, old)
 <2>1. new \in Rows /\ new.by = c /\ new.keyed  BY <1>0 DEF Rows
 <2> HIDE DEF new
 <2>2. RowsOK(e, {new})  BY <2>1, OneRow
 <2> QED  BY <1>0, <2>2
<1>3. t[1] # {} => old = t[1]  OBVIOUS
<1> HIDE DEF old, new
<1>4. RowsOK(e, m) /\ \A u : Own(c, m, u)
 <2>1. PICK s : s = old  OBVIOUS
 <2>2. m = {Patched(c, o, r) : r \in s}  BY <2>1
 <2> HIDE DEF m
 <2>3. c \in Clients /\ IsOp(o) /\ RowsOK(e, s)  BY <1>0, <1>2, <2>1
 <2> QED  BY <2>2, <2>3, PatchedRows, SMTT(60)
<1>5. o.mark = "keep" /\ t[1] # {} /\ AllDead(t[1]) => AllDead(m)
 <2> HAVE o.mark = "keep" /\ t[1] # {} /\ AllDead(t[1])
 <2>1. \A r \in old : r \in Rows /\ r.dead  BY <1>0, <1>3 DEF AllDead, RowsOK
 <2>2. \A r \in old : Patched(c, o, r).dead  BY <1>0, <2>1, PatchIs
 <2> QED  BY <2>2 DEF AllDead
<1> HIDE DEF m
<1>6. x.table = [t EXCEPT ![1] = m] /\ x.local = l /\ x.says = "on" /\ x.table[1] = m  BY <1>0, <1>1 DEF After
<1>7. Writes(e, t, c, o, l, "WriteCells", x)
 <2>1. "WriteCells" \in Changing /\ Own(c, m, t[1])  BY <1>4 DEF Changing
 <2>2. x.table = [t EXCEPT ![1] = m] /\ RowsOK(e, m)  BY <1>4, <1>6
 <2> QED  BY <1>0, <2>1, <2>2, OneKey, ZenonT(60)
<1>8. Remembers(e, o, l, "WriteCells", x)  BY <1>6, SameMemory DEF Calling, Names, Naming
<1>9. Says(t, "WriteCells", x)  BY <1>6 DEF Says
<1> QED  BY <1>5, <1>6, <1>7, <1>8, <1>9 DEF Tame

LEMMA MatchingIs ==
  ASSUME NEW e \in AllEngines, NEW t, IsTable(e, t), NEW o, IsOp(o), o.ids = << 1 >>
  PROVE  /\ Matching(e, t, o) \subseteq t[1] /\ RowsOK(e, Matching(e, t, o)) /\ RowsOK(e, t[1])
         /\ e # "elasticsearch" => \A r \in Matching(e, t, o) : InScope(o.viewer, r)
<1>0. RowsOK(e, t[1])  BY KeysAre DEF IsTable
<1>1. CASE e = "elasticsearch"  BY <1>0, <1>1 DEF Matching
<1>2. CASE e # "elasticsearch"
 <2>1. Matching(e, t, o) = Found(e, t, o)  BY <1>2 DEF Matching
 <2>2. Found(e, t, o) \subseteq t[1] /\ RowsOK(e, Found(e, t, o))  BY FoundIs
 <2>3. \A r \in Found(e, t, o) : InScope(o.viewer, r)  BY <1>2, FindsScope DEF Found
 <2> QED  BY <1>0, <2>1, <2>2, <2>3
<1> QED  BY <1>1, <1>2

\* The patch as PatchWhere applies it, on each row that matches.
PatchOf(e, c, o, r) == IF e \in {"memory", "mongodb"} THEN Unkeyed(o, Patched(c, o, r)) ELSE Patched(c, o, r)
Repatched(e, c, o, hit) == {PatchOf(e, c, o, r) : r \in hit}
PatchedWell(e, c, o, s, hit, m) ==
  /\ RowsOK(e, (s \ hit) \cup m) /\ Own(c, (s \ hit) \cup m, s)
  /\ \A r \in m : r.by = c
  /\ hit # {} => Mine(c, m)
  /\ o.mark = "keep" /\ AllDead(s) => AllDead((s \ hit) \cup m)

LEMMA MatchingPatched ==
  ASSUME NEW e \in AllEngines, NEW s, RowsOK(e, s), NEW hit, hit \subseteq s, NEW c \in Clients, NEW o, IsOp(o),
         NEW m, m = Repatched(e, c, o, hit)
  PROVE  PatchedWell(e, c, o, s, hit, m)
<1> DEFINE g == [r \in hit |-> PatchOf(e, c, o, r)]
<1>0. \A r \in s : r \in Rows  BY DEF RowsOK
<1>1. ASSUME NEW r \in hit
      PROVE  /\ g[r] \in Rows /\ g[r].by = c
             /\ (e \in Holding => g[r].keyed = r.keyed)
             /\ (o.mark = "keep" => g[r].dead = r.dead)
 <2> DEFINE p == Patched(c, o, r)
 <2>1. p \in Rows /\ p.by = c /\ p.keyed = r.keyed /\ (o.mark = "keep" => p.dead = r.dead)  BY <1>0, PatchIs
 <2> HIDE DEF p
 <2>2. Unkeyed(o, p) \in Rows /\ Unkeyed(o, p).by = c /\ Unkeyed(o, p).dead = p.dead  BY <2>1, UnkeyIs
 <2>3. g[r] = IF e \in {"memory", "mongodb"} THEN Unkeyed(o, p) ELSE p  BY DEF p, PatchOf
 <2> HIDE DEF g
 <2>4. CASE e \in {"memory", "mongodb"}
  <3>1. e \notin Holding  BY <2>4 DEF Holding
  <3> QED  BY <2>1, <2>2, <2>3, <2>4, <3>1
 <2>5. CASE e \notin {"memory", "mongodb"}  BY <2>1, <2>3, <2>5
 <2> QED  BY <2>4, <2>5
<1>2. \A x : x \in m <=> \E r \in hit : x = g[r]  BY DEF Repatched
<1>3. g \in Surjection(hit, m)
 <2>1. DOMAIN g = hit /\ g = [r \in hit |-> g[r]]  OBVIOUS
 <2> HIDE DEF g
 <2> QED  BY <1>2, <2>1 DEF Surjection
<1> HIDE DEF g
<1>4. IsFiniteSet(hit) /\ IsFiniteSet(s \ hit)  BY FS_Subset DEF RowsOK
<1>5. IsFiniteSet(m)  BY <1>3, <1>4, FS_Surjection
<1>6. IsFiniteSet((s \ hit) \cup m)  BY <1>4, <1>5, FS_Union
<1>7. e # "clickhouse" => \A x, y \in (s \ hit) \cup m : x = y
 <2> HAVE e # "clickhouse"
 <2>1. \A x, y \in s : x = y  BY DEF RowsOK
 <2>2. \A x \in s \ hit : hit = {}  BY <2>1
 <2> QED  BY <1>2, <2>1, <2>2
<1>8. e \in Holding => AllKeyed((s \ hit) \cup m)  BY <1>1, <1>2 DEF RowsOK, AllKeyed
<1>9. (s \ hit) \cup m \in SUBSET Rows  BY <1>0, <1>1, <1>2
<1>10. RowsOK(e, (s \ hit) \cup m)  BY <1>6, <1>7, <1>8, <1>9 DEF RowsOK
<1>11. \A r \in m : r.by = c  BY <1>1, <1>2
<1>12. hit # {} => Mine(c, m)  BY <1>1, <1>2 DEF Mine
<1>13. Own(c, (s \ hit) \cup m, s)  BY <1>11 DEF Own
<1>14. o.mark = "keep" /\ AllDead(s) => AllDead((s \ hit) \cup m)  BY <1>1, <1>2 DEF AllDead
<1> QED  BY <1>10, <1>11, <1>12, <1>13, <1>14 DEF PatchedWell

\* A statement that finds none of the rows leaves them.
LEMMA NoneHit ==
  ASSUME NEW t, DOMAIN t = Ids, t = [i \in DOMAIN t |-> t[i]], NEW m, m = t[1]
  PROVE  [t EXCEPT ![1] = m] = t
OBVIOUS

LEMMA PatchWhereTame ==
  ASSUME NEW e, NEW t, NEW c, NEW o, NEW l, Calling(e, t, c, o, l, "PatchWhere"), o.ids = << 1 >>,
         NEW x \in PatchWhere(e, t, c, o, l)
  PROVE  /\ Tame(e, t, c, o, l, "PatchWhere", x)
         /\ e # "clickhouse" /\ x.says = "on" => Mine(c, x.table[1])
         /\ e # "elasticsearch" => \A r \in t[1] \ x.table[1] : InScope(o.viewer, r)
         /\ o.mark = "keep" /\ AllDead(t[1]) => AllDead(x.table[1])
         /\ t[1] = {} => x.table[1] = {}
<1> DEFINE hit == Matching(e, t, o)
           m == Repatched(e, c, o, hit)
           n == (t[1] \ hit) \cup m
           to == [t EXCEPT ![1] = n]
           bad == hit = {} /\ e # "clickhouse"
<1>0. /\ c \in Clients /\ IsOp(o) /\ 1 \in Ids /\ DOMAIN t = Ids /\ e \in AllEngines /\ IsTable(e, t)
      /\ IsLocal(e, o, l) /\ t = [i \in DOMAIN t |-> t[i]]  BY KeysAre DEF Calling, IsTable
<1>1. x \in Unless(bad, "notfound", to, l)
 <2>1. x \in Unless(bad, "notfound", [t EXCEPT ![o.ids[1]] = (t[o.ids[1]] \ hit) \cup m], l)
   BY Zenon DEF PatchWhere, PatchOf, Repatched
 <2>2. o.ids[1] = 1  OBVIOUS
 <2> HIDE DEF hit, m, bad
 <2> QED  BY <2>1, <2>2
<1>2. /\ hit \subseteq t[1] /\ RowsOK(e, hit) /\ RowsOK(e, t[1])
      /\ e # "elasticsearch" => \A r \in hit : InScope(o.viewer, r)  BY <1>0, MatchingIs
<1>3. hit = {} => m = {}  BY DEF Repatched
<1>4. m = Repatched(e, c, o, hit)  OBVIOUS
<1> HIDE DEF hit, m
<1>5. /\ RowsOK(e, n) /\ Own(c, n, t[1])
      /\ hit # {} => Mine(c, m)
      /\ o.mark = "keep" /\ AllDead(t[1]) => AllDead(n)
 <2>1. e \in AllEngines /\ RowsOK(e, t[1]) /\ hit \subseteq t[1] /\ c \in Clients /\ IsOp(o)  BY <1>0, <1>2
 <2>2. PatchedWell(e, c, o, t[1], hit, m)  BY <1>4, <2>1, MatchingPatched
 <2> QED  BY <2>2 DEF PatchedWell
<1>6. hit # {} => Mine(c, n)  BY <1>5 DEF Mine
<1>7. hit = {} => n = t[1]  BY <1>3
<1>8. /\ e # "elasticsearch" => \A r \in t[1] \ n : InScope(o.viewer, r)
      /\ t[1] = {} => n = {}  BY <1>2, <1>7
<1> HIDE DEF n
<1>9. hit = {} => to = t  BY <1>0, <1>7, NoneHit
<1>10. x.table = to /\ to[1] = n /\ x.local = l /\ (IF bad THEN x.says = "notfound" ELSE x.says = "on")
 <2>1. bad \in BOOLEAN  OBVIOUS
 <2>2. to[1] = n  BY <1>0
 <2> HIDE DEF to, bad
 <2> QED  BY <1>1, <2>1, <2>2, UnlessIs
<1>11. Says(t, "PatchWhere", x)  BY <1>9, <1>10 DEF Says, MayMiss
<1>12. Writes(e, t, c, o, l, "PatchWhere", x)
 <2>1. "PatchWhere" \in Changing /\ Own(c, n, t[1]) /\ RowsOK(e, n)  BY <1>5 DEF Changing
 <2>2. x.table = [t EXCEPT ![1] = n] /\ 1 \in Ids  BY <1>0, <1>10
 <2> QED  BY <2>1, <2>2, OneKey
<1>13. Remembers(e, o, l, "PatchWhere", x)  BY <1>0, <1>10, SameMemory DEF Names, Naming
<1> QED  BY <1>5, <1>6, <1>8, <1>10, <1>11, <1>12, <1>13 DEF Tame

LEMMA RemoveWhereTame ==
  ASSUME NEW e, NEW t, NEW c, NEW o, NEW l, Calling(e, t, c, o, l, "RemoveWhere"), o.ids = << 1 >>,
         NEW x \in RemoveWhere(e, t, o, l)
  PROVE  /\ Tame(e, t, c, o, l, "RemoveWhere", x)
         /\ e # "clickhouse" /\ x.says = "on" => x.table # t
         /\ e # "elasticsearch" => \A r \in t[1] \ x.table[1] : InScope(o.viewer, r)
         /\ t[1] = {} => x.table[1] = {}
<1> DEFINE hit == Matching(e, t, o)
           n == t[1] \ hit
           to == [t EXCEPT ![1] = n]
           bad == hit = {} /\ e # "clickhouse"
<1>0. /\ c \in Clients /\ IsOp(o) /\ 1 \in Ids /\ DOMAIN t = Ids /\ e \in AllEngines /\ IsTable(e, t)
      /\ IsLocal(e, o, l) /\ t = [i \in DOMAIN t |-> t[i]]  BY KeysAre DEF Calling, IsTable
<1>1. x \in Unless(bad, "notfound", to, l)
 <2>1. x \in Unless(bad, "notfound", [t EXCEPT ![o.ids[1]] = t[o.ids[1]] \ hit], l)  BY Zenon DEF RemoveWhere
 <2>2. o.ids[1] = 1  OBVIOUS
 <2> HIDE DEF hit, bad
 <2> QED  BY <2>1, <2>2
<1>2. /\ hit \subseteq t[1] /\ RowsOK(e, hit) /\ RowsOK(e, t[1])
      /\ e # "elasticsearch" => \A r \in hit : InScope(o.viewer, r)  BY <1>0, MatchingIs
<1> HIDE DEF hit
<1>5. RowsOK(e, n) /\ Own(c, n, t[1])  BY <1>2, Fewer
<1>6. (hit # {} => n # t[1]) /\ (hit = {} => n = t[1])  BY <1>2
<1>8. /\ e # "elasticsearch" => \A r \in t[1] \ n : InScope(o.viewer, r)
      /\ t[1] = {} => n = {}  BY <1>2
<1> HIDE DEF n
<1>9. (hit = {} => to = t) /\ (hit # {} => to # t)
 <2>1. to[1] = n  BY <1>0
 <2> QED  BY <1>0, <1>6, <2>1, NoneHit
<1>10. x.table = to /\ to[1] = n /\ x.local = l /\ (IF bad THEN x.says = "notfound" ELSE x.says = "on")
 <2>1. bad \in BOOLEAN  OBVIOUS
 <2>2. to[1] = n  BY <1>0
 <2> HIDE DEF to, bad
 <2> QED  BY <1>1, <2>1, <2>2, UnlessIs
<1>11. Says(t, "RemoveWhere", x)  BY <1>9, <1>10 DEF Says, MayMiss
<1>12. Writes(e, t, c, o, l, "RemoveWhere", x)
 <2>1. "RemoveWhere" \in Changing /\ Own(c, n, t[1]) /\ RowsOK(e, n)  BY <1>5 DEF Changing
 <2>2. x.table = [t EXCEPT ![1] = n] /\ 1 \in Ids  BY <1>0, <1>10
 <2> QED  BY <2>1, <2>2, OneKey
<1>13. Remembers(e, o, l, "RemoveWhere", x)  BY <1>0, <1>10, SameMemory DEF Names, Naming
<1> QED  BY <1>8, <1>9, <1>10, <1>11, <1>12, <1>13 DEF Tame

Relanded(e, o, l, k, m, f) ==
  /\ IsLocal(e, o, k) /\ k.cleared = l.cleared /\ k.ids = l.ids /\ k.item = l.item /\ k.landed = m
  /\ k.failed = f /\ k.paged = l.paged /\ k.cursor = l.cursor /\ k.got = l.got

LEMMA LandedChange ==
  ASSUME NEW e, NEW o, NEW l, IsLocal(e, o, l), NEW m \in SUBSET Ids, NEW f \in BOOLEAN,
         NEW k, k = [l EXCEPT !.landed = m, !.failed = f]
  PROVE  Relanded(e, o, l, k, m, f)
<1>1. l \in Locals  BY DEF IsLocal
<1>2. /\ k.seen = l.seen /\ k.cleared = l.cleared /\ k.ids = l.ids /\ k.item = l.item /\ k.landed = m
      /\ k.failed = f /\ k.fills = l.fills /\ k.paged = l.paged /\ k.cursor = l.cursor /\ k.got = l.got
      /\ k \in Locals  BY <1>1 DEF Locals
<1>3. IsLocal(e, o, k)  BY <1>2 DEF IsLocal
<1> QED  BY <1>2, <1>3 DEF Relanded

LEMMA BulkTame ==
  ASSUME NEW e, NEW t, NEW c, NEW o, NEW l, Calling(e, t, c, o, l, "Bulk"), NEW x \in Bulk(t, c, o, l)
  PROVE  /\ Tame(e, t, c, o, l, "Bulk", x) /\ x.says = "on"
         /\ x.local.failed \/ Placed(c, x.table, l.ids)
         /\ (x.local.failed /\ \A i \in Ids : ~Mine(c, t[i])) => \A i \in Ids : Mine(c, x.table[i]) => i \in x.local.landed
<1> DEFINE taken == {k \in DOMAIN l.ids : t[l.ids[k]] # {}}
           fresh == DOMAIN l.ids \ taken
           Here(i) == \E k \in fresh : l.ids[k] = i
           Keyed(i) == \E k \in fresh : l.ids[k] = i /\ o.ids[k] # 0
           u == [i \in DOMAIN t |-> IF Here(i) THEN {NewRow(c, o, Keyed(i))} ELSE t[i]]
           landed == IF taken = {} THEN {} ELSE {l.ids[k] : k \in fresh}
           failed == taken # {}
           m == [l EXCEPT !.landed = landed, !.failed = failed]
<1>1. x \in After(u, m, "on")  BY Zenon DEF Bulk
<1>2. x.table = u /\ x.local = m /\ x.says = "on"
 <2> HIDE DEF u, m
 <2> QED  BY <1>1, OutcomeIs
<1>3. /\ DOMAIN t = Ids /\ c \in Clients /\ IsOp(o) /\ o.owner \in {"a", "b"} /\ IsTable(e, t)
      /\ Known(l) /\ IsLocal(e, o, l) /\ e \notin Holding  BY DEF Calling, Adding, Naming, IsTable, Holding
<1>4. landed \in SUBSET Ids /\ failed \in BOOLEAN  BY <1>3 DEF Known
<1>5. /\ Here(0) \in BOOLEAN
      /\ \A i : Keyed(i) \in BOOLEAN
      /\ \A i \in Ids : Here(i) => t[i] = {}
      /\ taken = {} => \A k \in DOMAIN l.ids : Here(l.ids[k])
      /\ taken # {} => \A i \in Ids : Here(i) => i \in landed  OBVIOUS
<1>6. /\ DOMAIN u = Ids /\ u = [i \in DOMAIN u |-> u[i]]
      /\ \A i \in Ids : u[i] = IF Here(i) THEN {NewRow(c, o, Keyed(i))} ELSE t[i]
 <2> HIDE DEF Here, Keyed
 <2> QED  BY <1>3
<1>7. failed = (taken # {})  OBVIOUS
<1> HIDE DEF u, Keyed, landed, failed, Here, taken, fresh
<1>16. PICK d \in SUBSET Ids, f \in BOOLEAN : d = landed /\ f = failed  BY <1>4
<1>17. m = [l EXCEPT !.landed = d, !.failed = f]  BY <1>16
<1> HIDE DEF m
<1>18. Relanded(e, o, l, m, d, f)  BY <1>3, <1>17, LandedChange
<1>8. /\ IsLocal(e, o, m) /\ m.cleared = l.cleared /\ m.ids = l.ids /\ m.item = l.item /\ m.landed = landed
      /\ m.failed = failed /\ m.paged = l.paged /\ m.cursor = l.cursor /\ m.got = l.got
  BY <1>16, <1>18 DEF Relanded
<1>9. ASSUME NEW i \in Ids
      PROVE  RowsOK(e, u[i]) /\ Own(c, u[i], t[i]) /\ t[i] \subseteq u[i] /\ (Here(i) => Mine(c, u[i]))
 <2>1. CASE Here(i)
  <3> DEFINE r == NewRow(c, o, Keyed(i))
  <3>1. r \in Rows /\ r.by = c  BY <1>3, <1>5, RowIs
  <3>2. u[i] = {r} /\ t[i] = {}  BY <1>5, <1>6, <2>1
  <3> HIDE DEF r
  <3> QED  BY <1>3, <3>1, <3>2, OneRow DEF Mine
 <2>2. CASE ~Here(i)  BY <1>3, <1>6, <2>2 DEF IsTable, Own
 <2> QED  BY <2>1, <2>2
<1>10. IsTable(e, u)  BY <1>6, <1>9, TableOf
<1>11. Says(t, "Bulk", x)  BY <1>2 DEF Says
<1>12. Writes(e, t, c, o, l, "Bulk", x)  BY <1>2, <1>9, <1>10 DEF Writes, Writing, Adding, Changing
<1>13. Remembers(e, o, l, "Bulk", x)  BY <1>2, <1>8 DEF Remembers, Naming
<1>14. failed \/ Placed(c, u, l.ids)
 <2> SUFFICES ASSUME ~failed PROVE Placed(c, u, l.ids)  OBVIOUS
 <2>1. \A k \in DOMAIN l.ids : Here(l.ids[k]) /\ l.ids[k] \in Ids  BY <1>3, <1>5, <1>7 DEF Known
 <2> QED  BY <1>9, <2>1 DEF Placed
<1>15. (failed /\ \A i \in Ids : ~Mine(c, t[i])) => \A i \in Ids : Mine(c, u[i]) => i \in landed
  BY <1>5, <1>6, <1>7
<1> QED  BY <1>2, <1>8, <1>11, <1>12, <1>13, <1>14, <1>15 DEF Tame

UndoKeeps(t, c, l, x) ==
  /\ x.local.failed = l.failed
  /\ x.says = "on" => l.failed # TRUE /\ x.table = t
  /\ x.says = "conflict" => l.failed = TRUE /\ x.local.landed = {}
  /\ (\A i \in Ids : Mine(c, t[i]) => i \in l.landed) => \A i \in Ids : Mine(c, x.table[i]) => i \in x.local.landed

LEMMA UndoTame ==
  ASSUME NEW e, NEW t, NEW c, NEW o, NEW l, Calling(e, t, c, o, l, "Undo"), NEW x \in Undo(t, l)
  PROVE  Tame(e, t, c, o, l, "Undo", x) /\ UndoKeeps(t, c, l, x)
<1>1. /\ DOMAIN t = Ids /\ IsTable(e, t) /\ IsLocal(e, o, l) /\ l.landed \in SUBSET Ids /\ l \in Locals
      /\ t = [i \in DOMAIN t |-> t[i]]  BY DEF Calling, IsTable, IsLocal, Locals
<1>2. l.failed \in BOOLEAN  BY <1>1 DEF Locals
<1>3. CASE l.landed = {}
 <2>1. x \in Unless(l.failed, "conflict", t, l)  BY <1>3 DEF Undo
 <2>2. x.table = t /\ x.local = l /\ (IF l.failed THEN x.says = "conflict" ELSE x.says = "on")
   BY <1>2, <2>1, UnlessIs
 <2>3. Says(t, "Undo", x)  BY <2>2 DEF Says, MayClash
 <2>4. Writes(e, t, c, o, l, "Undo", x)  BY <1>1, <2>2 DEF Writes, Changing, Adding, Own
 <2>5. Remembers(e, o, l, "Undo", x)  BY <1>1, <2>2, SameMemory DEF Names, Naming
 <2> QED  BY <1>3, <2>2, <2>3, <2>4, <2>5 DEF Tame, UndoKeeps
<1>4. CASE l.landed # {}
 <2> DEFINE i == CHOOSE j \in l.landed : TRUE
            rest == l.landed \ {i}
            u == [t EXCEPT ![i] = {}]
            m == [l EXCEPT !.landed = rest]
 <2>1. i \in l.landed /\ i \in Ids /\ rest \in SUBSET Ids  BY <1>1, <1>4
 <2>2. x \in After(u, m, "again")  BY <1>4 DEF Undo
 <2> HIDE DEF i
 <2>3. /\ m.seen = l.seen /\ m.cleared = l.cleared /\ m.ids = l.ids /\ m.item = l.item /\ m.landed = rest
       /\ m.failed = l.failed /\ m.fills = l.fills /\ m.paged = l.paged /\ m.cursor = l.cursor /\ m.got = l.got
       /\ m \in Locals  BY <1>1, <2>1, LandedPut
 <2>5. u[i] = {} /\ \A j \in Ids \ {i} : u[j] = t[j]  BY <1>1, <2>1
 <2>6. x.table = u /\ x.local = m /\ x.says = "again"
  <3> HIDE DEF u, m
  <3> QED  BY <2>2, OutcomeIs
 <2> HIDE DEF m
 <2>4. IsLocal(e, o, m)  BY <1>1, <2>3 DEF IsLocal
 <2>7. Says(t, "Undo", x)  BY <2>6 DEF Says
 <2>8. Writes(e, t, c, o, l, "Undo", x)
  <3>1. RowsOK(e, {}) /\ Own(c, {}, t[i])  BY Nothing
  <3>2. x.table = [t EXCEPT ![i] = {}] /\ i \in Ids /\ "Undo" \notin Changing  BY <2>1, <2>6 DEF Changing
  <3> QED  BY <3>1, <3>2, OneKey
 <2>9. Remembers(e, o, l, "Undo", x)  BY <2>3, <2>4, <2>6 DEF Remembers, Naming
 <2>10. (\A j \in Ids : Mine(c, t[j]) => j \in l.landed) => \A j \in Ids : Mine(c, u[j]) => j \in rest
   BY <2>5 DEF Mine
 <2> HIDE DEF u, rest
 <2> QED  BY <2>3, <2>6, <2>7, <2>8, <2>9, <2>10 DEF Tame, UndoKeeps
<1> QED  BY <1>3, <1>4

(* A page of a walk.                                                       *)
LEMMA ListedIs ==
  ASSUME NEW e, NEW t, IsTable(e, t), NEW o, NEW l, NEW sd, NEW rows, rows = Listed(t, o, l, sd)
  PROVE  /\ \A p \in rows : /\ p = <<p[1], p[2]>> /\ p[1] \in Ids /\ p[2] \in t[p[1]] /\ p[2] \in Rows
                            /\ l.paged => p[2].keyed /\ p[1] > l.cursor
         /\ \A i \in Ids : \A r \in t[i] :
              /\ InScope(o.viewer, r) /\ ~(sd /\ r.dead) /\ (l.paged => r.keyed /\ i > l.cursor)
              => <<i, r>> \in rows
<1>1. t \in [Ids -> SUBSET Rows]  BY DEF IsTable
<1>2. rows = UNION {{i} \X {r \in t[i] : /\ InScope(o.viewer, r) /\ ~(sd /\ r.dead)
                                         /\ l.paged => r.keyed /\ i > l.cursor} : i \in DOMAIN t}
  BY Zenon DEF Listed
<1> DEFINE Seen(i) == {r \in t[i] : /\ InScope(o.viewer, r) /\ ~(sd /\ r.dead)
                                    /\ l.paged => r.keyed /\ i > l.cursor}
<1>3. \A p : p \in rows <=> \E i \in Ids : p \in {i} \X Seen(i)  BY <1>1, <1>2
<1>4. ASSUME NEW p \in rows
      PROVE  /\ p = <<p[1], p[2]>> /\ p[1] \in Ids /\ p[2] \in t[p[1]] /\ p[2] \in Rows
             /\ l.paged => p[2].keyed /\ p[1] > l.cursor
 <2>1. PICK i \in Ids : p \in {i} \X Seen(i)  BY <1>3
 <2>2. p = <<p[1], p[2]>> /\ p[1] = i /\ p[2] \in Seen(i)  BY <2>1
 <2> QED  BY <1>1, <2>2
<1>5. ASSUME NEW i \in Ids, NEW r \in t[i], InScope(o.viewer, r), ~(sd /\ r.dead), l.paged => r.keyed /\ i > l.cursor
      PROVE  <<i, r>> \in rows
 <2>1. r \in Seen(i)  BY <1>5
 <2> HIDE DEF Seen
 <2>2. <<i, r>> \in {i} \X Seen(i)  BY <2>1
 <2> QED  BY <1>3, <2>2
<1> QED  BY <1>4, <1>5

LEMMA ListedFinite ==
  ASSUME NEW e, NEW t, IsTable(e, t), NEW rows, \A p \in rows : p = <<p[1], p[2]>> /\ p[1] \in Ids /\ p[2] \in t[p[1]]
  PROVE  IsFiniteSet(rows)
<1> DEFINE m == {t[i] : i \in Ids}
<1>1. t \in Surjection(Ids, m)  BY DEF IsTable, Surjection
<1>2. \A s \in m : IsFiniteSet(s)  BY DEF IsTable, RowsOK
<1>4. \A p \in rows : p \in Ids \X UNION m  BY DEF IsTable
<1> HIDE DEF m
<1>3. IsFiniteSet(UNION m)  BY <1>1, <1>2, KeysAre, FS_Surjection, FS_UNION
<1>5. IsFiniteSet(Ids \X UNION m)  BY <1>3, KeysAre, FS_Product
<1> QED  BY <1>4, <1>5, FS_Subset

LEMMA AtMostOne ==
  ASSUME NEW s, IsFiniteSet(s), Cardinality(s) =< 1
  PROVE  s = {} \/ \E p : s = {p}
<1>1. CASE s # {}
 <2>1. PICK p : p \in s  BY <1>1
 <2>2. IsFiniteSet(s \ {p}) /\ Cardinality(s \ {p}) = Cardinality(s) - 1  BY <2>1, FS_RemoveElement
 <2>3. Cardinality(s) \in Nat /\ Cardinality(s \ {p}) \in Nat  BY <2>2, FS_CardinalityType
 <2>4. s \ {p} = {}  BY <2>2, <2>3, FS_EmptySet
 <2> QED  BY <2>1, <2>4
<1> QED  BY <1>1

LEMMA SequenceOfOne ==
  ASSUME NEW j, NEW g, g = SetToSeq({j})
  PROVE  g = <<j>>
<1>1. Cardinality({j}) = 1  BY FS_Singleton
<1> DEFINE Fit(f) == f \in [1 .. 1 -> {j}] /\ IsInjective(f)
<1>2. g = CHOOSE f \in [1 .. 1 -> {j}] : IsInjective(f)  BY <1>1 DEF SetToSeq
<1>3. Fit([k \in 1 .. 1 |-> j])  BY DEF IsInjective
<1>4. g \in [1 .. 1 -> {j}]  BY <1>2, <1>3
<1> QED  BY <1>4

LEMMA SequenceOfNone ==
  ASSUME NEW g, g = SetToSeq({})
  PROVE  g = << >>
<1>1. Cardinality({}) = 0  BY FS_EmptySet
<1> DEFINE Fit(f) == f \in [1 .. 0 -> {}] /\ IsInjective(f)
<1>2. g = CHOOSE f \in [1 .. 0 -> {}] : IsInjective(f)  BY <1>1 DEF SetToSeq
<1>3. Fit([k \in 1 .. 0 |-> 0])  BY DEF IsInjective
<1>4. g \in [1 .. 0 -> {}]  BY <1>2, <1>3
<1> QED  BY <1>4

\* A key is in a sequence once, or not at all.
OnceIn(g, i) == \E k \in DOMAIN g : g[k] = i /\ \A m \in DOMAIN g : g[m] = i => m = k
NeverIn(g, i) == \A k \in DOMAIN g : g[k] # i

LEMMA Appended ==
  ASSUME NEW g \in Seq(Nat), NEW j \in Nat
  PROVE  /\ Append(g, j) \in Seq(Nat)
         /\ \A i : NeverIn(g, i) /\ i # j => NeverIn(Append(g, j), i)
         /\ NeverIn(g, j) => OnceIn(Append(g, j), j)
         /\ \A i : OnceIn(g, i) /\ i # j => OnceIn(Append(g, j), i)
<1> DEFINE h == Append(g, j)
           n == Len(g)
<1>1. h \in Seq(Nat) /\ n \in Nat /\ DOMAIN g = 1 .. n /\ DOMAIN h = 1 .. n + 1 /\ h[n + 1] = j /\ \A k \in 1 .. n : h[k] = g[k]
  OBVIOUS
<1> HIDE DEF h, n
<1>2. \A i : NeverIn(g, i) /\ i # j => NeverIn(h, i)  BY <1>1 DEF NeverIn
<1>3. NeverIn(g, j) => OnceIn(h, j)
 <2> HAVE NeverIn(g, j)
 <2>1. \A m \in DOMAIN h : h[m] = j => m = n + 1  BY <1>1 DEF NeverIn
 <2> QED  BY <1>1, <2>1 DEF OnceIn
<1>4. ASSUME NEW i, OnceIn(g, i), i # j PROVE OnceIn(h, i)
 <2>1. PICK k \in DOMAIN g : g[k] = i /\ \A m \in DOMAIN g : g[m] = i => m = k  BY <1>4 DEF OnceIn
 <2>2. k \in DOMAIN h /\ h[k] = i /\ \A m \in DOMAIN h : h[m] = i => m = k  BY <1>1, <1>4, <2>1
 <2> QED  BY <2>2 DEF OnceIn
<1> QED  BY <1>1, <1>2, <1>3, <1>4 DEF h

LEMMA OnceCounts ==
  ASSUME NEW g, NEW i, OnceIn(g, i)
  PROVE  Cardinality({k \in DOMAIN g : g[k] = i}) = 1 /\ i \in Range(g)
<1>1. PICK k \in DOMAIN g : g[k] = i /\ \A m \in DOMAIN g : g[m] = i => m = k  BY DEF OnceIn
<1>2. {m \in DOMAIN g : g[m] = i} = {k}  BY <1>1
<1>3. i \in Range(g)  BY <1>1 DEF Range
<1> QED  BY <1>2, <1>3, FS_Singleton

\* What is above every key.
LEMMA Topmost == Max(Ids) \in Nat /\ \A i \in Ids : i =< Max(Ids)
<1>1. PICK n \in Nat : n >= 2 /\ Ids = 1 .. n  BY StorageAssumption
<1>2. n \in Ids /\ \A y \in Ids : n >= y  BY <1>1
<1>3. Max(Ids) \in Ids /\ \A y \in Ids : Max(Ids) >= y  BY <1>2 DEF Max
<1> QED  BY <1>1, <1>3

\* The keys a walk must not miss, and what it has of them.
Shown(o, t, sd, keys) ==
  \A i \in keys : i \in Ids /\ t[i] # {} /\ \A r \in t[i] : r.keyed /\ InScope(o.viewer, r) /\ ~(sd /\ r.dead)
Counting(keys, l) ==
  \A i \in keys : IF l.paged /\ i =< l.cursor THEN OnceIn(l.got, i) ELSE NeverIn(l.got, i)

\* The engines' pages differ in what they make of a row without its key.
LEMMA TurnIs == ASSUME NEW e \in AllEngines, NEW t, NEW o, NEW l, NEW sd PROVE Turn(e, t, o, l, sd) = NextPage(e, t, o, l, sd)
BY DEF Turn, AllEngines, MemoryPage, SeaormPage, MongoPage, CassandraPage, ElasticPage, InfluxPage, ClickhousePage

PagedLocal(e, o, l, k, n, pg, g) ==
  /\ IsLocal(e, o, k) /\ k.cleared = l.cleared /\ k.ids = l.ids /\ k.item = l.item /\ k.landed = l.landed
  /\ k.failed = l.failed /\ k.paged = pg /\ k.cursor = n /\ k.got = g
LEMMA PagedChange ==
  ASSUME NEW e, NEW o, NEW l, IsLocal(e, o, l), NEW g \in Seq(Nat), NEW n \in Nat,
         NEW k, k = [l EXCEPT !.got = g, !.paged = TRUE, !.cursor = n]
  PROVE  PagedLocal(e, o, l, k, n, TRUE, g)
<1>1. l \in Locals  BY DEF IsLocal
<1>2. /\ k.seen = l.seen /\ k.cleared = l.cleared /\ k.ids = l.ids /\ k.item = l.item /\ k.landed = l.landed
      /\ k.failed = l.failed /\ k.fills = l.fills /\ k.paged = TRUE /\ k.cursor = n /\ k.got = g
      /\ k \in Locals  BY <1>1 DEF Locals
<1>3. IsLocal(e, o, k)  BY <1>2 DEF IsLocal
<1> QED  BY <1>2, <1>3 DEF PagedLocal

LEMMA GotChange ==
  ASSUME NEW e, NEW o, NEW l, IsLocal(e, o, l), NEW g \in Seq(Nat), NEW k, k = [l EXCEPT !.got = g]
  PROVE  PagedLocal(e, o, l, k, l.cursor, l.paged, g)
<1>1. l \in Locals  BY DEF IsLocal
<1>2. /\ k.seen = l.seen /\ k.cleared = l.cleared /\ k.ids = l.ids /\ k.item = l.item /\ k.landed = l.landed
      /\ k.failed = l.failed /\ k.fills = l.fills /\ k.paged = l.paged /\ k.cursor = l.cursor /\ k.got = g
      /\ k \in Locals  BY <1>1 DEF Locals
<1>3. IsLocal(e, o, k)  BY <1>2 DEF IsLocal
<1> QED  BY <1>2, <1>3 DEF PagedLocal

\* A turn keeps to the walk: it lists a key that must not be missed once.
Keeping(o, t, sd, l, x) ==
  \A keys : Shown(o, t, sd, keys) /\ Counting(keys, l)
            => /\ x.says = "again" => Counting(keys, x.local)
               /\ x.says = "on" => \A i \in keys : OnceIn(x.local.got, i)

LEMMA TurnTame ==
  ASSUME NEW e, NEW t, NEW c, NEW o, NEW l, Calling(e, t, c, o, l, "Turn"), NEW sd, NEW x \in Turn(e, t, o, l, sd)
  PROVE  Tame(e, t, c, o, l, "Turn", x) /\ Keeping(o, t, sd, l, x)
<1> DEFINE rows == Listed(t, o, l, sd)
           first == {p \in rows : \A q \in rows : Place(e, p[1], p[2]) =< Place(e, q[1], q[2])}
           cur(p) == IF p[2].keyed \/ e = "elasticsearch" THEN p[1] ELSE 0
           turn(p) == [l EXCEPT !.got = Append(@, p[1]), !.paged = TRUE, !.cursor = cur(p)]
           last == [l EXCEPT !.got = @ \o SetToSeq({p[1] : p \in rows})]
<1>1. x \in IF Cardinality(rows) =< 1 THEN After(t, last, "on")
            ELSE UNION {IF e = "mongodb" /\ ~p[2].keyed THEN Refuse(t, l, "backend")
                        ELSE After(t, turn(p), "again") : p \in first}
 <2>1. e \in AllEngines  BY DEF Calling
 <2>2. x \in NextPage(e, t, o, l, sd)  BY <2>1, TurnIs
 <2> QED  BY <2>2, Zenon DEF NextPage
<1>2. /\ IsTable(e, t) /\ IsLocal(e, o, l) /\ l \in Locals /\ Ids \subseteq Nat \ {0}
      /\ l.got \in Seq(Nat) /\ l.cursor \in Nat  BY KeysAre DEF Calling, IsLocal, Locals
<1>3. /\ \A p \in rows : /\ p = <<p[1], p[2]>> /\ p[1] \in Ids /\ p[2] \in t[p[1]] /\ p[2] \in Rows
                         /\ l.paged => p[2].keyed /\ p[1] > l.cursor
      /\ \A i \in Ids : \A r \in t[i] :
           /\ InScope(o.viewer, r) /\ ~(sd /\ r.dead) /\ (l.paged => r.keyed /\ i > l.cursor)
           => <<i, r>> \in rows  BY <1>2, ListedIs
<1>4. IsFiniteSet(rows)  BY <1>2, <1>3, ListedFinite
<1> HIDE DEF rows
\* A key that must not be missed and is not yet counted is among the rows.
<1>5. ASSUME NEW keys, Shown(o, t, sd, keys), NEW i \in keys, ~(l.paged /\ i =< l.cursor)
      PROVE  \E r \in t[i] : <<i, r>> \in rows /\ r.keyed
 <2>1. i \in Ids /\ t[i] # {} /\ \A r \in t[i] : r.keyed /\ InScope(o.viewer, r) /\ ~(sd /\ r.dead)
   BY <1>5 DEF Shown
 <2>2. l.paged => i > l.cursor
  <3>1. i \in Nat /\ l.cursor \in Nat  BY <1>2, <2>1
  <3> QED  BY <1>5, <3>1
 <2> QED  BY <1>3, <2>1, <2>2
<1>6. CASE Cardinality(rows) =< 1
 <2>1. x.table = t /\ x.local = last /\ x.says = "on"
  <3> HIDE DEF last
  <3> QED  BY <1>1, <1>6, OutcomeIs
 <2> DEFINE g == l.got \o SetToSeq({p[1] : p \in rows})
 <2>2. rows = {} \/ \E p : rows = {p}  BY <1>4, <1>6, AtMostOne
 <2>3. (rows = {} /\ g = l.got) \/ \E p \in rows : rows = {p} /\ g = Append(l.got, p[1])
  <3>1. CASE rows = {}
   <4>1. {p[1] : p \in rows} = {}  BY <3>1
   <4>2. SetToSeq({p[1] : p \in rows}) = << >>  BY <4>1, SequenceOfNone
   <4> QED  BY <1>2, <3>1, <4>2
  <3>2. ASSUME NEW p, rows = {p} PROVE g = Append(l.got, p[1])
   <4>1. {q[1] : q \in rows} = {p[1]}  BY <3>2
   <4>2. SetToSeq({q[1] : q \in rows}) = <<p[1]>>  BY <4>1, SequenceOfOne
   <4>3. p[1] \in Nat  BY <1>2, <1>3, <3>2
   <4>4. \A s \in Seq(Nat), j \in Nat : s \o <<j>> = Append(s, j)  OBVIOUS
   <4>5. g = l.got \o <<p[1]>>  BY <4>2
   <4> HIDE DEF g
   <4> QED  BY <1>2, <4>3, <4>4, <4>5
  <3> QED  BY <2>2, <3>1, <3>2
 <2>4. last = [l EXCEPT !.got = g]  OBVIOUS
 <2> HIDE DEF g, last
 <2>5. g \in Seq(Nat)
  <3>1. \A s \in Seq(Nat), j \in Nat : Append(s, j) \in Seq(Nat)  OBVIOUS
  <3>2. l.got \in Seq(Nat) /\ \A p \in rows : p[1] \in Nat  BY <1>2, <1>3
  <3> QED  BY <2>3, <3>1, <3>2
 <2>6. PagedLocal(e, o, l, last, l.cursor, l.paged, g)  BY <1>2, <2>4, <2>5, GotChange
 <2>7. Says(t, "Turn", x)  BY <2>1 DEF Says
 <2>8. Remembers(e, o, l, "Turn", x)  BY <2>1, <2>6 DEF Remembers, PagedLocal, Naming
 <2>9. ASSUME NEW keys, Shown(o, t, sd, keys), Counting(keys, l), NEW i \in keys PROVE OnceIn(g, i)
  <3>1. CASE l.paged /\ i =< l.cursor
   <4>1. OnceIn(l.got, i)  BY <2>9, <3>1 DEF Counting
   <4>2. \A p \in rows : p[1] # i  BY <1>2, <1>3, <3>1
   <4>3. \A p \in rows : p[1] \in Nat  BY <1>2, <1>3
   <4>4. l.got \in Seq(Nat)  BY <1>2
   <4>5. ASSUME NEW p \in rows PROVE OnceIn(Append(l.got, p[1]), i)
    <5>1. p[1] \in Nat /\ i # p[1]  BY <4>2, <4>3
    <5>2. \A j : OnceIn(l.got, j) /\ j # p[1] => OnceIn(Append(l.got, p[1]), j)  BY <4>4, <5>1, Appended
    <5> QED  BY <4>1, <5>1, <5>2
   <4> QED  BY <2>3, <4>1, <4>5
  <3>2. CASE ~(l.paged /\ i =< l.cursor)
   <4>1. NeverIn(l.got, i)  BY <2>9, <3>2 DEF Counting
   <4>2. PICK r \in t[i] : <<i, r>> \in rows  BY <1>5, <2>9, <3>2
   <4>3. g = Append(l.got, i) /\ i \in Nat  BY <1>2, <1>3, <2>3, <4>2
   <4> QED  BY <1>2, <4>1, <4>3, Appended
  <3> QED  BY <3>1, <3>2
 <2>10. Keeping(o, t, sd, l, x)  BY <2>1, <2>6, <2>9 DEF Keeping, PagedLocal
 <2> QED  BY <2>1, <2>7, <2>8, <2>10, Looking DEF Names, Writing, Adding, Changing
<1>7. CASE ~(Cardinality(rows) =< 1)
 <2>1. PICK p \in first : x \in IF e = "mongodb" /\ ~p[2].keyed THEN Refuse(t, l, "backend") ELSE After(t, turn(p), "again")
  <3> HIDE DEF first, turn
  <3> QED  BY <1>1, <1>7
 <2>2. p \in rows /\ \A q \in rows : Place(e, p[1], p[2]) =< Place(e, q[1], q[2])  OBVIOUS
 <2> HIDE DEF first
 <2>3. CASE x \in Refuse(t, l, "backend")
  <3>1. x.table = t /\ x.local = l /\ x.says = "backend"  BY <2>3 DEF Refuse, After
  <3>2. Says(t, "Turn", x)  BY <3>1 DEF Says
  <3>3. Remembers(e, o, l, "Turn", x)  BY <1>2, <3>1 DEF Remembers, Naming
  <3>4. Keeping(o, t, sd, l, x)  BY <3>1 DEF Keeping
  <3> QED  BY <3>1, <3>2, <3>3, <3>4, Looking DEF Names, Writing, Adding, Changing
 <2>4. CASE x \in After(t, turn(p), "again") /\ ~(e = "mongodb" /\ ~p[2].keyed)
  <3>1. x.table = t /\ x.local = turn(p) /\ x.says = "again"
   <4> HIDE DEF turn
   <4> QED  BY <2>4, OutcomeIs
  <3> DEFINE g == Append(l.got, p[1])
             n == cur(p)
             k == turn(p)
  <3>2. p[1] \in Ids /\ p[2] \in t[p[1]] /\ (l.paged => p[2].keyed /\ p[1] > l.cursor) /\ p[1] \in Nat
    BY <1>2, <1>3, <2>2
  <3>3. n \in Nat /\ n = (IF p[2].keyed \/ e = "elasticsearch" THEN p[1] ELSE 0)  BY <3>2
  <3>4. k = [l EXCEPT !.got = g, !.paged = TRUE, !.cursor = n]  OBVIOUS
  <3>5. /\ g \in Seq(Nat)
        /\ \A i : NeverIn(l.got, i) /\ i # p[1] => NeverIn(g, i)
        /\ NeverIn(l.got, p[1]) => OnceIn(g, p[1])
        /\ \A i : OnceIn(l.got, i) /\ i # p[1] => OnceIn(g, i)  BY <1>2, <3>2, Appended
  <3> HIDE DEF g, n, k, cur, turn
  <3>6. PagedLocal(e, o, l, k, n, TRUE, g)  BY <1>2, <3>3, <3>4, <3>5, PagedChange
  <3>7. Says(t, "Turn", x)  BY <3>1 DEF Says
  <3>8. x.local = k  BY <3>1 DEF k
  <3>9. Remembers(e, o, l, "Turn", x)  BY <3>1, <3>6, <3>8 DEF Remembers, PagedLocal, Naming
  <3>10. ASSUME NEW keys, Shown(o, t, sd, keys), Counting(keys, l), NEW i \in keys
         PROVE  IF i =< n THEN OnceIn(g, i) ELSE NeverIn(g, i)
   <4>0. i \in Ids /\ i \in Nat /\ \A r \in t[i] : r.keyed  BY <1>2, <3>10 DEF Shown
   <4>1. CASE l.paged /\ i =< l.cursor
    <5>1. OnceIn(l.got, i)  BY <3>10, <4>1 DEF Counting
    <5>2. p[1] # i /\ n = p[1] /\ i =< n  BY <1>2, <3>2, <3>3, <4>0, <4>1
    <5> QED  BY <3>5, <5>1, <5>2
   <4>2. CASE ~(l.paged /\ i =< l.cursor)
    <5>1. NeverIn(l.got, i)  BY <3>10, <4>2 DEF Counting
    <5>2. PICK r \in t[i] : <<i, r>> \in rows /\ r.keyed  BY <1>5, <3>10, <4>2
    <5>3. Place(e, p[1], p[2]) =< i
     <6>1. Place(e, p[1], p[2]) =< Place(e, <<i, r>>[1], <<i, r>>[2])  BY <2>2, <5>2
     <6> QED  BY <5>2, <6>1 DEF Place
    <5>4. CASE p[2].keyed
     <6>1. n = p[1] /\ p[1] =< i  BY <3>3, <5>3, <5>4 DEF Place
     <6> QED  BY <3>2, <3>5, <4>0, <5>1, <6>1
    <5>5. CASE ~p[2].keyed /\ e = "elasticsearch"
     <6>1. Max(Ids) + 1 =< i  BY <5>3, <5>5 DEF Place
     <6>2. Max(Ids) \in Nat /\ i =< Max(Ids)  BY <1>2, <4>0, Topmost
     <6> QED  BY <4>0, <6>1, <6>2
    <5>6. CASE ~p[2].keyed /\ e # "elasticsearch"
     <6>1. n = 0 /\ p[1] # i  BY <3>2, <3>3, <4>0, <5>6
     <6>2. ~(i =< n)  BY <1>2, <4>0, <6>1
     <6> QED  BY <3>5, <5>1, <6>1, <6>2
    <5> QED  BY <5>4, <5>5, <5>6
   <4> QED  BY <4>1, <4>2
  <3>11. Keeping(o, t, sd, l, x)
   <4>1. ASSUME NEW keys, Shown(o, t, sd, keys), Counting(keys, l) PROVE Counting(keys, k)
     BY <3>6, <3>10, <4>1 DEF Counting, PagedLocal
   <4> QED  BY <3>1, <3>8, <4>1 DEF Keeping
  <3> QED  BY <3>1, <3>7, <3>9, <3>11, Looking DEF Names, Writing, Adding, Changing
 <2> QED  BY <2>1, <2>3, <2>4
<1> QED  BY <1>6, <1>7

(* Any call.                                                               *)
Lone == {"Probe", "Peek", "ReadDoc"} \cup Changing
BulkKeeps(t, c, l, x) ==
  /\ x.local.failed \/ Placed(c, x.table, l.ids)
  /\ (x.local.failed /\ \A i \in Ids : ~Mine(c, t[i])) => \A i \in Ids : Mine(c, x.table[i]) => i \in x.local.landed
PatchKeeps(e, t, c, o, x) ==
  /\ e # "clickhouse" /\ x.says = "on" => Mine(c, x.table[1])
  /\ e # "elasticsearch" => \A r \in t[1] \ x.table[1] : InScope(o.viewer, r)
  /\ o.mark = "keep" /\ AllDead(t[1]) => AllDead(x.table[1])
  /\ t[1] = {} => x.table[1] = {}
RemoveKeeps(e, t, o, x) ==
  /\ t[1] = {} => x.table[1] = {}
  /\ e # "clickhouse" /\ x.says = "on" => x.table # t
  /\ e # "elasticsearch" => \A r \in t[1] \ x.table[1] : InScope(o.viewer, r)
\* The keys among ids hold no row.
Free(t, ids) == \A k \in DOMAIN ids : t[ids[k]] = {}

\* A set of numbers that has an element has a least one, and with a bound a greatest one.
LEMMA LeastElement ==
  ASSUME NEW T, T \subseteq Nat, T # {}
  PROVE  \E y \in T : \A z \in T : y =< z
<1> DEFINE Less == {ss \in Nat \X Nat : ss[1] < ss[2]}
<1>1. IsWellFoundedOn(Less, Nat)  BY NatLessThanWellFounded DEF OpToRel
<1>2. PICK y \in T : \A z \in T : ~ (<<z, y>> \in Less)
 <2> HIDE DEF Less
 <2> QED  BY <1>1, WFMin
<1>3. ASSUME NEW z \in T PROVE y =< z
 <2>1. ~(z < y)  BY <1>2
 <2> QED  BY <2>1
<1> QED  BY <1>3

LEMMA GreatestElement ==
  ASSUME NEW T, NEW n \in Nat, T \subseteq 0 .. n, T # {}
  PROVE  \E y \in T : \A z \in T : y >= z
<1> DEFINE U == {n - y : y \in T}
<1>0. \A y \in T : y \in 0 .. n  OBVIOUS
<1>1. U \subseteq Nat /\ U # {}
 <2>1. \A y \in 0 .. n : n - y \in Nat  OBVIOUS
 <2> QED  BY <1>0, <2>1
<1>2. PICK u \in U : \A v \in U : u =< v
 <2> HIDE DEF U
 <2> QED  BY <1>1, LeastElement
<1>3. PICK y \in T : u = n - y  OBVIOUS
<1>4. ASSUME NEW z \in T PROVE y >= z
 <2>1. n - z \in U  OBVIOUS
 <2>2. n - y =< n - z  BY <1>2, <1>3, <2>1
 <2>3. y \in Int /\ z \in Int  OBVIOUS
 <2> QED  BY <2>2, <2>3
<1> QED  BY <1>4

\* A key beyond the greatest that is taken is free.
LEMMA NextFrees ==
  ASSUME NEW e \in Holding, NEW t, NEW c, NEW o, NEW l, Calling(e, t, c, o, l, "NextIds"), o.ids = << 0 >>,
         NEW x \in NextIds(t, o, l)
  PROVE  Free(t, x.local.ids)
<1> DEFINE held == {0} \cup {i \in DOMAIN t : \E r \in t[i] : r.keyed}
           top == Max(held)
           ids == Numbered(o.ids, top + 1)
           k == [l EXCEPT !.ids = ids]
<1>1. Range(ids) \subseteq Ids /\ x \in Unless(~IsInjective(ids), "conflict", t, k)  BY DEF NextIds
<1>2. l \in Locals /\ IsTable(e, t) /\ DOMAIN t = Ids  BY DEF Calling, IsLocal, IsTable
<1>3. PICK n \in Nat : Ids = 1 .. n  BY <1>2, StorageAssumption
<1>4. held \subseteq 0 .. n /\ 0 \in held  BY <1>2, <1>3
<1>5. \A i \in Ids : t[i] # {} => i \in held  BY <1>2 DEF IsTable, RowsOK, AllKeyed
<1> HIDE DEF held
<1>6. \E y \in held : \A z \in held : y >= z  BY <1>4, GreatestElement
<1>7. top \in held /\ \A z \in held : top >= z  BY <1>6 DEF Max
<1> HIDE DEF top
<1>8. top \in Nat
 <2>1. top \in 0 .. n  BY <1>4, <1>7
 <2> QED  BY <2>1
<1>9. DOMAIN ids = {1} /\ ids[1] = top + 1
 <2>1. DOMAIN o.ids = {1} /\ o.ids[1] = 0  OBVIOUS
 <2>2. ids[1] = top + 1 + Cardinality({j \in 1 .. (1 - 1) : o.ids[j] = 0}) /\ DOMAIN ids = {1}
   BY <2>1 DEF Numbered
 <2>3. {j \in 1 .. (1 - 1) : o.ids[j] = 0} = {}  OBVIOUS
 <2>4. Cardinality({}) = 0  BY FS_EmptySet
 <2> QED  BY <1>8, <2>2, <2>3, <2>4
<1>10. ids[1] \in Ids  BY <1>1, <1>9 DEF Range
<1>11. x.local = k
 <2> HIDE DEF ids, k
 <2> QED  BY <1>1 DEF Unless, After
<1>12. k.ids = ids  BY <1>2 DEF Locals
<1> HIDE DEF ids, k
<1>13. t[ids[1]] = {}
 <2>1. ids[1] \notin held
  <3>1. ~(top >= ids[1])  BY <1>8, <1>9
  <3> QED  BY <1>7, <3>1
 <2> QED  BY <1>5, <1>10, <2>1
<1> QED  BY <1>9, <1>11, <1>12, <1>13 DEF Free

LEMMA FetchFrees ==
  ASSUME NEW e, NEW t, NEW c, NEW o, NEW l, Calling(e, t, c, o, l, "FetchAllIds"), NEW x \in FetchAllIds(t, l), x.says = "on"
  PROVE  Free(t, x.local.ids)
<1>1. ~(\E i \in Range(l.ids) : t[i] # {}) /\ x.local = l  BY DEF FetchAllIds, Unless, After
<1> QED  BY <1>1 DEF Free, Range

CellsKeep(t, o, x) == o.mark = "keep" /\ t[1] # {} /\ AllDead(t[1]) => AllDead(x.table[1])
Effects(e, sd, t, c, o, l, name, x) ==
  /\ name \in {"InsertAll", "InsertClaimed", "Put"} /\ x.says = "on" => Placed(c, x.table, x.local.ids)
  /\ name = "Append1" => x.local.item = NextItem(l) /\ Mine(c, x.table[l.ids[l.item + 1]])
  /\ name = "EnsureIdFree" => x.local.item = NextItem(l)
  /\ name = "FetchAllIds" /\ x.says = "on" => Free(t, x.local.ids)
  /\ name = "NextIds" /\ e \in Holding /\ o.ids = <<0>> => Free(t, x.local.ids)
  /\ name = "Bulk" => BulkKeeps(t, c, l, x)
  /\ name = "Undo" => UndoKeeps(t, c, l, x)
  /\ name = "PatchWhere" => PatchKeeps(e, t, c, o, x)
  /\ name = "RemoveWhere" => RemoveKeeps(e, t, o, x)
  /\ name = "WriteCells" => CellsKeep(t, o, x)
  /\ name = "Turn" => Keeping(o, t, sd, l, x)

LEMMA CallTame ==
  ASSUME NEW e, NEW sd, NEW name \in Names, NEW t, NEW c, NEW o, NEW l, Calling(e, t, c, o, l, name),
         name \in Lone => o.ids = << 1 >>, NEW x \in Call(e, sd, name, t, c, o, l)
  PROVE  Tame(e, t, c, o, l, name, x) /\ Effects(e, sd, t, c, o, l, name, x)
<1>1. CASE name = "InsertClaimed"
 <2>1. x \in InsertClaimed(t, c, o, l)  BY <1>1 DEF Call
 <2> QED  BY <1>1, <2>1, InsertClaimedTame DEF Effects
<1>2. CASE name = "InsertAll"
 <2>1. x \in InsertAll(t, c, o, l)  BY <1>2 DEF Call
 <2> QED  BY <1>2, <2>1, InsertAllTame DEF Effects
<1>3. CASE name = "NextIds"
 <2>1. x \in NextIds(t, o, l)  BY <1>3 DEF Call
 <2> QED  BY <1>3, <2>1, NextIdsTame, NextFrees DEF Effects
<1>4. CASE name = "Put"
 <2>1. x \in Put(t, c, o, l)  BY <1>4 DEF Call
 <2> QED  BY <1>4, <2>1, PutTame DEF Effects
<1>5. CASE name = "FetchUnscoped"
 <2>1. x \in FetchUnscoped(t, l)  BY <1>5 DEF Call
 <2> QED  BY <1>5, <2>1, FetchUnscopedTame DEF Effects
<1>6. CASE name = "FetchAllIds"
 <2>1. x \in FetchAllIds(t, l)  BY <1>6 DEF Call
 <2> QED  BY <1>6, <2>1, FetchAllIdsTame, FetchFrees DEF Effects
<1>7. CASE name = "EnsureIdFree"
 <2>1. x \in EnsureIdFree(t, l)  BY <1>7 DEF Call
 <2> QED  BY <1>7, <2>1, EnsureIdFreeTame DEF Effects
<1>8. CASE name = "Append1"
 <2>1. x \in Append1(t, c, o, l)  BY <1>8 DEF Call
 <2> QED  BY <1>8, <2>1, Append1Tame DEF Effects
<1>9. CASE name = "Bulk"
 <2>1. x \in Bulk(t, c, o, l)  BY <1>9 DEF Call
 <2> QED  BY <1>9, <2>1, BulkTame DEF Effects, BulkKeeps
<1>10. CASE name = "Undo"
 <2>1. x \in Undo(t, l)  BY <1>10 DEF Call
 <2> QED  BY <1>10, <2>1, UndoTame DEF Effects
<1>11. CASE name = "PatchWhere"
 <2>1. x \in PatchWhere(e, t, c, o, l)  BY <1>11 DEF Call
 <2>2. o.ids = <<1>>  BY <1>11 DEF Lone, Changing
 <2> QED  BY <1>11, <2>1, <2>2, PatchWhereTame DEF Effects, PatchKeeps
<1>12. CASE name = "RemoveWhere"
 <2>1. x \in RemoveWhere(e, t, o, l)  BY <1>12 DEF Call
 <2>2. o.ids = <<1>>  BY <1>12 DEF Lone, Changing
 <2> QED  BY <1>12, <2>1, <2>2, RemoveWhereTame DEF Effects, RemoveKeeps
<1>13. CASE name = "RemoveSeen"
 <2>1. x \in RemoveSeen(t, o, l)  BY <1>13 DEF Call
 <2>2. o.ids = <<1>>  BY <1>13 DEF Lone, Changing
 <2> QED  BY <1>13, <2>1, <2>2, RemoveSeenTame DEF Effects
<1>14. CASE name = "WriteCells"
 <2>1. x \in WriteCells(t, c, o, l)  BY <1>14 DEF Call
 <2>2. o.ids = <<1>>  BY <1>14 DEF Lone, Changing
 <2> QED  BY <1>14, <2>1, <2>2, WriteCellsTame DEF Effects, CellsKeep
<1>15. CASE name = "Rewrite"
 <2>1. x \in Rewrite(t, c, o, l)  BY <1>15 DEF Call
 <2>2. o.ids = <<1>>  BY <1>15 DEF Lone, Changing
 <2> QED  BY <1>15, <2>1, <2>2, RewriteTame DEF Effects
<1>16. CASE name = "Erase"
 <2>1. x \in Erase(t, o, l)  BY <1>16 DEF Call
 <2>2. o.ids = <<1>>  BY <1>16 DEF Lone, Changing
 <2> QED  BY <1>16, <2>1, <2>2, EraseTame DEF Effects
<1>17. CASE name = "PollGone"
 <2>1. x \in PollGone(e, t, o, l)  BY <1>17 DEF Call
 <2> QED  BY <1>17, <2>1, PollGoneTame DEF Effects
<1>18. CASE name = "Probe"
 <2>1. x \in Probe(e, t, o, l)  BY <1>18 DEF Call
 <2>2. o.ids = <<1>>  BY <1>18 DEF Lone, Changing
 <2> QED  BY <1>18, <2>1, <2>2, ProbeTame DEF Effects
<1>19. CASE name = "Peek"
 <2>1. x \in Peek(e, t, o, l)  BY <1>19 DEF Call
 <2>2. o.ids = <<1>>  BY <1>19 DEF Lone, Changing
 <2> QED  BY <1>19, <2>1, <2>2, PeekTame DEF Effects
<1>20. CASE name = "ReadDoc"
 <2>1. x \in ReadDoc(t, o, l)  BY <1>20 DEF Call
 <2>2. o.ids = <<1>>  BY <1>20 DEF Lone, Changing
 <2> QED  BY <1>20, <2>1, <2>2, ReadDocTame DEF Effects
<1>21. CASE name = "Recheck"
 <2>1. x \in Recheck(t, o, l)  BY <1>21 DEF Call
 <2> QED  BY <1>21, <2>1, RecheckTame DEF Effects
<1>22. CASE name = "NeedAlive"
 <2>1. x \in AliveProbe(e, t, o, l, FALSE)  BY <1>22 DEF Call
 <2> QED  BY <1>22, <2>1, NeedTame DEF Effects
<1>23. CASE name = "NeedDead"
 <2>1. x \in AliveProbe(e, t, o, l, TRUE)  BY <1>23 DEF Call
 <2> QED  BY <1>23, <2>1, NeedTame DEF Effects
<1>24. CASE name = "Turn"
 <2>1. x \in Turn(e, t, o, l, sd)  BY <1>24 DEF Call
 <2> QED  BY <1>24, <2>1, TurnTame DEF Effects
<1> QED
  BY <1>1, <1>2, <1>3, <1>4, <1>5, <1>6, <1>7, <1>8, <1>9, <1>10, <1>11, <1>12, <1>13, <1>14, <1>15, <1>16, <1>17, <1>18, <1>19, <1>20, <1>21, <1>22, <1>23, <1>24 DEF Names

(* The plans.                                                              *)
Stores == {"create", "batch", "upsert"}
Rechecked(e, kind) ==
  \/ e \in Rereads /\ kind \in {"update", "tombstone", "restore"}
  \/ e = "seaorm" /\ kind \in Stores
  \/ e \in {"elasticsearch", "clickhouse"} /\ kind = "batch"
Numbers(o) == o = Op("create", <<0>>, "all", "a")

\* Which calls a plan makes, by the kind of the operation.
FitsAt(e, o, p, k) ==
   /\ p[k] \in Naming => k = 1 /\ o.kind \in {"create", "batch"}
   /\ p[k] \in Adding => o.kind \in Stores
   /\ p[k] \in Lone => o.kind \notin {"create", "batch"}
   /\ p[k] \in Changing => o.kind \notin {"create", "batch", "walk", "none"}
   /\ p[k] = "Append1" => e = "clickhouse"
   /\ p[k] \in {"Bulk", "Undo"} => e = "elasticsearch" /\ o.kind = "batch"
   /\ p[k] = "Turn" => o.kind = "walk"
   /\ o.kind = "update" /\ e # "influxdb" /\ p[k] \in Writing => p[k] \in {"PatchWhere", "WriteCells"}
   /\ p[k] = "Put" => \/ e = "elasticsearch" \/ o.kind = "upsert"
                      \/ e \in {"cassandra", "influxdb"} /\ Numbers(o) /\ p = <<"NextIds", "Put">>
                      \/ e = "influxdb" /\ o.kind = "create" /\ o.ids = <<2>> /\ p = <<"Put">>
                      \/ e = "influxdb" /\ o.kind = "batch" /\ p = <<"NextIds", "FetchAllIds", "Put">>
Fits(e, o, p) ==
  /\ p \in Seq(Names) /\ Len(p) >= 1
  /\ \A k \in DOMAIN p : FitsAt(e, o, p, k)
  /\ p[1] \notin Naming /\ o.kind \in {"create", "batch"} => o.ids = <<2>>
  /\ o.kind = "walk" => p = <<"Turn">>
  /\ o.kind = "batch" /\ e = "elasticsearch" => p = <<"NextIds", "Bulk", "Undo">>
  /\ o.kind = "batch" /\ e = "clickhouse" => p = <<"NextIds", "EnsureIdFree", "EnsureIdFree", "Append1", "Append1">>
  /\ o.kind = "create" /\ e = "clickhouse" => p \in {<<"NextIds", "Append1">>, <<"EnsureIdFree", "Append1">>}

\* Where in a plan the writing is.
Writing1(e, o, p) ==
  /\ \A k \in DOMAIN p : \A j \in 1 .. k - 1 :
       p[j] \in Writing /\ p[k] \in MayMiss \cup MayClash
       => Rechecked(e, o.kind) /\ (o.kind = "batch" /\ p[k] \in MayClash => e \in {"elasticsearch", "clickhouse"})
  /\ o.kind \in {"create", "batch"} /\ e \notin {"elasticsearch", "clickhouse"} =>
       \E k \in DOMAIN p : p[k] \in {"InsertAll", "InsertClaimed", "Put"} /\ \A j \in DOMAIN p \ {k} : p[j] \notin Writing
Sure(e, name) == name \in Adding \/ (e \notin Probing /\ name \in {"PatchWhere", "RemoveWhere"})
SureWrite(e, o, p) ==
  o.kind # "walk" /\ (e \notin Probing \/ o.kind \in Stores) => \E j \in DOMAIN p : Sure(e, p[j])
Looked(e, o, p) ==
  o.kind \in InPlace =>
    \A k \in DOMAIN p : p[k] \in Writing =>
       /\ p[k] \in {"PatchWhere", "RemoveWhere"} \/ e \in {"cassandra", "influxdb"}
       /\ \/ e \in {"memory", "seaorm", "mongodb", "clickhouse"} /\ p[k] \in {"PatchWhere", "RemoveWhere"}
          \/ \E j \in 1 .. k - 1 : p[j] \in {"Probe", "Recheck"}
PlanOK(e, o, p) == Fits(e, o, p) /\ Writing1(e, o, p) /\ SureWrite(e, o, p) /\ Looked(e, o, p)

LEMMA IdsAre ==
  ASSUME NEW o, IsOp(o)
  PROVE  /\ o.kind = "create" => (o.ids = << 2 >> /\ ~Generated(o)) \/ (o.ids = << 0 >> /\ Numbers(o) /\ Generated(o))
         /\ o.kind = "batch" => DOMAIN o.ids = {1, 2}
         /\ o.kind \notin {"create", "batch"} => o.ids = <<1>>
<1>1. CASE o = Op("create", <<0>>, "all", "a")  BY <1>1 DEF Generated, Op, Numbers
<1>2. CASE o.ids = <<2>>  BY <1>2 DEF Generated, IsOp
<1> QED  BY <1>1, <1>2 DEF IsOp

Joined(m, u, v, p) ==
  /\ p \in Seq(m) /\ Len(p) = Len(u) + Len(v)
  /\ \A k \in 1 .. Len(u) : p[k] = u[k]
  /\ \A k \in 1 .. Len(v) : p[Len(u) + k] = v[k]
LEMMA JoinIs ==
  ASSUME NEW m, NEW u \in Seq(m), NEW v \in Seq(m)
  PROVE  Joined(m, u, v, u \o v)
BY DEF Joined

LEMMA FiveAre ==
  ASSUME NEW m, NEW p \in Seq(m), Len(p) = 5
  PROVE  p = <<p[1], p[2], p[3], p[4], p[5]>>
OBVIOUS

LEMMA CreatePlans ==
  ASSUME NEW e \in AllEngines, NEW o, IsOp(o), o.kind = "create"
  PROVE  PlanOK(e, o, Creating(e, o))
<1> DEFINE p == Creating(e, o)
<1> SUFFICES PlanOK(e, o, p)  OBVIOUS
<1> USE DEF InPlace, Sure, Rechecked, Rereads, Probing, Stores, Names, Naming, Adding, Changing, Writing, Lone, MayMiss, MayClash
<1>1. CASE e = "memory"
 <2>1. p = <<"InsertClaimed">>  BY <1>1, IdsAre DEF Creating, MemoryCreate
 <2>3. o.ids = <<2>> \/ Numbers(o)  BY IdsAre
 <2> HIDE DEF p
 <2>12. Len(p) = 1 /\ DOMAIN p = 1 .. 1 /\ p[1] = "InsertClaimed"  BY <2>1
 <2>13. p \in Seq(Names)  BY <2>1 DEF Names
 <2>14. Fits(e, o, p)  BY <1>1, <2>3, <2>1, <2>12, <2>13 DEF Fits, FitsAt
 <2>15. Writing1(e, o, p) /\ SureWrite(e, o, p) /\ Looked(e, o, p)  BY <1>1, <2>3, <2>12 DEF Writing1, SureWrite, Looked
 <2> QED  BY <2>14, <2>15 DEF PlanOK
<1>2. CASE e = "seaorm"
 <2>1. p = <<"InsertClaimed", "FetchUnscoped">>  BY <1>2, IdsAre DEF Creating, SeaormCreate
 <2>3. o.ids = <<2>> \/ Numbers(o)  BY IdsAre
 <2> HIDE DEF p
 <2>12. Len(p) = 2 /\ DOMAIN p = 1 .. 2 /\ p[1] = "InsertClaimed" /\ p[2] = "FetchUnscoped"  BY <2>1
 <2>13. p \in Seq(Names)  BY <2>1 DEF Names
 <2>14. Fits(e, o, p)  BY <1>2, <2>3, <2>1, <2>12, <2>13 DEF Fits, FitsAt
 <2>15. Writing1(e, o, p) /\ SureWrite(e, o, p) /\ Looked(e, o, p)  BY <1>2, <2>3, <2>12 DEF Writing1, SureWrite, Looked
 <2> QED  BY <2>14, <2>15 DEF PlanOK
<1>3. CASE e = "mongodb"
 <2>1. CASE Generated(o)
  <3>1. p = <<"NextIds", "InsertAll">>  BY <1>3, <2>1, IdsAre DEF Creating, MongoCreate
  <3>2. Numbers(o)  BY <2>1, IdsAre
  <3> HIDE DEF p
  <3>12. Len(p) = 2 /\ DOMAIN p = 1 .. 2 /\ p[1] = "NextIds" /\ p[2] = "InsertAll"  BY <3>1
  <3>13. p \in Seq(Names)  BY <3>1 DEF Names
  <3>14. Fits(e, o, p)  BY <1>3, <3>2, <3>1, <3>12, <3>13 DEF Fits, FitsAt
  <3>15. Writing1(e, o, p) /\ SureWrite(e, o, p) /\ Looked(e, o, p)  BY <1>3, <3>2, <3>12 DEF Writing1, SureWrite, Looked
  <3> QED  BY <3>14, <3>15 DEF PlanOK
 <2>2. CASE ~Generated(o)
  <3>1. p = <<"InsertAll">>  BY <1>3, <2>2, IdsAre DEF Creating, MongoCreate
  <3>2. o.ids = <<2>>  BY <2>2, IdsAre
  <3> HIDE DEF p
  <3>12. Len(p) = 1 /\ DOMAIN p = 1 .. 1 /\ p[1] = "InsertAll"  BY <3>1
  <3>13. p \in Seq(Names)  BY <3>1 DEF Names
  <3>14. Fits(e, o, p)  BY <1>3, <3>2, <3>1, <3>12, <3>13 DEF Fits, FitsAt
  <3>15. Writing1(e, o, p) /\ SureWrite(e, o, p) /\ Looked(e, o, p)  BY <1>3, <3>2, <3>12 DEF Writing1, SureWrite, Looked
  <3> QED  BY <3>14, <3>15 DEF PlanOK
 <2> QED  BY <2>1, <2>2
<1>4. CASE e = "cassandra"
 <2>1. CASE Generated(o)
  <3>1. p = <<"NextIds", "Put">>  BY <1>4, <2>1, IdsAre DEF Creating, CassandraCreate
  <3>2. Numbers(o)  BY <2>1, IdsAre
  <3> HIDE DEF p
  <3>12. Len(p) = 2 /\ DOMAIN p = 1 .. 2 /\ p[1] = "NextIds" /\ p[2] = "Put"  BY <3>1
  <3>13. p \in Seq(Names)  BY <3>1 DEF Names
  <3>14. Fits(e, o, p)  BY <1>4, <3>2, <3>1, <3>12, <3>13 DEF Fits, FitsAt
  <3>15. Writing1(e, o, p) /\ SureWrite(e, o, p) /\ Looked(e, o, p)  BY <1>4, <3>2, <3>12 DEF Writing1, SureWrite, Looked
  <3> QED  BY <3>14, <3>15 DEF PlanOK
 <2>2. CASE ~Generated(o)
  <3>1. p = <<"InsertAll">>  BY <1>4, <2>2, IdsAre DEF Creating, CassandraCreate
  <3>2. o.ids = <<2>>  BY <2>2, IdsAre
  <3> HIDE DEF p
  <3>12. Len(p) = 1 /\ DOMAIN p = 1 .. 1 /\ p[1] = "InsertAll"  BY <3>1
  <3>13. p \in Seq(Names)  BY <3>1 DEF Names
  <3>14. Fits(e, o, p)  BY <1>4, <3>2, <3>1, <3>12, <3>13 DEF Fits, FitsAt
  <3>15. Writing1(e, o, p) /\ SureWrite(e, o, p) /\ Looked(e, o, p)  BY <1>4, <3>2, <3>12 DEF Writing1, SureWrite, Looked
  <3> QED  BY <3>14, <3>15 DEF PlanOK
 <2> QED  BY <2>1, <2>2
<1>5. CASE e \in {"elasticsearch", "influxdb"}
 <2>1. CASE Generated(o)
  <3>1. p = <<"NextIds", "Put">>  BY <1>5, <2>1, IdsAre DEF Creating, ElasticCreate, InfluxCreate
  <3>2. Numbers(o)  BY <2>1, IdsAre
  <3> HIDE DEF p
  <3>12. Len(p) = 2 /\ DOMAIN p = 1 .. 2 /\ p[1] = "NextIds" /\ p[2] = "Put"  BY <3>1
  <3>13. p \in Seq(Names)  BY <3>1 DEF Names
  <3>14. Fits(e, o, p)  BY <1>5, <3>2, <3>1, <3>12, <3>13 DEF Fits, FitsAt
  <3>15. Writing1(e, o, p) /\ SureWrite(e, o, p) /\ Looked(e, o, p)  BY <1>5, <3>2, <3>12 DEF Writing1, SureWrite, Looked
  <3> QED  BY <3>14, <3>15 DEF PlanOK
 <2>2. CASE ~Generated(o)
  <3>1. p = <<"Put">>  BY <1>5, <2>2, IdsAre DEF Creating, ElasticCreate, InfluxCreate
  <3>2. o.ids = <<2>>  BY <2>2, IdsAre
  <3> HIDE DEF p
  <3>12. Len(p) = 1 /\ DOMAIN p = 1 .. 1 /\ p[1] = "Put"  BY <3>1
  <3>13. p \in Seq(Names)  BY <3>1 DEF Names
  <3>14. Fits(e, o, p)  BY <1>5, <3>2, <3>1, <3>12, <3>13 DEF Fits, FitsAt
  <3>15. Writing1(e, o, p) /\ SureWrite(e, o, p) /\ Looked(e, o, p)  BY <1>5, <3>2, <3>12 DEF Writing1, SureWrite, Looked
  <3> QED  BY <3>14, <3>15 DEF PlanOK
 <2> QED  BY <2>1, <2>2
<1>6. CASE e = "clickhouse"
 <2>1. CASE Generated(o)
  <3>1. p = <<"NextIds", "Append1">>  BY <1>6, <2>1, IdsAre DEF Creating, ClickhouseCreate
  <3>2. Numbers(o)  BY <2>1, IdsAre
  <3> HIDE DEF p
  <3>12. Len(p) = 2 /\ DOMAIN p = 1 .. 2 /\ p[1] = "NextIds" /\ p[2] = "Append1"  BY <3>1
  <3>13. p \in Seq(Names)  BY <3>1 DEF Names
  <3>14. Fits(e, o, p)  BY <1>6, <3>2, <3>1, <3>12, <3>13 DEF Fits, FitsAt
  <3>15. Writing1(e, o, p) /\ SureWrite(e, o, p) /\ Looked(e, o, p)  BY <1>6, <3>2, <3>12 DEF Writing1, SureWrite, Looked
  <3> QED  BY <3>14, <3>15 DEF PlanOK
 <2>2. CASE ~Generated(o)
  <3>1. p = <<"EnsureIdFree", "Append1">>  BY <1>6, <2>2, IdsAre DEF Creating, ClickhouseCreate
  <3>2. o.ids = <<2>>  BY <2>2, IdsAre
  <3> HIDE DEF p
  <3>12. Len(p) = 2 /\ DOMAIN p = 1 .. 2 /\ p[1] = "EnsureIdFree" /\ p[2] = "Append1"  BY <3>1
  <3>13. p \in Seq(Names)  BY <3>1 DEF Names
  <3>14. Fits(e, o, p)  BY <1>6, <3>2, <3>1, <3>12, <3>13 DEF Fits, FitsAt
  <3>15. Writing1(e, o, p) /\ SureWrite(e, o, p) /\ Looked(e, o, p)  BY <1>6, <3>2, <3>12 DEF Writing1, SureWrite, Looked
  <3> QED  BY <3>14, <3>15 DEF PlanOK
 <2> QED  BY <2>1, <2>2
<1> QED  BY <1>1, <1>2, <1>3, <1>4, <1>5, <1>6 DEF AllEngines

LEMMA BatchPlans ==
  ASSUME NEW e \in AllEngines, NEW o, IsOp(o), o.kind = "batch"
  PROVE  PlanOK(e, o, Batching(e, o))
<1> DEFINE p == Batching(e, o)
<1> SUFFICES PlanOK(e, o, p)  OBVIOUS
<1> USE DEF InPlace, Sure, Rechecked, Rereads, Probing, Stores, Names, Naming, Adding, Changing, Writing, Lone, MayMiss, MayClash
<1>1. CASE e = "memory"
 <2>1. p = <<"InsertClaimed">>  BY <1>1 DEF Batching, MemoryBatch
 <2> HIDE DEF p
 <2>12. Len(p) = 1 /\ DOMAIN p = 1 .. 1 /\ p[1] = "InsertClaimed"  BY <2>1
 <2>13. p \in Seq(Names)  BY <2>1 DEF Names
 <2>14. Fits(e, o, p)  BY <1>1, <2>1, <2>12, <2>13 DEF Fits, FitsAt
 <2>15. Writing1(e, o, p) /\ SureWrite(e, o, p) /\ Looked(e, o, p)  BY <1>1, <2>12 DEF Writing1, SureWrite, Looked
 <2> QED  BY <2>14, <2>15 DEF PlanOK
<1>2. CASE e = "seaorm"
 <2>1. p = <<"InsertClaimed", "FetchUnscoped">>  BY <1>2 DEF Batching, SeaormBatch
 <2> HIDE DEF p
 <2>12. Len(p) = 2 /\ DOMAIN p = 1 .. 2 /\ p[1] = "InsertClaimed" /\ p[2] = "FetchUnscoped"  BY <2>1
 <2>13. p \in Seq(Names)  BY <2>1 DEF Names
 <2>14. Fits(e, o, p)  BY <1>2, <2>1, <2>12, <2>13 DEF Fits, FitsAt
 <2>15. Writing1(e, o, p) /\ SureWrite(e, o, p) /\ Looked(e, o, p)  BY <1>2, <2>12 DEF Writing1, SureWrite, Looked
 <2> QED  BY <2>14, <2>15 DEF PlanOK
<1>3. CASE e \in {"mongodb", "cassandra"}
 <2>1. p = <<"NextIds", "InsertAll">>  BY <1>3 DEF Batching, MongoBatch, CassandraBatch
 <2> HIDE DEF p
 <2>12. Len(p) = 2 /\ DOMAIN p = 1 .. 2 /\ p[1] = "NextIds" /\ p[2] = "InsertAll"  BY <2>1
 <2>13. p \in Seq(Names)  BY <2>1 DEF Names
 <2>14. Fits(e, o, p)  BY <1>3, <2>1, <2>12, <2>13 DEF Fits, FitsAt
 <2>15. Writing1(e, o, p) /\ SureWrite(e, o, p) /\ Looked(e, o, p)  BY <1>3, <2>12 DEF Writing1, SureWrite, Looked
 <2> QED  BY <2>14, <2>15 DEF PlanOK
<1>4. CASE e = "elasticsearch"
 <2>1. p = <<"NextIds", "Bulk", "Undo">>  BY <1>4 DEF Batching, ElasticBatch
 <2> HIDE DEF p
 <2>12. Len(p) = 3 /\ DOMAIN p = 1 .. 3 /\ p[1] = "NextIds" /\ p[2] = "Bulk" /\ p[3] = "Undo"  BY <2>1
 <2>13. p \in Seq(Names)  BY <2>1 DEF Names
 <2>14. Fits(e, o, p)  BY <1>4, <2>1, <2>12, <2>13 DEF Fits, FitsAt
 <2>15. Writing1(e, o, p) /\ SureWrite(e, o, p) /\ Looked(e, o, p)  BY <1>4, <2>12 DEF Writing1, SureWrite, Looked
 <2> QED  BY <2>14, <2>15 DEF PlanOK
<1>5. CASE e = "influxdb"
 <2>1. p = <<"NextIds", "FetchAllIds", "Put">>  BY <1>5 DEF Batching, InfluxBatch
 <2> HIDE DEF p
 <2>12. Len(p) = 3 /\ DOMAIN p = 1 .. 3 /\ p[1] = "NextIds" /\ p[2] = "FetchAllIds" /\ p[3] = "Put"  BY <2>1
 <2>13. p \in Seq(Names)  BY <2>1 DEF Names
 <2>14. Fits(e, o, p)  BY <1>5, <2>1, <2>12, <2>13 DEF Fits, FitsAt
 <2>15. Writing1(e, o, p) /\ SureWrite(e, o, p) /\ Looked(e, o, p)  BY <1>5, <2>12 DEF Writing1, SureWrite, Looked
 <2> QED  BY <2>14, <2>15 DEF PlanOK
<1>6. CASE e = "clickhouse"
 <2>2. Times(o, "EnsureIdFree") = <<"EnsureIdFree", "EnsureIdFree">> /\ Times(o, "Append1") = <<"Append1", "Append1">>
   BY <1>6, IdsAre DEF Times
 <2>3. p = <<"NextIds">> \o <<"EnsureIdFree", "EnsureIdFree">> \o <<"Append1", "Append1">>
   BY <1>6, <2>2 DEF Batching, ClickhouseBatch
 <2> DEFINE u == <<"NextIds">> \o <<"EnsureIdFree", "EnsureIdFree">>
            v == <<"Append1", "Append1">>
 <2>4. <<"NextIds">> \in Seq(Names) /\ <<"EnsureIdFree", "EnsureIdFree">> \in Seq(Names) /\ v \in Seq(Names)
   BY DEF Names
 <2>5. u \in Seq(Names) /\ Len(u) = 3 /\ u[1] = "NextIds" /\ u[1 + 1] = "EnsureIdFree" /\ u[1 + 2] = "EnsureIdFree"
   BY <2>4, JoinIs DEF Joined
 <2>6. p = u \o v /\ Len(v) = 2 /\ v[1] = "Append1" /\ v[2] = "Append1"  BY <2>3
 <2> HIDE DEF p, u, v
 <2>9. u \in Seq(Names) /\ v \in Seq(Names)  BY <2>4, <2>5
 <2>10. Joined(Names, u, v, p)  BY <2>6, <2>9, JoinIs
 <2>8. p \in Seq(Names) /\ Len(p) = 5 /\ (\A k \in 1 .. 3 : p[k] = u[k]) /\ \A k \in 1 .. 2 : p[3 + k] = v[k]
   BY <2>5, <2>6, <2>10 DEF Joined
 <2>7. p \in Seq(Names) /\ Len(p) = 5 /\ p[1] = "NextIds" /\ p[2] = "EnsureIdFree" /\ p[3] = "EnsureIdFree" /\ p[3 + 1] = "Append1" /\ p[3 + 2] = "Append1"
   BY <2>5, <2>6, <2>8
 <2>1. p = <<"NextIds", "EnsureIdFree", "EnsureIdFree", "Append1", "Append1">>  BY <2>7, FiveAre
 <2> HIDE DEF p
 <2>12. Len(p) = 5 /\ DOMAIN p = 1 .. 5 /\ p[1] = "NextIds" /\ p[2] = "EnsureIdFree" /\ p[3] = "EnsureIdFree" /\ p[4] = "Append1" /\ p[5] = "Append1"
   BY <2>1
 <2>13. p \in Seq(Names)  BY <2>1 DEF Names
 <2>14. Fits(e, o, p)  BY <1>6, <2>1, <2>12, <2>13 DEF Fits, FitsAt
 <2>15. Writing1(e, o, p) /\ SureWrite(e, o, p) /\ Looked(e, o, p)  BY <1>6, <2>12 DEF Writing1, SureWrite, Looked
 <2> QED  BY <2>14, <2>15 DEF PlanOK
<1> QED  BY <1>1, <1>2, <1>3, <1>4, <1>5, <1>6 DEF AllEngines

LEMMA UpsertPlans ==
  ASSUME NEW e \in AllEngines, NEW o, IsOp(o), o.kind = "upsert"
  PROVE  PlanOK(e, o, Upserting(e, o))
<1> DEFINE p == Upserting(e, o)
<1> SUFFICES PlanOK(e, o, p)  OBVIOUS
<1> USE DEF InPlace, Sure, Rechecked, Rereads, Probing, Stores, Names, Naming, Adding, Changing, Writing, Lone, MayMiss, MayClash
<1>1. CASE e \in {"memory", "mongodb", "cassandra", "elasticsearch", "influxdb"}
 <2>1. p = <<"Put">>
   BY <1>1 DEF Upserting, MemoryUpsert, MongoUpsert, CassandraUpsert, ElasticUpsert, InfluxUpsert
 <2> HIDE DEF p
 <2>12. Len(p) = 1 /\ DOMAIN p = 1 .. 1 /\ p[1] = "Put"  BY <2>1
 <2>13. p \in Seq(Names)  BY <2>1 DEF Names
 <2>14. Fits(e, o, p)  BY <1>1, <2>1, <2>12, <2>13 DEF Fits, FitsAt
 <2>15. Writing1(e, o, p) /\ SureWrite(e, o, p) /\ Looked(e, o, p)  BY <1>1, <2>12 DEF Writing1, SureWrite, Looked
 <2> QED  BY <2>14, <2>15 DEF PlanOK
<1>2. CASE e = "seaorm"
 <2>1. p = <<"Put", "FetchUnscoped">>  BY <1>2 DEF Upserting, SeaormUpsert
 <2> HIDE DEF p
 <2>12. Len(p) = 2 /\ DOMAIN p = 1 .. 2 /\ p[1] = "Put" /\ p[2] = "FetchUnscoped"  BY <2>1
 <2>13. p \in Seq(Names)  BY <2>1 DEF Names
 <2>14. Fits(e, o, p)  BY <1>2, <2>1, <2>12, <2>13 DEF Fits, FitsAt
 <2>15. Writing1(e, o, p) /\ SureWrite(e, o, p) /\ Looked(e, o, p)  BY <1>2, <2>12 DEF Writing1, SureWrite, Looked
 <2> QED  BY <2>14, <2>15 DEF PlanOK
<1>3. CASE e = "clickhouse"
 <2>1. p = <<"Peek", "RemoveSeen", "Append1">>  BY <1>3 DEF Upserting, ClickhouseUpsert
 <2> HIDE DEF p
 <2>12. Len(p) = 3 /\ DOMAIN p = 1 .. 3 /\ p[1] = "Peek" /\ p[2] = "RemoveSeen" /\ p[3] = "Append1"  BY <2>1
 <2>13. p \in Seq(Names)  BY <2>1 DEF Names
 <2>14. Fits(e, o, p)  BY <1>3, <2>1, <2>12, <2>13 DEF Fits, FitsAt
 <2>15. Writing1(e, o, p) /\ SureWrite(e, o, p) /\ Looked(e, o, p)  BY <1>3, <2>12 DEF Writing1, SureWrite, Looked
 <2> QED  BY <2>14, <2>15 DEF PlanOK
<1> QED  BY <1>1, <1>2, <1>3 DEF AllEngines

LEMMA UpdatePlans ==
  ASSUME NEW e \in AllEngines, NEW o, IsOp(o), o.kind = "update"
  PROVE  PlanOK(e, o, Updating(e, o))
<1> DEFINE p == Updating(e, o)
<1> SUFFICES PlanOK(e, o, p)  OBVIOUS
<1> USE DEF InPlace, Sure, Rechecked, Rereads, Probing, Stores, Names, Naming, Adding, Changing, Writing, Lone, MayMiss, MayClash
<1>1. CASE e = "memory"
 <2>1. p = <<"PatchWhere">>  BY <1>1 DEF Updating, MemoryUpdate
 <2> HIDE DEF p
 <2>12. Len(p) = 1 /\ DOMAIN p = 1 .. 1 /\ p[1] = "PatchWhere"  BY <2>1
 <2>13. p \in Seq(Names)  BY <2>1 DEF Names
 <2>14. Fits(e, o, p)  BY <1>1, <2>1, <2>12, <2>13 DEF Fits, FitsAt
 <2>15. Writing1(e, o, p) /\ SureWrite(e, o, p) /\ Looked(e, o, p)  BY <1>1, <2>12 DEF Writing1, SureWrite, Looked
 <2> QED  BY <2>14, <2>15 DEF PlanOK
<1>2. CASE e \in {"seaorm", "mongodb"}
 <2>1. p = <<"PatchWhere", "Probe">>  BY <1>2 DEF Updating, SeaormUpdate, MongoUpdate
 <2> HIDE DEF p
 <2>12. Len(p) = 2 /\ DOMAIN p = 1 .. 2 /\ p[1] = "PatchWhere" /\ p[2] = "Probe"  BY <2>1
 <2>13. p \in Seq(Names)  BY <2>1 DEF Names
 <2>14. Fits(e, o, p)  BY <1>2, <2>1, <2>12, <2>13 DEF Fits, FitsAt
 <2>15. Writing1(e, o, p) /\ SureWrite(e, o, p) /\ Looked(e, o, p)  BY <1>2, <2>12 DEF Writing1, SureWrite, Looked
 <2> QED  BY <2>14, <2>15 DEF PlanOK
<1>3. CASE e = "cassandra"
 <2>1. p = <<"Probe", "WriteCells">>  BY <1>3 DEF Updating, CassandraUpdate
 <2> HIDE DEF p
 <2>12. Len(p) = 2 /\ DOMAIN p = 1 .. 2 /\ p[1] = "Probe" /\ p[2] = "WriteCells"  BY <2>1
 <2>13. p \in Seq(Names)  BY <2>1 DEF Names
 <2>14. Fits(e, o, p)  BY <1>3, <2>1, <2>12, <2>13 DEF Fits, FitsAt
 <2>15. Writing1(e, o, p) /\ SureWrite(e, o, p) /\ Looked(e, o, p)  BY <1>3, <2>12 DEF Writing1, SureWrite, Looked
 <2> QED  BY <2>14, <2>15 DEF PlanOK
<1>4. CASE e = "elasticsearch"
 <2>1. p = <<"ReadDoc", "Recheck", "PatchWhere", "ReadDoc", "Recheck">>  BY <1>4 DEF Updating, ElasticUpdate
 <2> HIDE DEF p
 <2>12. Len(p) = 5 /\ DOMAIN p = 1 .. 5 /\ p[1] = "ReadDoc" /\ p[2] = "Recheck" /\ p[3] = "PatchWhere" /\ p[4] = "ReadDoc" /\ p[5] = "Recheck"
   BY <2>1
 <2>13. p \in Seq(Names)  BY <2>1 DEF Names
 <2>14. Fits(e, o, p)  BY <1>4, <2>1, <2>12, <2>13 DEF Fits, FitsAt
 <2>15. Writing1(e, o, p) /\ SureWrite(e, o, p) /\ Looked(e, o, p)  BY <1>4, <2>12 DEF Writing1, SureWrite, Looked
 <2> QED  BY <2>14, <2>15 DEF PlanOK
<1>5. CASE e = "influxdb"
 <2>1. p = <<"Probe", "Rewrite">>  BY <1>5 DEF Updating, InfluxUpdate
 <2> HIDE DEF p
 <2>12. Len(p) = 2 /\ DOMAIN p = 1 .. 2 /\ p[1] = "Probe" /\ p[2] = "Rewrite"  BY <2>1
 <2>13. p \in Seq(Names)  BY <2>1 DEF Names
 <2>14. Fits(e, o, p)  BY <1>5, <2>1, <2>12, <2>13 DEF Fits, FitsAt
 <2>15. Writing1(e, o, p) /\ SureWrite(e, o, p) /\ Looked(e, o, p)  BY <1>5, <2>12 DEF Writing1, SureWrite, Looked
 <2> QED  BY <2>14, <2>15 DEF PlanOK
<1>6. CASE e = "clickhouse"
 <2>1. p = <<"Probe", "PatchWhere", "Probe">>  BY <1>6 DEF Updating, ClickhouseUpdate
 <2> HIDE DEF p
 <2>12. Len(p) = 3 /\ DOMAIN p = 1 .. 3 /\ p[1] = "Probe" /\ p[2] = "PatchWhere" /\ p[3] = "Probe"  BY <2>1
 <2>13. p \in Seq(Names)  BY <2>1 DEF Names
 <2>14. Fits(e, o, p)  BY <1>6, <2>1, <2>12, <2>13 DEF Fits, FitsAt
 <2>15. Writing1(e, o, p) /\ SureWrite(e, o, p) /\ Looked(e, o, p)  BY <1>6, <2>12 DEF Writing1, SureWrite, Looked
 <2> QED  BY <2>14, <2>15 DEF PlanOK
<1> QED  BY <1>1, <1>2, <1>3, <1>4, <1>5, <1>6 DEF AllEngines

LEMMA DeletePlans ==
  ASSUME NEW e \in AllEngines, NEW o, IsOp(o), o.kind \in {"delete", "purge"}
  PROVE  PlanOK(e, o, Deleting(e, o))
<1> DEFINE p == Deleting(e, o)
<1> SUFFICES PlanOK(e, o, p)  OBVIOUS
<1> USE DEF InPlace, Sure, Rechecked, Rereads, Probing, Stores, Names, Naming, Adding, Changing, Writing, Lone, MayMiss, MayClash
<1>1. CASE e \in {"memory", "seaorm", "mongodb"}
 <2>1. p = <<"RemoveWhere">>  BY <1>1 DEF Deleting, MemoryDelete, SeaormDelete, MongoDelete
 <2> HIDE DEF p
 <2>12. Len(p) = 1 /\ DOMAIN p = 1 .. 1 /\ p[1] = "RemoveWhere"  BY <2>1
 <2>13. p \in Seq(Names)  BY <2>1 DEF Names
 <2>14. Fits(e, o, p)  BY <1>1, <2>1, <2>12, <2>13 DEF Fits, FitsAt
 <2>15. Writing1(e, o, p) /\ SureWrite(e, o, p) /\ Looked(e, o, p)  BY <1>1, <2>12 DEF Writing1, SureWrite, Looked
 <2> QED  BY <2>14, <2>15 DEF PlanOK
<1>2. CASE e = "cassandra"
 <2>1. p = <<"Probe", "Erase">>  BY <1>2 DEF Deleting, CassandraDelete
 <2> HIDE DEF p
 <2>12. Len(p) = 2 /\ DOMAIN p = 1 .. 2 /\ p[1] = "Probe" /\ p[2] = "Erase"  BY <2>1
 <2>13. p \in Seq(Names)  BY <2>1 DEF Names
 <2>14. Fits(e, o, p)  BY <1>2, <2>1, <2>12, <2>13 DEF Fits, FitsAt
 <2>15. Writing1(e, o, p) /\ SureWrite(e, o, p) /\ Looked(e, o, p)  BY <1>2, <2>12 DEF Writing1, SureWrite, Looked
 <2> QED  BY <2>14, <2>15 DEF PlanOK
<1>3. CASE e = "elasticsearch"
 <2>1. p = <<"ReadDoc", "Recheck", "RemoveWhere">>  BY <1>3 DEF Deleting, ElasticDelete
 <2> HIDE DEF p
 <2>12. Len(p) = 3 /\ DOMAIN p = 1 .. 3 /\ p[1] = "ReadDoc" /\ p[2] = "Recheck" /\ p[3] = "RemoveWhere"  BY <2>1
 <2>13. p \in Seq(Names)  BY <2>1 DEF Names
 <2>14. Fits(e, o, p)  BY <1>3, <2>1, <2>12, <2>13 DEF Fits, FitsAt
 <2>15. Writing1(e, o, p) /\ SureWrite(e, o, p) /\ Looked(e, o, p)  BY <1>3, <2>12 DEF Writing1, SureWrite, Looked
 <2> QED  BY <2>14, <2>15 DEF PlanOK
<1>4. CASE e = "influxdb"
 <2>1. p = <<"Probe", "Erase", "PollGone">>  BY <1>4 DEF Deleting, InfluxDelete
 <2> HIDE DEF p
 <2>12. Len(p) = 3 /\ DOMAIN p = 1 .. 3 /\ p[1] = "Probe" /\ p[2] = "Erase" /\ p[3] = "PollGone"  BY <2>1
 <2>13. p \in Seq(Names)  BY <2>1 DEF Names
 <2>14. Fits(e, o, p)  BY <1>4, <2>1, <2>12, <2>13 DEF Fits, FitsAt
 <2>15. Writing1(e, o, p) /\ SureWrite(e, o, p) /\ Looked(e, o, p)  BY <1>4, <2>12 DEF Writing1, SureWrite, Looked
 <2> QED  BY <2>14, <2>15 DEF PlanOK
<1>5. CASE e = "clickhouse"
 <2>1. p = <<"Probe", "RemoveWhere">>  BY <1>5 DEF Deleting, ClickhouseDelete
 <2> HIDE DEF p
 <2>12. Len(p) = 2 /\ DOMAIN p = 1 .. 2 /\ p[1] = "Probe" /\ p[2] = "RemoveWhere"  BY <2>1
 <2>13. p \in Seq(Names)  BY <2>1 DEF Names
 <2>14. Fits(e, o, p)  BY <1>5, <2>1, <2>12, <2>13 DEF Fits, FitsAt
 <2>15. Writing1(e, o, p) /\ SureWrite(e, o, p) /\ Looked(e, o, p)  BY <1>5, <2>12 DEF Writing1, SureWrite, Looked
 <2> QED  BY <2>14, <2>15 DEF PlanOK
<1> QED  BY <1>1, <1>2, <1>3, <1>4, <1>5 DEF AllEngines

LEMMA SoftPlans ==
  ASSUME NEW e \in AllEngines, NEW o, IsOp(o), o.kind \in {"update", "tombstone", "restore"}, NEW first \in {"NeedAlive", "NeedDead"}
  PROVE  PlanOK(e, o, <<first>> \o Updating(e, o))
<1> DEFINE u == Updating(e, o)
           p == <<first>> \o u
<1> SUFFICES PlanOK(e, o, p)  OBVIOUS
<1> USE DEF InPlace, Sure, Rechecked, Rereads, Probing, Stores, Names, Naming, Adding, Changing, Writing, Lone, MayMiss, MayClash
<1>0. <<first>> \in Seq(Names) /\ Len(<<first>>) = 1 /\ <<first>>[1] = first /\ p = <<first>> \o u  BY DEF Names
<1>1. CASE e = "memory"
 <2>1. u = <<"PatchWhere">>  BY <1>1 DEF Updating, MemoryUpdate
 <2> HIDE DEF p, u
 <2>2. u \in Seq(Names) /\ Len(u) = 1 /\ u[1] = "PatchWhere"  BY <2>1 DEF Names
 <2>11. Joined(Names, <<first>>, u, p)  BY <1>0, <2>2, JoinIs
 <2>3. p \in Seq(Names) /\ Len(p) = 1 + 1 /\ p[1] = first /\ \A k \in 1 .. 1 : p[1 + k] = u[k]
   BY <1>0, <2>2, <2>11 DEF Joined
 <2>13. p \in Seq(Names) /\ Len(p) = 1 + 1 /\ p[1] = first /\ p[1 + 1] = "PatchWhere"  BY <2>2, <2>3
 <2>12. Len(p) = 2 /\ DOMAIN p = 1 .. 2 /\ p[1] = first /\ p[2] = "PatchWhere"  BY <2>13
 <2>14. Fits(e, o, p)  BY <1>1, <2>12, <2>13 DEF Fits, FitsAt
 <2>15. Writing1(e, o, p) /\ SureWrite(e, o, p) /\ Looked(e, o, p)  BY <1>1, <2>12 DEF Writing1, SureWrite, Looked
 <2> QED  BY <2>14, <2>15 DEF PlanOK
<1>2. CASE e \in {"seaorm", "mongodb"}
 <2>1. u = <<"PatchWhere", "Probe">>  BY <1>2 DEF Updating, SeaormUpdate, MongoUpdate
 <2> HIDE DEF p, u
 <2>2. u \in Seq(Names) /\ Len(u) = 2 /\ u[1] = "PatchWhere" /\ u[2] = "Probe"  BY <2>1 DEF Names
 <2>11. Joined(Names, <<first>>, u, p)  BY <1>0, <2>2, JoinIs
 <2>3. p \in Seq(Names) /\ Len(p) = 1 + 2 /\ p[1] = first /\ \A k \in 1 .. 2 : p[1 + k] = u[k]
   BY <1>0, <2>2, <2>11 DEF Joined
 <2>13. p \in Seq(Names) /\ Len(p) = 1 + 2 /\ p[1] = first /\ p[1 + 1] = "PatchWhere" /\ p[1 + 2] = "Probe"
   BY <2>2, <2>3
 <2>12. Len(p) = 3 /\ DOMAIN p = 1 .. 3 /\ p[1] = first /\ p[2] = "PatchWhere" /\ p[3] = "Probe"  BY <2>13
 <2>14. Fits(e, o, p)  BY <1>2, <2>12, <2>13 DEF Fits, FitsAt
 <2>15. Writing1(e, o, p) /\ SureWrite(e, o, p) /\ Looked(e, o, p)  BY <1>2, <2>12 DEF Writing1, SureWrite, Looked
 <2> QED  BY <2>14, <2>15 DEF PlanOK
<1>3. CASE e = "cassandra"
 <2>1. u = <<"Probe", "WriteCells">>  BY <1>3 DEF Updating, CassandraUpdate
 <2> HIDE DEF p, u
 <2>2. u \in Seq(Names) /\ Len(u) = 2 /\ u[1] = "Probe" /\ u[2] = "WriteCells"  BY <2>1 DEF Names
 <2>11. Joined(Names, <<first>>, u, p)  BY <1>0, <2>2, JoinIs
 <2>3. p \in Seq(Names) /\ Len(p) = 1 + 2 /\ p[1] = first /\ \A k \in 1 .. 2 : p[1 + k] = u[k]
   BY <1>0, <2>2, <2>11 DEF Joined
 <2>13. p \in Seq(Names) /\ Len(p) = 1 + 2 /\ p[1] = first /\ p[1 + 1] = "Probe" /\ p[1 + 2] = "WriteCells"
   BY <2>2, <2>3
 <2>12. Len(p) = 3 /\ DOMAIN p = 1 .. 3 /\ p[1] = first /\ p[2] = "Probe" /\ p[3] = "WriteCells"  BY <2>13
 <2>14. Fits(e, o, p)  BY <1>3, <2>12, <2>13 DEF Fits, FitsAt
 <2>15. Writing1(e, o, p) /\ SureWrite(e, o, p) /\ Looked(e, o, p)  BY <1>3, <2>12 DEF Writing1, SureWrite, Looked
 <2> QED  BY <2>14, <2>15 DEF PlanOK
<1>4. CASE e = "elasticsearch"
 <2>1. u = <<"ReadDoc", "Recheck", "PatchWhere", "ReadDoc", "Recheck">>  BY <1>4 DEF Updating, ElasticUpdate
 <2> HIDE DEF p, u
 <2>2. u \in Seq(Names) /\ Len(u) = 5 /\ u[1] = "ReadDoc" /\ u[2] = "Recheck" /\ u[3] = "PatchWhere" /\ u[4] = "ReadDoc" /\ u[5] = "Recheck"
   BY <2>1 DEF Names
 <2>11. Joined(Names, <<first>>, u, p)  BY <1>0, <2>2, JoinIs
 <2>3. p \in Seq(Names) /\ Len(p) = 1 + 5 /\ p[1] = first /\ \A k \in 1 .. 5 : p[1 + k] = u[k]
   BY <1>0, <2>2, <2>11 DEF Joined
 <2>4. p[1 + 1] = "ReadDoc" /\ p[1 + 2] = "Recheck"  BY <2>2, <2>3
 <2>5. p[1 + 3] = "PatchWhere" /\ p[1 + 4] = "ReadDoc" /\ p[1 + 5] = "Recheck"  BY <2>2, <2>3
 <2>13. p \in Seq(Names) /\ Len(p) = 1 + 5 /\ p[1] = first /\ p[1 + 1] = "ReadDoc" /\ p[1 + 2] = "Recheck" /\ p[1 + 3] = "PatchWhere" /\ p[1 + 4] = "ReadDoc" /\ p[1 + 5] = "Recheck"
   BY <2>3, <2>4, <2>5
 <2>12. Len(p) = 6 /\ DOMAIN p = 1 .. 6 /\ p[1] = first /\ p[2] = "ReadDoc" /\ p[3] = "Recheck" /\ p[4] = "PatchWhere" /\ p[5] = "ReadDoc" /\ p[6] = "Recheck"
   BY <2>13
 <2>14. Fits(e, o, p)  BY <1>4, <2>12, <2>13 DEF Fits, FitsAt
 <2>15. Writing1(e, o, p) /\ SureWrite(e, o, p) /\ Looked(e, o, p)  BY <1>4, <2>12 DEF Writing1, SureWrite, Looked
 <2> QED  BY <2>14, <2>15 DEF PlanOK
<1>5. CASE e = "influxdb"
 <2>1. u = <<"Probe", "Rewrite">>  BY <1>5 DEF Updating, InfluxUpdate
 <2> HIDE DEF p, u
 <2>2. u \in Seq(Names) /\ Len(u) = 2 /\ u[1] = "Probe" /\ u[2] = "Rewrite"  BY <2>1 DEF Names
 <2>11. Joined(Names, <<first>>, u, p)  BY <1>0, <2>2, JoinIs
 <2>3. p \in Seq(Names) /\ Len(p) = 1 + 2 /\ p[1] = first /\ \A k \in 1 .. 2 : p[1 + k] = u[k]
   BY <1>0, <2>2, <2>11 DEF Joined
 <2>13. p \in Seq(Names) /\ Len(p) = 1 + 2 /\ p[1] = first /\ p[1 + 1] = "Probe" /\ p[1 + 2] = "Rewrite"
   BY <2>2, <2>3
 <2>12. Len(p) = 3 /\ DOMAIN p = 1 .. 3 /\ p[1] = first /\ p[2] = "Probe" /\ p[3] = "Rewrite"  BY <2>13
 <2>14. Fits(e, o, p)  BY <1>5, <2>12, <2>13 DEF Fits, FitsAt
 <2>15. Writing1(e, o, p) /\ SureWrite(e, o, p) /\ Looked(e, o, p)  BY <1>5, <2>12 DEF Writing1, SureWrite, Looked
 <2> QED  BY <2>14, <2>15 DEF PlanOK
<1>6. CASE e = "clickhouse"
 <2>1. u = <<"Probe", "PatchWhere", "Probe">>  BY <1>6 DEF Updating, ClickhouseUpdate
 <2> HIDE DEF p, u
 <2>2. u \in Seq(Names) /\ Len(u) = 3 /\ u[1] = "Probe" /\ u[2] = "PatchWhere" /\ u[3] = "Probe"  BY <2>1 DEF Names
 <2>11. Joined(Names, <<first>>, u, p)  BY <1>0, <2>2, JoinIs
 <2>3. p \in Seq(Names) /\ Len(p) = 1 + 3 /\ p[1] = first /\ \A k \in 1 .. 3 : p[1 + k] = u[k]
   BY <1>0, <2>2, <2>11 DEF Joined
 <2>13. p \in Seq(Names) /\ Len(p) = 1 + 3 /\ p[1] = first /\ p[1 + 1] = "Probe" /\ p[1 + 2] = "PatchWhere" /\ p[1 + 3] = "Probe"
   BY <2>2, <2>3
 <2>12. Len(p) = 4 /\ DOMAIN p = 1 .. 4 /\ p[1] = first /\ p[2] = "Probe" /\ p[3] = "PatchWhere" /\ p[4] = "Probe"
   BY <2>13
 <2>14. Fits(e, o, p)  BY <1>6, <2>12, <2>13 DEF Fits, FitsAt
 <2>15. Writing1(e, o, p) /\ SureWrite(e, o, p) /\ Looked(e, o, p)  BY <1>6, <2>12 DEF Writing1, SureWrite, Looked
 <2> QED  BY <2>14, <2>15 DEF PlanOK
<1> QED  BY <1>1, <1>2, <1>3, <1>4, <1>5, <1>6 DEF AllEngines

LEMMA PlansAreOK ==
  ASSUME NEW e \in AllEngines, NEW sd, NEW o, IsOp(o)
  PROVE  LET p == Plan(e, sd, o) IN o.kind \in Kinds => PlanOK(e, o, p)
<1> SUFFICES ASSUME o.kind \in Kinds PROVE PlanOK(e, o, Plan(e, sd, o))  OBVIOUS
<1>1. CASE o.kind = "create"  BY <1>1, CreatePlans DEF Plan
<1>2. CASE o.kind = "batch"  BY <1>2, BatchPlans DEF Plan
<1>3. CASE o.kind = "upsert"  BY <1>3, UpsertPlans DEF Plan
<1>4. CASE o.kind = "update"
 <2>1. CASE sd  BY <1>4, <2>1, SoftPlans DEF Plan, SoftUpdate
 <2>2. CASE ~sd  BY <1>4, <2>2, UpdatePlans DEF Plan
 <2> QED  BY <2>1, <2>2
<1>5. CASE o.kind = "delete"  BY <1>5, DeletePlans DEF Plan
<1>6. CASE o.kind = "tombstone"  BY <1>6, SoftPlans DEF Plan, SoftTombstone
<1>7. CASE o.kind = "restore"  BY <1>7, SoftPlans DEF Plan, SoftRestore
<1>8. CASE o.kind = "purge"  BY <1>8, DeletePlans DEF Plan, SoftPurge
<1>9. CASE o.kind = "walk"
 <2> DEFINE p == Plan(e, sd, o)
 <2>1. p = <<"Turn">>  BY <1>9 DEF Plan
 <2> SUFFICES PlanOK(e, o, p)  OBVIOUS
 <2> HIDE DEF p
 <2>12. Len(p) = 1 /\ DOMAIN p = 1 .. 1 /\ p[1] = "Turn"  BY <2>1
 <2>13. p \in Seq(Names)  BY <2>1 DEF Names
 <2>14. Fits(e, o, p)
   BY <1>9, <2>1, <2>12, <2>13 DEF Fits, FitsAt, Stores, Names, Naming, Adding, Changing, Writing, Lone, MayMiss, MayClash
 <2>15. Writing1(e, o, p) /\ SureWrite(e, o, p) /\ Looked(e, o, p)
   BY <1>9, <2>12 DEF Writing1, SureWrite, InPlace, Sure, Looked, Rechecked, Rereads, Probing, Stores, Names, Naming, Adding, Changing, Writing, Lone, MayMiss, MayClash
 <2> QED  BY <2>14, <2>15 DEF PlanOK
<1> QED  BY <1>1, <1>2, <1>3, <1>4, <1>5, <1>6, <1>7, <1>8, <1>9 DEF Kinds

LEMMA IdlePlan == Plan(engine, soft, Idle) \in Seq(Names)
<1>1. Idle.kind = "none"  BY DEF Idle, Op
<1>2. Plan(engine, soft, Idle) = <<"Turn">>  BY <1>1 DEF Plan
<1> QED  BY <1>2 DEF Names

(* Where a client stands: at the k-th call of its plan p, or answered a.   *)
Answers == {"none", "ok", "notfound", "conflict", "backend"}

Stands(e, p, o, k, a, l) ==
  /\ IsOp(o) /\ IsLocal(e, o, l) /\ k \in Nat /\ a \in Answers
  /\ k = 0 => o = Idle /\ a = "none"
  /\ k > 0 => o.kind \in Kinds /\ k =< Len(p) + 1
  /\ k > 0 /\ a = "none" => k =< Len(p)
  /\ a = "ok" => k = Len(p) + 1
  /\ a \in {"notfound", "conflict", "backend"} => k =< Len(p)
  /\ k > 1 \/ (k = 1 /\ p[1] \notin Naming) => Known(l)

(* What its effects on the table t account for: w is whether it has        *)
(* written, n how many answers were lost.                                  *)
Past(p, k, names) == \E j \in DOMAIN p : j < k /\ p[j] \in names

\* A client that has not written has no rows, and one that has was at a call that writes.
Untouched(c, t, w) == w \/ \A i \in Ids : ~Mine(c, t[i])
WroteAt(p, k, a, w) == w /\ a # "backend" => Past(p, k, Writing)

\* A call that is sure to write has written, unless rows of a bulk were taken.
SureAt(e, p, k, l, w) ==
  \A j \in DOMAIN p : j < k /\ Sure(e, p[j]) => w \/ (p[j] = "Bulk" /\ l.failed)

ClearedAt(p, k, l) == Past(p, k, {"Probe", "Recheck"}) => l.cleared

\* Which calls refuse.
RefusedAt(p, k, a) ==
  /\ a = "notfound" => p[k] \in MayMiss
  /\ a = "conflict" => p[k] \in MayClash

\* A bulk that failed knows its rows, until the last is undone.
UndoneAt(c, e, t, o, k, a, l, n) ==
  o.kind = "batch" /\ e = "elasticsearch" =>
    /\ k = 3 /\ n = 0 /\ l.failed => \A i \in Ids : Mine(c, t[i]) => i \in l.landed
    /\ k = 3 /\ a = "conflict" => l.failed /\ l.landed = {}
    /\ k = 4 => ~l.failed

Accounts(c, e, t, p, o, k, a, l, w, n) ==
  /\ Untouched(c, t, w) /\ WroteAt(p, k, a, w) /\ SureAt(e, p, k, l, w)
  /\ ClearedAt(p, k, l) /\ RefusedAt(p, k, a) /\ UndoneAt(c, e, t, o, k, a, l, n)

\* A walk: what it must not miss is there to list, and counted as it should be.
Walks1(sd, t, o, a, l, keys) ==
  o.kind = "walk" =>
    /\ Shown(o, t, sd, keys)
    /\ a = "none" => Counting(keys, l)
    /\ a = "ok" => \A i \in keys : OnceIn(l.got, i)

(* The inductive invariant.                                                *)
Standing ==
  /\ engine \in AllEngines /\ IsTable(engine, table) /\ faults \in Nat
  /\ op = [c \in Clients |-> op[c]] /\ call = [c \in Clients |-> call[c]] /\ local = [c \in Clients |-> local[c]]
  /\ answer = [c \in Clients |-> answer[c]] /\ prior = [c \in Clients |-> prior[c]]
  /\ steady = [c \in Clients |-> steady[c]]
  /\ touched \in [Clients -> BOOLEAN]
  /\ \A c \in Clients : Stands(engine, PlanOf(c), op[c], call[c], answer[c], local[c])
Accounted ==
  \A c \in Clients : Accounts(c, engine, table, PlanOf(c), op[c], call[c], answer[c], local[c], touched[c], faults)
Walked == \A c \in Clients : Walks1(soft, table, op[c], answer[c], local[c], steady[c])
TableInv == Standing /\ Accounted /\ Walked

(* A call, and where the client stands after it.                           *)
\* The client c is at the k-th call of its plan p.
AtCall(c, e, t, p, o, k, l) ==
  /\ e \in AllEngines /\ c \in Clients /\ IsTable(e, t) /\ PlanOK(e, o, p)
  /\ k > 0 /\ Stands(e, p, o, k, "none", l)

LEMMA AtCallIs ==
  ASSUME NEW c, NEW e, NEW t, NEW p, NEW o, NEW k, NEW l, AtCall(c, e, t, p, o, k, l)
  PROVE  /\ k \in Nat /\ k \in DOMAIN p /\ DOMAIN p = 1 .. Len(p) /\ Len(p) \in Nat /\ p \in Seq(Names)
         /\ p[k] \in Names /\ FitsAt(e, o, p, k) /\ IsOp(o) /\ IsLocal(e, o, l) /\ o.kind \in Kinds
         /\ p[k] \in Lone => o.ids = <<1>>
         /\ Calling(e, t, c, o, l, p[k])
<1>1. /\ p \in Seq(Names) /\ k \in Nat /\ k > 0 /\ k =< Len(p) /\ IsOp(o) /\ IsLocal(e, o, l) /\ o.kind \in Kinds
      /\ \A j \in DOMAIN p : FitsAt(e, o, p, j)
      /\ k > 1 \/ (k = 1 /\ p[1] \notin Naming) => Known(l)  BY DEF AtCall, PlanOK, Fits, Stands
<1>2. k \in DOMAIN p /\ DOMAIN p = 1 .. Len(p) /\ Len(p) \in Nat /\ p[k] \in Names  BY <1>1
<1>3. FitsAt(e, o, p, k)  BY <1>1, <1>2
<1>4. p[k] \in Lone => o.ids = <<1>>  BY <1>1, <1>3 DEF FitsAt, IsOp
<1>5. p[k] \in Adding => o.owner \in {"a", "b"}  BY <1>1, <1>3 DEF FitsAt, IsOp, Stores
<1>6. p[k] \notin Naming => Known(l)  BY <1>1
<1>7. (p[k] = "Append1" => e = "clickhouse") /\ (p[k] \in {"Bulk", "Undo"} => e = "elasticsearch")
  BY <1>3 DEF FitsAt
<1>8. e \in AllEngines /\ c \in Clients /\ IsTable(e, t)  BY DEF AtCall
<1>9. Calling(e, t, c, o, l, p[k])  BY <1>1, <1>5, <1>6, <1>7, <1>8 DEF Calling
<1> QED  BY <1>1, <1>2, <1>3, <1>4, <1>9

\* The answer after an outcome, and the call.
AnswerOf(p, k, x) == IF x.says = "on" THEN (IF k = Len(p) THEN "ok" ELSE "none")
                     ELSE IF x.says = "again" THEN "none" ELSE x.says
CallOf(k, x) == IF x.says = "on" THEN k + 1 ELSE k

LEMMA StandsOn ==
  ASSUME NEW c, NEW e, NEW t, NEW p, NEW o, NEW k, NEW l, AtCall(c, e, t, p, o, k, l),
         NEW x, Says(t, p[k], x), Remembers(e, o, l, p[k], x)
  PROVE  Stands(e, p, o, CallOf(k, x), AnswerOf(p, k, x), x.local)
<1>1. /\ k \in Nat /\ k \in DOMAIN p /\ DOMAIN p = 1 .. Len(p) /\ Len(p) \in Nat
      /\ FitsAt(e, o, p, k) /\ IsOp(o) /\ o.kind \in Kinds  BY AtCallIs
<1>2. k > 0 /\ k =< Len(p) /\ (k > 1 \/ (k = 1 /\ p[1] \notin Naming) => Known(l))  BY <1>1 DEF AtCall, Stands
<1>3. IsLocal(e, o, x.local) /\ (p[k] \notin Naming => x.local.ids = l.ids) /\ (p[k] \in Naming /\ x.says = "on" => Known(x.local))
  BY DEF Remembers
<1>4. p[k] \in Naming => k = 1  BY <1>1 DEF FitsAt
<1>5. p[k] \notin Naming => Known(x.local)  BY <1>1, <1>2, <1>3 DEF Known
<1>6. x.says \in {"on", "again", "notfound", "conflict", "backend"}  BY DEF Says
<1>7. CASE x.says = "on"
 <2>1. Known(x.local)  BY <1>3, <1>5, <1>7
 <2>2. CallOf(k, x) = k + 1 /\ AnswerOf(p, k, x) = (IF k = Len(p) THEN "ok" ELSE "none")
   BY <1>7 DEF CallOf, AnswerOf
 <2>3. k + 1 \in Nat /\ k + 1 > 0 /\ k + 1 =< Len(p) + 1 /\ (k # Len(p) => k + 1 =< Len(p)) /\ k + 1 # 0
  <3>1. k \in Nat /\ Len(p) \in Nat /\ k > 0 /\ k =< Len(p)  BY <1>1, <1>2
  <3>2. \A i, n \in Nat : i > 0 /\ i =< n => i + 1 \in Nat /\ i + 1 > 0 /\ i + 1 =< n + 1 /\ (i # n => i + 1 =< n) /\ i + 1 # 0
    OBVIOUS
  <3> QED  BY <3>1, <3>2
 <2>4. AnswerOf(p, k, x) \in {"none", "ok"} /\ (AnswerOf(p, k, x) = "ok" => k = Len(p)) /\ (AnswerOf(p, k, x) = "none" => k # Len(p))
   BY <2>2
 <2> DEFINE a == AnswerOf(p, k, x)
            m == k + 1
 <2> HIDE DEF a, m
 <2>5. /\ m \in Nat /\ m > 0 /\ m =< Len(p) + 1 /\ m # 0 /\ (a = "none" => m =< Len(p)) /\ (a = "ok" => m = Len(p) + 1)
       /\ a \in {"none", "ok"}  BY <2>3, <2>4 DEF a, m
 <2>6. Stands(e, p, o, m, a, x.local)  BY <1>1, <1>3, <2>1, <2>5 DEF Stands, Answers
 <2> QED  BY <2>2, <2>6 DEF a, m
<1>8. CASE x.says # "on"
 <2>1. CallOf(k, x) = k /\ AnswerOf(p, k, x) \in {"none", "notfound", "conflict", "backend"}
   BY <1>6, <1>8 DEF CallOf, AnswerOf
 <2>2. k > 1 \/ (k = 1 /\ p[1] \notin Naming) => Known(x.local)  BY <1>1, <1>4, <1>5
 <2> QED  BY <1>1, <1>2, <1>3, <2>1, <2>2 DEF Stands, Answers
<1> QED  BY <1>7, <1>8

LEMMA PastOn ==
  ASSUME NEW p, NEW k \in DOMAIN p, DOMAIN p \subseteq Nat, NEW names
  PROVE  Past(p, k + 1, names) <=> Past(p, k, names) \/ p[k] \in names
<1>1. k \in Nat /\ \A j \in DOMAIN p : j \in Nat  OBVIOUS
<1>2. \A j \in DOMAIN p : j < k + 1 <=> j < k \/ j = k  BY <1>1
<1> QED  BY <1>2 DEF Past

(* What its effects account for after the call.                            *)
\* The client has written if the call changed the table.
Wrote(t, w, x) == w \/ x.table # t

LEMMA UntouchedOn ==
  ASSUME NEW c, NEW t, NEW w \in BOOLEAN, Untouched(c, t, w), NEW x
  PROVE  Untouched(c, x.table, Wrote(t, w, x))
BY DEF Untouched, Wrote

LEMMA WroteOn ==
  ASSUME NEW c, NEW e, NEW t, NEW p, NEW o, NEW k, NEW l, AtCall(c, e, t, p, o, k, l),
         NEW w \in BOOLEAN, WroteAt(p, k, "none", w), NEW x, Says(t, p[k], x), p[k] \notin Writing => x.table = t,
         x.says = "again" /\ x.table # t => Past(p, k, Writing)
  PROVE  WroteAt(p, CallOf(k, x), AnswerOf(p, k, x), Wrote(t, w, x))
<1>1. k \in Nat /\ k \in DOMAIN p /\ DOMAIN p = 1 .. Len(p) /\ Len(p) \in Nat  BY AtCallIs
<1>2. Past(p, k + 1, Writing) <=> Past(p, k, Writing) \/ p[k] \in Writing  BY <1>1, PastOn
<1>3. w => Past(p, k, Writing)  BY DEF WroteAt
<1>4. x.says \in {"on", "again"} \/ x.table = t  BY DEF Says
<1> QED  BY <1>2, <1>3, <1>4 DEF WroteAt, Wrote, CallOf

LEMMA SureOn ==
  ASSUME NEW c, NEW e, NEW sd, NEW t, NEW p, NEW o, NEW k, NEW l, AtCall(c, e, t, p, o, k, l),
         NEW w \in BOOLEAN, Untouched(c, t, w), SureAt(e, p, k, l, w), NEW n, UndoneAt(c, e, t, o, k, "none", l, n),
         NEW x, Tame(e, t, c, o, l, p[k], x), Effects(e, sd, t, c, o, l, p[k], x)
  PROVE  SureAt(e, p, CallOf(k, x), x.local, Wrote(t, w, x))
<1>1. k \in Nat /\ k \in DOMAIN p /\ DOMAIN p = 1 .. Len(p) /\ Len(p) \in Nat /\ FitsAt(e, o, p, k) /\ p[k] \in Names
      /\ IsLocal(e, o, l) /\ IsOp(o) /\ Calling(e, t, c, o, l, p[k])  BY AtCallIs
<1>2. Says(t, p[k], x) /\ Remembers(e, o, l, p[k], x) /\ IsLocal(e, o, x.local)  BY DEF Tame, Remembers
\* What was sure before still is.
<1>3. ASSUME NEW j \in DOMAIN p, j < k, Sure(e, p[j]) PROVE Wrote(t, w, x) \/ (p[j] = "Bulk" /\ x.local.failed)
 <2>1. w \/ (p[j] = "Bulk" /\ l.failed)  BY <1>3 DEF SureAt
 <2>2. p[k] = "Bulk" => p[j] # "Bulk"
  <3> SUFFICES ASSUME p[k] = "Bulk" PROVE p[j] # "Bulk"  OBVIOUS
  <3>1. o.kind = "batch" /\ e = "elasticsearch"  BY <1>1 DEF FitsAt
  <3>2. p = <<"NextIds", "Bulk", "Undo">>  BY <3>1 DEF AtCall, PlanOK, Fits
  <3>3. Len(p) = 3 /\ p[1] = "NextIds" /\ p[2] = "Bulk" /\ p[3] = "Undo"  BY <3>2
  <3>4. k = 2 /\ j = 1  BY <1>1, <1>3, <3>3
  <3> QED  BY <3>3, <3>4
 <2>3. p[k] # "Bulk" => x.local.failed = l.failed  BY <1>2, <1>1 DEF Remembers, Effects, UndoKeeps
 <2> QED  BY <2>1, <2>2, <2>3 DEF Wrote
\* A call that is sure to write and goes on has written.
<1>4. ASSUME x.says = "on", Sure(e, p[k]) PROVE Wrote(t, w, x) \/ (p[k] = "Bulk" /\ x.local.failed)
 <2>0. ASSUME NEW i \in Ids, Mine(c, x.table[i]) PROVE Wrote(t, w, x)  BY <2>0 DEF Wrote, Untouched
 <2>1. CASE p[k] \in {"InsertAll", "InsertClaimed", "Put"}
  <3>1. Placed(c, x.table, x.local.ids)  BY <1>4, <2>1 DEF Effects
  <3>2. Known(x.local)
   <4>1. CASE p[k] \in Naming  BY <1>2, <1>4, <4>1 DEF Remembers
   <4>2. CASE p[k] \notin Naming  BY <1>1, <1>2, <4>2 DEF Remembers, Calling, Known
   <4> QED  BY <4>1, <4>2
  <3>3. 1 \in DOMAIN x.local.ids
   <4>1. x.local.ids \in Seq(Nat) /\ o.ids \in Seq(Nat) /\ 1 \in DOMAIN o.ids /\ Len(x.local.ids) = Len(o.ids)
     BY <1>1, <1>2 DEF IsLocal, Locals, IsOp
   <4> QED  BY <4>1
  <3>4. x.local.ids[1] \in Ids /\ Mine(c, x.table[x.local.ids[1]])  BY <3>1, <3>2, <3>3 DEF Placed, Known
  <3> QED  BY <2>0, <3>4
 <2>2. CASE p[k] = "Append1"
  <3>1. Mine(c, x.table[l.ids[l.item + 1]])  BY <2>2 DEF Effects
  <3>2. l.item + 1 \in DOMAIN l.ids /\ Known(l)  BY <1>1, <2>2, NextItemIs DEF Calling, Naming
  <3> QED  BY <2>0, <3>1, <3>2 DEF Known
 <2>3. CASE p[k] = "Bulk"
  <3>1. x.local.failed \/ Placed(c, x.table, l.ids)  BY <2>3 DEF Effects, BulkKeeps
  <3>2. Known(l) /\ 1 \in DOMAIN l.ids
   <4>1. l.ids \in Seq(Nat) /\ o.ids \in Seq(Nat) /\ 1 \in DOMAIN o.ids /\ Len(l.ids) = Len(o.ids)
     BY <1>1 DEF IsLocal, Locals, IsOp
   <4> QED  BY <1>1, <2>3, <4>1 DEF Calling, Naming
  <3>3. Placed(c, x.table, l.ids) => Mine(c, x.table[l.ids[1]]) /\ l.ids[1] \in Ids  BY <3>2 DEF Placed, Known
  <3> QED  BY <2>0, <2>3, <3>1, <3>3
 <2>4. CASE p[k] = "PatchWhere" /\ e \notin Probing
  <3>1. Mine(c, x.table[1]) /\ 1 \in Ids  BY <1>4, <2>4, KeysAre DEF Effects, PatchKeeps, AtCall, Probing
  <3> QED  BY <2>0, <3>1
 <2>5. CASE p[k] = "RemoveWhere" /\ e \notin Probing  BY <1>4, <2>5 DEF Effects, RemoveKeeps, Wrote, Probing
 <2> QED  BY <1>4, <2>1, <2>2, <2>3, <2>4, <2>5 DEF Sure, Adding
<1>5. \A j \in DOMAIN p : j < k + 1 => j < k \/ j = k  BY <1>1
<1> QED  BY <1>3, <1>4, <1>5 DEF SureAt, CallOf

LEMMA ClearedOn ==
  ASSUME NEW c, NEW e, NEW t, NEW p, NEW o, NEW k, NEW l, AtCall(c, e, t, p, o, k, l), ClearedAt(p, k, l),
         NEW x, Remembers(e, o, l, p[k], x)
  PROVE  ClearedAt(p, CallOf(k, x), x.local)
<1>1. k \in Nat /\ k \in DOMAIN p /\ DOMAIN p = 1 .. Len(p) /\ Len(p) \in Nat  BY AtCallIs
<1>2. Past(p, k + 1, {"Probe", "Recheck"}) <=> Past(p, k, {"Probe", "Recheck"}) \/ p[k] \in {"Probe", "Recheck"}
  BY <1>1, PastOn
<1>3. l.cleared => x.local.cleared  BY DEF Remembers
<1>4. p[k] \in {"Probe", "Recheck"} /\ x.says = "on" => x.local.cleared  BY DEF Remembers
<1> QED  BY <1>2, <1>3, <1>4 DEF ClearedAt, CallOf

LEMMA RefusedOn ==
  ASSUME NEW t, NEW p, NEW k, NEW x, Says(t, p[k], x)
  PROVE  RefusedAt(p, CallOf(k, x), AnswerOf(p, k, x))
BY DEF RefusedAt, CallOf, AnswerOf, Says

LEMMA UndoneOn ==
  ASSUME NEW c, NEW e, NEW sd, NEW t, NEW p, NEW o, NEW k, NEW l, AtCall(c, e, t, p, o, k, l),
         NEW w \in BOOLEAN, Untouched(c, t, w), WroteAt(p, k, "none", w), NEW n, UndoneAt(c, e, t, o, k, "none", l, n),
         NEW x, Tame(e, t, c, o, l, p[k], x), Effects(e, sd, t, c, o, l, p[k], x)
  PROVE  UndoneAt(c, e, x.table, o, CallOf(k, x), AnswerOf(p, k, x), x.local, n)
<1> SUFFICES ASSUME o.kind = "batch", e = "elasticsearch"
             PROVE  /\ CallOf(k, x) = 3 /\ n = 0 /\ x.local.failed => \A i \in Ids : Mine(c, x.table[i]) => i \in x.local.landed
                    /\ CallOf(k, x) = 3 /\ AnswerOf(p, k, x) = "conflict" => x.local.failed /\ x.local.landed = {}
                    /\ CallOf(k, x) = 4 => ~x.local.failed  BY DEF UndoneAt
<1>1. k \in Nat /\ k \in DOMAIN p /\ DOMAIN p = 1 .. Len(p) /\ Len(p) \in Nat  BY AtCallIs
<1>2. p = <<"NextIds", "Bulk", "Undo">>  BY DEF AtCall, PlanOK, Fits
<1>3. Len(p) = 3 /\ p[1] = "NextIds" /\ p[2] = "Bulk" /\ p[3] = "Undo"  BY <1>2
<1>4. Says(t, p[k], x) /\ Remembers(e, o, l, p[k], x)  BY DEF Tame
<1>5. CASE k = 1
 <2>1. CallOf(k, x) \in {1, 2}  BY <1>5 DEF CallOf
 <2> QED  BY <2>1
<1>6. CASE k = 2
 <2>1. ~Past(p, k, Writing)
  <3>1. \A j \in DOMAIN p : j < k => j = 1  BY <1>1, <1>6
  <3> QED  BY <1>3, <3>1 DEF Past, Writing, Adding, Changing
 <2>2. \A i \in Ids : ~Mine(c, t[i])  BY <2>1 DEF WroteAt, Untouched
 <2>3. x.local.failed => \A i \in Ids : Mine(c, x.table[i]) => i \in x.local.landed
   BY <1>3, <1>6, <2>2 DEF Effects, BulkKeeps
 <2>4. CallOf(k, x) \in {2, 3} /\ AnswerOf(p, k, x) # "conflict"
   BY <1>3, <1>4, <1>6 DEF CallOf, AnswerOf, Says, MayClash
 <2> QED  BY <2>3, <2>4
<1>7. CASE k = 3
 <2>1. UndoKeeps(t, c, l, x)  BY <1>3, <1>7 DEF Effects
 <2>2. /\ x.local.failed = l.failed
       /\ x.says = "on" => l.failed # TRUE
       /\ x.says = "conflict" => l.failed = TRUE /\ x.local.landed = {}
       /\ (\A i \in Ids : Mine(c, t[i]) => i \in l.landed) => \A i \in Ids : Mine(c, x.table[i]) => i \in x.local.landed
   BY <2>1 DEF UndoKeeps
 <2>3. n = 0 /\ l.failed => \A i \in Ids : Mine(c, t[i]) => i \in l.landed  BY <1>7 DEF UndoneAt
 <2>4. CallOf(k, x) = 4 => x.says = "on"  BY <1>7 DEF CallOf
 <2>5. AnswerOf(p, k, x) = "conflict" => x.says = "conflict"  BY DEF AnswerOf
 <2>6. x.local.failed = l.failed /\ (n = 0 /\ x.local.failed => \A i \in Ids : Mine(c, x.table[i]) => i \in x.local.landed)
   BY <2>2, <2>3
 <2>7. l.failed \in BOOLEAN  BY AtCallIs DEF IsLocal, Locals
 <2>8. x.says = "on" => ~x.local.failed  BY <2>2, <2>7
 <2>9. x.says = "conflict" => x.local.failed /\ x.local.landed = {}  BY <2>2
 <2> QED  BY <2>4, <2>5, <2>6, <2>8, <2>9
<1> QED  BY <1>1, <1>3, <1>5, <1>6, <1>7

LEMMA AccountsOn ==
  ASSUME NEW c, NEW e, NEW sd, NEW t, NEW p, NEW o, NEW k, NEW l, AtCall(c, e, t, p, o, k, l),
         NEW w \in BOOLEAN, NEW n, Accounts(c, e, t, p, o, k, "none", l, w, n),
         NEW x, Tame(e, t, c, o, l, p[k], x), Effects(e, sd, t, c, o, l, p[k], x)
  PROVE  Accounts(c, e, x.table, p, o, CallOf(k, x), AnswerOf(p, k, x), x.local, Wrote(t, w, x), n)
<1>1. /\ Untouched(c, t, w) /\ WroteAt(p, k, "none", w) /\ SureAt(e, p, k, l, w)
      /\ ClearedAt(p, k, l) /\ UndoneAt(c, e, t, o, k, "none", l, n)  BY DEF Accounts
<1>2. Says(t, p[k], x) /\ Writes(e, t, c, o, l, p[k], x) /\ Remembers(e, o, l, p[k], x) /\ (p[k] \notin Writing => x.table = t)
  BY DEF Tame, Writes
<1>3. x.says = "again" /\ x.table # t => Past(p, k, Writing)
 <2> SUFFICES ASSUME x.says = "again", x.table # t PROVE Past(p, k, Writing)  OBVIOUS
 <2>1. p[k] = "Undo"  BY <1>2 DEF Says, Writing, Adding, Changing
 <2>2. p = <<"NextIds", "Bulk", "Undo">>  BY <2>1, AtCallIs DEF AtCall, PlanOK, Fits, FitsAt
 <2>3. Len(p) = 3 /\ p[1] = "NextIds" /\ p[2] = "Bulk" /\ p[3] = "Undo"  BY <2>2
 <2>4. k = 3 /\ DOMAIN p = 1 .. 3  BY <2>1, <2>3, AtCallIs
 <2> QED  BY <2>3, <2>4 DEF Past, Writing, Adding
<1>4. Untouched(c, x.table, Wrote(t, w, x))  BY <1>1, UntouchedOn
<1>5. WroteAt(p, CallOf(k, x), AnswerOf(p, k, x), Wrote(t, w, x))  BY <1>1, <1>2, <1>3, WroteOn
<1>6. SureAt(e, p, CallOf(k, x), x.local, Wrote(t, w, x))  BY <1>1, SureOn
<1>7. ClearedAt(p, CallOf(k, x), x.local)  BY <1>1, <1>2, ClearedOn
<1>8. RefusedAt(p, CallOf(k, x), AnswerOf(p, k, x))  BY <1>2, RefusedOn
<1>9. UndoneAt(c, e, x.table, o, CallOf(k, x), AnswerOf(p, k, x), x.local, n)  BY <1>1, UndoneOn
<1> QED  BY <1>4, <1>5, <1>6, <1>7, <1>8, <1>9 DEF Accounts

(* An answer that is lost, and what the others see of a call.              *)
\* What a client c may do to a table t.
Moves(c, e, t, u) == IsTable(e, u) /\ \A i \in Ids : Own(c, u[i], t[i])

LEMMA OthersAccount ==
  ASSUME NEW c, NEW d, d # c, NEW e, NEW t, NEW u, Moves(c, e, t, u), NEW p, NEW o, NEW k, NEW a, NEW l, NEW w \in BOOLEAN,
         NEW n \in Nat, NEW m \in Nat, n =< m, Accounts(d, e, t, p, o, k, a, l, w, n)
  PROVE  Accounts(d, e, u, p, o, k, a, l, w, m)
<1>1. \A i \in Ids : Mine(d, u[i]) => Mine(d, t[i])  BY DEF Moves, Own, Mine
<1>2. m = 0 => n = 0  OBVIOUS
<1>3. Untouched(d, u, w)  BY <1>1 DEF Accounts, Untouched
<1>4. UndoneAt(d, e, u, o, k, a, l, m)  BY <1>1, <1>2 DEF Accounts, UndoneAt
<1> QED  BY <1>3, <1>4 DEF Accounts

LEMMA LostStands ==
  ASSUME NEW c, NEW e, NEW t, NEW p, NEW o, NEW k, NEW l, AtCall(c, e, t, p, o, k, l)
  PROVE  /\ Stands(e, p, o, k, "backend", l)
         /\ \A m \in SUBSET Ids : Stands(e, p, o, k, "none", [l EXCEPT !.landed = m])
<1>1. Stands(e, p, o, k, "none", l) /\ k > 0 /\ k \in Nat  BY AtCallIs DEF AtCall
<1>2. Stands(e, p, o, k, "backend", l)  BY <1>1 DEF Stands, Answers
<1>3. ASSUME NEW m \in SUBSET Ids PROVE Stands(e, p, o, k, "none", [l EXCEPT !.landed = m])
 <2> DEFINE q == [l EXCEPT !.landed = m]
 <2>1. l \in Locals  BY <1>1 DEF Stands, IsLocal
 <2>2. /\ q.seen = l.seen /\ q.cleared = l.cleared /\ q.ids = l.ids /\ q.item = l.item /\ q.landed = m
       /\ q.failed = l.failed /\ q.fills = l.fills /\ q.paged = l.paged /\ q.cursor = l.cursor /\ q.got = l.got
       /\ q \in Locals  BY <2>1, LandedPut
 <2> HIDE DEF q
 <2>3. IsLocal(e, o, q) /\ (Known(l) => Known(q))  BY <1>1, <2>2 DEF Stands, IsLocal, Known
 <2>4. Stands(e, p, o, k, "none", q)  BY <1>1, <2>3 DEF Stands
 <2> QED  BY <2>4 DEF q
<1> QED  BY <1>2, <1>3

LEMMA LostAccounts ==
  ASSUME NEW c, NEW e, NEW t, NEW p, NEW o, NEW k, NEW l, AtCall(c, e, t, p, o, k, l),
         NEW w \in BOOLEAN, NEW n \in Nat, Accounts(c, e, t, p, o, k, "none", l, w, n), NEW x
  PROVE  /\ Accounts(c, e, x.table, p, o, k, "backend", l, Wrote(t, w, x), n + 1)
         /\ p[k] = "Undo" => \A m \in SUBSET Ids :
              Accounts(c, e, x.table, p, o, k, "none", [l EXCEPT !.landed = m], Wrote(t, w, x), n + 1)
<1>1. /\ Untouched(c, t, w) /\ WroteAt(p, k, "none", w) /\ SureAt(e, p, k, l, w)
      /\ ClearedAt(p, k, l) /\ UndoneAt(c, e, t, o, k, "none", l, n)  BY DEF Accounts
<1>2. Untouched(c, x.table, Wrote(t, w, x))  BY <1>1, UntouchedOn
<1>3. SureAt(e, p, k, l, Wrote(t, w, x))  BY <1>1 DEF SureAt, Wrote
<1>4. n + 1 # 0  OBVIOUS
<1>5. UndoneAt(c, e, x.table, o, k, "backend", l, n + 1)  BY <1>1, <1>4 DEF UndoneAt
<1>6. Accounts(c, e, x.table, p, o, k, "backend", l, Wrote(t, w, x), n + 1)
  BY <1>1, <1>2, <1>3, <1>5 DEF Accounts, WroteAt, RefusedAt
<1>7. ASSUME p[k] = "Undo", NEW m \in SUBSET Ids
      PROVE  Accounts(c, e, x.table, p, o, k, "none", [l EXCEPT !.landed = m], Wrote(t, w, x), n + 1)
 <2> DEFINE q == [l EXCEPT !.landed = m]
 <2>1. l \in Locals  BY AtCallIs DEF IsLocal
 <2>2. q.failed = l.failed /\ q.cleared = l.cleared  BY <2>1, LandedPut
 <2> HIDE DEF q
 <2>3. p = <<"NextIds", "Bulk", "Undo">>  BY <1>7, AtCallIs DEF AtCall, PlanOK, Fits, FitsAt
 <2>4. Len(p) = 3 /\ p[1] = "NextIds" /\ p[2] = "Bulk" /\ p[3] = "Undo"  BY <2>3
 <2>5. k = 3 /\ DOMAIN p = 1 .. 3  BY <1>7, <2>4, AtCallIs
 <2>6. Past(p, k, Writing)  BY <2>4, <2>5 DEF Past, Writing, Adding
 <2>7. SureAt(e, p, k, q, Wrote(t, w, x)) /\ ClearedAt(p, k, q)  BY <1>1, <1>3, <2>2 DEF SureAt, ClearedAt
 <2>8. UndoneAt(c, e, x.table, o, k, "none", q, n + 1)  BY <1>4, <2>5 DEF UndoneAt
 <2>9. Accounts(c, e, x.table, p, o, k, "none", q, Wrote(t, w, x), n + 1)
   BY <1>2, <2>6, <2>7, <2>8 DEF Accounts, WroteAt, RefusedAt
 <2> QED  BY <2>9 DEF q
<1> QED  BY <1>6, <1>7

LEMMA WalksOn ==
  ASSUME NEW c, NEW e, NEW sd, NEW t, NEW p, NEW o, NEW k, NEW l, AtCall(c, e, t, p, o, k, l),
         NEW keys, Walks1(sd, t, o, "none", l, keys), NEW x, Tame(e, t, c, o, l, p[k], x),
         Effects(e, sd, t, c, o, l, p[k], x), NEW left \in SUBSET keys, Shown(o, x.table, sd, left)
  PROVE  Walks1(sd, x.table, o, AnswerOf(p, k, x), x.local, left)
<1> SUFFICES ASSUME o.kind = "walk" PROVE Walks1(sd, x.table, o, AnswerOf(p, k, x), x.local, left)  BY DEF Walks1
<1>1. p = <<"Turn">>  BY DEF AtCall, PlanOK, Fits
<1>2. Len(p) = 1 /\ p[1] = "Turn"  BY <1>1
<1>3. k = 1  BY <1>2, AtCallIs
<1>4. Shown(o, t, sd, keys) /\ Counting(keys, l)  BY DEF Walks1
<1>5. /\ x.says = "again" => Counting(keys, x.local)
      /\ x.says = "on" => \A i \in keys : OnceIn(x.local.got, i)  BY <1>2, <1>3, <1>4 DEF Effects, Keeping
<1>6. /\ AnswerOf(p, k, x) = "none" => x.says = "again" \/ x.says = "none"
      /\ AnswerOf(p, k, x) = "ok" => x.says = "on" \/ x.says = "ok"  BY <1>2, <1>3 DEF AnswerOf
<1>7. x.says \in {"on", "again", "notfound", "conflict", "backend"}  BY DEF Tame, Says
<1>8. /\ AnswerOf(p, k, x) = "none" => Counting(left, x.local)
      /\ AnswerOf(p, k, x) = "ok" => \A i \in left : OnceIn(x.local.got, i)  BY <1>5, <1>6, <1>7 DEF Counting
<1> QED  BY <1>8 DEF Walks1

LEMMA WalksStay ==
  ASSUME NEW sd, NEW t, NEW u, NEW o, NEW a, NEW l, NEW keys, Walks1(sd, t, o, a, l, keys),
         NEW left \in SUBSET keys, Shown(o, u, sd, left)
  PROVE  Walks1(sd, u, o, a, l, left) /\ Walks1(sd, u, o, "backend", l, left)
BY DEF Walks1, Counting

(* The steps of the clients.                                               *)
LEMMA RunningIs ==
  ASSUME Standing, NEW c \in Clients, Running(c)
  PROVE  AtCall(c, engine, table, PlanOf(c), op[c], call[c], local[c])
<1>1. Stands(engine, PlanOf(c), op[c], call[c], answer[c], local[c]) /\ engine \in AllEngines /\ IsTable(engine, table)
  BY DEF Standing
<1>2. call[c] > 0 /\ answer[c] = "none"  BY DEF Running
<1>3. IsOp(op[c]) /\ op[c].kind \in Kinds  BY <1>1, <1>2 DEF Stands
<1>4. PlanOK(engine, op[c], PlanOf(c))  BY <1>1, <1>3, PlansAreOK DEF PlanOf
<1> QED  BY <1>1, <1>2, <1>4 DEF AtCall

\* What an outcome x of a call does to the table and to what the clients keep of it.
Landed(c, x) ==
  /\ table' = x.table
  /\ touched' = [touched EXCEPT ![c] = Wrote(table, touched[c], x)]
  /\ steady' = [d \in Clients |-> steady[d] \cap Listable(d, op[d], x.table)]
  /\ UNCHANGED <<engine, soft, op, prior>>

Stepped(c, x) ==
  /\ Landed(c, x)
  /\ Tame(engine, table, c, op[c], local[c], PlanOf(c)[call[c]], x)
  /\ Effects(engine, soft, table, c, op[c], local[c], PlanOf(c)[call[c]], x)
  /\ local' = [local EXCEPT ![c] = x.local]
  /\ call' = [call EXCEPT ![c] = CallOf(call[c], x)]
  /\ answer' = [answer EXCEPT ![c] = AnswerOf(PlanOf(c), call[c], x)]
  /\ faults' = faults

\* A lost answer: the call may have been applied or not.
Lost(c, x) ==
  /\ Landed(c, x)
  /\ \/ /\ Tame(engine, table, c, op[c], local[c], PlanOf(c)[call[c]], x)
        /\ Effects(engine, soft, table, c, op[c], local[c], PlanOf(c)[call[c]], x)
     \/ x.table = table
  /\ \/ /\ PlanOf(c)[call[c]] = "Undo" /\ answer' = answer
        /\ \E m \in SUBSET Ids : local' = [local EXCEPT ![c] = [local[c] EXCEPT !.landed = m]]
     \/ answer' = [answer EXCEPT ![c] = "backend"] /\ local' = local
  /\ call' = call /\ faults' = faults + 1

LEMMA OutcomesAre ==
  ASSUME Standing, NEW c \in Clients, Running(c), NEW x \in Outcomes(c)
  PROVE  /\ Tame(engine, table, c, op[c], local[c], PlanOf(c)[call[c]], x)
         /\ Effects(engine, soft, table, c, op[c], local[c], PlanOf(c)[call[c]], x)
<1>1. AtCall(c, engine, table, PlanOf(c), op[c], call[c], local[c])  BY RunningIs
<1>2. /\ PlanOf(c)[call[c]] \in Names /\ (PlanOf(c)[call[c]] \in Lone => op[c].ids = <<1>>)
      /\ Calling(engine, table, c, op[c], local[c], PlanOf(c)[call[c]])  BY <1>1, AtCallIs
<1>3. x \in Call(engine, soft, PlanOf(c)[call[c]], table, c, op[c], local[c])  BY DEF Outcomes
<1> QED  BY <1>2, <1>3, CallTame

LEMMA StepIs ==
  ASSUME Standing, NEW c \in Clients, Step(c)
  PROVE  Running(c) /\ \E x : Stepped(c, x)
<1>1. PICK x \in Outcomes(c) :
        /\ Applied(c, x)
        /\ local' = [local EXCEPT ![c] = x.local]
        /\ \/ /\ x.says = "again"
              /\ UNCHANGED <<call, answer>>
           \/ /\ x.says = "on"
              /\ call' = [call EXCEPT ![c] = @ + 1]
              /\ answer' = [answer EXCEPT ![c] = IF call[c] = Len(PlanOf(c)) THEN "ok" ELSE @]
           \/ /\ x.says \notin {"on", "again"}
              /\ answer' = [answer EXCEPT ![c] = x.says]
              /\ UNCHANGED call  BY DEF Step
<1>2. Running(c) /\ UNCHANGED <<engine, soft, op, prior, faults>>  BY DEF Step
<1>3. /\ Tame(engine, table, c, op[c], local[c], PlanOf(c)[call[c]], x)
      /\ Effects(engine, soft, table, c, op[c], local[c], PlanOf(c)[call[c]], x)  BY <1>2, OutcomesAre
<1>4. answer = [d \in Clients |-> answer[d]] /\ call = [d \in Clients |-> call[d]]  BY DEF Standing
<1>5. answer[c] = "none"  BY <1>2 DEF Running
<1>6. call' = [call EXCEPT ![c] = CallOf(call[c], x)]
 <2>1. Stands(engine, PlanOf(c), op[c], call[c], answer[c], local[c])  BY DEF Standing
 <2> QED  BY <1>1, <1>4, <2>1 DEF CallOf, Stands
<1>7. answer' = [answer EXCEPT ![c] = AnswerOf(PlanOf(c), call[c], x)]  BY <1>1, <1>4, <1>5 DEF AnswerOf
<1>8. Landed(c, x)  BY <1>1, <1>2 DEF Applied, Landed, Wrote
<1> QED  BY <1>1, <1>2, <1>3, <1>6, <1>7, <1>8 DEF Stepped

LEMMA LoseIs ==
  ASSUME Standing, NEW c \in Clients, LoseAnswer(c)
  PROVE  Running(c) /\ \E x : Lost(c, x)
<1>1. PICK x \in Outcomes(c) \cup After(table, local[c], "lost") :
        /\ Applied(c, x)
        /\ IF PlanOf(c)[call[c]] = "Undo" /\ local[c].landed # {}
           THEN /\ local' = [local EXCEPT ![c].landed = @ \ {CHOOSE i \in @ : TRUE}]
                /\ UNCHANGED answer
           ELSE /\ answer' = [answer EXCEPT ![c] = "backend"]
                /\ UNCHANGED local  BY DEF LoseAnswer
<1>2. Running(c) /\ faults' = faults + 1 /\ UNCHANGED <<engine, soft, op, call, prior>>  BY DEF LoseAnswer
<1>3. \/ /\ Tame(engine, table, c, op[c], local[c], PlanOf(c)[call[c]], x)
         /\ Effects(engine, soft, table, c, op[c], local[c], PlanOf(c)[call[c]], x)
      \/ x.table = table  BY <1>1, <1>2, OutcomesAre, OutcomeIs
<1>4. Landed(c, x)  BY <1>1, <1>2 DEF Applied, Landed, Wrote
<1>5. CASE PlanOf(c)[call[c]] = "Undo" /\ local[c].landed # {}
 <2> DEFINE m == local[c].landed \ {CHOOSE i \in local[c].landed : TRUE}
 <2>1. local' = [local EXCEPT ![c] = [local[c] EXCEPT !.landed = m]]  BY <1>1, <1>5
 <2>2. m \in SUBSET Ids  BY DEF Standing, Stands, IsLocal, Locals
 <2> HIDE DEF m
 <2> QED  BY <1>1, <1>2, <1>3, <1>4, <1>5, <2>1, <2>2 DEF Lost
<1>6. CASE ~(PlanOf(c)[call[c]] = "Undo" /\ local[c].landed # {})  BY <1>1, <1>2, <1>3, <1>4, <1>6 DEF Lost
<1> QED  BY <1>5, <1>6

\* Whoever moves, the plans stay, and the other clients where they are.
LEMMA LandedKeeps ==
  ASSUME Standing, NEW c \in Clients, Running(c), NEW x, Landed(c, x),
         Tame(engine, table, c, op[c], local[c], PlanOf(c)[call[c]], x) \/ x.table = table
  PROVE  /\ IsTable(engine', table') /\ Moves(c, engine, table, table')
         /\ engine' = engine /\ op' = op /\ \A d \in Clients : PlanOf(d)' = PlanOf(d)
         /\ touched' \in [Clients -> BOOLEAN] /\ touched'[c] = Wrote(table, touched[c], x)
         /\ \A d \in Clients \ {c} : touched'[d] = touched[d]
         /\ steady' = [d \in Clients |-> steady'[d]]
         /\ \A d \in Clients : steady'[d] \in SUBSET steady[d] /\ Shown(op[d], table', soft, steady'[d])
<1>1. engine' = engine /\ soft' = soft /\ op' = op /\ table' = x.table  BY DEF Landed
<1>2. IsTable(engine, table) /\ touched \in [Clients -> BOOLEAN]  BY DEF Standing
<1>3. IsTable(engine, x.table) /\ \A i \in Ids : Own(c, x.table[i], table[i])
 <2>1. CASE x.table = table  BY <1>2, <2>1 DEF Own
 <2>2. CASE Tame(engine, table, c, op[c], local[c], PlanOf(c)[call[c]], x)  BY <2>2 DEF Tame, Writes
 <2> QED  BY <2>1, <2>2
<1>4. \A d \in Clients : PlanOf(d)' = PlanOf(d)  BY <1>1 DEF PlanOf
<1>5. Wrote(table, touched[c], x) \in BOOLEAN  BY <1>2 DEF Wrote
<1>6. /\ touched' \in [Clients -> BOOLEAN] /\ touched'[c] = Wrote(table, touched[c], x)
      /\ \A d \in Clients \ {c} : touched'[d] = touched[d]  BY <1>2, <1>5 DEF Landed
<1>7. ASSUME NEW d \in Clients
      PROVE  steady'[d] \in SUBSET steady[d] /\ Shown(op[d], table', soft, steady'[d])
 <2>1. steady'[d] = steady[d] \cap Listable(d, op[d], table')  BY <1>1 DEF Landed
 <2> QED  BY <2>1 DEF Listable, Shown
<1>8. steady' = [d \in Clients |-> steady'[d]]  BY DEF Landed
<1> QED  BY <1>1, <1>3, <1>4, <1>6, <1>7, <1>8 DEF Moves

(* The invariant is inductive.                                             *)
\* Whoever has not begun has nothing to account for.
LEMMA IdleStands ==
  ASSUME NEW e \in AllEngines, NEW l, IsLocal(e, Idle, l), NEW p
  PROVE  Stands(e, p, Idle, 0, "none", l)
BY IdleIs DEF Stands, Answers

LEMMA FreshStands ==
  ASSUME engine \in AllEngines, NEW o, IsOp(o)
  PROVE  /\ IsLocal(engine, o, Fresh(o))
         /\ \A p : o.kind \in Kinds /\ PlanOK(engine, o, p) => Stands(engine, p, o, 1, "none", Fresh(o))
<1> DEFINE l == Fresh(o)
<1>1. l \in Locals  BY FreshIs
<1>2. l.seen = {} /\ l.ids = o.ids /\ l.item = 0 /\ l.fills = (engine # "elasticsearch")  BY DEF Fresh
<1> HIDE DEF l
<1>3. o.ids \in Seq(Nat) /\ 1 \in DOMAIN o.ids /\ \A k \in DOMAIN o.ids : o.ids[k] \in Ids \cup {0}  BY DEF IsOp
<1>4. Len(o.ids) > 0  BY <1>3
<1>5. IsLocal(engine, o, l)  BY <1>1, <1>2, <1>3, <1>4, Nothing DEF IsLocal
<1>6. ASSUME NEW p, o.kind \in Kinds, PlanOK(engine, o, p)
      PROVE  Stands(engine, p, o, 1, "none", l)
 <2>1. p \in Seq(Names) /\ Len(p) >= 1 /\ (p[1] \notin Naming /\ o.kind \in {"create", "batch"} => o.ids = <<2>>)
   BY <1>6 DEF PlanOK, Fits
 <2>2. p[1] \notin Naming => Known(l)
  <3> SUFFICES ASSUME p[1] \notin Naming PROVE Known(l)  OBVIOUS
  <3>1. o.ids = <<2>> \/ o.ids = <<1>>  BY <2>1 DEF IsOp
  <3> QED  BY <1>2, <3>1, KeysAre DEF Known
 <2>3. Len(p) \in Nat /\ 1 =< Len(p) /\ 1 =< Len(p) + 1  BY <2>1
 <2> QED  BY <1>5, <1>6, <2>2, <2>3 DEF Stands, Answers
<1> QED  BY <1>5, <1>6 DEF l

LEMMA TablesAre ==
  ASSUME NEW e, NEW t \in Tables
  PROVE  IsTable(e, t) /\ \A i \in Ids : \A r \in t[i] : r.by = "seed"
<1>1. ASSUME NEW w \in {"a", "b"}, NEW r \in Stored1(w) PROVE r \in Rows /\ r.by = "seed" /\ r.keyed = TRUE
 <2>1. r = [by |-> "seed", owner |-> w, keyed |-> TRUE, dead |-> FALSE]  BY DEF Stored1
 <2>2. r.by = "seed" /\ r.keyed = TRUE  BY <2>1
 <2>3. r \in Rows  BY <2>1 DEF Rows
 <2> QED  BY <2>2, <2>3
<1>2. \A w \in {"a", "b"} : IsFiniteSet(Stored1(w)) /\ \A x, y \in Stored1(w) : x = y  BY FS_Singleton DEF Stored1
<1>3. \A w \in {"a", "b"} : RowsOK(e, Stored1(w))  BY <1>1, <1>2 DEF RowsOK, AllKeyed
<1>4. RowsOK(e, {})  BY Nothing
<1>5. t = [i \in DOMAIN t |-> t[i]] /\ DOMAIN t = Ids  BY DEF Tables
<1>6. \A i \in Ids : t[i] \in {{}, Stored1("a"), Stored1("b")}  BY DEF Tables
<1>7. \A i \in Ids : RowsOK(e, t[i])  BY <1>3, <1>4, <1>6
<1>8. IsTable(e, t)  BY <1>5, <1>7, TableOf
<1> QED  BY <1>1, <1>6, <1>8

LEMMA TableInvStarts == ASSUME TableInit PROVE TableInv
<1>1. engine \in AllEngines /\ faults = 0 /\ faults \in Nat  BY StorageAssumption DEF TableInit
<1>2. IsTable(engine, table) /\ \A i \in Ids : \A r \in table[i] : r.by = "seed"  BY TablesAre DEF TableInit
<1>3. ASSUME NEW c \in Clients
      PROVE  /\ op[c] = Idle /\ call[c] = 0 /\ local[c] = Fresh(Idle) /\ answer[c] = "none" /\ touched[c] = FALSE
             /\ steady[c] = {} /\ prior[c] = {}  BY DEF TableInit
<1>4. IsOp(Idle) /\ Idle.kind = "none" /\ IsLocal(engine, Idle, Fresh(Idle))  BY <1>1, IdleIs, FreshStands
<1>5. \A c \in Clients : Stands(engine, PlanOf(c), op[c], call[c], answer[c], local[c])
  BY <1>1, <1>3, <1>4, IdleStands
<1>6. Standing  BY <1>1, <1>2, <1>5 DEF Standing, TableInit
<1>7. ASSUME NEW c \in Clients
      PROVE  Accounts(c, engine, table, PlanOf(c), op[c], call[c], answer[c], local[c], touched[c], faults)
 <2> DEFINE p == PlanOf(c)
            l == local[c]
            o == op[c]
 <2>1. p \in Seq(Names)  BY <1>3, <1>4, IdlePlan DEF PlanOf
 <2> HIDE DEF p, l, o
 <2>2. \A names : ~Past(p, 0, names)  BY <2>1 DEF Past
 <2>3. SureAt(engine, p, 0, l, FALSE)  BY <2>1 DEF SureAt
 <2>4. Untouched(c, table, FALSE)  BY <1>2, StorageAssumption DEF Untouched, Mine
 <2>5. UndoneAt(c, engine, table, o, 0, "none", l, faults)  BY DEF UndoneAt
 <2>6. Accounts(c, engine, table, p, o, 0, "none", l, FALSE, faults)
   BY <2>2, <2>3, <2>4, <2>5 DEF Accounts, WroteAt, ClearedAt, RefusedAt
 <2> QED  BY <1>3, <2>6 DEF p, l, o
<1>8. \A c \in Clients : Walks1(soft, table, op[c], answer[c], local[c], steady[c])  BY <1>3, <1>4 DEF Walks1
<1> QED  BY <1>6, <1>7, <1>8 DEF TableInv, Accounted, Walked

LEMMA BeginKeeps == ASSUME TableInv, NEW c \in Clients, Begin(c) PROVE TableInv'
<1>1. PICK o \in Operations :
        /\ op' = [op EXCEPT ![c] = o]
        /\ local' = [local EXCEPT ![c] = Fresh(o)]
        /\ steady' = [steady EXCEPT ![c] = IF o.kind = "walk" THEN Listable(c, o, table) ELSE {}]  BY DEF Begin
<1>2. /\ op[c] = Idle /\ call' = [call EXCEPT ![c] = 1]
      /\ prior' = [prior EXCEPT ![c] = {d \in Clients : answer[d] # "none"}]
      /\ UNCHANGED <<engine, soft, table, answer, touched, faults>>  BY DEF Begin
<1>3. /\ engine \in AllEngines /\ IsTable(engine, table) /\ faults \in Nat
      /\ op = [d \in Clients |-> op[d]] /\ call = [d \in Clients |-> call[d]] /\ local = [d \in Clients |-> local[d]]
      /\ answer = [d \in Clients |-> answer[d]] /\ prior = [d \in Clients |-> prior[d]]
      /\ steady = [d \in Clients |-> steady[d]] /\ touched \in [Clients -> BOOLEAN]
      /\ \A d \in Clients : Stands(engine, PlanOf(d), op[d], call[d], answer[d], local[d])
  BY DEF TableInv, Standing
<1>4. IsOp(o) /\ o.kind \in Kinds  BY OpsAre
<1>5. Idle.kind = "none" /\ answer[c] = "none" /\ call[c] = 0
 <2>1. Idle.kind \notin Kinds /\ Idle.kind = "none"  BY IdleIs DEF Kinds
 <2>2. call[c] = 0  BY <1>2, <1>3, <2>1 DEF Stands
 <2> QED  BY <1>3, <2>1, <2>2 DEF Stands
<1>6. /\ op'[c] = o /\ local'[c] = Fresh(o) /\ call'[c] = 1 /\ answer'[c] = "none"
      /\ steady'[c] = IF o.kind = "walk" THEN Listable(c, o, table) ELSE {}
      /\ op' = [d \in Clients |-> op'[d]] /\ call' = [d \in Clients |-> call'[d]] /\ local' = [d \in Clients |-> local'[d]]
      /\ answer' = [d \in Clients |-> answer'[d]] /\ prior' = [d \in Clients |-> prior'[d]]
      /\ steady' = [d \in Clients |-> steady'[d]] /\ touched' \in [Clients -> BOOLEAN]  BY <1>1, <1>2, <1>3, <1>5
<1>7. ASSUME NEW d \in Clients, d # c
      PROVE  /\ op'[d] = op[d] /\ local'[d] = local[d] /\ call'[d] = call[d] /\ answer'[d] = answer[d] /\ touched'[d] = touched[d]
             /\ steady'[d] = steady[d] /\ PlanOf(d)' = PlanOf(d)
 <2>1. /\ op'[d] = op[d] /\ local'[d] = local[d] /\ call'[d] = call[d] /\ answer'[d] = answer[d] /\ touched'[d] = touched[d]
       /\ steady'[d] = steady[d]  BY <1>1, <1>2, <1>3, <1>7
 <2> QED  BY <1>2, <2>1 DEF PlanOf
<1> DEFINE p == Plan(engine, soft, o)
<1>8. PlanOf(c)' = p  BY <1>2, <1>6 DEF PlanOf
<1>9. PlanOK(engine, o, p)  BY <1>3, <1>4, PlansAreOK
<1> HIDE DEF p
<1>10. Stands(engine, p, o, 1, "none", Fresh(o))  BY <1>3, <1>4, <1>9, FreshStands
<1>11. Standing'
 <2>1. ASSUME NEW d \in Clients PROVE Stands(engine', PlanOf(d)', op'[d], call'[d], answer'[d], local'[d])
   BY <1>2, <1>3, <1>6, <1>7, <1>8, <1>10
 <2>2. engine' \in AllEngines /\ IsTable(engine', table') /\ faults' \in Nat  BY <1>2, <1>3
 <2> QED  BY <1>6, <2>1, <2>2 DEF Standing
<1>12. Accounted'
 <2>1. ASSUME NEW d \in Clients, d # c
       PROVE  Accounts(d, engine', table', PlanOf(d)', op'[d], call'[d], answer'[d], local'[d], touched'[d], faults')
   BY <1>2, <1>7, <2>1 DEF TableInv, Accounted
 <2>2. Accounts(c, engine, table, p, o, 1, "none", Fresh(o), touched[c], faults)
  <3> DEFINE l == Fresh(o)
  <3>1. p \in Seq(Names)  BY <1>9 DEF PlanOK, Fits
  <3> HIDE DEF l
  <3>2. \A names : ~Past(p, 1, names)  BY <3>1 DEF Past
  <3>3. ~touched[c] /\ Untouched(c, table, touched[c])
   <4>1. Accounts(c, engine, table, PlanOf(c), op[c], 0, "none", local[c], touched[c], faults)
     BY <1>5 DEF TableInv, Accounted
   <4>2. ~Past(PlanOf(c), 0, Writing)
    <5>1. PlanOf(c) \in Seq(Names)  BY <1>2, IdlePlan DEF PlanOf
    <5> QED  BY <5>1 DEF Past
   <4> QED  BY <4>1, <4>2 DEF Accounts, WroteAt
  <3>4. SureAt(engine, p, 1, l, touched[c])  BY <3>1 DEF SureAt
  <3>5. UndoneAt(c, engine, table, o, 1, "none", l, faults)  BY DEF UndoneAt
  <3>6. Accounts(c, engine, table, p, o, 1, "none", l, touched[c], faults)
    BY <3>2, <3>3, <3>4, <3>5 DEF Accounts, WroteAt, ClearedAt, RefusedAt
  <3> QED  BY <3>6 DEF l
 <2>3. Accounts(c, engine', table', PlanOf(c)', op'[c], call'[c], answer'[c], local'[c], touched'[c], faults')
   BY <1>2, <1>6, <1>8, <2>2
 <2> QED  BY <2>1, <2>3 DEF Accounted
<1>13. Walked'
 <2>1. ASSUME NEW d \in Clients, d # c PROVE Walks1(soft', table', op'[d], answer'[d], local'[d], steady'[d])
   BY <1>2, <1>7, <2>1 DEF TableInv, Walked
 <2>2. Walks1(soft, table, o, "none", Fresh(o), Listable(c, o, table))
  <3> DEFINE l == Fresh(o)
             keys == Listable(c, o, table)
  <3>1. l.paged = FALSE /\ l.got = << >>  BY DEF Fresh
  <3>2. Shown(o, table, soft, keys)  BY DEF Listable, Shown
  <3>3. Counting(keys, l)  BY <3>1 DEF Counting, NeverIn
  <3> HIDE DEF l, keys
  <3>4. Walks1(soft, table, o, "none", l, keys)  BY <3>2, <3>3 DEF Walks1
  <3> QED  BY <3>4 DEF l, keys
 <2>3. Walks1(soft', table', op'[c], answer'[c], local'[c], steady'[c])
  <3>1. CASE o.kind = "walk"  BY <1>2, <1>6, <2>2, <3>1
  <3>2. CASE o.kind # "walk"  BY <1>6, <3>2 DEF Walks1
  <3> QED  BY <3>1, <3>2
 <2> QED  BY <2>1, <2>3 DEF Walked
<1> QED  BY <1>11, <1>12, <1>13 DEF TableInv

LEMMA SteppedKeeps == ASSUME TableInv, NEW c \in Clients, Running(c), NEW x, Stepped(c, x) PROVE TableInv'
<1> DEFINE p == PlanOf(c)
           o == op[c]
           k == call[c]
           l == local[c]
<1>1. Standing /\ Accounted /\ Walked /\ Landed(c, x) /\ Tame(engine, table, c, o, l, p[k], x) /\ Effects(engine, soft, table, c, o, l, p[k], x)
  BY DEF TableInv, Stepped
<1>2. AtCall(c, engine, table, p, o, k, l)  BY <1>1, RunningIs
<1>3. /\ IsTable(engine', table') /\ Moves(c, engine, table, table')
      /\ engine' = engine /\ op' = op /\ \A d \in Clients : PlanOf(d)' = PlanOf(d)
      /\ touched' \in [Clients -> BOOLEAN] /\ touched'[c] = Wrote(table, touched[c], x)
      /\ \A d \in Clients \ {c} : touched'[d] = touched[d]
      /\ steady' = [d \in Clients |-> steady'[d]]
      /\ \A d \in Clients : steady'[d] \in SUBSET steady[d] /\ Shown(op[d], table', soft, steady'[d])
  BY <1>1, LandedKeeps
<1>4. table' = x.table /\ soft' = soft /\ faults' = faults /\ prior' = prior  BY DEF Landed, Stepped
<1>5. /\ op = [d \in Clients |-> op[d]] /\ call = [d \in Clients |-> call[d]] /\ local = [d \in Clients |-> local[d]]
      /\ answer = [d \in Clients |-> answer[d]] /\ prior = [d \in Clients |-> prior[d]]
      /\ touched \in [Clients -> BOOLEAN] /\ engine \in AllEngines /\ faults \in Nat
      /\ \A d \in Clients : Stands(engine, PlanOf(d), op[d], call[d], answer[d], local[d])  BY <1>1 DEF Standing
<1>6. /\ local'[c] = x.local /\ call'[c] = CallOf(k, x) /\ answer'[c] = AnswerOf(p, k, x)
      /\ local' = [d \in Clients |-> local'[d]] /\ call' = [d \in Clients |-> call'[d]] /\ answer' = [d \in Clients |-> answer'[d]]
  BY <1>5 DEF Stepped
<1>7. \A d \in Clients \ {c} : local'[d] = local[d] /\ call'[d] = call[d] /\ answer'[d] = answer[d]
  BY <1>5 DEF Stepped
<1>8. answer[c] = "none"  BY DEF Running
<1> HIDE DEF p, o, k, l
<1>9. Stands(engine, p, o, CallOf(k, x), AnswerOf(p, k, x), x.local)  BY <1>1, <1>2, StandsOn DEF Tame
<1>10. Standing'
 <2>1. ASSUME NEW d \in Clients PROVE Stands(engine', PlanOf(d)', op'[d], call'[d], answer'[d], local'[d])
  <3>1. CASE d = c  BY <1>3, <1>6, <1>9, <3>1 DEF p, o
  <3>2. CASE d # c  BY <1>3, <1>5, <1>7, <3>2
  <3> QED  BY <3>1, <3>2
 <2> QED  BY <1>3, <1>4, <1>5, <1>6, <2>1 DEF Standing
<1>11. Accounted'
 <2>1. ASSUME NEW d \in Clients
       PROVE  Accounts(d, engine', table', PlanOf(d)', op'[d], call'[d], answer'[d], local'[d], touched'[d], faults')
  <3>1. Accounts(d, engine, table, PlanOf(d), op[d], call[d], answer[d], local[d], touched[d], faults)
    BY <1>1 DEF Accounted
  <3>2. touched[d] \in BOOLEAN  BY <1>5
  <3>3. CASE d = c
   <4>1. Accounts(c, engine, table, p, o, k, "none", l, touched[c], faults)  BY <1>8, <3>1, <3>3 DEF p, o, k, l
   <4>2. Accounts(c, engine, x.table, p, o, CallOf(k, x), AnswerOf(p, k, x), x.local, Wrote(table, touched[c], x), faults)
     BY <1>1, <1>2, <3>2, <3>3, <4>1, AccountsOn
   <4> QED  BY <1>3, <1>4, <1>6, <3>3, <4>2 DEF p, o
  <3>4. CASE d # c
   <4>1. Accounts(d, engine, table', PlanOf(d), op[d], call[d], answer[d], local[d], touched[d], faults)
     BY <1>3, <1>5, <3>1, <3>2, <3>4, OthersAccount
   <4> QED  BY <1>3, <1>4, <1>7, <3>4, <4>1
  <3> QED  BY <3>3, <3>4
 <2> QED  BY <2>1 DEF Accounted
<1>12. Walked'
 <2>1. ASSUME NEW d \in Clients PROVE Walks1(soft', table', op'[d], answer'[d], local'[d], steady'[d])
  <3>1. Walks1(soft, table, op[d], answer[d], local[d], steady[d])  BY <1>1 DEF Walked
  <3>2. CASE d = c
   <4>1. Walks1(soft, table, o, "none", l, steady[c])  BY <1>8, <3>1, <3>2 DEF o, l
   <4>2. steady'[c] \in SUBSET steady[c] /\ Shown(o, x.table, soft, steady'[c])  BY <1>3, <1>4 DEF o
   <4>3. Walks1(soft, x.table, o, AnswerOf(p, k, x), x.local, steady'[c])  BY <1>1, <1>2, <4>1, <4>2, WalksOn
   <4> QED  BY <1>3, <1>4, <1>6, <3>2, <4>3 DEF o
  <3>3. CASE d # c  BY <1>3, <1>4, <1>7, <3>1, <3>3, WalksStay
  <3> QED  BY <3>2, <3>3
 <2> QED  BY <2>1 DEF Walked
<1> QED  BY <1>10, <1>11, <1>12 DEF TableInv

LEMMA LostKeeps == ASSUME TableInv, NEW c \in Clients, Running(c), NEW x, Lost(c, x) PROVE TableInv'
<1> DEFINE p == PlanOf(c)
           o == op[c]
           k == call[c]
           l == local[c]
<1>1. /\ Standing /\ Accounted /\ Walked /\ Landed(c, x)
      /\ Tame(engine, table, c, o, l, p[k], x) \/ x.table = table  BY DEF TableInv, Lost
<1>2. AtCall(c, engine, table, p, o, k, l)  BY <1>1, RunningIs
<1>3. /\ IsTable(engine', table') /\ Moves(c, engine, table, table')
      /\ engine' = engine /\ op' = op /\ \A d \in Clients : PlanOf(d)' = PlanOf(d)
      /\ touched' \in [Clients -> BOOLEAN] /\ touched'[c] = Wrote(table, touched[c], x)
      /\ \A d \in Clients \ {c} : touched'[d] = touched[d]
      /\ steady' = [d \in Clients |-> steady'[d]]
      /\ \A d \in Clients : steady'[d] \in SUBSET steady[d] /\ Shown(op[d], table', soft, steady'[d])
  BY <1>1, LandedKeeps
<1>4. table' = x.table /\ soft' = soft /\ faults' = faults + 1 /\ prior' = prior /\ call' = call
  BY DEF Landed, Lost
<1>5. /\ op = [d \in Clients |-> op[d]] /\ call = [d \in Clients |-> call[d]] /\ local = [d \in Clients |-> local[d]]
      /\ answer = [d \in Clients |-> answer[d]] /\ prior = [d \in Clients |-> prior[d]]
      /\ touched \in [Clients -> BOOLEAN] /\ engine \in AllEngines /\ faults \in Nat
      /\ \A d \in Clients : Stands(engine, PlanOf(d), op[d], call[d], answer[d], local[d])  BY <1>1 DEF Standing
<1>6. PICK m \in SUBSET Ids :
        \/ p[k] = "Undo" /\ answer' = answer /\ local' = [local EXCEPT ![c] = [l EXCEPT !.landed = m]]
        \/ answer' = [answer EXCEPT ![c] = "backend"] /\ local' = local  BY DEF Lost
<1> DEFINE q == [l EXCEPT !.landed = m]
<1>7. /\ local' = [d \in Clients |-> local'[d]] /\ answer' = [d \in Clients |-> answer'[d]]
      /\ \A d \in Clients \ {c} : local'[d] = local[d] /\ answer'[d] = answer[d]  BY <1>5, <1>6
<1>8. answer[c] = "none"  BY DEF Running
<1>9. (p[k] = "Undo" /\ answer'[c] = "none" /\ local'[c] = q) \/ (answer'[c] = "backend" /\ local'[c] = l)
  BY <1>5, <1>6, <1>8
<1> HIDE DEF p, o, k, l
<1>10. Standing'
 <2>1. ASSUME NEW d \in Clients PROVE Stands(engine', PlanOf(d)', op'[d], call'[d], answer'[d], local'[d])
  <3>1. CASE d = c
   <4>1. Stands(engine, p, o, k, "backend", l) /\ Stands(engine, p, o, k, "none", q)  BY <1>2, LostStands
   <4> HIDE DEF q
   <4> QED  BY <1>3, <1>4, <1>9, <3>1, <4>1 DEF p, o, k
  <3>2. CASE d # c  BY <1>3, <1>4, <1>5, <1>7, <3>2
  <3> QED  BY <3>1, <3>2
 <2>2. faults' \in Nat  BY <1>4, <1>5
 <2>3. call' = [d \in Clients |-> call'[d]] /\ op' = [d \in Clients |-> op'[d]] /\ prior' = [d \in Clients |-> prior'[d]]
   BY <1>3, <1>4, <1>5
 <2> QED  BY <1>3, <1>5, <1>7, <2>1, <2>2, <2>3 DEF Standing
<1>11. Accounted'
 <2>1. ASSUME NEW d \in Clients
       PROVE  Accounts(d, engine', table', PlanOf(d)', op'[d], call'[d], answer'[d], local'[d], touched'[d], faults')
  <3>1. Accounts(d, engine, table, PlanOf(d), op[d], call[d], answer[d], local[d], touched[d], faults)
    BY <1>1 DEF Accounted
  <3>2. touched[d] \in BOOLEAN /\ faults \in Nat /\ faults + 1 \in Nat /\ faults =< faults + 1  BY <1>5
  <3>3. CASE d = c
   <4>1. Accounts(c, engine, table, p, o, k, "none", l, touched[c], faults)  BY <1>8, <3>1, <3>3 DEF p, o, k, l
   <4>2. /\ Accounts(c, engine, x.table, p, o, k, "backend", l, Wrote(table, touched[c], x), faults + 1)
         /\ p[k] = "Undo" => Accounts(c, engine, x.table, p, o, k, "none", q, Wrote(table, touched[c], x), faults + 1)
     BY <1>2, <3>2, <3>3, <4>1, LostAccounts
   <4> HIDE DEF q
   <4> QED  BY <1>3, <1>4, <1>9, <3>3, <4>2 DEF p, o, k
  <3>4. CASE d # c
   <4>1. Accounts(d, engine, table', PlanOf(d), op[d], call[d], answer[d], local[d], touched[d], faults + 1)
     BY <1>3, <1>5, <3>1, <3>2, <3>4, OthersAccount
   <4> QED  BY <1>3, <1>4, <1>7, <3>4, <4>1
  <3> QED  BY <3>3, <3>4
 <2> QED  BY <2>1 DEF Accounted
<1>12. Walked'
 <2>1. ASSUME NEW d \in Clients PROVE Walks1(soft', table', op'[d], answer'[d], local'[d], steady'[d])
  <3>1. Walks1(soft, table, op[d], answer[d], local[d], steady[d])  BY <1>1 DEF Walked
  <3>2. steady'[d] \in SUBSET steady[d] /\ Shown(op[d], table', soft, steady'[d])  BY <1>3
  <3>3. /\ Walks1(soft, table', op[d], answer[d], local[d], steady'[d])
        /\ Walks1(soft, table', op[d], "backend", local[d], steady'[d])  BY <3>1, <3>2, WalksStay
  <3>4. CASE d = c /\ p[k] = "Undo"
   <4>1. o.kind = "batch"  BY <1>2, <3>4, AtCallIs DEF FitsAt
   <4> QED  BY <1>3, <3>4, <4>1 DEF Walks1, o
  <3>5. CASE d = c /\ p[k] # "Undo"  BY <1>3, <1>4, <1>9, <3>3, <3>5 DEF l
  <3>6. CASE d # c  BY <1>3, <1>4, <1>7, <3>3, <3>6
  <3> QED  BY <3>4, <3>5, <3>6
 <2> QED  BY <2>1 DEF Walked
<1> QED  BY <1>10, <1>11, <1>12 DEF TableInv

LEMMA TableInvKept == ASSUME TableInv, [TableNext]_tableVars PROVE TableInv'
<1>1. CASE UNCHANGED tableVars  BY <1>1 DEF tableVars, TableInv, Standing, Accounted, Walked, PlanOf
<1>2. ASSUME NEW c \in Clients, Begin(c) PROVE TableInv'  BY <1>2, BeginKeeps
<1>3. ASSUME NEW c \in Clients, Step(c) PROVE TableInv'  BY <1>3, StepIs, SteppedKeeps DEF TableInv
<1>4. ASSUME NEW c \in Clients, LoseAnswer(c) PROVE TableInv'  BY <1>4, LoseIs, LostKeeps DEF TableInv
<1> QED  BY <1>1, <1>2, <1>3, <1>4 DEF TableNext

(* What the invariant says.                                                *)
LEMMA PlanFits ==
  ASSUME Standing, NEW c \in Clients, call[c] > 0
  PROVE  /\ PlanOK(engine, op[c], PlanOf(c)) /\ IsOp(op[c]) /\ op[c].kind \in Kinds
         /\ PlanOf(c) \in Seq(Names) /\ Len(PlanOf(c)) \in Nat /\ DOMAIN PlanOf(c) = 1 .. Len(PlanOf(c))
         /\ Stands(engine, PlanOf(c), op[c], call[c], answer[c], local[c]) /\ call[c] \in Nat
<1>1. Stands(engine, PlanOf(c), op[c], call[c], answer[c], local[c]) /\ engine \in AllEngines  BY DEF Standing
<1>2. IsOp(op[c]) /\ op[c].kind \in Kinds /\ call[c] \in Nat  BY <1>1 DEF Stands
<1>3. PlanOK(engine, op[c], PlanOf(c))  BY <1>1, <1>2, PlansAreOK DEF PlanOf
<1>4. PlanOf(c) \in Seq(Names)  BY <1>3 DEF PlanOK, Fits
<1> QED  BY <1>1, <1>2, <1>3, <1>4

LEMMA TypesFollow == ASSUME TableInv PROVE TableTypeOK
<1>1. Standing /\ IsTable(engine, table)  BY DEF TableInv, Standing
<1>2. \A i \in Ids : table[i] \subseteq Rows  BY <1>1 DEF IsTable
<1>3. ASSUME engine # "clickhouse", NEW i \in Ids PROVE Cardinality(table[i]) =< 1
 <2>1. \A x, y \in table[i] : x = y  BY <1>1, <1>3 DEF IsTable, RowsOK
 <2>2. table[i] = {} \/ \E x : table[i] = {x}  BY <2>1
 <2>3. Cardinality(table[i]) \in {0, 1}  BY <2>2, FS_EmptySet, FS_Singleton
 <2> QED  BY <2>3
<1>4. ASSUME NEW c \in Clients
      PROVE  /\ call[c] =< Len(PlanOf(c)) + 1
             /\ answer[c] \in {"none", "ok", "notfound", "conflict", "backend"}
             /\ local[c].landed \subseteq Ids
 <2>1. Stands(engine, PlanOf(c), op[c], call[c], answer[c], local[c])  BY <1>1 DEF Standing
 <2>2. local[c].landed \subseteq Ids /\ answer[c] \in {"none", "ok", "notfound", "conflict", "backend"}
   BY <2>1 DEF Stands, IsLocal, Locals, Answers
 <2>3. CASE call[c] = 0
  <3>1. op[c] = Idle  BY <2>1, <2>3 DEF Stands
  <3>2. PlanOf(c) \in Seq(Names)  BY <3>1, IdlePlan DEF PlanOf
  <3>3. Len(PlanOf(c)) \in Nat  BY <3>2
  <3> QED  BY <2>2, <2>3, <3>3
 <2>4. CASE call[c] # 0  BY <2>1, <2>2, <2>4 DEF Stands
 <2> QED  BY <2>3, <2>4
<1> QED  BY <1>2, <1>3, <1>4 DEF TableTypeOK

LEMMA BatchesFollow == ASSUME TableInv PROVE FailedBatchLeavesNothing
<1> SUFFICES ASSUME NEW c \in Clients, op[c].kind = "batch", answer[c] = "conflict", engine # "clickhouse", faults = 0,
                    NEW i \in Ids, NEW r \in table[i]
             PROVE  r.by # c  BY DEF FailedBatchLeavesNothing
<1> DEFINE p == PlanOf(c)
           k == call[c]
           l == local[c]
           w == touched[c]
<1>1. Accounts(c, engine, table, p, op[c], k, "conflict", l, w, faults) /\ Standing /\ engine \in AllEngines
  BY DEF TableInv, Accounted, Standing
<1>2. k > 0  BY <1>1 DEF Standing, Stands
<1>3. /\ PlanOK(engine, op[c], p) /\ DOMAIN p = 1 .. Len(p) /\ Len(p) \in Nat /\ k \in Nat
      /\ Stands(engine, p, op[c], k, "conflict", l)  BY <1>1, <1>2, PlanFits
<1> HIDE DEF p, k, l, w
<1>4. k =< Len(p) /\ k \in DOMAIN p  BY <1>2, <1>3 DEF Stands
<1>5. p[k] \in MayClash  BY <1>1 DEF Accounts, RefusedAt
<1>6. CASE w /\ engine # "elasticsearch"
 <2>1. PICK j \in DOMAIN p : j < k /\ p[j] \in Writing  BY <1>1, <1>6 DEF Accounts, WroteAt, Past
 <2>2. j \in 1 .. k - 1  BY <1>3, <1>4, <2>1
 <2> QED  BY <1>3, <1>4, <1>5, <1>6, <2>1, <2>2 DEF PlanOK, Writing1
<1>7. CASE w /\ engine = "elasticsearch"
 <2>1. p = <<"NextIds", "Bulk", "Undo">>  BY <1>3, <1>7 DEF PlanOK, Fits
 <2>2. Len(p) = 3 /\ p[1] = "NextIds" /\ p[2] = "Bulk" /\ p[3] = "Undo"  BY <2>1
 <2>3. k # 1
  <3>1. PICK j \in DOMAIN p : j < k  BY <1>1, <1>7 DEF Accounts, WroteAt, Past
  <3> QED  BY <1>3, <3>1
 <2>4. k # 2  BY <1>5, <2>2 DEF MayClash
 <2>5. k = 3  BY <1>3, <1>4, <2>2, <2>3, <2>4
 <2>6. \A y \in Ids : ~Mine(c, table[y])  BY <1>1, <1>7, <2>5 DEF Accounts, UndoneAt
 <2> QED  BY <2>6 DEF Mine
<1>8. CASE ~w  BY <1>1, <1>8 DEF Accounts, Untouched, Mine
<1> QED  BY <1>6, <1>7, <1>8

LEMMA AuditFollows == ASSUME TableInv PROVE AuditMatchesEffect
<1> SUFFICES ASSUME NEW c \in Clients
             PROVE  /\ answer[c] = "ok" /\ op[c].kind # "walk" =>
                         \/ touched[c]
                         \/ engine \in Probing /\ op[c].kind \notin {"create", "batch", "upsert"}
                    /\ answer[c] \in {"notfound", "conflict"} /\ touched[c] => Rechecked(engine, op[c].kind)
  BY DEF AuditMatchesEffect, Rechecked, Stores
<1> DEFINE p == PlanOf(c)
           k == call[c]
           l == local[c]
           w == touched[c]
           a == answer[c]
           o == op[c]
<1>1. Accounts(c, engine, table, p, o, k, a, l, w, faults) /\ Standing /\ engine \in AllEngines
  BY DEF TableInv, Accounted, Standing
<1>2. a # "none" => k > 0  BY <1>1 DEF Standing, Stands
<1>3. ASSUME a # "none"
      PROVE  /\ PlanOK(engine, o, p) /\ DOMAIN p = 1 .. Len(p) /\ Len(p) \in Nat /\ k \in Nat /\ k > 0
             /\ Stands(engine, p, o, k, a, l)  BY <1>1, <1>2, <1>3, PlanFits
<1> HIDE DEF p, k, l, w, a, o
<1>4. ASSUME a = "ok", o.kind # "walk", engine \notin Probing \/ o.kind \in Stores PROVE w
 <2>1. k = Len(p) + 1  BY <1>3, <1>4 DEF Stands
 <2>2. PICK j \in DOMAIN p : Sure(engine, p[j])  BY <1>3, <1>4 DEF PlanOK, SureWrite
 <2>3. j < k  BY <1>3, <1>4, <2>1
 <2>4. w \/ (p[j] = "Bulk" /\ l.failed)  BY <1>1, <2>2, <2>3 DEF Accounts, SureAt
 <2>5. ASSUME p[j] = "Bulk", l.failed PROVE FALSE
  <3>1. o.kind = "batch" /\ engine = "elasticsearch"  BY <1>3, <1>4, <2>5 DEF PlanOK, Fits, FitsAt
  <3>2. p = <<"NextIds", "Bulk", "Undo">>  BY <1>3, <1>4, <3>1 DEF PlanOK, Fits
  <3>3. Len(p) = 3  BY <3>2
  <3>4. k = 4  BY <2>1, <3>3
  <3> QED  BY <1>1, <2>5, <3>1, <3>4 DEF Accounts, UndoneAt
 <2> QED  BY <2>4, <2>5
<1>5. ASSUME a \in {"notfound", "conflict"}, w PROVE Rechecked(engine, o.kind)
 <2>1. PICK j \in DOMAIN p : j < k /\ p[j] \in Writing  BY <1>1, <1>5 DEF Accounts, WroteAt, Past
 <2>2. k =< Len(p) /\ k \in DOMAIN p /\ j \in 1 .. k - 1
  <3>1. k =< Len(p)  BY <1>3, <1>5 DEF Stands
  <3> QED  BY <1>3, <1>5, <2>1, <3>1
 <2>3. p[k] \in MayMiss \cup MayClash  BY <1>1, <1>5 DEF Accounts, RefusedAt
 <2> QED  BY <1>3, <1>5, <2>1, <2>2, <2>3 DEF PlanOK, Writing1
<1> QED  BY <1>4, <1>5 DEF a, o, w, Stores

LEMMA WalksFollow == ASSUME TableInv PROVE WalkIsComplete
<1> SUFFICES ASSUME NEW c \in Clients, op[c].kind = "walk", answer[c] = "ok", NEW i \in steady[c]
             PROVE  /\ i \in Range(local[c].got)
                    /\ Cardinality({k \in DOMAIN local[c].got : local[c].got[k] = i}) = 1  BY DEF WalkIsComplete
<1>1. OnceIn(local[c].got, i)  BY DEF TableInv, Walked, Walks1
<1> QED  BY <1>1, OnceCounts

(* Who changes the table, and what its call does there.                    *)
Acting(c, x) ==
  /\ Running(c) /\ Landed(c, x)
  /\ Tame(engine, table, c, op[c], local[c], PlanOf(c)[call[c]], x)
  /\ Effects(engine, soft, table, c, op[c], local[c], PlanOf(c)[call[c]], x)

LEMMA ActorIs ==
  ASSUME TableInv, [TableNext]_tableVars, table' # table
  PROVE  \E c \in Clients : \E x :
           /\ Acting(c, x)
           /\ \A d \in Clients \ {c} : local'[d] = local[d] /\ call'[d] = call[d] /\ answer'[d] = answer[d] /\ touched'[d] = touched[d]
<1>1. Standing  BY DEF TableInv
<1>2. /\ call = [d \in Clients |-> call[d]] /\ local = [d \in Clients |-> local[d]]
      /\ answer = [d \in Clients |-> answer[d]] /\ touched \in [Clients -> BOOLEAN]  BY <1>1 DEF Standing
<1>3. PICK c \in Clients : Step(c) \/ LoseAnswer(c)
 <2>1. ASSUME NEW c \in Clients, Begin(c) PROVE table' = table  BY <2>1 DEF Begin
 <2>2. ASSUME UNCHANGED tableVars PROVE table' = table  BY <2>2 DEF tableVars
 <2> QED  BY <2>1, <2>2 DEF TableNext
<1>4. CASE Step(c)
 <2>1. PICK x : Stepped(c, x)  BY <1>1, <1>4, StepIs
 <2>2. Running(c)  BY <1>1, <1>4, StepIs
 <2>3. Acting(c, x)  BY <2>1, <2>2 DEF Acting, Stepped
 <2>4. \A d \in Clients \ {c} : local'[d] = local[d] /\ call'[d] = call[d] /\ answer'[d] = answer[d] /\ touched'[d] = touched[d]
   BY <1>2, <2>1 DEF Stepped, Landed
 <2> QED  BY <2>3, <2>4
<1>5. CASE LoseAnswer(c)
 <2>1. PICK x : Lost(c, x)  BY <1>1, <1>5, LoseIs
 <2>2. Running(c)  BY <1>1, <1>5, LoseIs
 <2>3. x.table # table  BY <2>1 DEF Lost, Landed
 <2>4. Acting(c, x)  BY <2>1, <2>2, <2>3 DEF Acting, Lost
 <2>5. \A d \in Clients \ {c} : touched'[d] = touched[d]  BY <1>2, <2>1 DEF Lost, Landed
 <2>6. \A d \in Clients \ {c} : local'[d] = local[d] /\ answer'[d] = answer[d]  BY <1>2, <2>1 DEF Lost
 <2>7. call' = call  BY <2>1 DEF Lost
 <2> QED  BY <2>4, <2>5, <2>6, <2>7
<1> QED  BY <1>3, <1>4, <1>5

LEMMA ActingAt ==
  ASSUME Standing, NEW c \in Clients, NEW x, Acting(c, x), table' # table
  PROVE  /\ AtCall(c, engine, table, PlanOf(c), op[c], call[c], local[c])
         /\ FitsAt(engine, op[c], PlanOf(c), call[c])
         /\ PlanOf(c)[call[c]] \in Writing /\ table' = x.table
         /\ PlanOf(c)[call[c]] \in Changing => \A i \in Ids \ {1} : x.table[i] = table[i]
<1>1. AtCall(c, engine, table, PlanOf(c), op[c], call[c], local[c]) /\ table' = x.table
  BY RunningIs DEF Acting, Landed
<1>2. Writes(engine, table, c, op[c], local[c], PlanOf(c)[call[c]], x)  BY DEF Acting, Tame
<1>3. FitsAt(engine, op[c], PlanOf(c), call[c])  BY <1>1, AtCallIs
<1>4. x.table # table  BY <1>1
<1>5. /\ PlanOf(c)[call[c]] \notin Writing => x.table = table
      /\ PlanOf(c)[call[c]] \in Changing => \A i \in Ids \ {1} : x.table[i] = table[i]  BY <1>2 DEF Writes
<1> QED  BY <1>1, <1>3, <1>4, <1>5

LEMMA ScopeFollows ==
  ASSUME TableInv, [TableNext]_tableVars, NEW c \in Clients, NEW i \in Ids,
         op[c].kind \in InPlace, call[c] > 0, table' # table,
         local'[c] # local[c] \/ call'[c] # call[c] \/ answer'[c] # answer[c]
  PROVE  /\ local[c].cleared \/ \A r \in table[i] \ table'[i] : InScope(op[c].viewer, r)
         /\ engine \notin {"cassandra", "influxdb"} /\ table[i] = {} => table'[i] = {}
<1>1. Standing  BY DEF TableInv
<1>2. PICK b \in Clients : \E x :
        /\ Acting(b, x)
        /\ \A d \in Clients \ {b} : local'[d] = local[d] /\ call'[d] = call[d] /\ answer'[d] = answer[d] /\ touched'[d] = touched[d]
  BY ActorIs
<1>3. PICK x : b = c /\ Acting(c, x)  BY <1>2
<1> DEFINE p == PlanOf(c)
           k == call[c]
           o == op[c]
           l == local[c]
<1>4. /\ AtCall(c, engine, table, p, o, k, l) /\ FitsAt(engine, o, p, k) /\ p[k] \in Writing /\ table' = x.table
      /\ p[k] \in Changing => \A y \in Ids \ {1} : x.table[y] = table[y]  BY <1>1, <1>3, ActingAt
<1>5. Effects(engine, soft, table, c, o, l, p[k], x)  BY <1>3 DEF Acting
<1>6. ClearedAt(p, k, l)  BY DEF TableInv, Accounted, Accounts
<1> HIDE DEF p, k, o, l
<1>7. o.kind \in InPlace  BY DEF o
<1>8. p[k] \in Changing
 <2>1. p[k] \notin Adding /\ p[k] # "Undo"  BY <1>4, <1>7 DEF FitsAt, Stores, InPlace
 <2> QED  BY <1>4, <2>1 DEF Writing
<1>9. k \in DOMAIN p /\ DOMAIN p = 1 .. Len(p) /\ Len(p) \in Nat  BY <1>4, AtCallIs
<1>10. \/ engine \in {"memory", "seaorm", "mongodb", "clickhouse"} /\ p[k] \in {"PatchWhere", "RemoveWhere"}
       \/ \E j \in 1 .. k - 1 : p[j] \in {"Probe", "Recheck"}  BY <1>4, <1>7, <1>9 DEF AtCall, PlanOK, Looked
<1>13. ASSUME engine \notin {"cassandra", "influxdb"}, table[i] = {} PROVE table'[i] = {}
 <2>1. p[k] \in {"PatchWhere", "RemoveWhere"}  BY <1>4, <1>7, <1>9, <1>13 DEF AtCall, PlanOK, Looked
 <2>2. table[1] = {} => x.table[1] = {}  BY <1>5, <2>1 DEF Effects, PatchKeeps, RemoveKeeps
 <2> QED  BY <1>4, <1>8, <1>13, <2>2
<1>11. CASE \E j \in 1 .. k - 1 : p[j] \in {"Probe", "Recheck"}
 <2>1. Past(p, k, {"Probe", "Recheck"})  BY <1>9, <1>11 DEF Past
 <2> QED  BY <1>6, <1>13, <2>1 DEF ClearedAt, l
<1>12. CASE engine \in {"memory", "seaorm", "mongodb", "clickhouse"} /\ p[k] \in {"PatchWhere", "RemoveWhere"}
 <2>1. \A r \in table[1] \ x.table[1] : InScope(o.viewer, r)  BY <1>5, <1>12 DEF Effects, PatchKeeps, RemoveKeeps
 <2>2. i # 1 => x.table[i] = table[i]  BY <1>4, <1>8
 <2> QED  BY <1>4, <1>13, <2>1, <2>2 DEF o
<1> QED  BY <1>10, <1>11, <1>12

LEMMA TombstoneFollows ==
  ASSUME TableInv, [TableNext]_tableVars, NEW c \in Clients, NEW i \in Ids,
         engine # "influxdb", op[c].kind = "update", touched'[c], ~touched[c],
         table[i] # {}, \A r \in table[i] : r.dead, NEW r \in table'[i]
  PROVE  r.dead
<1>1. Standing /\ IsTable(engine, table)  BY DEF TableInv, Standing
<1>2. CASE table' = table  BY <1>2
<1>3. CASE table' # table
 <2>1. PICK b \in Clients : \E x :
         /\ Acting(b, x)
         /\ \A d \in Clients \ {b} : local'[d] = local[d] /\ call'[d] = call[d] /\ answer'[d] = answer[d] /\ touched'[d] = touched[d]
   BY <1>3, ActorIs
 <2>2. PICK x : b = c /\ Acting(c, x)  BY <2>1
 <2> DEFINE p == PlanOf(c)
            k == call[c]
            o == op[c]
            l == local[c]
 <2>3. /\ AtCall(c, engine, table, p, o, k, l) /\ FitsAt(engine, o, p, k) /\ p[k] \in Writing /\ table' = x.table
       /\ p[k] \in Changing => \A y \in Ids \ {1} : x.table[y] = table[y]  BY <1>1, <1>3, <2>2, ActingAt
 <2>4. Effects(engine, soft, table, c, o, l, p[k], x)  BY <2>2 DEF Acting
 <2> HIDE DEF p, k, o, l
 <2>5. o.kind = "update"  BY DEF o
 <2>6. o.mark = "keep"  BY <2>3, <2>5, AtCallIs DEF IsOp
 <2>7. p[k] \in {"PatchWhere", "WriteCells"}  BY <2>3, <2>5 DEF FitsAt
 <2>8. i # 1 => x.table[i] = table[i]  BY <2>3, <2>7 DEF Changing
 <2>9. CASE i = 1
  <3>1. \A s \in table[1] : s.dead = TRUE  BY <1>1, <2>9 DEF IsTable, Rows
  <3>2. AllDead(table[1]) /\ table[1] # {}  BY <2>9, <3>1 DEF AllDead
  <3>3. AllDead(x.table[1])  BY <2>4, <2>6, <2>7, <3>2 DEF Effects, PatchKeeps, CellsKeep
  <3> QED  BY <2>3, <2>9, <3>3 DEF AllDead
 <2>10. CASE i # 1  BY <2>3, <2>8, <2>10
 <2> QED  BY <2>9, <2>10
<1> QED  BY <1>2, <1>3


(* Rows whose creation was answered.                                       *)
Inserting == {"InsertAll", "InsertClaimed", "Put"}

\* The keys a creation has stored its rows under at its k-th call: clickhouse's
\* last calls add a row each, the other engines' one call adds them all.
Done(e, p, k, l) ==
  IF e = "clickhouse" THEN {l.ids[m] : m \in {j \in DOMAIN l.ids : k + Len(l.ids) > Len(p) + j}}
  ELSE IF Past(p, k, Inserting) THEN Range(l.ids) ELSE {}

\* Which row clickhouse is at.
ItemAt(o, k, l) ==
  /\ o.kind = "create" => l.item = 0
  /\ o.kind = "batch" => l.item = (IF k \in {3, 5} THEN 1 ELSE 0)

\* The keys an operation came with are those it works on, if it names none itself.
CarriesAt(p, k, o, l) == k > 0 /\ p[1] \notin Naming => l.ids = o.ids

\* What may have taken a row of the client c away.
Excused(c, i) ==
  \E d \in Clients \ {c} :
     \/ Overwrites(op[d], i)
     \/ engine = "cassandra" /\ Numbers(op[d]) /\ Raced(c, d)
     \/ engine = "influxdb" /\ op[d].kind \in {"create", "batch"} /\ Raced(c, d)
     \/ engine = "influxdb" /\ op[d].kind = "create" /\ op[d].ids[1] = i

Creator(c) == op[c].kind \in {"create", "batch"} /\ answer[c] \in {"none", "ok"}
DoneBy(c) == Done(engine, PlanOf(c), call[c], local[c])

\* A creation that goes on or was answered ok has its rows.
Kept(c) == Creator(c) => \A i \in DoneBy(c) : Mine(c, table[i]) \/ Excused(c, i)
Placing(c) == engine = "clickhouse" /\ Creator(c) => ItemAt(op[c], call[c], local[c])
Carrying(c) == CarriesAt(PlanOf(c), call[c], op[c], local[c])
Later(c) == \A d \in prior[c] : d \in Clients /\ answer[d] # "none"

\* One that is about to put rows, at keys it made sure of, does so beside those
\* of the creations that had been answered when it began.
About(d) == /\ op[d].kind \in {"create", "batch"} /\ answer[d] = "none" /\ call[d] > 1
            /\ call[d] = Len(PlanOf(d)) /\ PlanOf(d)[call[d]] = "Put"
Apart(c, d) ==
  engine \in Holding /\ About(d) /\ Created(c) /\ c \in prior[d] =>
    \A i \in Range(local[c].ids) : i \notin Range(local[d].ids) \/ Excused(c, i)

Rows1(c) == Kept(c) /\ Placing(c) /\ \A d \in Clients \ {c} : Apart(c, d)
RowsKept == engine # "elasticsearch" => \A c \in Clients : Rows1(c)
CreatedInv == TableInv /\ RowsKept /\ \A c \in Clients : Carrying(c) /\ Later(c)

\* The calls of clickhouse's creations.
LEMMA ClickhousePlan ==
  ASSUME NEW p, NEW o, NEW l, PlanOK("clickhouse", o, p), IsOp(o), IsLocal("clickhouse", o, l), o.kind \in {"create", "batch"}
  PROVE  /\ o.kind = "create" => Len(p) = 2 /\ Len(l.ids) = 1 /\ DOMAIN l.ids = {1} /\ p[2] = "Append1" /\ p[1] \in {"NextIds", "EnsureIdFree"}
         /\ o.kind = "batch" => /\ Len(p) = 5 /\ Len(l.ids) = 2 /\ DOMAIN l.ids = {1, 2} /\ p[4] = "Append1" /\ p[5] = "Append1"
                                /\ p[1] = "NextIds" /\ p[2] = "EnsureIdFree" /\ p[3] = "EnsureIdFree"
<1>3. l.ids \in Seq(Nat) /\ o.ids \in Seq(Nat) /\ Len(l.ids) = Len(o.ids)  BY DEF IsLocal, Locals, IsOp
<1>4. ASSUME o.kind = "create"
      PROVE  Len(p) = 2 /\ Len(l.ids) = 1 /\ DOMAIN l.ids = {1} /\ p[2] = "Append1" /\ p[1] \in {"NextIds", "EnsureIdFree"}
 <2>1. p \in {<<"NextIds", "Append1">>, <<"EnsureIdFree", "Append1">>}  BY <1>4 DEF PlanOK, Fits
 <2>2. o.ids = <<2>> \/ o.ids = <<0>>  BY <1>4, IdsAre
 <2>3. Len(o.ids) = 1  BY <2>2
 <2>4. Len(p) = 2 /\ p[2] = "Append1" /\ p[1] \in {"NextIds", "EnsureIdFree"}  BY <2>1
 <2>5. DOMAIN l.ids = 1 .. 1  BY <1>3, <2>3
 <2> QED  BY <1>3, <2>3, <2>4, <2>5
<1>5. ASSUME o.kind = "batch"
      PROVE  /\ Len(p) = 5 /\ Len(l.ids) = 2 /\ DOMAIN l.ids = {1, 2} /\ p[4] = "Append1" /\ p[5] = "Append1"
             /\ p[1] = "NextIds" /\ p[2] = "EnsureIdFree" /\ p[3] = "EnsureIdFree"
 <2>1. p = <<"NextIds", "EnsureIdFree", "EnsureIdFree", "Append1", "Append1">>  BY <1>5 DEF PlanOK, Fits
 <2>2. o.ids \in {<<0, 0>>, <<2, 0>>, <<2, 1>>}  BY <1>5 DEF IsOp
 <2>3. Len(o.ids) = 2  BY <2>2
 <2>4. DOMAIN l.ids = 1 .. 2  BY <1>3, <2>3
 <2> QED  BY <1>3, <2>1, <2>3, <2>4
<1> QED  BY <1>4, <1>5

LEMMA ClickhouseCalls ==
  ASSUME NEW c, NEW t, NEW p, NEW o, NEW k, NEW l, AtCall(c, "clickhouse", t, p, o, k, l), o.kind \in {"create", "batch"}
  PROVE  /\ k \in Nat /\ k >= 1 /\ k =< Len(p)
         /\ o.kind = "create" => Len(p) = 2 /\ Len(l.ids) = 1 /\ DOMAIN l.ids = {1} /\ p[2] = "Append1" /\ p[1] \in {"NextIds", "EnsureIdFree"}
         /\ o.kind = "batch" => /\ Len(p) = 5 /\ Len(l.ids) = 2 /\ DOMAIN l.ids = {1, 2} /\ p[4] = "Append1" /\ p[5] = "Append1"
                                /\ p[1] = "NextIds" /\ p[2] = "EnsureIdFree" /\ p[3] = "EnsureIdFree"
<1>1. k \in Nat /\ k \in DOMAIN p /\ DOMAIN p = 1 .. Len(p) /\ IsOp(o) /\ IsLocal("clickhouse", o, l) /\ PlanOK("clickhouse", o, p)
  BY AtCallIs DEF AtCall
<1>2. k >= 1 /\ k =< Len(p)  BY <1>1
<1> QED  BY <1>1, <1>2, ClickhousePlan

LEMMA ItemOn ==
  ASSUME NEW c, NEW sd, NEW t, NEW p, NEW o, NEW k, NEW l, AtCall(c, "clickhouse", t, p, o, k, l),
         o.kind \in {"create", "batch"}, ItemAt(o, k, l),
         NEW x, Tame("clickhouse", t, c, o, l, p[k], x), Effects("clickhouse", sd, t, c, o, l, p[k], x)
  PROVE  ItemAt(o, k + 1, x.local)
<1>1. /\ k \in Nat /\ k >= 1 /\ k =< Len(p)
      /\ o.kind = "create" => Len(p) = 2 /\ Len(l.ids) = 1 /\ p[2] = "Append1" /\ p[1] \in {"NextIds", "EnsureIdFree"}
      /\ o.kind = "batch" => /\ Len(p) = 5 /\ Len(l.ids) = 2 /\ p[4] = "Append1" /\ p[5] = "Append1"
                             /\ p[1] = "NextIds" /\ p[2] = "EnsureIdFree" /\ p[3] = "EnsureIdFree"
  BY ClickhouseCalls
<1>2. NextItem(l) = (IF l.item + 1 = Len(l.ids) THEN 0 ELSE l.item + 1)  BY AtCallIs, NextItemIs
<1>3. /\ p[k] \in {"Append1", "EnsureIdFree"} => x.local.item = NextItem(l)
      /\ p[k] = "NextIds" => x.local.item = l.item  BY DEF Effects, Tame, Remembers
<1>4. CASE o.kind = "create"
 <2>1. l.item = 0 /\ k \in {1, 2}  BY <1>1, <1>4 DEF ItemAt
 <2>2. p[k] \in {"Append1", "EnsureIdFree", "NextIds"}  BY <1>1, <1>4, <2>1
 <2> QED  BY <1>1, <1>2, <1>3, <1>4, <2>1, <2>2 DEF ItemAt
<1>5. CASE o.kind = "batch"
 <2>1. l.item = (IF k \in {3, 5} THEN 1 ELSE 0) /\ k \in {1, 2, 3, 4, 5}
  <3>1. l.item = (IF k \in {3, 5} THEN 1 ELSE 0)  BY <1>5 DEF ItemAt
  <3>2. k \in Nat /\ k >= 1 /\ k =< 5
   <4>1. Len(p) = 5  BY <1>1, <1>5
   <4> QED  BY <1>1, <4>1
  <3> QED  BY <3>1, <3>2
 <2>2. CASE k = 1  BY <1>1, <1>3, <1>5, <2>1, <2>2 DEF ItemAt
 <2>3. CASE k # 1
  <3>1. p[k] \in {"Append1", "EnsureIdFree"}  BY <1>1, <1>5, <2>1, <2>3
  <3>2. x.local.item = (IF l.item = 1 THEN 0 ELSE 1)
   <4>1. x.local.item = (IF l.item + 1 = Len(l.ids) THEN 0 ELSE l.item + 1)  BY <1>2, <1>3, <3>1
   <4>2. Len(l.ids) = 2  BY <1>1, <1>5
   <4>3. l.item = 0 \/ l.item = 1  BY <2>1
   <4> QED  BY <4>1, <4>2, <4>3
  <3> QED  BY <1>5, <2>1, <2>3, <3>2 DEF ItemAt
 <2> QED  BY <2>2, <2>3
<1> QED  BY <1>4, <1>5

\* clickhouse's creation has the row it added, and those it had.
LEMMA AddedOn ==
  ASSUME NEW c, NEW sd, NEW t, NEW p, NEW o, NEW k, NEW l, AtCall(c, "clickhouse", t, p, o, k, l),
         o.kind \in {"create", "batch"}, ItemAt(o, k, l),
         NEW x, Tame("clickhouse", t, c, o, l, p[k], x), Effects("clickhouse", sd, t, c, o, l, p[k], x),
         NEW i \in Done("clickhouse", p, k + 1, x.local)
  PROVE  Mine(c, x.table[i]) \/ (i \in Done("clickhouse", p, k, l) /\ t[i] \subseteq x.table[i])
<1>1. /\ k \in Nat /\ k >= 1 /\ k =< Len(p)
      /\ o.kind = "create" => Len(p) = 2 /\ Len(l.ids) = 1 /\ DOMAIN l.ids = {1} /\ p[2] = "Append1" /\ p[1] \in {"NextIds", "EnsureIdFree"}
      /\ o.kind = "batch" => /\ Len(p) = 5 /\ Len(l.ids) = 2 /\ DOMAIN l.ids = {1, 2} /\ p[4] = "Append1" /\ p[5] = "Append1"
                             /\ p[1] = "NextIds" /\ p[2] = "EnsureIdFree" /\ p[3] = "EnsureIdFree"
  BY ClickhouseCalls
<1>2. IsLocal("clickhouse", o, l) /\ IsLocal("clickhouse", o, x.local) /\ IsOp(o)  BY AtCallIs DEF Tame, Remembers
<1>3. Len(x.local.ids) = Len(l.ids) /\ DOMAIN x.local.ids = DOMAIN l.ids
 <2>1. x.local.ids \in Seq(Nat) /\ l.ids \in Seq(Nat) /\ Len(x.local.ids) = Len(l.ids)  BY <1>2 DEF IsLocal, Locals
 <2> QED  BY <2>1
<1>4. PICK m \in DOMAIN l.ids : i = x.local.ids[m] /\ k + 1 + Len(l.ids) > Len(p) + m  BY <1>3 DEF Done
<1>5. p[k] = "Append1" /\ l.item + 1 \in DOMAIN l.ids /\ (m = l.item + 1 \/ k + Len(l.ids) > Len(p) + m)
 <2>1. CASE o.kind = "create"
  <3>1. Len(p) = 2 /\ Len(l.ids) = 1 /\ DOMAIN l.ids = {1} /\ p[2] = "Append1"  BY <1>1, <2>1
  <3>2. l.item = 0 /\ m = 1  BY <1>4, <2>1, <3>1 DEF ItemAt
  <3>3. k + 1 + 1 > 2 + 1 /\ k =< 2 /\ k \in Nat  BY <1>1, <1>4, <3>1, <3>2
  <3>4. k = 2  BY <3>3
  <3> QED  BY <3>1, <3>2, <3>4
 <2>2. CASE o.kind = "batch"
  <3>0. Len(p) = 5 /\ Len(l.ids) = 2 /\ DOMAIN l.ids = {1, 2} /\ p[4] = "Append1" /\ p[5] = "Append1"
    BY <1>1, <2>2
  <3>1. m \in {1, 2} /\ k \in 1 .. 5 /\ k > 2 + m
   <4>1. m \in {1, 2} /\ k + 1 + 2 > 5 + m /\ k =< 5  BY <1>1, <1>4, <3>0
   <4> QED  BY <1>1, <4>1
  <3>2. (k = 4 /\ m = 1) \/ (k = 5 /\ m \in {1, 2})  BY <3>1
  <3>3. l.item = (IF k \in {3, 5} THEN 1 ELSE 0)  BY <2>2 DEF ItemAt
  <3>4. CASE k = 4 /\ m = 1
   <4>1. l.item = 0  BY <3>3, <3>4
   <4> QED  BY <3>0, <3>4, <4>1
  <3>5. CASE k = 5 /\ m \in {1, 2}
   <4>1. l.item = 1  BY <3>3, <3>5
   <4>2. m = 1 => k + Len(l.ids) > Len(p) + m  BY <3>0, <3>5
   <4> QED  BY <3>0, <3>5, <4>1, <4>2
  <3> QED  BY <3>2, <3>4, <3>5
 <2> QED  BY <2>1, <2>2
<1>6. x.local.ids = l.ids /\ Mine(c, x.table[l.ids[l.item + 1]]) /\ \A y \in Ids : t[y] \subseteq x.table[y]
 <2>1. p[k] = "Append1"  BY <1>5
 <2>2. x.local.ids = l.ids  BY <2>1 DEF Tame, Remembers, Naming
 <2>3. Mine(c, x.table[l.ids[l.item + 1]])  BY <2>1 DEF Effects
 <2>4. \A y \in Ids : t[y] \subseteq x.table[y]  BY <2>1 DEF Tame, Writes, Adding
 <2> QED  BY <2>2, <2>3, <2>4
<1>7. i \in Ids
 <2>1. Calling("clickhouse", t, c, o, l, p[k])  BY AtCallIs
 <2>2. Known(l)  BY <1>5, <2>1 DEF Calling, Naming
 <2>3. i = l.ids[m]  BY <1>4, <1>6
 <2> QED  BY <2>2, <2>3 DEF Known
<1>8. CASE m = l.item + 1  BY <1>4, <1>6, <1>8
<1>9. CASE k + Len(l.ids) > Len(p) + m  BY <1>4, <1>6, <1>7, <1>9 DEF Done
<1> QED  BY <1>5, <1>8, <1>9

\* A creation of the other engines has its rows by one call.
LEMMA InsertedOn ==
  ASSUME NEW c, NEW e, e # "clickhouse", e # "elasticsearch", NEW sd, NEW t, NEW p, NEW o, NEW k, NEW l,
         AtCall(c, e, t, p, o, k, l), o.kind \in {"create", "batch"},
         NEW x, Tame(e, t, c, o, l, p[k], x), Effects(e, sd, t, c, o, l, p[k], x), x.says = "on",
         NEW i \in Done(e, p, k + 1, x.local)
  PROVE  Mine(c, x.table[i]) \/ (i \in Done(e, p, k, l) /\ t[i] \subseteq x.table[i])
<1>1. k \in Nat /\ k \in DOMAIN p /\ DOMAIN p = 1 .. Len(p) /\ Len(p) \in Nat /\ FitsAt(e, o, p, k) /\ IsLocal(e, o, l)
  BY AtCallIs
<1>2. Past(p, k + 1, Inserting) /\ i \in Range(x.local.ids)  BY DEF Done
<1>3. Past(p, k, Inserting) \/ p[k] \in Inserting  BY <1>1, <1>2, PastOn
<1>4. CASE p[k] \in Inserting
 <2>1. Placed(c, x.table, x.local.ids)  BY <1>4 DEF Effects, Inserting
 <2> QED  BY <1>2, <2>1 DEF Placed, Range
<1>5. CASE p[k] \notin Inserting
 <2>1. PICK j \in DOMAIN p : j < k /\ p[j] \in Inserting  BY <1>3, <1>5 DEF Past
 <2>2. PICK m \in DOMAIN p : p[m] \in Inserting /\ \A n \in DOMAIN p \ {m} : p[n] \notin Writing
   BY DEF AtCall, PlanOK, Writing1, Inserting
 <2>3. p[j] \in Writing  BY <2>1 DEF Inserting, Writing, Adding
 <2>4. m = j /\ k # j  BY <1>5, <2>1, <2>2, <2>3
 <2>5. p[k] \notin Writing  BY <1>1, <2>2, <2>4
 <2>6. p[k] \notin Naming
  <3>1. k # 1  BY <1>1, <2>1
  <3> QED  BY <1>1, <3>1 DEF FitsAt
 <2>7. x.table = t /\ x.local.ids = l.ids  BY <2>5, <2>6 DEF Tame, Writes, Remembers
 <2>8. Past(p, k, Inserting)  BY <1>3, <1>5
 <2> QED  BY <1>2, <2>7, <2>8 DEF Done
<1> QED  BY <1>4, <1>5

\* In the end it has stored all its rows.
LEMMA DoneWhole ==
  ASSUME NEW e, e # "elasticsearch", NEW p, NEW o, IsOp(o), PlanOK(e, o, p), o.kind \in {"create", "batch"},
         NEW l, IsLocal(e, o, l)
  PROVE  Done(e, p, Len(p) + 1, l) = Range(l.ids)
<1>1. l.ids \in Seq(Nat)  BY DEF IsLocal, Locals
<1>2. Len(l.ids) \in Nat /\ DOMAIN l.ids = 1 .. Len(l.ids) /\ p \in Seq(Names)  BY <1>1 DEF PlanOK, Fits
<1>3. Len(p) \in Nat /\ DOMAIN p = 1 .. Len(p)  BY <1>2
<1>4. CASE e = "clickhouse"
 <2>1. \A j \in DOMAIN l.ids : Len(p) + 1 + Len(l.ids) > Len(p) + j
  <3>1. \A a, b \in Nat : \A j \in 1 .. b : a + 1 + b > a + j  OBVIOUS
  <3> QED  BY <1>2, <1>3, <3>1
 <2> QED  BY <1>4, <2>1 DEF Done, Range
<1>5. CASE e # "clickhouse"
 <2>1. PICK m \in DOMAIN p : p[m] \in Inserting  BY <1>5 DEF PlanOK, Writing1, Inserting
 <2>2. m < Len(p) + 1  BY <1>3
 <2> QED  BY <1>5, <2>1, <2>2 DEF Done, Past
<1> QED  BY <1>4, <1>5

LEMMA DoneSome ==
  ASSUME NEW e, NEW p, NEW k, NEW l
  PROVE  Done(e, p, k, l) \subseteq Range(l.ids)
BY DEF Done, Range

LEMMA CarriesOn ==
  ASSUME NEW c, NEW e, NEW t, NEW p, NEW o, NEW k, NEW l, AtCall(c, e, t, p, o, k, l), CarriesAt(p, k, o, l),
         NEW x, Remembers(e, o, l, p[k], x)
  PROVE  CarriesAt(p, CallOf(k, x), o, x.local)
<1>1. k > 0 /\ (p[k] \in Naming => k = 1)  BY AtCallIs DEF AtCall, FitsAt
<1>2. p[k] \notin Naming => x.local.ids = l.ids  BY DEF Remembers
<1> QED  BY <1>1, <1>2 DEF CarriesAt

\* It has stored rows under known keys only, and none before its second call.
LEMMA DoneKnown ==
  ASSUME NEW e, NEW p, NEW o, NEW k, NEW a, NEW l, Stands(e, p, o, k, a, l), PlanOK(e, o, p),
         o.kind \in {"create", "batch"}, NEW i \in Done(e, p, k, l)
  PROVE  i \in Ids /\ k > 1
<1>1. k \in Nat /\ IsOp(o) /\ IsLocal(e, o, l) /\ p \in Seq(Names)  BY DEF Stands, PlanOK, Fits
<1>2. k > 1
 <2>1. CASE e = "clickhouse"
  <3>1. PICK m \in DOMAIN l.ids : k + Len(l.ids) > Len(p) + m  BY <2>1 DEF Done
  <3>2. /\ o.kind = "create" => Len(p) = 2 /\ Len(l.ids) = 1 /\ DOMAIN l.ids = {1}
        /\ o.kind = "batch" => Len(p) = 5 /\ Len(l.ids) = 2 /\ DOMAIN l.ids = {1, 2}
    BY <1>1, <2>1, ClickhousePlan
  <3>3. CASE o.kind = "create"
   <4>1. k + 1 > 2 + 1  BY <3>1, <3>2, <3>3
   <4> QED  BY <1>1, <4>1
  <3>4. CASE o.kind = "batch"
   <4>1. (m = 1 \/ m = 2) /\ k + 2 > 5 + m  BY <3>1, <3>2, <3>4
   <4> QED  BY <1>1, <4>1
  <3> QED  BY <3>3, <3>4
 <2>2. CASE e # "clickhouse"
  <3>1. PICK j \in DOMAIN p : j < k  BY <2>2 DEF Done, Past
  <3>2. j \in Nat /\ j >= 1  BY <1>1
  <3> QED  BY <1>1, <3>1, <3>2
 <2> QED  BY <2>1, <2>2
<1>3. Known(l)  BY <1>2 DEF Stands
<1>4. i \in Range(l.ids)  BY DoneSome
<1> QED  BY <1>2, <1>3, <1>4 DEF Known, Range

(* What may have taken a row away may for good; who takes one away is it.  *)
LEMMA ExcusedStays ==
  ASSUME NEW c, NEW i, Excused(c, i), engine' = engine, op' = op, prior' = prior
  PROVE  Excused(c, i)'
BY DEF Excused, Raced

LEMMA ExcusedBegins ==
  ASSUME TableInv, NEW b \in Clients, Begin(b), NEW c \in Clients \ {b}, NEW i, Excused(c, i)
  PROVE  Excused(c, i)'
<1>1. PICK d \in Clients \ {c} :
        \/ Overwrites(op[d], i)
        \/ engine = "cassandra" /\ Numbers(op[d]) /\ Raced(c, d)
        \/ engine = "influxdb" /\ op[d].kind \in {"create", "batch"} /\ Raced(c, d)
        \/ engine = "influxdb" /\ op[d].kind = "create" /\ op[d].ids[1] = i  BY DEF Excused
<1>2. op[d].kind # "none"
 <2>1. Numbers(op[d]) => op[d].kind = "create"  BY DEF Numbers, Op
 <2> QED  BY <1>1, <2>1 DEF Overwrites
<1>3. d # b  BY <1>2, IdleIs DEF Begin
<1>4. op = [y \in Clients |-> op[y]] /\ prior = [y \in Clients |-> prior[y]]  BY DEF TableInv, Standing
<1>5. engine' = engine /\ op'[d] = op[d] /\ prior'[d] = prior[d] /\ prior'[c] = prior[c]  BY <1>3, <1>4 DEF Begin
<1>6. Raced(c, d) => Raced(c, d)'  BY <1>5 DEF Raced
<1> QED  BY <1>1, <1>5, <1>6 DEF Excused

LEMMA Numbering == ASSUME NEW o, Numbers(o) PROVE o.kind = "create" /\ o.ids = << 0 >>
BY DEF Numbers, Op

\* The keys of a put.
LEMMA TakenOver ==
  ASSUME CreatedInv, NEW d \in Clients, NEW x, Acting(d, x), NEW c \in Clients \ {d},
         engine # "elasticsearch", Creator(c), NEW i \in DoneBy(c), i \in Ids, Mine(c, table[i]), ~Mine(c, x.table[i])
  PROVE  Excused(c, i)
<1> DEFINE p == PlanOf(d)
           k == call[d]
           o == op[d]
           l == local[d]
<1>1. /\ Standing /\ Running(d) /\ Tame(engine, table, d, o, l, p[k], x) /\ table' = x.table
      /\ Rows1(c) /\ Carrying(d) /\ Later(d) /\ Later(c)  BY DEF CreatedInv, TableInv, RowsKept, Acting, Landed
<1>2. table' # table  BY <1>1
<1>3. /\ AtCall(d, engine, table, p, o, k, l) /\ FitsAt(engine, o, p, k) /\ p[k] \in Writing
      /\ p[k] \in Changing => \A y \in Ids \ {1} : x.table[y] = table[y]  BY <1>1, <1>2, ActingAt
<1>4. /\ k \in DOMAIN p /\ DOMAIN p = 1 .. Len(p) /\ Len(p) \in Nat /\ k \in Nat /\ IsOp(o) /\ IsLocal(engine, o, l)
      /\ o.kind \in Kinds  BY <1>3, AtCallIs
<1>5. answer[d] = "none"  BY <1>1 DEF Running
<1> HIDE DEF p, k, o, l
<1>6. p[k] # "Undo"  BY <1>3 DEF FitsAt
<1>7. CASE p[k] \in Changing
 <2>1. i = 1  BY <1>3, <1>7
 <2>2. o.kind \in {"update", "upsert", "delete", "tombstone", "restore", "purge"} /\ o.ids = <<1>>
   BY <1>3, <1>4, <1>7 DEF FitsAt, IsOp, Kinds
 <2>3. o.ids[1] = 1  BY <2>2
 <2>4. Overwrites(op[d], i)  BY <2>1, <2>2, <2>3 DEF Overwrites, o
 <2> QED  BY <2>4 DEF Excused
<1>8. CASE p[k] \in Adding
 <2>1. ~(table[i] \subseteq x.table[i])  BY DEF Mine
 <2>2. p[k] = "Put" /\ \E m \in DOMAIN l.ids : l.ids[m] = i  BY <1>1, <1>8, <2>1 DEF Tame, Writes
 <2>3. PICK m \in DOMAIN l.ids : l.ids[m] = i  BY <2>2
 <2>4. \/ o.kind = "upsert"
       \/ engine \in {"cassandra", "influxdb"} /\ Numbers(o) /\ p = <<"NextIds", "Put">>
       \/ engine = "influxdb" /\ o.kind = "create" /\ o.ids = <<2>> /\ p = <<"Put">>
       \/ engine = "influxdb" /\ o.kind = "batch" /\ p = <<"NextIds", "FetchAllIds", "Put">>
   BY <1>3, <2>2 DEF FitsAt
 <2>5. p[1] \notin Naming => l.ids = o.ids  BY <1>1, <1>3 DEF Carrying, CarriesAt, AtCall, p, k, o, l
 <2>6. CASE o.kind = "upsert"
  <3>1. 1 \in DOMAIN p  BY <1>4
  <3>2. p[1] \notin Naming  BY <1>3, <2>6, <3>1 DEF AtCall, PlanOK, Fits, FitsAt
  <3>3. o.ids = <<1>>  BY <1>4, <2>6 DEF IsOp
  <3>4. DOMAIN l.ids = {1} /\ l.ids[1] = 1 /\ o.ids[1] = 1  BY <2>5, <3>2, <3>3
  <3>5. i = 1  BY <2>3, <3>4
  <3>6. Overwrites(op[d], i)  BY <2>6, <3>4, <3>5 DEF Overwrites, o
  <3> QED  BY <3>6 DEF Excused
 <2>7. CASE engine = "influxdb" /\ o.kind = "create" /\ o.ids = <<2>> /\ p = <<"Put">>
  <3>1. p[1] \notin Naming  BY <2>7 DEF Naming
  <3>2. DOMAIN l.ids = {1} /\ l.ids[1] = o.ids[1]  BY <2>5, <2>7, <3>1
  <3>3. op[d].ids[1] = i /\ op[d].kind = "create"  BY <2>3, <2>7, <3>2 DEF o
  <3> QED  BY <2>7, <3>3 DEF Excused
 <2>8. CASE \/ engine \in {"cassandra", "influxdb"} /\ Numbers(o) /\ p = <<"NextIds", "Put">>
            \/ engine = "influxdb" /\ o.kind = "batch" /\ p = <<"NextIds", "FetchAllIds", "Put">>
  <3>1. k > 1 /\ k = Len(p) /\ o.kind \in {"create", "batch"}
   <4>1. CASE p = <<"NextIds", "Put">> /\ Numbers(o)
    <5>1. Len(p) = 2 /\ p[1] = "NextIds"  BY <4>1
    <5>2. k # 1 /\ k \in 1 .. 2  BY <1>4, <2>2, <5>1
    <5> QED  BY <4>1, <5>1, <5>2, Numbering
   <4>2. CASE p = <<"NextIds", "FetchAllIds", "Put">> /\ o.kind = "batch"
    <5>1. Len(p) = 3 /\ p[1] = "NextIds" /\ p[2] = "FetchAllIds"  BY <4>2
    <5>2. k # 1 /\ k # 2 /\ k \in 1 .. 3  BY <1>4, <2>2, <5>1
    <5> QED  BY <4>2, <5>1, <5>2
   <4> QED  BY <2>8, <4>1, <4>2
  <3>2. About(d)  BY <1>5, <2>2, <3>1 DEF About, p, k, o
  <3>3. engine \in Holding  BY <2>8 DEF Holding
  <3>4. CASE Raced(c, d)
   <4>1. CASE engine = "cassandra"  BY <2>8, <3>4, <4>1 DEF Excused, o
   <4>2. CASE engine = "influxdb"  BY <3>1, <3>4, <4>2 DEF Excused, o
   <4> QED  BY <3>3, <4>1, <4>2 DEF Holding
  <3>5. CASE ~Raced(c, d)
   <4>1. d \notin prior[c]  BY <1>1, <1>5 DEF Later
   <4>2. c \in prior[d]  BY <3>5, <4>1 DEF Raced
   <4>3. Created(c)
    <5>1. answer[c] # "none"  BY <1>1, <4>2 DEF Later
    <5> QED  BY <5>1 DEF Creator, Created
   <4>4. i \in Range(local[c].ids)  BY DoneSome DEF DoneBy
   <4>5. i \in Range(local[d].ids)  BY <2>3 DEF Range, l
   <4>6. Apart(c, d)  BY <1>1 DEF Rows1
   <4> QED  BY <3>2, <3>3, <4>2, <4>3, <4>4, <4>5, <4>6 DEF Apart
  <3> QED  BY <3>4, <3>5
 <2> QED  BY <2>4, <2>6, <2>7, <2>8
<1> QED  BY <1>3, <1>6, <1>7, <1>8 DEF Writing

\* A creation whose client rests keeps what it has, and stays apart from the others that rest.
LEMMA CreationStands ==
  ASSUME TableInv, NEW c \in Clients, op[c].kind \in {"create", "batch"}
  PROVE  /\ Stands(engine, PlanOf(c), op[c], call[c], answer[c], local[c]) /\ PlanOK(engine, op[c], PlanOf(c)) /\ call[c] > 0
         /\ IsOp(op[c]) /\ IsLocal(engine, op[c], local[c])
<1>1. Standing /\ Stands(engine, PlanOf(c), op[c], call[c], answer[c], local[c])  BY DEF TableInv, Standing
<1>2. call[c] \in Nat /\ call[c] # 0  BY <1>1, IdleIs DEF Stands
<1>3. call[c] > 0  BY <1>2
<1> QED  BY <1>1, <1>3, PlanFits DEF Stands

LEMMA OthersKept ==
  ASSUME CreatedInv, NEW d \in Clients, NEW x, Landed(d, x), Acting(d, x) \/ x.table = table,
         NEW c \in Clients \ {d}, engine # "elasticsearch",
         call'[c] = call[c], local'[c] = local[c], answer'[c] = answer[c]
  PROVE  Kept(c)' /\ Placing(c)' /\ PlanOf(c)' = PlanOf(c)
<1>1. engine' = engine /\ soft' = soft /\ op' = op /\ prior' = prior /\ table' = x.table  BY DEF Landed
<1>2. PlanOf(c)' = PlanOf(c)  BY <1>1 DEF PlanOf
<1>3. (Creator(c)' <=> Creator(c)) /\ DoneBy(c)' = DoneBy(c)  BY <1>1, <1>2 DEF Creator, DoneBy
<1>4. Kept(c) /\ Placing(c)  BY DEF CreatedInv, RowsKept, Rows1
<1>5. ASSUME Creator(c), NEW i \in DoneBy(c) PROVE Mine(c, table'[i]) \/ Excused(c, i)'
 <2>1. i \in Ids  BY <1>5, CreationStands, DoneKnown DEF CreatedInv, Creator, DoneBy
 <2>2. CASE Excused(c, i)  BY <1>1, <2>2, ExcusedStays
 <2>3. CASE Mine(c, table[i]) /\ ~Mine(c, x.table[i])
  <3>1. Acting(d, x)  BY <2>3
  <3>2. Excused(c, i)  BY <1>5, <2>1, <2>3, <3>1, TakenOver
  <3> QED  BY <1>1, <3>2, ExcusedStays
 <2>4. CASE Mine(c, x.table[i])  BY <1>1, <2>4
 <2> QED  BY <1>4, <1>5, <2>2, <2>3, <2>4 DEF Kept
<1>6. Kept(c)'  BY <1>3, <1>5 DEF Kept
<1>7. Placing(c)'  BY <1>1, <1>3, <1>4 DEF Placing
<1> QED  BY <1>2, <1>6, <1>7

LEMMA OthersApart ==
  ASSUME CreatedInv, NEW b \in Clients, NEW x, Landed(b, x), Running(b),
         NEW c \in Clients, NEW d \in Clients \ {c, b}, engine # "elasticsearch",
         call'[d] = call[d], local'[d] = local[d], answer'[d] = answer[d],
         c # b => local'[c] = local[c] /\ answer'[c] = answer[c]
  PROVE  Apart(c, d)'
<1>1. engine' = engine /\ soft' = soft /\ op' = op /\ prior' = prior  BY DEF Landed
<1>2. PlanOf(d)' = PlanOf(d)  BY <1>1 DEF PlanOf
<1>3. About(d)' <=> About(d)  BY <1>1, <1>2 DEF About
<1>4. CASE c = b
 <2>1. c \notin prior[d]  BY <1>4 DEF CreatedInv, Later, Running
 <2> QED  BY <1>1, <2>1 DEF Apart
<1>5. CASE c # b
 <2>1. Apart(c, d)  BY DEF CreatedInv, RowsKept, Rows1
 <2>2. Created(c)' <=> Created(c)  BY <1>1, <1>5 DEF Created
 <2>3. \A y : Excused(c, y) => Excused(c, y)'  BY <1>1, ExcusedStays
 <2> QED  BY <1>1, <1>3, <1>5, <2>1, <2>2, <2>3 DEF Apart
<1> QED  BY <1>4, <1>5

\* What a client is about to put is beside the rows that had been answered.
LEMMA ComesApart ==
  ASSUME CreatedInv, NEW d \in Clients, Running(d), NEW x, Stepped(d, x), NEW c \in Clients \ {d},
         local'[c] = local[c] /\ answer'[c] = answer[c],
         local'[d] = x.local /\ call'[d] = CallOf(call[d], x) /\ answer'[d] = AnswerOf(PlanOf(d), call[d], x)
  PROVE  Apart(c, d)'
<1> DEFINE p == PlanOf(d)
           k == call[d]
           o == op[d]
           l == local[d]
<1>1. /\ Standing /\ Landed(d, x) /\ Tame(engine, table, d, o, l, p[k], x)
      /\ Effects(engine, soft, table, d, o, l, p[k], x) /\ (Rows1(c) \/ engine = "elasticsearch")
  BY DEF CreatedInv, TableInv, RowsKept, Stepped
<1>2. /\ engine' = engine /\ soft' = soft /\ op' = op /\ prior' = prior
      /\ PlanOf(d)' = p
 <2>1. engine' = engine /\ soft' = soft /\ op' = op /\ prior' = prior  BY <1>1 DEF Landed
 <2> QED  BY <2>1 DEF PlanOf
<1>3. AtCall(d, engine, table, p, o, k, l)  BY <1>1, RunningIs
<1> SUFFICES ASSUME engine \in Holding, About(d)', Created(c)', c \in prior[d], NEW i \in Range(local[c].ids),
                    i \in Range(x.local.ids)
             PROVE  Excused(c, i)
 <2>1. \A y : Excused(c, y) => Excused(c, y)'  BY <1>2, ExcusedStays
 <2> QED  BY <1>2, <2>1 DEF Apart
<1>4. /\ o.kind \in {"create", "batch"} /\ AnswerOf(p, k, x) = "none" /\ CallOf(k, x) > 1
      /\ CallOf(k, x) = Len(p) /\ p[CallOf(k, x)] = "Put"  BY <1>2 DEF About
<1>5. Created(c)  BY <1>2 DEF Created
<1> HIDE DEF p, k, o, l
<1>6. /\ k \in Nat /\ k \in DOMAIN p /\ DOMAIN p = 1 .. Len(p) /\ Len(p) \in Nat /\ FitsAt(engine, o, p, k) /\ IsOp(o)
      /\ \A j \in DOMAIN p : FitsAt(engine, o, p, j)  BY <1>3, AtCallIs DEF AtCall, PlanOK, Fits
<1>7. x.says = "on"
 <2>1. x.says \in {"on", "again", "notfound", "conflict", "backend"} /\ (x.says = "again" => p[k] \in {"Undo", "Turn"})
   BY <1>1 DEF Tame, Says
 <2>2. x.says \in {"on", "again"}  BY <1>4, <2>1 DEF AnswerOf
 <2>3. p[k] \notin {"Undo", "Turn"}  BY <1>4, <1>6 DEF FitsAt, Holding
 <2> QED  BY <2>1, <2>2, <2>3
<1>8. k + 1 = Len(p) /\ p[k + 1] = "Put" /\ k + 1 \in DOMAIN p /\ k >= 1  BY <1>4, <1>6, <1>7 DEF CallOf
<1>9. FitsAt(engine, o, p, k + 1)  BY <1>6, <1>8
<1>10. Free(table, x.local.ids)
 <2>1. \/ Numbers(o) /\ p = <<"NextIds", "Put">>
       \/ p = <<"Put">>
       \/ p = <<"NextIds", "FetchAllIds", "Put">>  BY <1>4, <1>8, <1>9 DEF FitsAt, Holding
 <2>2. CASE Numbers(o) /\ p = <<"NextIds", "Put">>
  <3>1. Len(p) = 2 /\ p[1] = "NextIds"  BY <2>2
  <3>2. k = 1  BY <1>6, <1>8, <3>1
  <3> QED
   <4>1. p[k] = "NextIds" /\ engine \in Holding /\ o.ids = <<0>>  BY <2>2, <3>1, <3>2, Numbering
   <4>2. Effects(engine, soft, table, d, o, l, p[k], x)  BY <1>1
   <4> QED  BY <4>1, <4>2 DEF Effects
 <2>3. CASE p = <<"Put">>
  <3>1. Len(p) = 1  BY <2>3
  <3> QED  BY <1>6, <1>8, <3>1
 <2>4. CASE p = <<"NextIds", "FetchAllIds", "Put">>
  <3>1. Len(p) = 3 /\ p[2] = "FetchAllIds"  BY <2>4
  <3>2. k = 2  BY <1>6, <1>8, <3>1
  <3> QED
   <4>1. p[k] = "FetchAllIds"  BY <3>1, <3>2
   <4>2. Effects(engine, soft, table, d, o, l, p[k], x)  BY <1>1
   <4> QED  BY <1>7, <4>1, <4>2 DEF Effects
 <2> QED  BY <2>1, <2>2, <2>3, <2>4
<1>11. table[i] = {}  BY <1>10 DEF Free, Range
<1>12. engine # "elasticsearch" /\ Kept(c) /\ Creator(c)  BY <1>1, <1>5 DEF Rows1, Holding, Creator, Created
<1>13. i \in DoneBy(c)
 <2>1. /\ Stands(engine, PlanOf(c), op[c], call[c], answer[c], local[c]) /\ PlanOK(engine, op[c], PlanOf(c))
       /\ IsOp(op[c]) /\ IsLocal(engine, op[c], local[c])  BY <1>5, CreationStands DEF CreatedInv, Created
 <2>2. call[c] = Len(PlanOf(c)) + 1  BY <1>5, <2>1 DEF Stands, Created
 <2> QED  BY <1>5, <1>12, <2>1, <2>2, DoneWhole DEF DoneBy, Created
<1> QED  BY <1>11, <1>12, <1>13 DEF Kept, Mine

LEMMA OwnKept ==
  ASSUME CreatedInv, NEW c \in Clients, Running(c), NEW x, Stepped(c, x), engine # "elasticsearch",
         local'[c] = x.local /\ call'[c] = CallOf(call[c], x) /\ answer'[c] = AnswerOf(PlanOf(c), call[c], x)
  PROVE  Kept(c)' /\ Placing(c)'
<1> DEFINE p == PlanOf(c)
           k == call[c]
           o == op[c]
           l == local[c]
<1>1. /\ Standing /\ Landed(c, x) /\ Tame(engine, table, c, o, l, p[k], x)
      /\ Effects(engine, soft, table, c, o, l, p[k], x) /\ Kept(c) /\ Placing(c)
  BY DEF CreatedInv, TableInv, RowsKept, Rows1, Stepped
<1>2. /\ engine' = engine /\ soft' = soft /\ op' = op /\ prior' = prior /\ table' = x.table
      /\ PlanOf(c)' = p
 <2>1. engine' = engine /\ soft' = soft /\ op' = op /\ prior' = prior /\ table' = x.table  BY <1>1 DEF Landed
 <2> QED  BY <2>1 DEF PlanOf
<1>3. AtCall(c, engine, table, p, o, k, l)  BY <1>1, RunningIs
<1> SUFFICES ASSUME Creator(c)'
             PROVE  /\ \A i \in DoneBy(c)' : Mine(c, x.table[i]) \/ Excused(c, i)'
                    /\ engine = "clickhouse" => ItemAt(o, CallOf(k, x), x.local)  BY <1>2 DEF Kept, Placing
<1>4. o.kind \in {"create", "batch"} /\ AnswerOf(p, k, x) \in {"none", "ok"} /\ Creator(c)
  BY <1>2 DEF Creator, Running
<1>5. DoneBy(c)' = Done(engine, p, CallOf(k, x), x.local) /\ DoneBy(c) = Done(engine, p, k, l)  BY <1>2 DEF DoneBy
<1>6. engine = "clickhouse" => ItemAt(o, k, l)  BY <1>1, <1>4 DEF Placing
<1>7. \A i \in Done(engine, p, k, l) : Mine(c, table[i]) \/ Excused(c, i)  BY <1>1, <1>4, <1>5 DEF Kept
<1>8. \A y : Excused(c, y) => Excused(c, y)'  BY <1>2, ExcusedStays
<1> HIDE DEF p, k, o, l
<1>9. x.says = "on" /\ CallOf(k, x) = k + 1
 <2>1. x.says \in {"on", "again", "notfound", "conflict", "backend"} /\ (x.says = "again" => p[k] \in {"Undo", "Turn"})
   BY <1>1 DEF Tame, Says
 <2>2. x.says \in {"on", "again"}  BY <1>4, <2>1 DEF AnswerOf
 <2>3. p[k] \notin {"Undo", "Turn"}  BY <1>3, <1>4, AtCallIs DEF FitsAt
 <2> QED  BY <2>1, <2>2, <2>3 DEF CallOf
<1>10. engine = "clickhouse" => ItemAt(o, k + 1, x.local)  BY <1>1, <1>3, <1>4, <1>6, ItemOn
<1>11. ASSUME NEW i \in Done(engine, p, k + 1, x.local) PROVE Mine(c, x.table[i]) \/ Excused(c, i)
 <2>1. Mine(c, x.table[i]) \/ (i \in Done(engine, p, k, l) /\ table[i] \subseteq x.table[i])
  <3>1. CASE engine = "clickhouse"  BY <1>1, <1>3, <1>4, <1>6, <3>1, AddedOn
  <3>2. CASE engine # "clickhouse"  BY <1>1, <1>3, <1>4, <1>9, <3>2, InsertedOn
  <3> QED  BY <3>1, <3>2
 <2> QED  BY <1>7, <2>1 DEF Mine
<1> QED  BY <1>5, <1>8, <1>9, <1>10, <1>11

(* The rows stay.                                                          *)
LEMMA CreatedStarts == ASSUME TableInit PROVE CreatedInv
<1>1. TableInv  BY TableInvStarts
<1>2. ASSUME NEW c \in Clients
      PROVE  op[c] = Idle /\ call[c] = 0 /\ answer[c] = "none" /\ prior[c] = {}  BY DEF TableInit
<1>3. Idle.kind = "none"  BY IdleIs
<1>4. \A c \in Clients : Rows1(c)
 <2> SUFFICES ASSUME NEW c \in Clients PROVE Rows1(c)  OBVIOUS
 <2>1. ~Creator(c) /\ ~Created(c)  BY <1>2, <1>3 DEF Creator, Created
 <2> QED  BY <2>1 DEF Rows1, Kept, Placing, Apart
<1>5. \A c \in Clients : Carrying(c) /\ Later(c)  BY <1>2 DEF Carrying, CarriesAt, Later
<1> QED  BY <1>1, <1>4, <1>5 DEF CreatedInv, RowsKept

LEMMA CreatedBegins == ASSUME CreatedInv, NEW b \in Clients, Begin(b) PROVE CreatedInv'
<1>1. TableInv /\ TableInv' /\ Standing  BY BeginKeeps DEF CreatedInv, TableInv
<1>2. PICK o \in Operations : op' = [op EXCEPT ![b] = o] /\ local' = [local EXCEPT ![b] = Fresh(o)]  BY DEF Begin
<1>3. /\ op[b] = Idle /\ call' = [call EXCEPT ![b] = 1]
      /\ prior' = [prior EXCEPT ![b] = {d \in Clients : answer[d] # "none"}]
      /\ engine' = engine /\ soft' = soft /\ table' = table /\ answer' = answer  BY DEF Begin
<1>4. /\ op = [d \in Clients |-> op[d]] /\ call = [d \in Clients |-> call[d]] /\ local = [d \in Clients |-> local[d]]
      /\ prior = [d \in Clients |-> prior[d]] /\ engine \in AllEngines
      /\ \A d \in Clients : Stands(engine, PlanOf(d), op[d], call[d], answer[d], local[d])  BY <1>1 DEF Standing
<1>5. /\ op'[b] = o /\ local'[b] = Fresh(o) /\ call'[b] = 1 /\ prior'[b] = {d \in Clients : answer[d] # "none"}
      /\ \A d \in Clients \ {b} : op'[d] = op[d] /\ local'[d] = local[d] /\ call'[d] = call[d] /\ prior'[d] = prior[d]
  BY <1>2, <1>3, <1>4
<1>6. Idle.kind = "none" /\ answer[b] = "none"
 <2>1. Idle.kind \notin Kinds /\ Idle.kind = "none"  BY IdleIs DEF Kinds
 <2>2. call[b] = 0  BY <1>3, <1>4, <2>1 DEF Stands
 <2> QED  BY <1>4, <2>1, <2>2 DEF Stands
<1>7. IsOp(o) /\ o.kind \in Kinds  BY OpsAre
<1> DEFINE p == Plan(engine, soft, o)
           l == Fresh(o)
<1>8. PlanOf(b)' = p /\ \A d \in Clients \ {b} : PlanOf(d)' = PlanOf(d)  BY <1>3, <1>5 DEF PlanOf
<1>9. PlanOK(engine, o, p)  BY <1>4, <1>7, PlansAreOK
<1>10. l.item = 0 /\ l.ids = o.ids  BY DEF Fresh
<1>11. IsLocal(engine, o, l)  BY <1>4, <1>7, FreshStands
<1> HIDE DEF p, l
<1>12. p \in Seq(Names)  BY <1>9 DEF PlanOK, Fits
\* Nothing is done at the first call.
<1>13. o.kind \in {"create", "batch"} => Done(engine, p, 1, l) = {}
 <2> SUFFICES ASSUME o.kind \in {"create", "batch"}, NEW i \in Done(engine, p, 1, l) PROVE FALSE  OBVIOUS
 <2>1. Stands(engine, p, o, 1, "none", l)  BY <1>4, <1>7, <1>9, FreshStands DEF l
 <2>2. 1 > 1  BY <1>9, <2>1, DoneKnown
 <2> QED  BY <2>2
<1>14. ASSUME NEW c \in Clients, engine # "elasticsearch" PROVE Rows1(c)'
 <2>1. ASSUME NEW d \in Clients \ {c} PROVE Apart(c, d)'
  <3>1. CASE d = b
   <4>1. ~About(d)'  BY <1>5, <3>1 DEF About
   <4> QED  BY <4>1 DEF Apart
  <3>2. CASE c = b
   <4>1. ~Created(c)'  BY <1>3, <1>6, <3>2 DEF Created
   <4> QED  BY <4>1 DEF Apart
  <3>3. CASE d # b /\ c # b
   <4>1. Apart(c, d)  BY <1>14 DEF CreatedInv, RowsKept, Rows1
   <4>2. /\ (About(d)' <=> About(d)) /\ (Created(c)' <=> Created(c))
         /\ local'[c] = local[c] /\ local'[d] = local[d] /\ prior'[d] = prior[d] /\ engine' = engine
     BY <1>3, <1>5, <1>8, <3>3 DEF About, Created
   <4>3. \A i : Excused(c, i) => Excused(c, i)'  BY <1>1, <3>3, ExcusedBegins
   <4> QED  BY <4>1, <4>2, <4>3 DEF Apart
  <3> QED  BY <3>1, <3>2, <3>3
 <2>2. CASE c = b
  <3>1. Creator(c)' => DoneBy(c)' = {}  BY <1>3, <1>5, <1>8, <1>13, <2>2 DEF Creator, DoneBy, l
  <3>2. ItemAt(o, 1, l)  BY <1>10 DEF ItemAt
  <3>3. Kept(c)'  BY <3>1 DEF Kept
  <3>4. Placing(c)'  BY <1>3, <1>5, <2>2, <3>2 DEF Placing, l
  <3> QED  BY <2>1, <3>3, <3>4 DEF Rows1
 <2>3. CASE c # b
  <3>1. Kept(c) /\ Placing(c)  BY <1>14 DEF CreatedInv, RowsKept, Rows1
  <3>2. (Creator(c)' <=> Creator(c)) /\ DoneBy(c)' = DoneBy(c)  BY <1>3, <1>5, <1>8, <2>3 DEF Creator, DoneBy
  <3>3. \A i : Excused(c, i) => Excused(c, i)'  BY <1>1, <2>3, ExcusedBegins
  <3>4. Kept(c)'  BY <1>3, <3>1, <3>2, <3>3 DEF Kept
  <3>5. Placing(c)'  BY <1>3, <1>5, <2>3, <3>1, <3>2 DEF Placing
  <3> QED  BY <2>1, <3>4, <3>5 DEF Rows1
 <2> QED  BY <2>2, <2>3
<1>15. ASSUME NEW c \in Clients PROVE Carrying(c)' /\ Later(c)'
 <2>1. CASE c = b
  <3>1. Carrying(c)'  BY <1>5, <1>8, <1>10, <2>1 DEF Carrying, CarriesAt, l
  <3>2. Later(c)'  BY <1>3, <1>5, <2>1 DEF Later
  <3> QED  BY <3>1, <3>2
 <2>2. CASE c # b
  <3>1. Carrying(c) /\ Later(c)  BY DEF CreatedInv
  <3> QED  BY <1>3, <1>5, <1>8, <2>2, <3>1 DEF Carrying, Later
 <2> QED  BY <2>1, <2>2
<1> QED  BY <1>1, <1>3, <1>14, <1>15 DEF CreatedInv, RowsKept

LEMMA CreatedSteps == ASSUME CreatedInv, NEW b \in Clients, Running(b), NEW x, Stepped(b, x) PROVE CreatedInv'
<1>1. TableInv /\ TableInv' /\ Standing /\ Landed(b, x)  BY SteppedKeeps DEF CreatedInv, TableInv, Stepped
<1>2. /\ call = [d \in Clients |-> call[d]] /\ local = [d \in Clients |-> local[d]] /\ answer = [d \in Clients |-> answer[d]]
  BY <1>1 DEF Standing
<1>3. /\ local'[b] = x.local /\ call'[b] = CallOf(call[b], x) /\ answer'[b] = AnswerOf(PlanOf(b), call[b], x)
      /\ \A d \in Clients \ {b} : local'[d] = local[d] /\ call'[d] = call[d] /\ answer'[d] = answer[d]
  BY <1>2 DEF Stepped
<1>4. Acting(b, x)  BY <1>1 DEF Acting, Stepped
<1>5. engine' = engine /\ soft' = soft /\ op' = op /\ prior' = prior /\ answer[b] = "none"
  BY <1>1 DEF Landed, Running
<1>6. \A d \in Clients : PlanOf(d)' = PlanOf(d)  BY <1>5 DEF PlanOf
<1>7. ASSUME NEW c \in Clients, engine # "elasticsearch" PROVE Rows1(c)'
 <2>1. ASSUME NEW d \in Clients \ {c} PROVE Apart(c, d)'
  <3>1. CASE d = b  BY <1>3, <3>1, ComesApart
  <3>2. CASE d # b  BY <1>1, <1>3, <1>7, <3>2, OthersApart
  <3> QED  BY <3>1, <3>2
 <2>2. Kept(c)' /\ Placing(c)'
  <3>1. CASE c = b  BY <1>3, <1>7, <3>1, OwnKept
  <3>2. CASE c # b  BY <1>1, <1>3, <1>4, <1>7, <3>2, OthersKept
  <3> QED  BY <3>1, <3>2
 <2> QED  BY <2>1, <2>2 DEF Rows1
<1>8. ASSUME NEW c \in Clients PROVE Carrying(c)' /\ Later(c)'
 <2>1. Carrying(c) /\ Later(c)  BY DEF CreatedInv
 <2>2. Later(c)'  BY <1>3, <1>5, <2>1 DEF Later
 <2>3. Carrying(c)'
  <3>1. CASE c = b
   <4>1. AtCall(b, engine, table, PlanOf(b), op[b], call[b], local[b])  BY <1>1, RunningIs
   <4>2. Remembers(engine, op[b], local[b], PlanOf(b)[call[b]], x)  BY DEF Stepped, Tame
   <4>3. CarriesAt(PlanOf(b), call[b], op[b], local[b])  BY <2>1, <3>1 DEF Carrying
   <4>4. CarriesAt(PlanOf(b), CallOf(call[b], x), op[b], x.local)  BY <4>1, <4>2, <4>3, CarriesOn
   <4> QED  BY <1>3, <1>5, <1>6, <3>1, <4>4 DEF Carrying
  <3>2. CASE c # b  BY <1>3, <1>5, <1>6, <2>1, <3>2 DEF Carrying
  <3> QED  BY <3>1, <3>2
 <2> QED  BY <2>2, <2>3
<1> QED  BY <1>1, <1>5, <1>7, <1>8 DEF CreatedInv, RowsKept

LEMMA CreatedLost == ASSUME CreatedInv, NEW b \in Clients, Running(b), NEW x, Lost(b, x) PROVE CreatedInv'
<1>1. TableInv /\ TableInv' /\ Standing /\ Landed(b, x)  BY LostKeeps DEF CreatedInv, TableInv, Lost
<1>2. /\ call = [d \in Clients |-> call[d]] /\ local = [d \in Clients |-> local[d]] /\ answer = [d \in Clients |-> answer[d]]
  BY <1>1 DEF Standing
<1>3. call' = call /\ \A d \in Clients \ {b} : local'[d] = local[d] /\ answer'[d] = answer[d]  BY <1>2 DEF Lost
<1>4. Acting(b, x) \/ x.table = table  BY <1>1 DEF Acting, Lost
<1>5. engine' = engine /\ soft' = soft /\ op' = op /\ prior' = prior /\ answer[b] = "none"
  BY <1>1 DEF Landed, Running
<1>6. \A d \in Clients : PlanOf(d)' = PlanOf(d)  BY <1>5 DEF PlanOf
<1>7. AtCall(b, engine, table, PlanOf(b), op[b], call[b], local[b])  BY <1>1, RunningIs
<1>8. answer'[b] = "backend" \/ engine = "elasticsearch"
 <2>1. PlanOf(b)[call[b]] = "Undo" => engine = "elasticsearch"  BY <1>7, AtCallIs DEF FitsAt
 <2> QED  BY <1>2, <2>1 DEF Lost
<1>9. local'[b].ids = local[b].ids
 <2>1. local[b] \in Locals  BY <1>7, AtCallIs DEF IsLocal
 <2>2. \A m \in SUBSET Ids : [local[b] EXCEPT !.landed = m].ids = local[b].ids  BY <2>1 DEF Locals
 <2>3. local' = local \/ \E m \in SUBSET Ids : local'[b] = [local[b] EXCEPT !.landed = m]  BY <1>2 DEF Lost
 <2> QED  BY <2>2, <2>3
<1>10. ASSUME NEW c \in Clients, engine # "elasticsearch" PROVE Rows1(c)'
 <2>1. ASSUME NEW d \in Clients \ {c} PROVE Apart(c, d)'
  <3>1. CASE d = b
   <4>1. ~About(d)'  BY <1>8, <1>10, <3>1 DEF About
   <4> QED  BY <4>1 DEF Apart
  <3>2. CASE d # b  BY <1>1, <1>3, <1>10, <3>2, OthersApart
  <3> QED  BY <3>1, <3>2
 <2>2. Kept(c)' /\ Placing(c)'
  <3>1. CASE c = b
   <4>1. ~Creator(c)'  BY <1>8, <1>10, <3>1 DEF Creator
   <4> QED  BY <4>1 DEF Kept, Placing
  <3>2. CASE c # b  BY <1>1, <1>3, <1>4, <1>10, <3>2, OthersKept
  <3> QED  BY <3>1, <3>2
 <2> QED  BY <2>1, <2>2 DEF Rows1
<1>11. ASSUME NEW c \in Clients PROVE Carrying(c)' /\ Later(c)'
 <2>1. Carrying(c) /\ Later(c)  BY DEF CreatedInv
 <2>2. Later(c)'  BY <1>3, <1>5, <2>1 DEF Later
 <2>3. local'[c].ids = local[c].ids  BY <1>3, <1>9
 <2>4. Carrying(c)'  BY <1>3, <1>5, <1>6, <2>1, <2>3 DEF Carrying, CarriesAt
 <2> QED  BY <2>2, <2>4
<1> QED  BY <1>1, <1>5, <1>10, <1>11 DEF CreatedInv, RowsKept

LEMMA CreatedInvKept == ASSUME CreatedInv, [TableNext]_tableVars PROVE CreatedInv'
<1>0. TableInv /\ Standing /\ TableInv'  BY TableInvKept DEF CreatedInv, TableInv
<1>1. CASE UNCHANGED tableVars
 <2>1. /\ engine' = engine /\ soft' = soft /\ op' = op /\ prior' = prior /\ table' = table /\ call' = call /\ local' = local
       /\ answer' = answer  BY <1>1 DEF tableVars
 <2>2. \A c \in Clients : PlanOf(c)' = PlanOf(c)  BY <2>1 DEF PlanOf
 <2>3. \A c \in Clients : \A i : Excused(c, i) => Excused(c, i)'  BY <2>1, ExcusedStays
 <2>4. ASSUME NEW c \in Clients, Rows1(c) PROVE Rows1(c)'
  <3>1. (Creator(c)' <=> Creator(c)) /\ DoneBy(c)' = DoneBy(c) /\ (Created(c)' <=> Created(c))
    BY <2>1, <2>2 DEF Creator, DoneBy, Created
  <3>2. Kept(c)'  BY <2>1, <2>3, <2>4, <3>1 DEF Rows1, Kept
  <3>3. Placing(c)'  BY <2>1, <2>4, <3>1 DEF Rows1, Placing
  <3>4. ASSUME NEW d \in Clients \ {c} PROVE Apart(c, d)'
   <4>1. About(d)' <=> About(d)  BY <2>1, <2>2 DEF About
   <4> QED  BY <2>1, <2>3, <2>4, <3>1, <4>1 DEF Rows1, Apart
  <3> QED  BY <3>2, <3>3, <3>4 DEF Rows1
 <2>5. \A c \in Clients : Carrying(c)' /\ Later(c)'  BY <2>1, <2>2 DEF CreatedInv, Carrying, Later
 <2> QED  BY <1>0, <2>1, <2>4, <2>5 DEF CreatedInv, RowsKept
<1>2. ASSUME NEW c \in Clients, Begin(c) PROVE CreatedInv'  BY <1>2, CreatedBegins
<1>3. ASSUME NEW c \in Clients, Step(c) PROVE CreatedInv'  BY <1>0, <1>3, StepIs, CreatedSteps
<1>4. ASSUME NEW c \in Clients, LoseAnswer(c) PROVE CreatedInv'  BY <1>0, <1>4, LoseIs, CreatedLost
<1> QED  BY <1>1, <1>2, <1>3, <1>4 DEF TableNext

LEMMA CreatesFollow == ASSUME CreatedInv PROVE AnsweredCreatesStay
<1> SUFFICES ASSUME engine # "elasticsearch", NEW c \in Clients, Created(c), NEW i \in Range(local[c].ids)
             PROVE  Mine(c, table[i]) \/ Excused(c, i)  BY DEF AnsweredCreatesStay, Mine, Excused, Numbers
<1>1. Kept(c) /\ Creator(c) /\ op[c].kind \in {"create", "batch"}
  BY DEF CreatedInv, RowsKept, Rows1, Creator, Created
<1>2. /\ Stands(engine, PlanOf(c), op[c], call[c], answer[c], local[c]) /\ PlanOK(engine, op[c], PlanOf(c))
      /\ IsOp(op[c]) /\ IsLocal(engine, op[c], local[c])  BY <1>1, CreationStands DEF CreatedInv
<1>3. call[c] = Len(PlanOf(c)) + 1  BY <1>2 DEF Stands, Created
<1>4. i \in DoneBy(c)  BY <1>1, <1>2, <1>3, DoneWhole DEF DoneBy
<1> QED  BY <1>1, <1>4 DEF Kept

(* What is promised of the table.                                          *)
\* Whatever any clients do to a repository on any of the seven engines, bare or
\* behind soft delete, and whichever answers are lost: a row whose create was
\* answered ok is there unless a later or racing operation rightly took it, a
\* batch refused for a conflict has undone its rows, and audited writes are those
\* that wrote (create, batch_create, update, upsert and delete of every engine).
THEOREM AnswersAreTrue == TableSpec => []AnswersMatchTheTable
<1>1. TableInit => CreatedInv  BY CreatedStarts
<1>2. CreatedInv /\ [TableNext]_tableVars => CreatedInv'  BY CreatedInvKept
<1>3. CreatedInv => AnswersMatchTheTable
 <2> SUFFICES ASSUME CreatedInv PROVE AnswersMatchTheTable  OBVIOUS
 <2>1. TableInv  BY DEF CreatedInv
 <2> QED  BY <2>1, TypesFollow, BatchesFollow, AuditFollows, CreatesFollow DEF AnswersMatchTheTable
<1> QED  BY <1>1, <1>2, <1>3, PTL DEF TableSpec

\* On any engine, an update or delete changes or removes rows in its viewer's scope
\* alone, unless a probe of its own found the key there, and fills no empty key
\* where the store updates in place; an update of a tombstoned row leaves it dead.
\* Upserts are not spoken of (`Viewer::scope` in update and delete,
\* `SoftDeleteRepo::update`).
THEOREM ScopesAreKept == TableSpec => ScopesAndTombstonesHold
<1>1. TableInv /\ [TableNext]_tableVars => TableInv'  BY TableInvKept
<1>2. TableInit => TableInv  BY TableInvStarts
<1>3. TableInv /\ [TableNext]_tableVars =>
      [\A c \in Clients, i \in Ids :
          (/\ op[c].kind \in InPlace /\ call[c] > 0
           /\ table' # table /\ (local'[c] # local[c] \/ call'[c] # call[c] \/ answer'[c] # answer[c]))
          => /\ local[c].cleared \/ \A r \in table[i] \ table'[i] : InScope(op[c].viewer, r)
             /\ engine \notin {"cassandra", "influxdb"} /\ table[i] = {} => table'[i] = {}]_tableVars  BY ScopeFollows
<1>4. TableInv /\ [TableNext]_tableVars =>
      [\A c \in Clients, i \in Ids :
          (/\ engine # "influxdb" /\ op[c].kind = "update"
           /\ touched'[c] /\ ~touched[c]
           /\ table[i] # {} /\ \A r \in table[i] : r.dead)
          => \A r \in table'[i] : r.dead]_tableVars  BY TombstoneFollows
<1> QED  BY <1>1, <1>2, <1>3, <1>4, PTL DEF TableSpec, ScopesAndTombstonesHold, ScopeHolds, TombstoneHolds

\* Following the page tokens to the end lists every row that could be listed all
\* through the walk, once, whatever is written between the pages (the keyset
\* tokens of `list` in every engine).
THEOREM WalksAreComplete == TableSpec => []WalkIsComplete
<1>1. TableInit => TableInv  BY TableInvStarts
<1>2. TableInv /\ [TableNext]_tableVars => TableInv'  BY TableInvKept
<1>3. TableInv => WalkIsComplete  BY WalksFollow
<1> QED  BY <1>1, <1>2, <1>3, PTL DEF TableSpec
=============================================================================
