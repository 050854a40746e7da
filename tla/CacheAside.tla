------------------------------- MODULE CacheAside -------------------------------
(***************************************************************************)
(* rushwind-storage-cache: `CacheRepo`, a cache-aside decorator with       *)
(* coalesced loads and a generation per primary key.                       *)
(*                                                                         *)
(* Everything CacheRepo keeps is per primary key, so one key is modelled,  *)
(* seen under several viewer scopes.  The row is its version: the number   *)
(* of writes committed to it.  Calls run on different threads; what one    *)
(* call does under the state mutex is one action, and the await of the     *)
(* inner engine separates the actions.  Any future may be dropped at its   *)
(* await.  Time is abstracted: an entry may expire at any moment.          *)
(***************************************************************************)
EXTENDS Naturals, FiniteSets

CONSTANTS
  Readers,   \* calls of get
  Writers,   \* calls of create, update, upsert, delete or batch_create
  Scopes,    \* the values of ScopeKey::of
  ScopeOf,   \* the viewer scope of each reader
  Drops      \* which futures callers may drop: subset of {"get", "write"}

ASSUME CacheAssumption ==
  /\ ScopeOf \in [Readers -> Scopes]
  /\ Drops \subseteq {"get", "write"}

VARIABLES
  db,         \* the inner engine: version of the committed row
  cached,     \* State::entries, the scopes that have one
  expired,    \* entries past expires_at
  entry,      \* the cached row of each scope
  inflight,   \* State::inflight, the scopes with a load registered
  waiters,    \* the joiners that ride each load
  generation, \* State::generations
  at,         \* where each reader is
  snap,       \* the generation snapshot of each loader
  got,        \* the outcome each reader holds or returned
  wat,        \* where each writer is
  wrote,      \* the version each writer committed
  completed,  \* history: newest version whose write has invalidated
  since       \* history: `completed` when the load it rides was registered

backend == <<db, wat, wrote>>
state == <<cached, expired, entry, inflight, waiters, generation>>
readers == <<at, snap, got, since>>
vars == <<backend, state, readers, completed>>

Outcome == [ok : BOOLEAN, ver : Nat, scope : Scopes]

Init ==
  /\ db = 0
  /\ cached = {}
  /\ expired = {}
  /\ entry = [s \in Scopes |-> [ok |-> TRUE, ver |-> 0, scope |-> s]]
  /\ inflight = {}
  /\ waiters = [s \in Scopes |-> {}]
  /\ generation = 0
  /\ at = [r \in Readers |-> "idle"]
  /\ snap = [r \in Readers |-> 0]
  /\ got = [r \in Readers |-> [ok |-> FALSE, ver |-> 0, scope |-> ScopeOf[r]]]
  /\ wat = [w \in Writers |-> "idle"]
  /\ wrote = [w \in Writers |-> 0]
  /\ completed = 0
  /\ since = [r \in Readers |-> 0]

\* The readers with a load of their own.
Loaders == {r \in Readers : at[r] \in {"loading", "fetched"}}

\* Mutant of Scope: the key leaves the viewer out.
ScopeIgnored(r) == CHOOSE s \in Scopes : TRUE

\* ScopeKey::of the reader's viewer.
Scope(r) == ScopeOf[r]

Becomes(r, place) == at' = [at EXCEPT ![r] = place]

-----------------------------------------------------------------------------
(* get_async: the reservation, under one lock.                             *)

Hit(r) ==
  /\ at[r] = "idle"
  /\ Scope(r) \in cached \ expired
  /\ Becomes(r, "done")
  /\ got' = [got EXCEPT ![r] = entry[Scope(r)]]
  /\ since' = [since EXCEPT ![r] = completed]
  /\ UNCHANGED <<backend, state, completed, snap>>

\* A miss first removes the entry that has expired.
Miss(r) ==
  /\ at[r] = "idle"
  /\ Scope(r) \notin cached \ expired
  /\ cached' = cached \ {Scope(r)}
  /\ expired' = expired \ {Scope(r)}

Join(r) ==
  /\ Miss(r)
  /\ Scope(r) \in inflight
  /\ Becomes(r, "waiting")
  /\ waiters' = [waiters EXCEPT ![Scope(r)] = @ \cup {r}]
  /\ since' = [since EXCEPT ![r] =
                 IF \E l \in Loaders : Scope(l) = Scope(r)
                 THEN since[CHOOSE l \in Loaders : Scope(l) = Scope(r)] ELSE 0]
  /\ UNCHANGED <<backend, entry, inflight, generation, snap, got, completed>>

Load(r) ==
  /\ Miss(r)
  /\ Scope(r) \notin inflight
  /\ inflight' = inflight \cup {Scope(r)}
  /\ snap' = [snap EXCEPT ![r] = generation]
  /\ Becomes(r, "loading")
  /\ since' = [since EXCEPT ![r] = completed]
  /\ UNCHANGED <<backend, entry, waiters, generation, got, completed>>

-----------------------------------------------------------------------------
(* get_async: the backend read, and the landing under the lock.            *)

\* inner.get(ctx, id) takes effect; the engine sees the caller's own viewer.
BackendReads(r) ==
  /\ at[r] = "loading"
  /\ Becomes(r, "fetched")
  /\ \E ok \in BOOLEAN :
       got' = [got EXCEPT ![r] = [ok |-> ok, ver |-> db, scope |-> ScopeOf[r]]]
  /\ UNCHANGED <<backend, state, completed, snap, since>>

\* Mutant of Repopulates: no generation check.
RepopulatesAlways(r) == got[r].ok

\* Only a load that succeeded and that no write outranks fills the cache.
Repopulates(r) == got[r].ok /\ snap[r] = generation

\* Mutant of Land: `?` on a failed load leaves before the key is released.
LandEarlyReturn(r) ==
  /\ at[r] = "fetched"
  /\ ~got[r].ok
  /\ Becomes(r, "done")
  /\ UNCHANGED <<backend, state, completed, snap, got, since>>

\* The outcome lands: the key is released, the cache perhaps filled, and every
\* joiner that is still there is sent the outcome.
Land(r) ==
  LET s == Scope(r)
      riders == {j \in waiters[s] : at[j] = "waiting"}
  IN
  /\ at[r] = "fetched"
  /\ inflight' = inflight \ {s}
  /\ waiters' = [waiters EXCEPT ![s] = {}]
  /\ IF Repopulates(r)
     THEN /\ cached' = cached \cup {s}
          /\ expired' = expired \ {s}
          /\ entry' = [entry EXCEPT ![s] = got[r]]
     ELSE UNCHANGED <<cached, expired, entry>>
  /\ at' = [q \in Readers |-> IF q \in riders \cup {r} THEN "done" ELSE at[q]]
  /\ got' = [q \in Readers |-> IF q \in riders THEN got[r] ELSE got[q]]
  /\ UNCHANGED <<backend, generation, snap, since, completed>>

\* The caller drops the future of get, or the inner engine panics in it.
GetDropped(r) ==
  /\ "get" \in Drops
  /\ at[r] \in {"loading", "fetched", "waiting"}
  /\ Becomes(r, "dropped")
  /\ UNCHANGED <<backend, state, completed, snap, got, since>>

\* Time passes the entry's expires_at.
Expire(s) ==
  /\ s \in cached \ expired
  /\ expired' = expired \cup {s}
  /\ UNCHANGED <<backend, readers, cached, entry, inflight, waiters, generation,
                 completed>>

-----------------------------------------------------------------------------
(* The write paths: all commit in the inner engine, then invalidate.       *)

Commit(w) ==
  /\ wat[w] = "idle"
  /\ db' = db + 1
  /\ wrote' = [wrote EXCEPT ![w] = db + 1]
  /\ wat' = [wat EXCEPT ![w] = "committed"]
  /\ UNCHANGED <<state, readers, completed>>

\* The engine refuses the write: `?` returns before the invalidation.
Refused(w) ==
  /\ wat[w] = "idle"
  /\ wat' = [wat EXCEPT ![w] = "done"]
  /\ UNCHANGED <<db, wrote, state, readers, completed>>

\* invalidate: every view of the key goes and the generation is bumped, under
\* one lock; then the write returns.
Invalidate(w) ==
  /\ wat[w] = "committed"
  /\ cached' = {}
  /\ expired' = {}
  /\ generation' = generation + 1
  /\ wat' = [wat EXCEPT ![w] = "done"]
  /\ completed' = IF wrote[w] > completed THEN wrote[w] ELSE completed
  /\ UNCHANGED <<db, wrote, entry, inflight, waiters, readers>>

\* The caller drops the write after the engine has committed it.
WriteDropped(w) ==
  /\ "write" \in Drops
  /\ wat[w] = "committed"
  /\ wat' = [wat EXCEPT ![w] = "dropped"]
  /\ UNCHANGED <<db, wrote, state, readers, completed>>

-----------------------------------------------------------------------------

Proceeds(r) == BackendReads(r) \/ Land(r)

Rest ==
  /\ \A r \in Readers : at[r] \in {"waiting", "done", "dropped"}
  /\ \A w \in Writers : wat[w] \in {"done", "dropped"}
  /\ UNCHANGED vars

Next ==
  \/ \E r \in Readers : Hit(r) \/ Join(r) \/ Load(r) \/ Proceeds(r) \/ GetDropped(r)
  \/ \E s \in Scopes : Expire(s)
  \/ \E w \in Writers : Commit(w) \/ Refused(w) \/ Invalidate(w) \/ WriteDropped(w)
  \/ Rest

Spec == Init /\ [][Next]_vars

\* The inner engine answers, and the runtime polls a loader that is not dropped.
FairSpec == Spec /\ \A r \in Readers : WF_vars(Proceeds(r))

-----------------------------------------------------------------------------
(* Properties.                                                             *)

TypeOK ==
  /\ {db, generation, completed} \subseteq Nat
  /\ cached \subseteq Scopes /\ expired \subseteq cached /\ inflight \subseteq Scopes
  /\ entry \in [Scopes -> Outcome]
  /\ waiters \in [Scopes -> SUBSET Readers]
  /\ \A s \in Scopes : waiters[s] # {} => s \in inflight
  /\ at \in [Readers -> {"idle", "loading", "fetched", "waiting", "done", "dropped"}]
  /\ got \in [Readers -> Outcome]
  /\ wat \in [Writers -> {"idle", "committed", "done", "dropped"}]
  /\ wrote \in [Writers -> Nat]
  /\ {snap, since} \subseteq [Readers -> Nat]

\* No load that raced a write puts the row of before the write back into the
\* cache: an entry is never older than the last write that has returned.
NoStaleEntry == \A s \in cached : entry[s].ver >= completed

\* Errors are never cached, and what is cached or handed out for a viewer's
\* scope was read under that scope: joiners and hits never cross tenants.
ScopesApart ==
  /\ \A s \in cached : entry[s].ok /\ entry[s].scope = s
  /\ \A r \in Readers : got[r].scope = ScopeOf[r]

\* Singleflight: misses of one key never read the backend side by side.
OneLoadPerKey ==
  \A r, q \in Loaders : ScopeOf[r] = ScopeOf[q] => r = q

\* A read returns a row at least as new as every write that had returned when
\* the backend load behind it was registered.
ReadsAsFreshAsTheirLoad ==
  \A r \in Readers : at[r] = "done" /\ got[r].ok => got[r].ver >= since[r]

\* get_async: a hit, a joiner and a load are served under their own viewer's
\* scope, one load a key reads the engine, and what a read returns is as fresh
\* as the load behind it.
CacheAnswers == TypeOK /\ ScopesApart /\ OneLoadPerKey /\ ReadsAsFreshAsTheirLoad

\* As long as no caller drops a get, every get is answered: the joiners with
\* the outcome of the load they ride, good or bad.
AnsweredUnlessDropped(r) ==
  at[r] # "idle" => at[r] = "done" \/ \E q \in Readers : at[q] = "dropped"

\* Every get whose caller waits for it is answered: a joiner gets the outcome
\* of the load, or the error for a loader that "dropped its load".
GetsAnswered == \A r \in Readers : []<>(at[r] # "idle" => at[r] \in {"done", "dropped"})

=============================================================================
