------------------------------- MODULE KvCache -------------------------------
(***************************************************************************)
(* The engines of rushwind-cache, shared by several clients: `local`, a    *)
(* map with expiry and a capacity under one lock, and `redis`, where every *)
(* call is a command to a server that may do it, or not, and fail to       *)
(* answer.  A value is the name of the client that wrote it, so that a     *)
(* set_nx is a lock and the value its owner.                               *)
(***************************************************************************)
EXTENDS Integers, FiniteSets, SequencesExt

CONSTANTS
  Keys,
  Clients,
  Engines,      \* a subset of {"local", "redis"}
  Capacity,     \* CacheOptions::capacity
  Ttls,         \* the TTLs a call passes, in ticks, with NoTtl and Endless
  NoTtl,        \* None
  Endless,      \* one past the range of the clock
  DefaultTtls,  \* CacheOptions::default_ttl, NoTtl for none
  MaxKvCalls    \* bound: calls that write

VARIABLES
  engine,
  default_ttl,
  entries,    \* the keys present, in insertion order
  value,      \* key -> the last client that wrote it
  left,       \* key -> the ticks before it expires, NoTtl for never
  poisoned,   \* a panic under the lock: every later call panics too
  kvCalls,
  locks,      \* history: <<client, key>> for a set_nx that was granted and is in force
  leftFor,    \* history: key -> what remains of the time its last writer asked for
  evicted,    \* history: the keys evicted before their time
  hasty       \* history: one was evicted although an expired one could have been

kvVars == <<engine, default_ttl, entries, value, left, poisoned, kvCalls, locks, leftFor, evicted, hasty>>

Nobody == "nobody"
Present == ToSet(entries)

\* An entry past its time is there until somebody looks.
Expired(k) == left[k] = 0
Fresh(k) == k \in Present /\ ~Expired(k)

\* LocalCache::resolve_ttl; redis has no default.
ResolveTtl(t) == IF t = NoTtl /\ engine = "local" THEN default_ttl ELSE t

\* Adding Endless to the clock panics with the lock held; redis refuses it,
\* and a time below a millisecond.
Refused(ttl) == ttl = Endless \/ (engine = "redis" /\ ttl = 0)

Without(es, ks) ==
  LET kept[i \in 0..Len(es)] == IF i = 0 THEN <<>>
                                ELSE IF es[i] \in ks THEN kept[i - 1] ELSE Append(kept[i - 1], es[i])
  IN  kept[Len(es)]

\* Room for one more: first the dead go, then the oldest insertions.
Evicted(es, dead) ==
  LET live == Without(es, dead)
      room == IF Capacity > 0 THEN Capacity - 1 ELSE 0
  IN  IF Len(live) > room THEN SubSeq(live, Len(live) - room + 1, Len(live)) ELSE live

\* insert_entry: a key rewritten becomes the newest and evicts nobody.
Inserted(es, k, dead) ==
  LET full == engine = "local" /\ k \notin ToSet(es) /\ Len(es) >= Capacity
  IN  Append(Without(IF full THEN Evicted(es, dead) ELSE es, {k}), k)

\* The keys ks inserted one after the other, each seeing what became of those
\* before it.
InsertedAll(es, ks, ttl) ==
  LET written(i) == {ks[j] : j \in 1..(i - 1)}
      dead(i) == ({k \in Keys : Expired(k)} \ written(i)) \cup IF ttl = 0 THEN written(i) ELSE {}
      after[i \in 0..Len(ks)] == IF i = 0 THEN es ELSE Inserted(after[i - 1], ks[i], dead(i))
  IN  after[Len(ks)]

KvInit ==
  /\ engine \in Engines
  /\ default_ttl \in DefaultTtls
  /\ entries = <<>>
  /\ value = [k \in Keys |-> Nobody]
  /\ left = [k \in Keys |-> NoTtl]
  /\ poisoned = FALSE
  /\ kvCalls = 0
  /\ locks = {}
  /\ leftFor = [k \in Keys |-> NoTtl]
  /\ evicted = {} /\ hasty = FALSE

\* A call that writes: for good where the engine panics over t, without effect
\* where redis refuses it or fails before doing it, and else `effect`.
Write(t, effect) ==
  /\ ~poisoned /\ kvCalls < MaxKvCalls
  /\ kvCalls' = kvCalls + 1
  /\ UNCHANGED <<engine, default_ttl>>
  /\ \/ /\ Refused(ResolveTtl(t)) \/ engine = "redis"
        /\ poisoned' = (engine = "local")
        /\ UNCHANGED <<entries, value, left, locks, leftFor, evicted, hasty>>
     \/ /\ ~Refused(ResolveTtl(t))
        /\ effect
        /\ UNCHANGED poisoned

\* Client c writes the keys ks in turn, over the entries es.
Put(es, ks, c, t) ==
  /\ entries' = InsertedAll(es, ks, ResolveTtl(t))
  /\ value' = [k \in Keys |-> IF k \in ToSet(ks) THEN c ELSE value[k]]
  /\ left' = [k \in Keys |-> IF k \in ToSet(ks) THEN ResolveTtl(t) ELSE left[k]]
  /\ leftFor' = [k \in Keys |->
       IF k \notin ToSet(ks) THEN leftFor[k]
       ELSE IF t = NoTtl /\ engine = "local" THEN default_ttl ELSE t]
  /\ LET gone == {k \in Keys : Fresh(k) /\ k \notin ToSet(entries')}
     IN  /\ evicted' = evicted \cup gone
         /\ hasty' = (hasty \/ (gone # {} /\ \E k \in (ToSet(entries') \cap Present) \ ToSet(ks) : Expired(k)))

Unlocked(ks) == {l \in locks : l[2] \notin ks}

\* Cache::set.
Set(c, k, t) == Write(t, Put(entries, <<k>>, c, t) /\ locks' = Unlocked({k}))

\* What set_nx finds in its way.
Taken(k) == Fresh(k)

\* Cache::set_nx: the look, which drops what has expired, and the insertion are
\* one hold of the lock or one command.  The answer of redis may get lost.
SetNx(c, k, t) ==
  IF Taken(k)
  THEN FALSE
  ELSE Write(t, /\ Put(Without(entries, {k}), <<k>>, c, t)
                /\ \E heard \in {TRUE, engine = "local"} :
                     locks' = IF heard /\ ResolveTtl(t) # 0 THEN locks \cup {<<c, k>>} ELSE locks)

\* Cache::set_multi: under one lock, or a pipeline of commands of which a
\* broken connection lets a part through.
SetMulti(c, ks, t) ==
  \E n \in IF engine = "local" THEN {Len(ks)} ELSE 1..Len(ks) :
    LET done == SubSeq(ks, 1, n)
    IN  Write(t, Put(entries, done, c, t) /\ locks' = Unlocked(ToSet(done)))

\* Cache::delete of one key; close of the local engine deletes them all.
Clear(ks) ==
  Write(1, /\ entries' = Without(entries, ks)
           /\ locks' = Unlocked(ks)
           /\ UNCHANGED <<value, left, leftFor, evicted, hasty>>)
Delete(k) == Clear({k})
Close == engine = "local" /\ Clear(Keys)

\* read_entry, which get, has and get_multi share, drops what has expired; a
\* server does so by itself.
ReadEntry(k) ==
  /\ ~poisoned
  /\ k \in Present /\ Expired(k)
  /\ entries' = Without(entries, {k})
  /\ UNCHANGED <<engine, default_ttl, value, left, poisoned, kvCalls, locks, leftFor, evicted, hasty>>

\* What get answers.
Get(k) == IF Fresh(k) THEN value[k] ELSE Nobody

Elapse(l) == [k \in Keys |-> IF l[k] \in {NoTtl, 0} THEN l[k] ELSE l[k] - 1]

\* Time passes; a lock lasts for as long as was asked for.
KvTick ==
  /\ left' = Elapse(left)
  /\ leftFor' = Elapse(leftFor)
  /\ locks' = Unlocked({k \in Keys : leftFor'[k] = 0})
  /\ UNCHANGED <<engine, default_ttl, entries, value, poisoned, kvCalls, evicted, hasty>>

KvNext ==
  \/ \E c \in Clients, k \in Keys, t \in Ttls : Set(c, k, t) \/ SetNx(c, k, t)
  \/ \E c \in Clients, k, l \in Keys, t \in Ttls : SetMulti(c, <<k, l>>, t)
  \/ \E k \in Keys : Delete(k) \/ ReadEntry(k)
  \/ Close
  \/ KvTick

KvTypeOK ==
  /\ Present \subseteq Keys /\ IsInjective(entries)
  /\ engine = "local" => Len(entries) <= Capacity \/ Len(entries) <= 1
  /\ value \in [Keys -> Clients \cup {Nobody}]

\* A lock taken with set_nx has one owner for the time asked for, unless the
\* full cache evicted it; what get answers is still within the time its writer
\* asked for; and nothing live is evicted while something expired could be
\* (cache-local/src/lib.rs:229, cache-redis/src/lib.rs:114).
CacheHolds ==
  /\ \A k \in Keys \ evicted : Cardinality({l \in locks : l[2] = k}) <= 1
  /\ \A k \in Keys : Get(k) # Nobody => leftFor[k] # 0
  /\ ~hasty
===============================================================================
