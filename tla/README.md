# RushWind, specified

TLA+ specifications of RushWind (a Rust toolkit for micro-services: one lifecycle, many
transports, stores, brokers, registries and engines behind small traits), translated from
the code, model-checked with TLC on small instances, and, for the properties that matter
most at the core, proved with TLAPS for every value of the constants.

`PROJECT.json` maps every definition to the lines it stands for and lists the runs, the
mutants that each property is tried on, the hazards, the findings and the theorems. This
file explains them.

    tlc -workers 2 -config Serving.cfg MCServing    # a run
    tlapm ResilienceProofs.tla                      # proofs

1. Inventory  2. Plan  3. Modules and the code  4. Runs  5. Findings  6. Proofs
7. Not modelled

## 1. Inventory

How the parts hang together. A document is turned by `rushwind-bootstrap` into an `App`
(rushwind-core) with its `Server`s, engines and hooks, and the app is run. Servers are
transports; each gets the lifecycle's `StopSignal`, ends its `start` future when the signal
fires, and is torn down by `stop`. In front of a handler stand the edge (CORS, budget,
guards), authentication and authorization, and the binding of the request. Behind it,
application code uses `Repository` engines wrapped in decorators (cache-aside, soft delete,
tree), script pools and engines, brokers, registries, task queues and transactions, and
guards its calls to others with breakers, limiters, retries and health checks. Interaction
is by futures polled by one task (App), by tasks sharing atomics and mutexes (counters,
pools, caches, breakers), by watch, broadcast and bounded channels (stop signal, session
buses, config watches, workers), and by calls to external services (etcd, zookeeper,
databases, brokers, DTM).

| component | state | operations | what is hard | what makes it right | modules |
|---|---|---|---|---|---|
| core lifecycle | stop signal, outcome, done channel, a future per server and hook | `run`, `stop`, hooks, budgets | start, stop, hook and timer complete in any order; panics; `run` dropped | phases do not overlap, one budget each, the error reported, the end always comes | `Lifecycle`, `AppContract` |
| session admission | one atomic | `admit`, guard drop | admit is add, compare, maybe undo | cap, no slot lost | `SessionCounter` |
| websocket route | the bus, sessions | handshake, relay of stop | advisory check long before admission; a session born during a stop | every session told to end before Cancelled is reported | `WsRoute` |
| quic, webtransport, h3 | accept loop, one attempt at a time | accept, gate, handshake, admit, serve | silent peers, connections that do not close by being dropped | no connection forgotten, nobody waits for ever | `AcceptLoop` |
| cache-aside | entries, loads in flight, generations | `get`, writes, invalidation | a load races a write; joiners depend on a loader that may vanish | no stale entry survives a write, tenants apart, gets answered | `CacheAside` |
| storage engines, soft delete | tables | the `Repository` contract | read-then-write sequences over stores that arbitrate keys differently; lost answers | an answered create stays, batches are whole, scopes hold, walks are complete | `Storage` |
| filters | none | wire, text, translations | eight evaluators of one language | all select the same rows | `Filters` |
| tree walks | none | ancestors, subtree, roots, children | several calls, rows move between them | an undisturbed walk is right, every walk ends | `Tree` |
| script pools | queue, semaphore, live count, closed flag | acquire, release, grow, init_all, close | four pieces of state under three locks; cancellation anywhere | permits match engines, one owner, cap, waiters served | `ScriptPool` |
| script engines, sources | programs, globals, worker thread, reload loops, caches | load, run, call, watch, close | close against load, run and reload; a thread behind a queue | no run on a closed engine, a watched edit is loaded | `ScriptEngines` |
| breakers | state machine, window or smoothed times | allow, mark, close | outcomes arrive long after admission; dropped futures; ring arithmetic | trips earned, one trial, no half-open state without a way out | `Breaker`, `BucketRing` |
| limiters | tokens; window and in-flight count | allow, wait, done | waiters recompute; lost `done` | never more than the rate; in flight is what is out | `RateLimiters` |
| retry, health | attempts; probes | execute; check | a budget against a delay; components move during a check | attempts and budget bounded; a verdict about something that was true | `Retry`, `Health` |
| cache engines | map with expiry, redis | get, set, set_nx, multi | expiry against eviction; lost answers | a lock has one owner | `KvCache` |
| metrics | tables, buffers, flush thread | counter, histogram, gauge, drop | buffers taken under a lock and sent outside it | no sample lost or counted twice | `Metrics` |
| watches (registry, config) | stream, task, last value | get, watch, next | a change between two re-arms; broken streams | the last change is delivered, never backwards | `Watch` |
| registrations | lease or session, keepalive tasks by key | register, handle, deregister | healing against deregister; register twice | held is listed, gone stays gone | `Registrar` |
| brokers | connection, pump or readers, subscriptions | connect, publish, subscribe, drop | reconnects; a pump of an older connection | messages arrive, an unsubscribed handler is looked up no more | `Broker` |
| chat client | line buffer, pending events | chat, stream, embed | chunks cut anywhere | the answer once and in order | `ChatStream` |
| task queue | rows with locks, channels, acks | push, claim, ack, sweep, admin | crash, restart, lapsed lock, late ack | claimed once, finished in the end | `TaskQueue` |
| transactions | branch list; the server's record | saga, tcc, xa, msg | every call may be lost either way | all or nothing, and the caller is told so | `Dtm` |
| cron, mqtt bridge | alignment, ticks; a client generation | start, fire, dispatch, stop | late timers; losses; a bounded channel nobody drains | every minute once; a stop ends it | `Cron`, `MqttBridge` |
| http edge | one request in its layers | route, guard, budget, answer | what still runs when the caller was answered | guards before handlers, cut means cut | `HttpEdge` |
| bootstrap | what is assembled | build, run, hooks | a failure half way; announce against bind and drain | announced means bound; hooks after the drain | `Assembly` |
| authn, authz | tables, sessions, policies | mint, check; decide, list, install | verdict against changes under it | current verdicts; decisions match their definition | `Authn`, `Authz` |
| binding, CRUD | the message; rows | bind; the verbs | precedence, presence, oneofs; scope | the request as it was written; effects match answers | `Endpoints` |
| encodings, tracer, code generator, thin clients, testkit | none across calls | conversions, HTTP | nothing that interleaves | – | – |

Per part, with its files and what is left out: "components" in `PROJECT.json`.

## 2. Plan

Order: what every process depends on first, then what is shared by threads, then what
talks to others, then the decisions that have no state.

1. *Lifecycle and its contract; session transports; cache-aside; pools; breakers* — done,
   with proofs of their core.
2. *Limiters, retry, health, caches, metrics* — done; the rate of the token bucket proved.
3. *Watches, registrations, brokers, chat client* — done.
4. *Task queue, transactions, cron, mqtt bridge* — done.
5. *Storage engines, soft delete, filters, trees* — done.
6. *Script engines and sources* — done.
7. *Edge, bootstrap, authn, authz, binding, CRUD* — done.
8. *Proofs.* Done: the lifecycle with its refinement steps and the session transports; the
   cache-aside decorator; engine pools, script engines and sources; breakers and limiters;
   retry, health, caches and metrics; task queue and transactions; cron and the mqtt bridge;
   registrations, brokers, watches and the chat client; the http edge and the assembly; authn and authz;
   the tables of the seven storage engines. Left, in this order: tree walks; recursive functions in place
   of the operators of `Filters`; `RequestsAsWritten` (section 6 says what stands in the way).
9. *Left: models.* The broker's middleware decorator, the script manager and factory, object
   stores; a composition of registrar and watch over one backend.

Composition in the modules: `WsRoute` and `AcceptLoop` extend `SessionCounter`; `Lifecycle`
instantiates `AppContract`; `Breaker` and `RateLimiters` use `BucketRing`; `Storage` puts the
soft-delete decorator over any of its engines; `Assembly` runs the application it built
over the lifecycle's phases; `Watch` has `FallbackSource` over two sub-streams;
`ScriptEngines` has engines over sources over a cached source. Everything else shares no
state in the code, and the MC modules explore such parts one at a time.

## 3. Modules and the code

**Conventions.** One action is what the code does between two points at which another
thread or task can get in: an await, an unlock, an atomic operation, a statement sent to
a store. A section under one lock is one action, taken at one instant. Dropping a future at
its await is an action of its own wherever callers can do it. Names are the source's.
*History* variables serve the properties only and are read by no guard; bounds (`Max...`)
stop the growth they name. What stands outside src/ (a database, a broker, a client
library, axum, tower-http, apalis) is modelled from how the code uses it, and marked
external in the map.

**Lifecycle** (`crates/rushwind-core/src/app.rs`, stop.rs, error.rs). `phase` is the await at which
`run` is suspended: `trigger`, `drain`, `before`, `stop`, `after`, then the synchronous
`publish` and `close`. `start[s]` and `stop[s]` are the futures of a server: new, live, or a
result. `deadline` and `now` are the budget of the phase and the clock; `first_start` and
`first_stop` the aggregation slots with the guard `is_none()`. Server futures progress only
where `run` polls them. `Unwind` is `run` leaving by a panic of a hook or because its caller
drops it. **AppContract** has three variables and knows no phases; the mapping is at the end
of `Lifecycle`.

**SessionCounter** (`rushwind-transport/src/session.rs`): `live` is the atomic, `over` the
refusals between fetch_add and fetch_sub, `held` the guards. **WsRoute** (`-transport-ws`,
`-transport-axum`): a handshake goes from the handler closure (gates, advisory `at_cap`, 101) to the task of
`on_upgrade` (admission, session under the stop bus); the server relays the signal to the
bus before `serve` reports Cancelled. **AcceptLoop** (`-transport-quic`, `-webtransport`, `-h3`):
`config.flavor` chooses the order of stages, `config.timeout` whether there is a handshake
deadline; handle, guard and task are released by different lines, so `connected`,
`closed` and `held` are separate.

**CacheAside** (`rushwind-storage-cache`): one primary key (all state of `CacheRepo` is per
key), several viewer scopes. Readers hit, join, or load: `snap` is the generation they saw,
`BackendReads` the inner engine's read, `Land` the code after the await. Writers commit in
the engine and then invalidate. A row is its version; entries expire at any moment.

**Storage** (`rushwind-storage-{memory,seaorm,mongodb,cassandra,elasticsearch,influxdb,clickhouse}`,
`-softdelete`): every operation of the contract is a *plan*, the sequence of calls the engine makes on
its store; a call is a set of outcomes (table, locals, go on or answer), and the calls of
different clients interleave. A table maps a key to the set of rows stored under it (more
than one in ClickHouse, which has no unique constraint). `soft` puts the decorator around
the engine. An answer may be lost before or after the store applied the call. **Filters**: the
reference evaluator of `filter.rs`, the wire operators, the text syntax with its precedence, and
the predicates seaorm, ClickHouse, MongoDB and Elasticsearch get, evaluated by the semantics
of each database (three-valued SQL, two-valued Mongo and ES). **Tree**: a walk is one list
call after another on rows that others re-parent or delete.

**ScriptPool** (`rushwind-script/src/pool.rs`, `pool_autogrow.rs`): `queue`, `permits`, `waiters`
(the semaphore is FIFO), `closing`, `total`; `pc` is the step of each caller between two
locks; `life` of an engine is bookkeeping. **ScriptEngines** (the five engines and the sources): a
program is the version it was loaded from; `act` is where each call and reload loop is;
JavaScript's worker thread has an incarnation per init, with its queue of orders; Lua has its
budget and trip flag; Starlark its frozen module as the set of programs it was made from.

**BucketRing** and **Breaker** (`rushwind-circuitbreaker*`): the ring has two clocks, as the
code has: `phase` since construction chooses the slot, `since` the last rotation says how
many to clear. `role` of a caller says what its call is to the breaker: an ordinary
`call`, the `trial`, or `late` once that state is over. An outcome reads the clock twice, and the next bucket may begin in between. Times are ticks, percentages integers,
the smoothing `(7 * cur + rtt) \div 8`, and the probability of the SRE engine a choice: what
has probability zero cannot happen, everything else may. **RateLimiters**: tokens in
units of which `Rate` flow in per tick; `accrued` is what the next look adds; the BBR window is
the ring again, with counts and total times. **Retry**, **Health**, **KvCache**, **Metrics**: one
execution with its attempts, delays and budget; a check with a probe per checker over
components that go up and down; the two cache engines with insertion order, expiry and
the poisoned lock; instruments and label keys of the three metrics engines with the
buffer, its flushes and the flush thread.

**Watch** (`rushwind-registry-*`, `rushwind-config-*`): three shapes of watch. Pull: a signal wakes
`next()`, which then reads. Broadcast: a task reads and replaces a watch channel's value.
Push: a task sends what it saw through a channel; `FallbackSource` merges such streams
(`parked`, `live`). `truth` is the backend. **Registrar**: `slot` is the map from key to keepalive
task, `task` where each task is, `flight` the requests it left on their way, `listed` and
`lease` the backend. **Broker**: `gen` counts connections, `pump` is the task of each, `table` the
handlers, `reader` the per-subscription tasks of kafka, rabbitmq, pulsar and redis, `armed`
what the server knows, `handed` and `seen` the messages a handler was looked up for and ran with, which
are steps apart: mqtt and stomp clone it under the lock and spawn it after. `HalfRead` is stomp's frame lost in `select!`. **ChatStream**: on the wire a line is a head, a tail and a newline, and
a chunk ends after any of them.

**TaskQueue** (`rushwind-apalis-postgres`): one action per statement, between them heartbeats,
handlers, crashes and restarts under the same worker id, and the administrator's calls.
**Dtm**: the initiator's `pc` and the server's record; every exchange may be refused, lost on
the way, or unanswered. **Cron**: the clock counts sub-second units, sleeps are served up to
`MaxLate` units after their deadline; `parse` is modelled atom by atom with its u32 arithmetic.
**MqttBridge**: a client generation queues its subscriptions on the bounded channel, then polls.

**HttpEdge** (`rushwind-http`): `chain` is the path of one request, `depth` how far it got; only the
handler awaits. **Assembly** (`rushwind-bootstrap`): `stage` and `todo` are where `build()` is,
with every early return; `announced` and `handle` are the registration, `hooks` the order of the
before-stop hooks. **Authn**, **Authz**: strings are sequences of atoms; `source` and `store` change
under a request; an install of an rbac policy is two writes. **Endpoints** has two
halves that share no variable: the binder (`rushwind-http-binding`, gen-http's routes), pair by pair, body,
form, query, auth, path; and the CRUD verbs (`rushwind-storage-axum`): parse, at most one repository
call, answer. The repository is the memory engine's, with its own refusals and generated keys; a call that timed out or was
cut off is `adrift` and may still land.

## 4. Runs

An MC module instantiates the modules that belong to one part of the system. Where those
parts share no state in the code, `turn` (or `part`) chooses at the start which of them
runs, the others rest in one initial state, and a property of the run is the conjunction
of what is asked of each: it names the modules' own properties, which are commented there.

| run | instance | question and answer |
|---|---|---|
| `serving` | 2 servers, a hook per side, budget 2 ticks; 4 handshakes for one slot, 1 rejected, 1 silent | Phases disjoint, outcome from a server, budgets full and bounded, every step one of the contract's; cap, slots and connections accounted; a shutdown ends. Holds. |
| `storage` | 3 readers, 2 writers on one key; 2 clients on 7 engines, bare and soft-deleting, 1 lost answer; trees of 3 rows; every question to the filters | No stale entry, answers match the table, scopes and tombstones hold, walks are complete, engines select the same rows. Holds, within the exceptions below. |
| `scripts` | 3 callers, 2 engines, both pools, all faults; 5 engines over the sources | Permits, ownership, cap; scripts stay loaded, runs are their own, waiters and edits are served. Holds. |
| `clients` | 7 brokers, 13 watches, 8 registrars, the chat client; 1–2 faults each | No step backwards, no handler looked up after its unsubscribe, messages arrive, lists catch up. Holds, within the exceptions below. |
| `work` | 2 workers and a task; 3 branches in 4 patterns; 2 minutes of cron; the bridge with 5 filters | Claimed once, all or nothing, every minute once, work and stops end. Holds. |
| `resilience` | 2 callers of every guard | One trial, rate, samples and locks accounted, trips earned, waits end. Holds. |
| `edge` | 1 request through every stack; 12 documents; 8 kinds of check; a binder, a CRUD endpoint | Guards decide, assembly as written, verdicts current, requests read as written, effects match answers. Holds. |
| `cacheaside_hang` | cache-aside | Is every get answered? **No**: finding 1. |
| `filters_like` | texts over a and % | Does % match anything? **No**: finding 2. |
| `tasks_orphans` | crash and restart | Does a dead worker's work return? **No**: finding 3. |
| `breaker_trial` | hystrix | Does only the trial decide? **No**: finding 4. |
| `clients_chunks` | chunks cut anywhere | Does the answer not depend on the cuts? **No**: finding 5. |

**Bounds and why they suffice.** *Serving.* Two servers give every order of two reports; a
budget of two ticks lets a future end before, at and after a deadline; `MaxUptime` bounds
the time before the trigger, where time decides nothing; four handshakes for one slot give two
past the advisory check, one refusal in flight and one rejected. *Storage.* A loader and a joiner in one scope beside
another scope, and two writes, so that a load is overtaken twice; the engines' plans are of at most
a few calls, and two of them interleave in every way; a table has six keys and none beyond is given out, which two operations never ask for; walks have pages of one and
two rows; filter texts have at most two or three characters over {a, A, \*, \\, ?}, operands over
these with % and \_, trees have depth two; tree walks meet every parent map of three rows, with cycles
and dangling ids, and two edits. *Scripts.* An owner of each engine and a waiter; two
incarnations of the JavaScript thread; three versions of a script; one budgeted combination of
run, call and quota. *Clients.* Two subscriptions and one upset, or one subscription and two (a
pump superseded twice); three changes and two failures of a watched key; two registrations of a
key and two failures, with a patience of two beats. Chat: three configurations with nine
requests, four scripts of at most five lines. *Work.* One task with two crashes or failed
statements (`MaxUpsets`) is enough for claim, lapse, sweep, re-claim and late ack; three branches against a branch
limit of two; a minute is four units with half ticks of two and lateness of one, one below
the half: later timers are a note in section 5. *Resilience.* Thresholds are such that one slow sample trips vegas and
one good one heals it, a floor (`min_rtt`) of zero lets samples of zero in, two marks trip hystrix, and `MaxCalls` = 4 suffices for trip, trial, relapse
or recovery with a late outcome; bursts lie below, at and above one token; three samples of nine
shapes give equal and unequal label sets, a name of two kinds, and a foreign one. *Edge.* Both CORS
layers over four origin lists; eight guards and three extractors; twelve documents that
reach every early return; two requests during a drain; pairs over 25 of query and body, keys in brackets and dots among them,
with a captured path variable; list parameters absent, readable and not, each beside each. Two CRUD requests of two callers, with
ids none, zero, taken and free, bodies that name another id or another owner. Names with and without separators, two secrets, a claim width of four bits; one policy with
a cycle of memberships, one without, one whose permissions do not deserialize; two installers, three installs.

**Fairness.** Assumed only of what a runtime does by itself: tasks that can go on are
polled, timers fire, servers behind an open connection answer or fail. `serving`: one weak
fairness of the servers' own code (orchestrator, relay, accept loop, teardown) and one of the
clock; `storage`: of a loader that is not dropped and of a walk; `scripts`: per caller of a pool,
with the engines' own tasks; `clients`: one of all that was started, and one per task of a
watch, whose loops have no end; `work`: of due times, lapsing locks, statements and
the task queue's handlers (those of the bridge and of cron may never return), with strong fairness of the heartbeat's arms, because `select!` picks at random among
the ready; `resilience`: of clocks, the flush thread, polls and wakes of waiters, the end
of calls (competing calls are bounded, `MaxTakes` and `MaxBbrAsked`: without a queue, a waiter the others never leave room may starve); `edge`: of layers and the budget's timer. Nothing is assumed of hooks, peers,
sessions, clients who may drop a future, of scripts outside a pool's caller, of a handler
at the edge, or of whoever might register, publish or edit again. Deadlock is checked where the
system has no end of its own; the other configurations say why not.
`work` also assumes that the mqtt broker is reachable again and (strong fairness) that the
bridge sees its stop signal, which its `select!` offers on every turn.

## 5. Findings

Each is a run whose property quotes the repository and which TLC violates.

1. **Dropped loader** (storage-cache lib.rs:169). The code that removes the in-flight entry
   and answers the joiners comes after the await; drop the loading future and the key's gets
   hang. `AnsweredUnlessDropped` is the part that holds.
2. **LIKE '%'** (storage filter.rs:380). Characters are compared before a wildcard is looked
   for, so a `%` in the text uses up the `%` of the pattern.
3. **Orphans** (apalis-postgres lib.rs:498). A worker that restarts under its id within the lock
   timeout keeps renewing the rows of its former life, which no handler has.
4. **A late outcome decides** (hystrix lib.rs:261). In half-open any mark is taken for the trial's.
5. **Split lines** (ai-openai lib.rs:435). What a chunk leaves over is decoded at once, so a line
   the network cut in two is two lines, and neither is right.

Met while modelling and visible in the models, without a run of their own. The properties that
touch them say in their comments which case they leave out.

*Lifecycle, transports.* The outcome slot takes the first record of any kind: if a server
reports Cancelled before another fails, `run` returns Ok (app.rs:255). A hook that panics
unwinds `run`, no server is torn down and the done channel stays open (app.rs:270 speaks of
failing and hanging hooks only). A refusal in flight can refuse another handshake although a
slot is free, except where one loop admits (`NothingGivenUpEarly`). A quic session task that panics drops its guard and
handle and closes nothing (quic lib.rs:248–258; :235 says why that is not enough).

*Pools, engines, sources.* A growth that fails rolls its count back but wakes nobody who
blocked at the cap (pool_autogrow.rs:175). A release that saw an open pool can push after
`close` drained; two `init_all` can wait for each other for ever. Lua's instruction budget is armed once
and shared by later runs though lua engine.rs:69 says per run, and its trip flag by
overlapping runs. A second `start_watch` on a key makes the first loop unstoppable, and one
that races `close` leaves a loop on a closed engine. A load suspended over a close adds to the
next incarnation. A reload appends, so a broken one poisons later runs in JavaScript and Starlark.
Overlapping Starlark runs lose each other's globals. A second concurrent JavaScript close
returns before the thread ended. `CachedSource` fetches before its watch opens, and a slow
fetch overwrites a newer entry.

*Breakers, limiters, caches, metrics.* Vegas stays open, since healing needs samples and samples
admissions; sres refuses the healthy, its acceptance being below one after any request. The token bucket
lets a caller pass without paying who lacks less than half a tick's refill (`edge`), and a
burst below one token never admits. BBR counts buckets older than its window (lib.rs:211), keeps the
slot of a lost `done()` for ever; neither limiter has a queue (tokenbucket lib.rs:128–142, bbr :270–281), so a waiter
starves while others keep asking. With a vegas `min_rtt` of zero a sample of zero is taken for "no sample yet", the next one becomes
the baseline and the inflation is negative (vegas lib.rs:185–200). A retry's budget never cuts an
attempt. A health checker that panics vanishes from the verdict. The local cache panics
under its lock for a ttl of `Duration::MAX`, evicts set_nx locks, and holds one entry at capacity 0; a lost
set_nx answer of redis is a lock nobody knows. The otel gauge adds; prometheus drops every sample of a name that is used
by two kinds or by another owner; datadog's flush thread is not joined, and two flushes may leave out of order.

*Watches, registrations.* Zookeeper loses a change between firing and re-arm. Consul's registry watch has no
loop after a failed first fetch; config-etcd never reopens a broken stream; a malformed annotation
silences a Kubernetes service; two Eureka refreshes can publish out of order; a merged `next()` that is dropped
in its re-read, or whose re-read fails, loses the change. The old handle's drop aborts the task of a newer
registration, and a late put of an aborted task hangs the key on a dead lease (etcd). The zookeeper keeper
ends at its first failed re-creation; "Endpoints already listed UP are skipped" (eureka lib.rs:13) compares the
instance's id with the endpoint's wire id, in a list that is empty unless the same object watches the application (:168–182, :244–273); servicecomb never re-registers; nacos, polaris and Kubernetes
handles do nothing when dropped.

*Brokers, chat.* The mqtt pump re-connects after `disconnect` (broker lib.rs:206 says otherwise),
and awaits a channel of 64 that it alone drains; an old pump's error path clears the flag of a newer
connection (mqtt, stomp); a subscribe during a re-arm is never sent (mqtt) or sent twice (stomp). A handler may still be spawned after
its `unsubscribe` returned (mqtt lib.rs:255–270, stomp :323–331), and a frame stomp has read half is lost when its `select!`
takes another arm (:284–294, :136–199). Redis, rabbitmq and pulsar readers end silently with
their stream; pulsar's fixed subscription hands each message to one subscriber only; kafka commits
before handlers finish. The chat client goes on after a Finish or a decode error though its
contract (:113–116) ends there (`StreamReadsBack` judges what comes up to there), and its timeout bounds the whole streamed body.

*Work.* A late ack after sweep and re-claim is applied (lib.rs:50–52 says dropped); crashes are
not counted as attempts; one undecodable row strands its claimed batch; `update` writes back attempts
read earlier. A dtm caller may be told of an error though the server commits; an abort's error is swallowed. The sub-second part of cron's start
is kept, so a late phase plus a late timer (a second or more) misses every minute; `v += step` overflows;
day-of-week 7 is rejected though lib.rs:41–42 accepts it. More than sixteen mqtt subscriptions hang before
the first poll, deaf to a stop; and a handler is awaited outside of the `select!` with the stop signal, so that the bridge hears
no stop while one does not return (transport-mqtt lib.rs:41–43 and :203–206 say the signal wins). A cron server that stops awaits
the handlers in flight, however long. `WorkEnds` leaves both out.

*Storage.* A create overwrites an existing id on elastic and influx, and Cassandra's generated
ids are not arbitrated; upsert ignores the scope everywhere and leaves a second row in
ClickHouse; an update that moves a row out of scope is applied and answered NotFound; Cassandra and
influx updates resurrect a row deleted meanwhile; ClickHouse, Cassandra and influx audit deletes
of nothing; elastic's undo may delete another client's row; ClickHouse batches are not atomic. Mongo's
Contains family ignores case; NULL, empty groups and LIKE's default escape differ between engines; `OR` at the end of an
AIP filter matches all. A tree level is cut to the default page (20 rows) though tree lib.rs:163 says the whole
branch, and a row on a cycle is its own ancestor (tree lib.rs:132).

*Edge.* A panic's 500 has no request id and no CORS headers; every OPTIONS is a preflight; upper-case
header names are dropped silently by one CORS layer and canonicalized by the other; what a handler did before its
budget ended stays. A build that fails after the scripts were initialised never closes them, and one whose register
was answered by an error may leave an announcement behind; the service is announced before it
serves and until after the drain. jwt answers a wrong signature with 500 (error.rs:67: 401); basic-auth
names with ':' and hmac ids with '.' cannot log in; `set_policies` is two writes (rbac lib.rs:43:
"replaced wholesale"). Instants before the epoch with a fraction get negative nanos; a nested path into a oneof clears its
siblings; a PUT upserts over a row outside the viewer's scope, a PATCH may give a row to another owner, and a write
whose answer was 500 or 504 may still land (`EffectMatchesAnswer`).

## 6. Proofs

Every theorem is `Spec => []P` or `Spec => [][A]_vars` for the specification of its module, from
the named assumptions on its constants and nothing else (one exception, below:
`StepsImplementContract` and `NobodyAbandonedEarly` are of single steps). All
leaves are checked by Z3, Zenon or LS4. The runs check the same formulas on an instance, the
theorems hold for every value of the constants. A composite property of an MC module is
proved where its runs define it, so that theorem and run speak of one formula; the bounds
those modules name (`MaxBranches`, `BranchLimit`, `MaxChanges`, `Patience`, `MaxRegs`, `MaxFaults`, `MaxText`) are
constants there, and the theorems hold whatever they are.

**ServingProofs** (lifecycle, its contract, session counter, websocket route, accept loop).
`PhasesAreDisjoint` and `DoneIsFinal` from `PhaseInv`, which says for each phase which futures may be
live: no start future after the drain, no stop future outside its phase, the outcome set
before the channel closes. Neither is inductive alone: a server's state says nothing of
where `run` is. `ShutdownIsBounded` from `BudgetInv`: on entering phase *k* the clock is at most *k*
budgets past the trigger, `deadline` is one budget later, and `Tick` stops at the deadline.
`ShutdownIsOrderly` adds `OutcomeInv`: a start result is "new" exactly while `run` is idle, what stands in the
slot is the result of the server it names, and the outcome is copied only at the close. An
error of the stop side stands there only if the slot was free at the end of the start side.
`NobodyAbandonedEarly` needs `DrainInv`: the drain's deadline is the trigger plus one budget.
`StepsImplementContract` maps every initial state and each action to one of `AppContract`, or to a
stutter. `SessionsAreAccounted` joins `CounterInv` (the counter is guards plus refusals in flight; the
cap alone is not inductive, since `admit` compares the counter), `RouteInv` (a handshake that
counted holds a guard, and the relay ends sessions before Cancelled) and `LoopInv` (an attempt
in hand is in one stage, of its transport; the loop is the only admitter). `NothingIsGivenUpEarly` is
the action property of the same three.

**StorageProofs** (the cache-aside decorator, then the tables of the engines). `CacheIsNeverStale` from `FreshInv`: what is `completed` is committed; snapshots
of the generation are not from the future; a load whose snapshot still equals the generation
has read a row at least as new as the last completed write. That last part is what the
comparison of generations in `Land` is for. `AnswersAreOwnAndFresh` from `AnswerInv`: a load in flight
and its joiners have one key, that of the scope they asked in, and what a joiner was
promised is no newer than what the load has read or will read.

The tables: `AnswersAreTrue` (`AnswersMatchTheTable`), `ScopesAreKept` (`ScopesAndTombstonesHold`) and
`WalksAreComplete` (`WalkIsComplete`) are for any number of clients, keys and lost answers, on all seven engines, bare or
soft-deleting. Assumed (`StorageAssumption`) is only that the keys are 1 to some number, two at least, and that
no client is named like the writer of the first rows. A single invariant for 7 engines times 9 operations is
possible because a plan is judged by what its calls are like, not by name: `PlansAreOK` says of every plan
which calls may refuse, that no write comes before a call that may refuse (but where the engine reads back), and that whoever
writes in place has looked within its scope before (`Fits`, `SureWrite`, `Looked`); `Effects` says of every call what it may do to
a table and to the caller's locals. `TableInv` then relates a client to the call it is at. `Standing`: tables hold rows, one a
key outside ClickHouse, and clients are inside their plans. `Accounted`: a client that is not audited has no row of its
own; a row of an Elasticsearch batch that failed is known to it until it is undone. `Walked`: what a walk must not miss is
behind the cursor once in what it got, or ahead of it and listable. Neither says that an answered create
stays: that needs what a rival may still be about to do. `CreatedInv` adds that a creation that goes on has the rows it stored so
far, or one with the right to take them has begun (`Excused`), and that a client about to put a row at a
key it found free has not the key of a creation answered before it began (`Apart`), which is
where generated keys and explicit ones meet.

**ScriptsProofs** (the pools, then the engines with their sources). `PermitsAreBacked` from `PoolInv`: idle engines are free permits plus callers
between grant and pop or between push and post; whoever waits is in line and the line is
empty once the semaphore is closed; callers that hold an engine hold one; builders are
counted in `total`. Counting lemmas (`OneMoves` and its kin) say how the size of a set of callers changes
when one moves. `PoolsAreSound` from `OwnInv`: queue and hands are disjoint and without repetition, none of
their engines was closed or lost, and `LiveCounted`: engines born and being built are `total`, which is
what bounds the queue by the cap and makes the full-queue branch of `release` dead code.

`EnginesHold` (`LoadsHold`) and `EngineRunsAreTheirOwn` are from `EngineInv`, one lemma per action of
`ScriptEngines`; the assumptions are that callers, loops and versions have names of their own
(`ScriptsAssumption`). None of the three parts of `LoadsHold` is inductive alone. `ThreadsInv`: the sender leads to a thread
that is up, and while no close met an init halfway every thread that is up is the sender's or awaited by a
close; hence a quiet engine has no thread to take a command. `FlagInv`: a lua run that no
other overlaps owns the trip flag. `StringsInv`: the programs of Starlark's set that came as text are those
of the runs answered ok. `CachedInv` and `CalmInv`: a version older than what a caller may not fall short of is
neither in flight nor in the cache, unless the stream still has a tick that evicts it.

**ResilienceProofs.** `OneTrialAtATime` and `TrialKeepsItsTurn` from `TrialInv`: a trial in flight implies
`trying` and no orphan, an orphan implies `trying`, `trying` implies half-open. `RingStep`: whatever is
done to the ring leaves a ring, for any number and length of buckets. `InflationIsNotNegative` from
`LatencyInv` (above a floor of zero, baseline and smoothed time are zero together) is for any floors; of a floor of zero, which
the settings accept, the property claims nothing (section 5). `RateIsKept`: over any window, what was admitted is at most the burst plus
what flowed in, unless a caller passed at the clock's resolution (`edge`). The meter alone is
not inductive; the invariant is that meter plus the level the next look will find is at
most the burst, for every burst, rate and token size. `LimitsAreKept` adds `BbrInv`: what BBR counts in
flight is the number of callers it admitted and has not heard of again, for any ring and any callers;
the number of a finite set's members moves by one with each admission and each `done()`.

`GuardsAreKept` (`GuardsAccount`) is for any tries, budgets, delays, jitters, shapes of health checks, capacities,
times to live, clients, samples and bounds of histograms; assumed is what
`MCResilience` says of its constants (`RetryAssumption`, `HealthAssumption`, `KvAssumption`, `MetricsAssumption`).
Its parts:
`RetryInv` (what an execution slept is behind it, what it sleeps for ends within the budget); `HealthInv` (a probe that
runs has a child to ask and a check to hear it, a verdict is of the probes that are there); `KvInv` (the order of eviction
lists a key once and no more than the capacity, the time left is the time asked for, a lock that was not evicted is alone on
a fresh key). For Datadog, `LinesInv`: the lines told are
spread over piles (in hand, in the buffer, taken by the flusher, sent, dropped at exit), every line is on one pile and
stays in order there (`Sorted`), and a step either moves a whole pile or puts the next line on one
(`PileMoved` and its kin). For Prometheus, `Kept` relates the tables to the history of samples: the label keys of a name
are those of its first sample, the registry holds the names that own a collector, an entry of a table is
a name with its keys, and the value of a series is the sum of the samples it stands for. That sum is a fold, and
that canonical labels are the same for every order of the same labels is about an insertion sort. Both
are inductions over data, done without the library's theorems (`Induct`): the set of counterexamples
below a bound is a concrete set, and has a least element since < is well-founded on Nat. `Recursion` gives
recursive functions on Nat their equations the same way.

**WorkProofs.** `TransactionsAreWhole` from `DtmInv`: what the initiator knows lags what the server
records (`InitiatorInv`), branches are tried before they are decided and all one way
(`BranchesInv`), a message is submitted only once its business call took effect
(`MessageFollowsBusiness`), and what the caller was told is backed by the server's record
(`ToldAsDone`). `ClaimsAreBounded` from `QueueInv`: while nothing has lapsed, a task has at most one
trace among row, channel, handler and ack (`QuietInv`); and claims, plus attempts not yet claimed,
plus traces that will retry, are at most the budget plus the lapses (`BudgetInv`).

`EverythingHandledOnce` (`HandledOnceByItsOwn`) is of cron and the bridge: a delivery goes to the first subscription that matches, and no other. `CronInv`: the ticks keep the phase
of the first, every minute that began since the start and whose tick is behind has fired (`OnCourse`), and the next tick
comes after the second in which a minute fired (`CronTicks`). It assumes that a timer is served before the first
second of the next half minute is over (`MaxLate + Second <= Half * Second`) and that two field values do not
overflow a field's word. `MqttInv`: the deliveries that wait belong to a subscription, and the one in hand
is with its own. The bridge's matching loop gives what the standard says of filters and topics (`MatchesStandard`), by
induction over the levels (`Induct`), for well-formed filters of any length and any number of levels.

**ClientsProofs.** `TasksStayReachable` from `RegistrarInv` (a running task belongs to the newest handle of
its key or to one registered over) together with the broker's and the watch's states.
`NobodyOutOfTurn` from `BrokerInv` (what travels between a pump and its server names a key of the
subscription table, nothing leads to the lookup of a handler after its unsubscribe; what runs then was looked up before) and `WatchInv`: versions never fall along
the way from backend over fetch, channel and cache to the consumer. Each end of the
way alone is not inductive, since a late fetch may carry an older state.

`StreamsAreReadBack` (`StreamReadsBack`) is of the chat client, up to and with the first Finish or decode error, for any scripts, embedding bodies and cuts of the body
at line ends. Assumed (`ChatAssumption`) is that scripts and data are lists, that an index is a number, and
that a server sends nothing but blank lines and comments after `[DONE]`: the code would hand out what stood behind
it in the same chunk. `ChatInv`: what the consumer got, with what waits in `pending`, is what the lines up to the last
line end say (`Upto`), and the stream is done with all of them or with the one that closes it. That a chunk between two line
ends says what its lines say (`ChunkSays`) is an induction along its symbols with a case for each place in a
line (`ScanSteps`); its first symbol may be the newline the chunk before left out, which `drain_lines` took for the
end of an empty line. `VectorsArePlaced` counts: with the indexes 0 to n - 1 each given once, as many data stand
at or before one as its index says.

**EdgeProofs** (the http edge). `EdgeGuards` (`EdgeDecides`) for any stacks, CORS policies, guards, claims and
permissions; assumed is only that switches are on or off, that no origin is the wildcard and that
`None` is no header (`EdgeAssumption`). The ground is `Stack`: however it was wrapped, a chain holds
each enabled layer once, in the order of `Rank`, so that a request is inside of exactly the layers
ranked before the one it stands at (`InsideIsBefore`). `PathInv` says where a request can be and
how its handler stands then; a preflight is never inside of CORS. `GuardInv`: whoever is behind a guard has
passed it, and an answer of a guard or an extractor went to nobody who is entitled. `TraceInv` and
`CorsInv`: what a layer adds to an answer is on it exactly when the answer has left that layer, which is
why neither is about the end of a request only. What the stamps mean to a browser is then
a question to the policy alone (`PagesReadWhatTheyMay`, `PreflightsGrantTheListed`).

**EdgeProofs** (the assembly). `AssemblyStands` (`AssemblyHolds`) for any documents, factories and features;
assumed is that the lists of a document are lists and that it names one registry at most
(`DocumentAssumption`: the registry section is one record, `BootstrapConfig`). `BuildSteps` says what the steps of
`build()` have in common, `Place` gives its sections their order, and each part of the invariant is
about what is done by the time a section is reached: what its entries named is among the engines
(`SectionInv`), the sources are a prefix of the document's (`SourceInv`), the guards of
the endpoints and of every mounted route name engines that are there (`EndpointInv`, `ServerInv`), the
servers up to some index and no others are bound and mounted. `AnnounceInv` ties announcement and
handle to the end of the build: this is what makes a failure clean, since nothing can fail once the
handle is held. `HookInv` knows the hooks that are left: scripts may be open only while theirs is, and
the instance may be announced only while its is, unless the deregistration failed. That a
server mounts exactly what its entry lists is counted (`MountedCount`): fewer routes than
entries would have been a clash, which panics.

**VerdictProofs** (authn, authz). `VerdictsStand` (`VerdictsAreCurrent`) from `VerdictInv`, three invariants side by side.
`HandshakeInv` is about the one request: what it carries was minted, or was made up and then proves nothing;
what an engine has read in a first step (a secret, a digest still to be compared) was there at a moment
of the request, so that the verdict it reaches is one that was right then, however the callback's source, the
session store and the clock moved meanwhile. It rests on lemmas about texts: two HMAC credentials that are equal are of one key id, secret and stamp
(`HmacInjective`), one whose key id holds no dot reads back (`PlainParses`), and one whose key id
holds a dot never parses (`DotsNeverParse`).
`InstallInv` knows, while nobody is between the two writes of an rbac install and the last install ran alone, that the tables
are those of the last policy; `Shows` is then kept by every later step because a list is judged by the policy it was taken
under. Roles: `resolve_roles` is a recursion whose visited set only grows. Each call visits a new name or goes on in a finite
list, so it ends (`Lighter`, `Descent`); its result holds every membership of every name it visits (`WalkFinds`), hence is
the least closed set (`RolesAreReachable`). Patterns: prefix and suffix tests are the glob they stand for
(`PatternIsGlob`). Rules: deny and allow are existential, so their order is nothing. Numbers: a claim that fits reads back, at
any width (`Powers` for the bounds of the casts).
Assumed is `HandshakeAssumption` (names and passwords are text, and names are letters and separators, never
one of the atoms that stand for a whole time or digest; the clock and the skew are whole seconds) and `PolicyAssumption`: memberships are a
finite map (a `HashMap` out of JSON), the rules and the pairs are lists (`Vec`), a pattern has its wildcard first, last
or not at all (the prefix and suffix forms the engines' docs name; elsewhere `matches_pattern` takes it as a literal), and no policy is called "none",
the model's word for no policy yet.

The proofs are long: a module takes up to ten minutes. Leaves that took more than a second or two name their prover
and its time limit (`SMTT(60)`, `ZenonT(60)`), so that a slower machine proves them too.

**Only model-checked, and why.** Liveness, and the fairness half of the refinement of `AppContract`: fairness is
ENABLED, which the prover does not have. `EnginesAgree`: `Filters` evaluates conditions and `LIKE` by
recursive operators, with which the SMT backend is lost. Of `WalksAreRight` the tree's half
(`QuietWalksAreRight`): which rows lie below another is a reachability over any parent map.
The library's
induction theorems cannot be instantiated here, so induction over data is reached where it can be
put as a least element of a concrete set (`Induct` in four proof modules, `Descent` in `VerdictProofs`). That was not carried
through for `RequestsAsWritten` (the binder's walks over lists). `FinishedIsFinal`, `TripIsEarned` and the other action
properties no theorem names are model-checked too.

## 7. Not modelled

Inside the modelled parts: log lines; the content of messages, rows and scripts beyond what
a property tells apart; a second call of `run` on one `App`; the growth of the cache's maps;
overflow of counters incremented once per request; floating point beyond rounding of a delay (token
bucket) and the sign of a probability (sres); columns other than key, owner and tombstone in `Storage`
(filters, sorts and masks are judged by `Filters` and `Endpoints`); sort clauses; JSON, bind-address and duration
strings; body streaming; value bridges and wall-clock budgets of the script engines; cache time-to-live of
`CachedSource`; the fields of a registered instance; broker payloads and headers; whether wtransport's `accept()`
can stall after the handshake; request handlers that h3 spawns detached. Memory ordering: the counters
are single atomics, for which relaxed operations interleave as modelled; everything else is
behind a mutex.

Outside, by "components" with status not_modelled: the derive macros, wire types and migrations of storage;
the observe decorator (it passes calls through); gen-http (it runs at build time, `Endpoints` models the
routes it writes); the tracer; codecs; the script manager and factory (`Assembly` has the two calls bootstrap
makes); object-store clients; the testkit, which was read for what it promises.
