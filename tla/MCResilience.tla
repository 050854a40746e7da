---------------------------- MODULE MCResilience ----------------------------
(***************************************************************************)
(* Instances for TLC of what stands between a caller and a backend that    *)
(* fails, and what is told of it: the breakers, the two rate limiters,     *)
(* retries, health checks, the caches and the metrics.  They share no      *)
(* state in the code, so one run explores them one at a time: turn is the  *)
(* one that runs, the others keep still.                                   *)
(***************************************************************************)
EXTENDS Breaker, RateLimiters, Sequences

CONSTANTS
  Tries, Budgets, NoBudget, Initial, Factor, Ceiling, Jitters, MaxCallTime, MaxLag,  \* of a retry: see Retry.tla
  Parts, Shapes, MaxChanges, MaxChecks,                       \* of the health checks: see Health.tla
  Keys, Capacity, Ttls, NoTtl, Endless, DefaultTtls, MaxKvCalls,  \* of the caches: see KvCache.tla
  Samples, Foreign, Sizes, MaxSamples,                        \* of the metrics: see Metrics.tla
  k1, k2, k3

ASSUME RetryAssumption ==
  /\ Tries \subseteq Nat /\ Budgets \ {NoBudget} \subseteq Nat
  /\ Jitters \subseteq {"none", "full", "equal"}
  /\ {Initial, Factor, Ceiling, MaxCallTime, MaxLag} \subseteq Nat

\* A checker looks at one component at least.
ASSUME HealthAssumption ==
  \A n \in DOMAIN Shapes :
    /\ Shapes[n].kind \in {"leaf", "all", "any"}
    /\ Shapes[n].of \in Seq(Parts) /\ Shapes[n].of # <<>>

\* No time, and time past the clock's range, are not numbers; a client is
\* somebody.
ASSUME KvAssumption ==
  /\ Capacity \in Nat /\ Ttls \ {NoTtl, Endless} \subseteq Nat
  /\ DefaultTtls \ {NoTtl, Endless} \subseteq Nat
  /\ NoTtl \notin Nat /\ Endless \notin Nat /\ NoTtl # Endless
  /\ "nobody" \notin Callers

\* A label is a key and a value, the empty string 0; an amount is a number.
ASSUME MetricsAssumption ==
  \A s \in Samples : /\ s.kind \in {"counter", "gauge", "histogram"} /\ s.value \in Nat
                     /\ s.labels \in Seq(Nat \X Nat)

VARIABLES
  turn,
  config, attempt, stage, drawn, elapsed, rested, refused,
  registered, component, check, probe, verdict, seen, changes, checks,
  engine, default_ttl, entries, value, left, poisoned, kvCalls, locks, leftFor, evicted, hasty,
  backend, size, told, tables, labelKeys, registry, series, buffer, at, flusher, provider, stop, sent, exited

retryVars == <<config, attempt, stage, drawn, elapsed, rested, refused>>
healthVars == <<registered, component, check, probe, verdict, seen, changes, checks>>
kvVars == <<engine, default_ttl, entries, value, left, poisoned, kvCalls, locks, leftFor, evicted, hasty>>
metricsVars == <<backend, size, told, tables, labelKeys, registry, series, buffer, at, flusher, provider,
                 stop, sent, exited>>

R == INSTANCE Retry WITH delay <- drawn, slept <- rested
MCShapes == [db |-> [kind |-> "leaf", of |-> <<k1>>],
             mirrors |-> [kind |-> "any", of |-> <<k1, k2>>],
             stores |-> [kind |-> "all", of |-> <<k2, k1>>]]
H == INSTANCE Health WITH part <- component, since <- seen
Q == INSTANCE KvCache WITH Clients <- Callers, Engines <- {"local", "redis"}

\* Samples: two spellings of one label set, a missing and a foreign key, a key
\* given twice, one name for two kinds and for two forms.
Sample(kind, name, amount, labels) == [kind |-> kind, name |-> name, value |-> amount, labels |-> labels]
AllSamples ==
  {Sample("counter", "m", 2, <<>>), Sample("counter", "m", 2, <<<<1, 5>>, <<2, 6>>>>),
   Sample("counter", "m", 3, <<<<2, 6>>, <<1, 5>>>>), Sample("counter", "m", 5, <<<<2, 6>>>>),
   Sample("gauge", "m", 7, <<<<1, 5>>>>), Sample("gauge", "n", 4, <<>>), Sample("gauge", "n", 1, <<>>),
   Sample("histogram", "n", 2, <<<<1, 5>>, <<1, 6>>>>), Sample("histogram", "n", 3, <<<<1, 5>>>>)}
M == INSTANCE Metrics WITH
       Engines <- {"prometheus", "otel", "datadog"}, engine <- backend

Kinds == {"breaker", "bucket", "bbr", "retry", "health", "cache", "metrics"}

\* The variables of the parts that do not run have one value each.
Still ==
  /\ turn # "breaker" => Init /\ flavor = "vegas" /\ min_rtt = 1
  /\ turn # "bucket" => BucketInit /\ burst = 9
  /\ turn # "retry" => R!RetryInit /\ config = [tries |-> 1, budget |-> NoBudget, backoff |-> "fixed", jitter |-> "none"]
  /\ turn # "health" => H!HealthInit /\ component = [p \in Parts |-> "up"]
  /\ turn # "cache" => Q!KvInit /\ engine = "local" /\ default_ttl = NoTtl
  /\ turn # "metrics" => backend = "otel" /\ size = 0 /\ registry = {}

ResilienceInit ==
  /\ turn \in Kinds
  /\ Init /\ BucketInit /\ BbrInit /\ R!RetryInit /\ H!HealthInit /\ Q!KvInit
  /\ M!MetricsInit
  /\ Still

resilienceVars == <<turn, vars, bucketVars, bbrVars, retryVars, healthVars, kvVars, metricsVars>>

\* A step of one part.
InBreaker(step) == turn = "breaker" /\ step /\ UNCHANGED <<turn, bucketVars, bbrVars, retryVars, healthVars, kvVars, metricsVars>>
InBucket(step) == turn = "bucket" /\ step /\ UNCHANGED <<turn, vars, bbrVars, retryVars, healthVars, kvVars, metricsVars>>
InBbr(step) == turn = "bbr" /\ step /\ UNCHANGED <<turn, vars, bucketVars, retryVars, healthVars, kvVars, metricsVars>>
InRetry(step) == turn = "retry" /\ step /\ UNCHANGED <<turn, vars, bucketVars, bbrVars, healthVars, kvVars, metricsVars>>
InHealth(step) == turn = "health" /\ step /\ UNCHANGED <<turn, vars, bucketVars, bbrVars, retryVars, kvVars, metricsVars>>
InCache(step) == turn = "cache" /\ step /\ UNCHANGED <<turn, vars, bucketVars, bbrVars, retryVars, healthVars, metricsVars>>
InMetrics(step) == turn = "metrics" /\ step /\ UNCHANGED <<turn, vars, bucketVars, bbrVars, retryVars, healthVars, kvVars>>

ResilienceNext ==
  \/ InBreaker(Next) \/ InBucket(BucketNext) \/ InBbr(BbrNext)
  \/ InRetry(R!RetryNext) \/ InHealth(H!HealthNext) \/ InCache(Q!KvNext)
  \/ InMetrics(M!MetricsNext)

\* Clocks and the flush thread run, whoever asked comes back for more, calls end,
\* and a drop of the metrics provider that began is carried through.
ResilienceFair ==
  /\ WF_resilienceVars(\/ InBreaker(Tick)
                       \/ InBucket(Flow)
                       \/ InBbr(BbrTick)
                       \/ InRetry(R!RetryNext)
                       \/ InHealth(H!Aggregate \/ \E n \in DOMAIN Shapes : H!ProbeNext(n))
                       \/ InMetrics(M!FlusherStep))
  /\ \A c \in Callers :
       /\ WF_resilienceVars(\/ InBreaker(Asks(c))
                            \/ InBucket(LookAgain(c) \/ Wake(c))
                            \/ InBbr(BbrPoll(c))
                            \/ InMetrics(M!FlushFull(c) \/ M!SendFull(c)))
       /\ WF_resilienceVars(\/ InBreaker(Marks(c) \/ Dropped(c))
                            \/ InBbr(\E rtt \in BbrRtts : Done(c, rtt))
                            \/ InMetrics(provider # M!Here("shared") /\ M!Drop))

ResilienceSpec == ResilienceInit /\ [][ResilienceNext]_resilienceVars /\ ResilienceFair

-----------------------------------------------------------------------------
\* The limiters let through what they may: over every stretch of time a bucket
\* hands out no more than a burst and what flowed in (RateLimiters.tla:
\* RateHolds), and what bbr counts in flight is what it admitted and what has
\* not come back, whoever raced and whatever was dropped.
LimitsHold == RateHolds /\ BbrAccounts

\* A retry stays within its attempts and its budget, a health verdict speaks for
\* the components it covers, a cache answers what is in force and gives a lock
\* to one owner; no sample is counted twice or put in another's series, nor lost
\* but where its name is held for another kind or form of labels, or by a foreign
\* instrument, which drops it silently (the modules of the same names).
GuardsAccount ==
  /\ InflationNotNegative /\ BbrTypeOK
  /\ R!RetryHolds /\ H!VerdictSpeaks /\ Q!KvTypeOK /\ Q!CacheHolds
  /\ turn = "metrics" => M!SamplesAddUp /\ M!LinesLeaveOnce

\* A breaker trips on outcomes it was shown since it recovered, and forgets an
\* idle window; an opened one is tried again; whoever waits for a limiter is
\* answered once the others ask no more (RateLimiters.tla); retries and checks end, and every datadog line leaves.
TripsEarnedWaitsEnd ==
  /\ TripIsEarned /\ IdleWindowForgotten
  /\ []<>/\ (flavor = "hystrix" /\ state = "open") => (shut \/ calls = MaxCalls)
          /\ \A c \in Callers : BucketWaitsEnd(c) /\ BbrWaitsEnd(c)
          /\ turn = "retry" => R!RetryEnds
          /\ H!ChecksEnd
          /\ M!AllLeft
=============================================================================
