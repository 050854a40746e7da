---------------------------- MODULE RateLimiters ----------------------------
(***************************************************************************)
(* The two engines of rushwind-ratelimit.                                  *)
(*                                                                         *)
(* rushwind-ratelimit-tokenbucket: callers that take whole tokens from one *)
(* bucket, some at once (allow), some asleep until enough has flowed in    *)
(* (wait).  Tokens are counted in units, Token of them to a token, of      *)
(* which Rate flow in at each tick of the clock; a tick is the clock's     *)
(* resolution, to which a delay is rounded.  Real arithmetic is exact here.*)
(*                                                                         *)
(* rushwind-ratelimit-bbr: a limit on the requests in flight, computed at  *)
(* every admission from the completions and round-trip times in a ring of  *)
(* buckets (BucketRing, whose requests are the counts and whose errors are *)
(* the total times).  A tick is a second; times are whole ticks.           *)
(***************************************************************************)
EXTENDS Integers, FiniteSets

CONSTANTS
  Token,     \* the units of one token
  Rate,      \* the units that flow in per tick
  Bursts,    \* the capacities tried, in units
  Takers,
  MaxTakes,  \* bound: takes of allow and wait
  BbrBuckets,     \* bucket_count
  BbrTicks,       \* the ticks of a bucket
  MinQps,         \* min_qps
  ThresholdNum, ThresholdDen,  \* cpu_threshold
  BbrRtts,        \* the round-trip times a caller reports
  BbrCallers,
  MaxBbrAsked     \* bound: calls of allow and wait

ASSUME BucketAssumption ==
  /\ Token \in Nat \ {0}
  /\ Rate \in Nat \ {0}
  /\ Bursts \subseteq Nat \ {0}
  /\ MaxTakes \in Nat

ASSUME BbrAssumption ==
  /\ {BbrBuckets, BbrTicks, ThresholdDen} \subseteq Nat \ {0}
  /\ {MinQps, ThresholdNum, MaxBbrAsked} \subseteq Nat
  /\ BbrRtts \subseteq Nat
  /\ IsFiniteSet(BbrCallers)

VARIABLES
  burst,     \* the capacity
  tokens,    \* State::tokens
  accrued,   \* what flowed in since State::last, up to the capacity
  tbClosed,  \* State::closed
  waiter,    \* caller -> "idle", "ready" to look or "asleep" in wait
  delay,     \* caller -> the ticks it still sleeps
  takes,
  meter,     \* what was admitted in the worst window ending now, less what flowed in over it
  edge,      \* a caller was let through that lacked less than half a tick's refill
  bbrPhase, bbrSince, counts, rtts,  \* the ring
  inflight, max_inflight, bbrClosed,
  request,   \* caller -> "idle", "waiting" in wait's loop, "admitted" or "lost"
  bbrAsked   \* calls of allow and wait so far

bucketVars == <<burst, tokens, accrued, tbClosed, waiter, delay, takes, meter, edge>>
bbrVars == <<bbrPhase, bbrSince, counts, rtts, inflight, max_inflight, bbrClosed, request, bbrAsked>>

-----------------------------------------------------------------------------
(* The token bucket.                                                       *)
Least(a, b) == IF a < b THEN a ELSE b

\* Mutant of Replenished: the burst does not cap what flowed in.
ReplenishedUncapped == tokens + accrued

\* take_locked first adds what flowed in since the last take.
Replenished == Least(tokens + accrued, burst)

\* Duration::from_secs_f64 of the deficit over the rate, to the nearest tick.
Wait == IF Replenished >= Token
        THEN 0
        ELSE (2 * (Token - Replenished) + Rate) \div (2 * Rate)

\* take_locked(1.0): a caller told not to wait goes on, and has paid only if
\* there was a whole token.
TakeLocked ==
  /\ tokens' = IF Replenished >= Token THEN Replenished - Token ELSE Replenished
  /\ accrued' = 0
  /\ meter' = IF Wait = 0 THEN meter + Token ELSE meter
  /\ edge' = (edge \/ (Wait = 0 /\ Replenished < Token))

BucketInit ==
  /\ burst \in Bursts
  /\ tokens = burst
  /\ accrued = 0
  /\ tbClosed = FALSE
  /\ waiter = [c \in Takers |-> "idle"]
  /\ delay = [c \in Takers |-> 0]
  /\ takes = 0
  /\ meter = 0
  /\ edge = FALSE

\* A closed limiter rejects without looking at the bucket.
Allow(c) ==
  /\ waiter[c] = "idle"
  /\ takes < MaxTakes
  /\ ~tbClosed
  /\ takes' = takes + 1
  /\ TakeLocked
  /\ UNCHANGED <<burst, tbClosed, waiter, delay>>

StartWait(c) ==
  /\ waiter[c] = "idle"
  /\ takes < MaxTakes
  /\ takes' = takes + 1
  /\ waiter' = [waiter EXCEPT ![c] = "ready"]
  /\ UNCHANGED <<burst, tokens, accrued, tbClosed, delay, meter, edge>>

\* One turn of wait's loop: Limited once closed, else take, else sleep.
LookAgain(c) ==
  /\ waiter[c] = "ready"
  /\ \/ /\ tbClosed
        /\ waiter' = [waiter EXCEPT ![c] = "idle"]
        /\ UNCHANGED <<tokens, accrued, delay, meter, edge>>
     \/ /\ ~tbClosed
        /\ TakeLocked
        /\ waiter' = [waiter EXCEPT ![c] = IF Wait = 0 THEN "idle" ELSE "asleep"]
        /\ delay' = [delay EXCEPT ![c] = Wait]
  /\ UNCHANGED <<burst, tbClosed, takes>>

Wake(c) ==
  /\ waiter[c] = "asleep"
  /\ delay[c] = 0
  /\ waiter' = [waiter EXCEPT ![c] = "ready"]
  /\ UNCHANGED <<burst, tokens, accrued, tbClosed, delay, takes, meter, edge>>

\* Dropping the future of wait takes nothing back and gives nothing.
DropWait(c) ==
  /\ waiter[c] \in {"ready", "asleep"}
  /\ waiter' = [waiter EXCEPT ![c] = "idle"]
  /\ delay' = [delay EXCEPT ![c] = 0]
  /\ UNCHANGED <<burst, tokens, accrued, tbClosed, takes, meter, edge>>

CloseBucket ==
  /\ ~tbClosed
  /\ tbClosed' = TRUE
  /\ UNCHANGED <<burst, tokens, accrued, waiter, delay, takes, meter, edge>>

\* A tick of the clock.
Flow ==
  /\ accrued' = Least(accrued + Rate, burst)
  /\ delay' = [c \in Takers |-> IF delay[c] > 0 THEN delay[c] - 1 ELSE 0]
  /\ meter' = IF meter > Rate THEN meter - Rate ELSE 0
  /\ UNCHANGED <<burst, tokens, tbClosed, waiter, takes, edge>>

BucketNext ==
  \/ \E c \in Takers : \/ Allow(c) \/ StartWait(c) \/ LookAgain(c) \/ Wake(c) \/ DropWait(c)
  \/ CloseBucket
  \/ Flow

BucketSpec == BucketInit /\ [][BucketNext]_bucketVars

BucketTypeOK ==
  /\ burst \in Bursts
  /\ tokens \in Nat /\ accrued \in Nat /\ meter \in Nat /\ takes \in Nat
  /\ tbClosed \in BOOLEAN /\ edge \in BOOLEAN
  /\ waiter \in [Takers -> {"idle", "ready", "asleep"}]
  /\ delay \in [Takers -> Nat]

\* Over every stretch of time, wherever it begins, the callers admitted by
\* allow and wait together are worth no more than one burst and what flowed
\* in over that stretch (tokenbucket/src/lib.rs:82), unless one of them came
\* within half a tick of a whole token: it passes without paying.
RateHolds == ~edge => meter <= burst

\* A caller of wait is answered in the end, if the bucket can hold a token and
\* the others stop taking, as MaxTakes makes them.  While they go on they may
\* take every token before it looks again: there is no queue (lib.rs:128-142).
BucketWaitsEnd(c) == burst < Token \/ waiter[c] = "idle"
-----------------------------------------------------------------------------
(* The BBR limiter.                                                        *)
Ring == INSTANCE BucketRing WITH Buckets <- BbrBuckets, BucketTicks <- BbrTicks,
          phase <- bbrPhase, since <- bbrSince, reqs <- counts, errs <- rtts

BbrWindow == BbrBuckets * BbrTicks

\* The share of a rate that may be in flight: (qps * cpu_threshold) as u64.
Share(num, den) == (num * ThresholdNum) \div (den * ThresholdDen)
Larger(a, b) == IF a > b THEN a ELSE b

\* The smallest average time of a bucket with completions.
ShortestRtt(c, r) ==
  LET busy == {i \in Ring!Slots : c[i] > 0}
  IN  CHOOSE m \in {r[i] \div c[i] : i \in busy} : \A i \in busy : m <= r[i] \div c[i]

\* estimate_max_qps_locked, scaled by the threshold: completions per tick, but
\* no more than the window over the smallest time and no less than min_qps.
\* Rounding down commutes with taking the smaller and the larger.
Estimate(c, r) ==
  LET floor == Share(MinQps, 1)
      total == Ring!Sum(c)
  IN  IF total = 0 \/ ShortestRtt(c, r) = 0
      THEN floor
      ELSE LET passed == Larger(Share(total, BbrWindow), floor)
               most == Share(BbrWindow, ShortestRtt(c, r))
           IN  Larger(IF most < passed THEN most ELSE passed, floor)

Limit(c, r) == Larger(Estimate(c, r), 1)

BbrInit ==
  /\ Ring!RingInit
  /\ inflight = 0 /\ max_inflight = 0 /\ bbrClosed = FALSE
  /\ request = [c \in BbrCallers |-> "idle"]
  /\ bbrAsked = 0

\* BbrLimiter::allow of an open limiter, for a caller that goes on as `how` if
\* it is turned away.
Ask(c, how) ==
  /\ ~bbrClosed
  /\ Ring!Rotate
  /\ max_inflight' = Limit(counts', rtts')
  /\ IF inflight >= max_inflight'
     THEN /\ request' = [request EXCEPT ![c] = how]
          /\ UNCHANGED inflight
     ELSE /\ inflight' = inflight + 1
          /\ request' = [request EXCEPT ![c] = "admitted"]
  /\ UNCHANGED bbrClosed

BbrAllow(c) ==
  /\ request[c] = "idle"
  /\ bbrAsked < MaxBbrAsked
  /\ bbrAsked' = bbrAsked + 1
  /\ Ask(c, "idle")

BbrWait(c) ==
  /\ request[c] = "idle"
  /\ bbrAsked < MaxBbrAsked
  /\ bbrAsked' = bbrAsked + 1
  /\ request' = [request EXCEPT ![c] = "waiting"]
  /\ UNCHANGED <<bbrPhase, bbrSince, counts, rtts, inflight, max_inflight, bbrClosed>>

\* wait's loop, every ten milliseconds: Limited once closed.
BbrPoll(c) ==
  /\ request[c] = "waiting"
  /\ UNCHANGED bbrAsked
  /\ \/ Ask(c, "waiting")
     \/ /\ bbrClosed
        /\ request' = [request EXCEPT ![c] = "idle"]
        /\ UNCHANGED <<bbrPhase, bbrSince, counts, rtts, inflight, max_inflight, bbrClosed>>

\* saturating_sub(1).
Finished == IF inflight > 0 THEN inflight - 1 ELSE 0

Done(c, rtt) ==
  /\ request[c] = "admitted"
  /\ inflight' = Finished
  /\ \E between \in BOOLEAN : Ring!Count(rtt, between)
  /\ request' = [request EXCEPT ![c] = "idle"]
  /\ UNCHANGED <<max_inflight, bbrClosed, bbrAsked>>

\* The caller's future is dropped before it could call done.
Lose(c) ==
  /\ request[c] = "admitted"
  /\ request' = [request EXCEPT ![c] = "lost"]
  /\ UNCHANGED <<bbrPhase, bbrSince, counts, rtts, inflight, max_inflight, bbrClosed, bbrAsked>>

BbrClose ==
  /\ ~bbrClosed
  /\ bbrClosed' = TRUE
  /\ UNCHANGED <<bbrPhase, bbrSince, counts, rtts, inflight, max_inflight, request, bbrAsked>>

BbrTick ==
  /\ Ring!RingTick
  /\ UNCHANGED <<inflight, max_inflight, bbrClosed, request, bbrAsked>>

BbrNext ==
  \/ \E c \in BbrCallers : \/ BbrAllow(c) \/ BbrWait(c) \/ BbrPoll(c) \/ Lose(c)
                           \/ \E rtt \in BbrRtts : Done(c, rtt)
  \/ BbrClose
  \/ BbrTick

BbrSpec == BbrInit /\ [][BbrNext]_bbrVars

BbrTypeOK ==
  /\ Ring!RingTypeOK
  /\ inflight \in Nat /\ max_inflight \in Nat /\ bbrAsked \in 0..MaxBbrAsked
  /\ request \in [BbrCallers -> {"idle", "waiting", "admitted", "lost"}]

\* What is in flight is what was admitted and has not come back, those that
\* never will included (bbr/src/lib.rs:163).
BbrAccounts ==
  inflight = Cardinality({c \in BbrCallers : request[c] \in {"admitted", "lost"}})

\* A caller of wait is answered in the end, unless a lost one keeps its place, if
\* the others stop asking, as MaxBbrAsked makes them: it polls, and a caller that
\* comes between two polls takes the place (bbr/src/lib.rs:270-281).
BbrWaitsEnd(c) == request[c] # "waiting" \/ \E d \in BbrCallers : request[d] = "lost"
=============================================================================
