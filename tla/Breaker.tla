-------------------------------- MODULE Breaker --------------------------------
(***************************************************************************)
(* rushwind-circuitbreaker: the allow / mark protocol as `execute` follows *)
(* it, over the three engines that implement it.                           *)
(*                                                                         *)
(* Any number of callers share one breaker.  A call asks `allow`, runs its *)
(* closure outside every lock and then marks the outcome, unless its       *)
(* future is dropped first, in which case nothing is marked.  So an        *)
(* outcome may arrive when the breaker has long left the state in which    *)
(* the call was admitted.  Each method holds the engine's lock from end to *)
(* end and is one action, taken at one instant.                            *)
(*                                                                         *)
(* `flavor` is the engine, chosen at the start:                            *)
(*   hystrix  an error rate over a window, a sleep, a trial request;       *)
(*   sres     acceptance with a probability: whatever has a probability    *)
(*            above zero may happen;                                       *)
(*   vegas    the inflation of a smoothed round-trip time.                 *)
(***************************************************************************)
EXTENDS BucketRing, FiniteSets

CONSTANTS
  Callers,       \* tasks that call through the breaker
  Flavors,       \* the engines to consider
  Sleep,         \* hystrix sleep_window, in ticks
  Volume,        \* hystrix request_volume_threshold
  ErrorPercent,  \* hystrix error_threshold
  K,             \* sres k
  Alpha, Beta,   \* vegas alpha and beta, in percent
  Warmup,        \* vegas warmup_samples
  MinRtts,       \* vegas: the values of min_rtt tried
  MaxRtt,        \* vegas max_rtt
  Rtts,          \* round-trip times callers observe
  MaxCalls       \* bound: calls admitted in a behaviour with a window

ASSUME BreakerAssumption ==
  /\ Flavors \subseteq {"hystrix", "sres", "vegas"}
  /\ {Sleep, Volume, ErrorPercent, K, Alpha, Beta, Warmup, MaxRtt,
      MaxCalls} \subseteq Nat
  /\ Rtts \subseteq Nat /\ MinRtts \subseteq Nat

VARIABLES
  flavor,
  shut,       \* closed: what close() sets
  state,      \* "closed" | "open" | "half" (sres derives its state instead)
  slept,      \* opened_at.elapsed(), up to Sleep
  trying,     \* half_open_in: a trial is in flight
  min_rtt,    \* min_rtt_nanos, which may be 0
  base, cur,  \* base_rtt_nanos, current_rtt_nanos
  samples,    \* sample_count, up to Warmup
  role,       \* each caller: idle, refused, or in flight as call, trial, late
  timed,      \* the callers in flight that have reported their latency
  calls,      \* bound: the calls admitted
  marked,     \* history: outcomes counted since construction or recovery
  failed,     \* history: and the failures among them
  orphaned    \* history: the trial of this half-open state was dropped

machine == <<state, slept, trying>>
latency == <<min_rtt, base, cur, samples>>
history == <<marked, failed, orphaned>>
vars == <<ring, flavor, shut, machine, latency, role, timed, calls, history>>

Idle(c) == role[c] \in {"idle", "refused"}
InFlight(c) == role[c] \in {"call", "trial", "late"}

Init ==
  /\ RingInit
  /\ flavor \in Flavors
  /\ shut = FALSE
  /\ state = "closed" /\ slept = 0 /\ trying = FALSE
  /\ min_rtt \in IF flavor = "vegas" THEN MinRtts ELSE {1}
  /\ base = 0 /\ cur = 0 /\ samples = 0
  /\ role = [c \in Callers |-> "idle"]
  /\ timed = {}
  /\ calls = 0
  /\ marked = 0 /\ failed = 0 /\ orphaned = FALSE

-------------------------------------------------------------------------------
(* allow.                                                                  *)

Admit(c, as) ==
  /\ calls < MaxCalls
  /\ role' = [role EXCEPT ![c] = as]
  /\ calls' = IF flavor = "vegas" THEN calls ELSE calls + 1
  /\ UNCHANGED <<flavor, shut, latency, timed, history>>

Refuse(c) ==
  /\ role' = [role EXCEPT ![c] = "refused"]
  /\ UNCHANGED <<flavor, shut, machine, latency, timed, calls, history>>

\* A closed breaker refuses before it looks at anything.
RefusedShut(c) ==
  /\ Idle(c) /\ shut
  /\ Refuse(c)
  /\ UNCHANGED ring

HystrixAdmits(c) ==
  /\ flavor = "hystrix" /\ Idle(c) /\ ~shut /\ state = "closed"
  /\ Rotate
  /\ Admit(c, "call")
  /\ UNCHANGED machine

\* Mutant of HystrixTries: a caller does not look whether a trial is in flight.
HystrixTriesAnyway(c) ==
  /\ flavor = "hystrix" /\ Idle(c) /\ ~shut
  /\ state = "half" \/ (state = "open" /\ slept >= Sleep)
  /\ Rotate
  /\ state' = "half" /\ trying' = TRUE
  /\ Admit(c, "trial")
  /\ UNCHANGED slept

\* The sleep is over, or state() has already ended it: this call is the trial.
HystrixTries(c) ==
  /\ flavor = "hystrix" /\ Idle(c) /\ ~shut
  /\ \/ state = "open" /\ slept >= Sleep
     \/ state = "half" /\ ~trying
  /\ Rotate
  /\ state' = "half" /\ trying' = TRUE
  /\ Admit(c, "trial")
  /\ UNCHANGED slept

HystrixRefuses(c) ==
  /\ flavor = "hystrix" /\ Idle(c) /\ ~shut
  /\ \/ state = "open" /\ slept < Sleep
     \/ state = "half" /\ trying
  /\ Rotate
  /\ Refuse(c)

\* The formula is zero when there are K errors for each request, one when there
\* are no requests, and in between otherwise.
SresAdmits(c) ==
  /\ flavor = "sres" /\ Idle(c) /\ ~shut
  /\ LET requests == Sum(Rotated(reqs))
     IN  requests = 0 \/ requests > K * Sum(Rotated(errs))
  /\ Rotate
  /\ Admit(c, "call")
  /\ UNCHANGED machine

SresRefuses(c) ==
  /\ flavor = "sres" /\ Idle(c) /\ ~shut
  /\ Sum(Rotated(reqs)) > 0
  /\ Rotate
  /\ Refuse(c)

VegasAdmits(c) ==
  /\ flavor = "vegas" /\ Idle(c) /\ ~shut /\ state # "open"
  /\ Admit(c, "call")
  /\ UNCHANGED <<ring, machine>>

VegasRefuses(c) ==
  /\ flavor = "vegas" /\ Idle(c) /\ ~shut /\ state = "open"
  /\ Refuse(c)
  /\ UNCHANGED ring

-------------------------------------------------------------------------------
(* mark_success and mark_failure.                                          *)

Returned(c) == [role EXCEPT ![c] = "idle"]

\* The half-open state is over: its trial, if in flight, is now a late one.
TrialOver(r) == [c \in Callers |-> IF r[c] = "trial" THEN "late" ELSE r[c]]

ErrorRateMet(requests, errors) ==
  /\ requests >= Volume /\ requests > 0
  /\ 100 * errors >= ErrorPercent * requests

HystrixRecovers(c) ==
  /\ flavor = "hystrix" /\ InFlight(c) /\ state = "half"
  /\ Reset
  /\ state' = "closed" /\ trying' = FALSE
  /\ role' = TrialOver(Returned(c))
  /\ marked' = 0 /\ failed' = 0 /\ orphaned' = FALSE
  /\ UNCHANGED <<flavor, shut, slept, latency, timed, calls>>

\* Mutant of HystrixRelapses: half_open_in is left set.
HystrixRelapsesTrying(c) ==
  /\ flavor = "hystrix" /\ InFlight(c) /\ state = "half"
  /\ Rotate
  /\ state' = "open" /\ slept' = 0
  /\ role' = TrialOver(Returned(c))
  /\ orphaned' = FALSE
  /\ UNCHANGED <<flavor, shut, trying, latency, timed, calls, marked, failed>>

HystrixRelapses(c) ==
  /\ flavor = "hystrix" /\ InFlight(c) /\ state = "half"
  /\ Rotate
  /\ state' = "open" /\ slept' = 0 /\ trying' = FALSE
  /\ role' = TrialOver(Returned(c))
  /\ orphaned' = FALSE
  /\ UNCHANGED <<flavor, shut, latency, timed, calls, marked, failed>>

SleptOn == IF slept < Sleep THEN slept + 1 ELSE slept

\* Any other outcome is counted, and may trip a closed breaker.
HystrixCounts(c, error) ==
  /\ flavor = "hystrix" /\ InFlight(c) /\ state # "half"
  /\ \E between \in BOOLEAN :
       /\ Count(error, between)
       /\ IF state = "closed" /\ ErrorRateMet(Sum(reqs'), Sum(errs'))
          THEN state' = "open" /\ slept' = 0
          ELSE state' = state /\ slept' = IF between THEN SleptOn ELSE slept
  /\ role' = Returned(c)
  /\ marked' = marked + 1 /\ failed' = failed + error
  /\ UNCHANGED <<flavor, shut, trying, latency, timed, calls, orphaned>>

SresCounts(c, error) ==
  /\ flavor = "sres" /\ InFlight(c)
  /\ \E between \in BOOLEAN : Count(error, between)
  /\ role' = Returned(c)
  /\ marked' = marked + 1 /\ failed' = failed + error
  /\ UNCHANGED <<flavor, shut, machine, latency, timed, calls, orphaned>>

\* update_rtt: a sample outside [min_rtt, MaxRtt] is ignored.
Sampled(rtt) ==
  IF rtt < min_rtt \/ rtt > MaxRtt
  THEN [base |-> base, cur |-> cur, samples |-> samples]
  ELSE [base |-> IF base = 0 \/ rtt < base THEN rtt ELSE base,
        cur |-> IF cur = 0 THEN rtt ELSE (7 * cur + rtt) \div 8,
        samples |-> IF samples < Warmup THEN samples + 1 ELSE Warmup]

\* evaluate: where the inflation of a sample moves the state from `from`.
Evaluated(from, s) ==
  LET inflation == 100 * (s.cur - s.base)
      inflated == inflation > Alpha * s.base
      healed == inflation < Beta * s.base
  IN  IF s.samples < Warmup \/ s.base = 0 THEN from
      ELSE CASE from = "closed" /\ inflated -> "open"
             [] from = "open" /\ healed -> "half"
             [] from = "half" /\ healed -> "closed"
             [] from = "half" /\ ~healed /\ inflated -> "open"
             [] OTHER -> from

Feed(from, rtt) ==
  LET s == Sampled(rtt)
  IN  /\ base' = s.base /\ cur' = s.cur /\ samples' = s.samples
      /\ state' = Evaluated(from, s)
      /\ UNCHANGED <<slept, trying, min_rtt>>

\* record_latency: a half-open breaker is closed before the sample is judged.
record_latency(rtt) ==
  Feed(IF state = "half" THEN "closed" ELSE state, rtt)

VegasRecords(c) ==
  /\ flavor = "vegas" /\ InFlight(c) /\ c \notin timed
  /\ \E rtt \in Rtts : record_latency(rtt)
  /\ timed' = timed \cup {c}
  /\ UNCHANGED <<ring, flavor, shut, role, calls, history>>

VegasReturns(c) ==
  /\ flavor = "vegas" /\ InFlight(c)
  /\ role' = Returned(c)
  /\ timed' = timed \ {c}
  /\ UNCHANGED <<ring, flavor, shut, calls, history>>

VegasSucceeds(c) ==
  /\ VegasReturns(c)
  /\ record_latency(0)

VegasFails(c) ==
  /\ VegasReturns(c)
  /\ IF state = "half"
     THEN state' = "open" /\ UNCHANGED <<slept, trying, latency>>
     ELSE Feed(state, MaxRtt)

\* The future of execute is dropped while the closure runs: no mark follows.
Dropped(c) ==
  /\ InFlight(c)
  /\ role' = Returned(c)
  /\ timed' = timed \ {c}
  /\ orphaned' = (orphaned \/ role[c] = "trial")
  /\ UNCHANGED <<ring, flavor, shut, machine, latency, calls, marked, failed>>

-------------------------------------------------------------------------------
\* Anybody may look: state() of hystrix moves on by looking.
StateObserved ==
  /\ flavor = "hystrix" /\ state = "open" /\ slept >= Sleep
  /\ state' = "half"
  /\ UNCHANGED <<ring, flavor, shut, slept, trying, latency, role, timed, calls,
                 history>>

Close ==
  /\ ~shut /\ shut' = TRUE
  /\ UNCHANGED <<ring, flavor, machine, latency, role, timed, calls, history>>

\* Time matters to the two engines with a window.
Tick ==
  /\ flavor # "vegas"
  /\ RingTick
  /\ slept' = SleptOn
  /\ UNCHANGED <<flavor, shut, state, trying, latency, role, timed, calls, history>>

Asks(c) ==
  \/ RefusedShut(c)
  \/ HystrixAdmits(c) \/ HystrixTries(c) \/ HystrixRefuses(c)
  \/ SresAdmits(c) \/ SresRefuses(c)
  \/ VegasAdmits(c) \/ VegasRefuses(c)

Marks(c) ==
  \/ HystrixRecovers(c)
  \/ HystrixRelapses(c)
  \/ \E error \in {0, 1} : HystrixCounts(c, error)
  \/ \E error \in {0, 1} : SresCounts(c, error)
  \/ VegasSucceeds(c)
  \/ VegasFails(c)

Next ==
  \/ \E c \in Callers : Asks(c) \/ Marks(c) \/ VegasRecords(c) \/ Dropped(c)
  \/ StateObserved
  \/ Close
  \/ Tick

Spec == Init /\ [][Next]_vars

\* Clocks run, callers come back for more, and every call ends one way or other.
FairSpec ==
  /\ Spec
  /\ WF_vars(Tick)
  /\ \A c \in Callers : WF_vars(Asks(c)) /\ WF_vars(Marks(c) \/ Dropped(c))

-------------------------------------------------------------------------------
(* Properties.                                                             *)

\* Every variable keeps its type; the samples never exceed the warm-up.
TypeOK ==
  /\ RingTypeOK
  /\ flavor \in Flavors
  /\ shut \in BOOLEAN
  /\ state \in {"closed", "open", "half"}
  /\ slept \in 0..Sleep
  /\ trying \in BOOLEAN
  /\ min_rtt \in Nat /\ base \in Nat /\ cur \in Nat
  /\ samples \in 0..Warmup
  /\ role \in [Callers -> {"idle", "refused", "call", "trial", "late"}]
  /\ timed \subseteq {c \in Callers : InFlight(c)}
  /\ calls \in Nat /\ marked \in Nat /\ failed \in Nat
  /\ orphaned \in BOOLEAN

\* allow_locked admits one trial per half-open state: a second caller is never
\* sent to a backend that is being tried, however outcomes of older calls come in.
OneTrialPerSleep ==
  \A c, d \in Callers : role[c] = "trial" /\ role[d] = "trial" => c = d

\* half_open_in blocks every other caller, so it may only be set in the
\* half-open state, and while the call that set it can still clear it.
TrialCanStillDecide ==
  trying => /\ state = "half"
            /\ orphaned \/ \E c \in Callers : role[c] = "trial"

\* evaluate_locked: a breaker that trips has been shown, since it was built or
\* last recovered, at least as many outcomes as the volume threshold asks for and
\* at least the failures that make that volume an error rate over the threshold.
TripIsEarned ==
  [][flavor = "hystrix" /\ state = "closed" /\ state' = "open" =>
       /\ marked' >= Volume
       /\ 100 * failed' >= ErrorPercent * Volume]_vars

\* rotate_locked: what a breaker counts after an idle window is at most the
\* outcome that is being marked.
IdleWindowForgotten ==
  [][since = Window /\ since' # Window => Sum(reqs') <= 1]_vars

\* update_rtt smooths with integer division, yet the smoothed time never falls
\* below the minimum observed, so the inflation is never negative, as long as
\* min_rtt filters samples of zero.  A min_rtt of zero lets them in, mark_success
\* gives one each time, and a base of zero means "no sample yet": the next sample
\* becomes the base, above the smoothed time.
InflationNotNegative == min_rtt > 0 => base <= cur

\* The head of the hystrix crate: "Half-open: a single trial request is
\* admitted; success closes (and resets the buckets), failure re-opens".  No other
\* request decides.
OnlyTheTrialDecides ==
  [][state = "half" /\ state' # "half" =>
       \E c \in Callers : role[c] = "trial" /\ role'[c] # "trial" /\ ~InFlight(c)']_vars

===============================================================================
