-------------------------------- MODULE Cron --------------------------------
(***************************************************************************)
(* The cron transport (crate rushwind-transport-cron): start() sleeps to   *)
(* the next half-minute boundary, then ticks every half minute and fires   *)
(* the jobs whose spec matches, if the wall clock shows second 0.          *)
(*                                                                         *)
(* The clock counts sub-second units. A sleep or tick is served at its     *)
(* deadline or up to MaxLate units after it, as timers and a busy executor *)
(* allow. The day is HalfMinutes half minutes long; a spec is the set of   *)
(* minutes parse() allowed.                                                *)
(***************************************************************************)
EXTENDS Naturals, FiniteSets

CONSTANTS
    Second,      \* units in a second
    Half,        \* seconds in a half minute (30)
    Minutes,     \* bound: minutes the clock runs
    MaxLate,     \* bound: units a timer is served late
    Jobs,        \* the registered jobs
    MaxValue,    \* the largest value of a spec's field (59)
    Word         \* 2^32, the range of a field's u32

-----------------------------------------------------------------------------
(* The specs.                                                              *)

\* One atom a-b/n of a field: start, start + step, ... in u32, until beyond end.
\* The fuel stands for the loop: a step that wraps comes back below start.
Atom(a, b, n) ==
    LET step == IF n = 0 THEN 1 ELSE n
        walk[k \in 0 .. MaxValue + 1] ==
            IF k = 0 THEN a
            ELSE LET v == walk[k - 1]
                 IN IF v > b THEN v ELSE (v + step) % Word
    IN {v \in {walk[k] : k \in 0 .. MaxValue + 1} : v <= b}

\* A field is rejected when an atom is out of its bounds or backwards.
Accepted(a, b, lo, hi) == a <= b /\ a >= lo /\ b <= hi

\* What cron means by a-b/n.
MeansAtom(a, b, n) ==
    {v \in a .. b : (v - a) % (IF n = 0 THEN 1 ELSE n) = 0}

\* The shapes a crontab writes: *, v, a-b, with a step or without.
ParseIsCron ==
    \A a, b \in 0 .. MaxValue, n \in 0 .. MaxValue :
        Accepted(a, b, 0, MaxValue) => Atom(a, b, n) = MeansAtom(a, b, n)

-----------------------------------------------------------------------------
VARIABLES
    clock,     \* wall clock, in units; 0 is the start of a minute
    pc,        \* "new", "waiting", "ticking", "draining", "over"
    deadline,  \* when the sleep or the next tick is due
    stop,      \* the stop signal
    spec,      \* job -> minutes its spec matches
    fired,     \* job -> minute -> times it fired then
    flights,   \* handlers that run, as <<job, minute>>
    began      \* when start was called

vars == <<clock, pc, deadline, stop, spec, fired, flights, began>>

Minute(t) == t \div (2 * Half * Second)
SecondOf(t) == (t \div Second) % (2 * Half)
Horizon == Minutes * 2 * Half * Second

TypeOK ==
    /\ clock \in 0 .. Horizon
    /\ pc \in {"new", "waiting", "ticking", "draining", "over"}
    /\ deadline \in 0 .. 2 * Horizon /\ stop \in BOOLEAN
    /\ spec \in [Jobs -> SUBSET (0 .. Minutes)]
    /\ fired \in [Jobs -> [0 .. Minutes -> Nat]] /\ began \in 0 .. Horizon
    /\ flights \subseteq Jobs \X (0 .. Minutes)
    /\ pc = "over" => stop

Init ==
    /\ clock \in 0 .. 2 * Half * Second - 1
    /\ pc = "new" /\ deadline = 0 /\ stop = FALSE
    /\ spec \in [Jobs -> {0 .. Minutes, {1}}]
    /\ fired = [j \in Jobs |-> [m \in 0 .. Minutes |-> 0]]
    /\ flights = {} /\ began = 0

\* A server that has been stopped, its clock at the end of the run.
Idle ==
    /\ clock = Horizon /\ pc = "over" /\ deadline = 0 /\ stop = TRUE
    /\ spec = [j \in Jobs |-> {}]
    /\ fired = [j \in Jobs |-> [m \in 0 .. Minutes |-> 0]]
    /\ flights = {} /\ began = 0

\* Mutant: a fixed first wait, which keeps the start's phase.
DurationFullHalf(t) == Half * Second

\* duration_to_next_half_minute of the clock cut to whole seconds: the part of
\* the second that has passed is not taken off the wait.
DurationToNextHalfMinute(t) == (Half - ((t \div Second) % Half)) * Second

Start ==
    /\ pc = "new"
    /\ pc' = "waiting"
    /\ deadline' = clock + DurationToNextHalfMinute(clock)
    /\ began' = clock
    /\ UNCHANGED <<clock, stop, spec, fired, flights>>

\* The interval is created when the sleep is over; its first tick is due at once.
Anchor ==
    /\ pc = "waiting" /\ clock >= deadline
    /\ pc' = "ticking" /\ deadline' = clock 
    /\ UNCHANGED <<clock, stop, spec, fired, flights, began>>

\* MissedTickBehavior::Skip: the next tick is the first one after now that
\* keeps the phase.
NextTick == clock + (Half * Second - ((clock - deadline) % (Half * Second)))

Tick ==
    /\ pc = "ticking" /\ clock >= deadline
    /\ deadline' = NextTick
    /\ LET m == Minute(clock)
           due == IF SecondOf(clock) # 0 THEN {} ELSE {j \in Jobs : m \in spec[j]}
       IN /\ fired' = [j \in Jobs |->
                          IF j \in due THEN [fired[j] EXCEPT ![m] = @ + 1] ELSE fired[j]]
          /\ flights' = flights \cup {<<j, m>> : j \in due}
    /\ UNCHANGED <<clock, pc, stop, spec, began>>

\* The signal wins the select at once, in the sleep or between two ticks.
ObserveStop ==
    /\ stop
    /\ \/ pc = "waiting" /\ pc' = "over"
       \/ pc = "ticking" /\ pc' = "draining"
    /\ UNCHANGED <<clock, deadline, stop, spec, fired, flights, began>>

\* Every handler fired so far is awaited before start returns.
Drained ==
    /\ pc = "draining" /\ flights = {}
    /\ pc' = "over"
    /\ UNCHANGED <<clock, deadline, stop, spec, fired, flights, began>>

HandlerEnds ==
    /\ \E f \in flights : flights' = flights \ {f}
    /\ UNCHANGED <<clock, pc, deadline, stop, spec, fired, began>>

StopSignal ==
    /\ ~stop /\ stop' = TRUE
    /\ UNCHANGED <<clock, pc, deadline, spec, fired, flights, began>>

\* A loop that has a timer due is served within MaxLate units.
Pass ==
    /\ clock < Horizon
    /\ pc # "new"
    /\ pc \in {"waiting", "ticking"} => clock < deadline + MaxLate
    /\ clock' = clock + 1
    /\ UNCHANGED <<pc, deadline, stop, spec, fired, flights, began>>

Next == \/ Start \/ Anchor \/ Tick \/ ObserveStop \/ Drained
        \/ HandlerEnds \/ StopSignal \/ Pass

\* A handler need never return.
Fairness == WF_vars(ObserveStop) /\ WF_vars(Drained) /\ WF_vars(Start)

Spec == Init /\ [][Next]_vars /\ Fairness

-----------------------------------------------------------------------------
\* A minute that begins after the start and ends while the loop ticks fires every
\* job that matches it, as long as the part of a second the start left over and
\* the lateness of its two timers stay within the second.
EveryMinuteFires ==
    \A m \in 0 .. Minutes - 1, j \in Jobs :
        /\ pc = "ticking" /\ (began % Second) + 2 * MaxLate < Second
        /\ Minute(began) < m /\ Minute(clock) > m
        /\ m \in spec[j]
        => fired[j][m] > 0

\* A job never fires twice in a minute, nor in a minute its spec does not match.
OncePerMinute ==
    \A j \in Jobs, m \in 0 .. Minutes :
        fired[j][m] <= (IF m \in spec[j] THEN 1 ELSE 0)

\* When start has returned none of its handlers runs any more.
OverIsQuiet == pc = "over" => flights = {}
=============================================================================
