-------------------------------- MODULE Retry --------------------------------
(***************************************************************************)
(* rushwind-retry: one execution of a fallible call under a configuration  *)
(* chosen at the start.  Time is counted in milliseconds, as the delays    *)
(* are.                                                                    *)
(***************************************************************************)
EXTENDS Integers

CONSTANTS
  Tries,      \* the numbers of attempts configured (0 is refused by the builder)
  Budgets,    \* the total budgets tried, and NoBudget for none
  NoBudget,
  Initial, Factor, Ceiling,   \* the exponential backoff, Factor a whole number
  Jitters,    \* a subset of {"none", "full", "equal"}
  MaxCallTime,  \* bound: how long one attempt may take
  MaxLag        \* bound: how late a timer may fire

VARIABLES
  config,     \* [tries, budget, backoff, jitter]
  attempt,    \* the attempts begun
  stage,      \* "backoff", "asleep", "calling" or an outcome
  delay,      \* the delay drawn for the sleep
  elapsed,    \* started.elapsed()
  slept,      \* what was slept so far
  refused     \* the last error was one the caller's predicate rejects

retryVars == <<config, attempt, stage, delay, elapsed, slept, refused>>

Outcomes == {"ok", "max attempts", "timeout"}

\* Backoff::delay: the factor's power comes first, the cap after it.
Exponential(n) ==
  LET grown[i \in 0..n] == IF i = 0 THEN Initial ELSE Factor * grown[i - 1]
  IN  IF grown[n] < Ceiling THEN grown[n] ELSE Ceiling
Backoff(n) == IF config.backoff = "fixed" THEN Initial ELSE Exponential(n)

\* Jitter::apply: any whole number of milliseconds the strategy allows.
Jittered(d) ==
  CASE config.jitter = "none" -> {d}
    [] config.jitter = "full" -> 0..d
    [] config.jitter = "equal" -> (d \div 2)..d

\* Retrier::max_attempts keeps the default for a number below one.
Attempts(n) == IF n >= 1 THEN n ELSE 3

Spent(t) == config.budget # NoBudget /\ t >= config.budget

\* When a sleep of d would end.
SleepEnds(d) == elapsed + d

RetryInit ==
  /\ config \in [tries : {Attempts(n) : n \in Tries}, budget : Budgets,
                 backoff : {"fixed", "exponential"}, jitter : Jitters]
  /\ attempt = 0 /\ stage = "backoff" /\ delay = 0 /\ elapsed = 0 /\ slept = 0
  /\ refused = FALSE

\* The loop's head: the first attempt starts at once, a later one sleeps
\* first, unless the budget would be over by then.
BackOff ==
  /\ stage = "backoff"
  /\ \/ /\ attempt = config.tries
        /\ stage' = "max attempts"
        /\ UNCHANGED <<attempt, delay>>
     \/ /\ attempt = 0
        /\ attempt' = 1
        /\ stage' = "calling"
        /\ UNCHANGED delay
     \/ /\ attempt \in 1..(config.tries - 1)
        /\ \E d \in Jittered(Backoff(attempt - 1)) :
             IF Spent(SleepEnds(d))
             THEN stage' = "timeout" /\ UNCHANGED delay
             ELSE stage' = "asleep" /\ delay' = d
        /\ UNCHANGED attempt
  /\ UNCHANGED <<config, elapsed, slept, refused>>

\* tokio::time::sleep, which may be late.
Slept ==
  /\ stage = "asleep"
  /\ \E lag \in 0..MaxLag : elapsed' = elapsed + delay + lag
  /\ slept' = slept + delay
  /\ delay' = 0
  /\ attempt' = attempt + 1
  /\ stage' = "calling"
  /\ UNCHANGED <<config, refused>>

\* The attempt, which no budget cuts short.
Attempted ==
  /\ stage = "calling"
  /\ \E time \in 0..MaxCallTime : elapsed' = elapsed + time
  /\ \/ stage' = "ok" /\ UNCHANGED refused
     \/ stage' = "max attempts" /\ refused' = TRUE
     \/ stage' = (IF Spent(elapsed') THEN "timeout" ELSE "backoff") /\ UNCHANGED refused
  /\ UNCHANGED <<config, attempt, delay, slept>>

RetryNext == BackOff \/ Slept \/ Attempted

\* The sleeps alone stay within the budget, none lasts longer than the
\* ceiling, and the caller hears that the attempts ran out only when it used
\* every one of them or rejected the error (retry/src/lib.rs:191).
RetryHolds ==
  /\ config.budget # NoBudget /\ config.budget > 0 => slept < config.budget
  /\ config.backoff = "exponential" => delay <= Ceiling
  /\ stage = "max attempts" => refused \/ attempt = config.tries
  /\ stage = "timeout" => config.budget # NoBudget

RetryEnds == stage \in Outcomes
===============================================================================
