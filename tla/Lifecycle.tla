------------------------------ MODULE Lifecycle ------------------------------
(***************************************************************************)
(* rushwind-core: `App::run`, the lifecycle every RushWind process goes    *)
(* through.                                                                *)
(*                                                                         *)
(* One task polls everything: the start futures of all servers, then the   *)
(* before-hooks one after the other, then all stop futures, then the       *)
(* after-hooks.  A future makes progress only while `run` polls it, so a   *)
(* server's completion is one action that is enabled in the phases in      *)
(* which its future is polled.  Servers and hooks are the environment:     *)
(* they may finish at any moment with any result, or never.                *)
(*                                                                         *)
(* Time is discrete.  `Tick` is enabled only while `run` is suspended at   *)
(* an await whose timer has not expired, i.e. the orchestrator's own code  *)
(* takes no time and timers fire when they are due.                        *)
(***************************************************************************)
EXTENDS Naturals

CONSTANTS
  Servers,       \* the servers registered with the Builder
  BeforeHooks,   \* number of before_stop hooks
  AfterHooks,    \* number of after_stop hooks
  StopTimeout,   \* Options::stop_timeout, the budget of every phase
  MaxUptime,     \* bound: the clock stops here while the app is just serving
  Faults,        \* subset of {"hook_panic", "run_dropped"} the run may meet
  None,          \* no error recorded
  Unset          \* the OnceLock is still empty

ASSUME LifecycleAssumption ==
  /\ BeforeHooks \in Nat
  /\ AfterHooks \in Nat
  /\ StopTimeout \in Nat
  /\ MaxUptime \in Nat
  /\ Faults \subseteq {"hook_panic", "run_dropped"}
  /\ None # Unset
  /\ \A s \in Servers, r \in {"failed", "panicked", "cancelled", "timeout"} :
       [kind |-> r, by |-> s] \notin {None, Unset}

VARIABLES
  phase,        \* where `run` is
  stop_signal,  \* the app's own StopSignal has fired
  fired,        \* the caller's external signal or an OS signal has arrived
  start,        \* per server: the state, then the result, of its start future
  stop,         \* per server: the same for its stop future
  first_start,  \* aggregation slot of the start side
  first_stop,   \* aggregation slot of the stop side
  hook,         \* hooks of the current phase that are over
  hooking,      \* a hook is being awaited
  deadline,     \* expiry of the timer `run` is awaiting
  now,          \* the clock
  trigAt,       \* history: when the shutdown was triggered
  outcome,      \* the OnceLock `run` publishes its result in
  done_tx       \* the done channel still has its sender

vars == <<phase, stop_signal, fired, start, stop, first_start, first_stop,
          hook, hooking, deadline, now, trigAt, outcome, done_tx>>

Phases == {"idle", "trigger", "drain", "before", "stop", "after",
           "publish", "close", "closed", "unwound"}

\* What a start future resolves to once catch_unwind has wrapped it, and what
\* a stop future resolves to once `timeout` has wrapped it as well.
StartResult == {"ok", "cancelled", "failed", "panicked"}
StopResult  == StartResult \cup {"timeout"}

FutureState == {"new", "live", "dropped"}

ErrorRecord == [kind : StopResult \ {"ok"}, by : Servers]

Live(f) == {s \in Servers : f[s] = "live"}

\* collapse_start and collapse_stop, and the guard they are called under: the
\* slot keeps the first record, and Ok(()) leaves none.
Record(slot, r, s) ==
  IF slot = None /\ r # "ok" THEN [kind |-> r, by |-> s] ELSE slot

is_cooperative(e) == e.kind = "cancelled"

Hooks == IF phase = "before" THEN BeforeHooks ELSE AfterHooks

-----------------------------------------------------------------------------

Init ==
  /\ phase = "idle"
  /\ stop_signal = FALSE
  /\ fired = FALSE
  /\ start = [s \in Servers |-> "new"]
  /\ stop = [s \in Servers |-> "new"]
  /\ first_start = None
  /\ first_stop = None
  /\ hook = 0
  /\ hooking = FALSE
  /\ deadline = 0
  /\ now = 0
  /\ trigAt = 0
  /\ outcome = Unset
  /\ done_tx = TRUE

\* App::stop, from any task at any time.  Firing the signal is idempotent.
Stop ==
  /\ ~stop_signal
  /\ stop_signal' = TRUE
  /\ UNCHANGED <<phase, fired, start, stop, first_start, first_stop, hook,
                 hooking, deadline, now, trigAt, outcome, done_tx>>

\* The caller's own signal or SIGTERM/SIGINT.  The servers do not see it: they
\* hold clones of the app's signal only.
Fire ==
  /\ ~fired
  /\ fired' = TRUE
  /\ UNCHANGED <<phase, stop_signal, start, stop, first_start, first_stop,
                 hook, hooking, deadline, now, trigAt, outcome, done_tx>>

\* App::run is polled for the first time and pushes every start future.
Run ==
  /\ phase = "idle"
  /\ phase' = "trigger"
  /\ start' = [s \in Servers |-> "live"]
  /\ UNCHANGED <<stop_signal, fired, stop, first_start, first_stop, hook,
                 hooking, deadline, now, trigAt, outcome, done_tx>>

-----------------------------------------------------------------------------
(* Phase 1: the trigger and the bounded drain.                             *)

\* Mutant of BeginShutdown: the deadline dates from the start of `run`.
BeginShutdownStaleDeadline ==
  /\ phase' = "drain"
  /\ stop_signal' = TRUE
  /\ deadline' = StopTimeout
  /\ trigAt' = now

\* The code after the trigger select!: the signal is fired and the drain
\* deadline is taken from the clock at this moment.
BeginShutdown ==
  /\ phase' = "drain"
  /\ stop_signal' = TRUE
  /\ deadline' = now + StopTimeout
  /\ trigAt' = now

\* Mutant of ServerExits: every turn of the drain loop makes a new sleep.
ServerExitsRearming(s, r) ==
  /\ phase \in {"trigger", "drain"}
  /\ start[s] = "live"
  /\ r = "cancelled" => stop_signal
  /\ start' = [start EXCEPT ![s] = r]
  /\ first_start' = Record(first_start, r, s)
  /\ phase' = "drain"
  /\ stop_signal' = TRUE
  /\ deadline' = now + StopTimeout
  /\ trigAt' = IF phase = "trigger" THEN now ELSE trigAt
  /\ UNCHANGED <<fired, stop, first_stop, hook, hooking, now, outcome, done_tx>>

\* `starts.next()` yields a result: the first one is the trigger itself, the
\* others come out of the drain loop.  By contract a server reports Cancelled
\* only after it has seen the signal.
ServerExits(s, r) ==
  /\ phase \in {"trigger", "drain"}
  /\ start[s] = "live"
  /\ r = "cancelled" => stop_signal
  /\ start' = [start EXCEPT ![s] = r]
  /\ first_start' = Record(first_start, r, s)
  /\ \/ phase = "trigger" /\ BeginShutdown
     \/ phase = "drain" /\ UNCHANGED <<phase, stop_signal, deadline, trigAt>>
  /\ UNCHANGED <<fired, stop, first_stop, hook, hooking, now, outcome, done_tx>>

\* One of the three signal branches of the trigger select!.
SignalTriggers ==
  /\ phase = "trigger"
  /\ stop_signal \/ fired
  /\ BeginShutdown
  /\ UNCHANGED <<fired, start, stop, first_start, first_stop, hook, hooking,
                 now, outcome, done_tx>>

\* sleep_until(deadline) wins the drain select!: starts.clear() drops every
\* start future that is still running.  Nothing is recorded for them.
DrainDeadline ==
  /\ phase = "drain"
  /\ Live(start) # {}
  /\ now >= deadline
  /\ start' = [s \in Servers |->
                 IF start[s] = "live" THEN "dropped" ELSE start[s]]
  /\ UNCHANGED <<phase, stop_signal, fired, stop, first_start, first_stop,
                 hook, hooking, deadline, now, trigAt, outcome, done_tx>>

Drained ==
  /\ phase = "drain"
  /\ Live(start) = {}
  /\ phase' = "before"
  /\ hook' = 0
  /\ UNCHANGED <<stop_signal, fired, start, stop, first_start, first_stop,
                 hooking, deadline, now, trigAt, outcome, done_tx>>

-----------------------------------------------------------------------------
(* Phases 2 and 4: the hooks, one after the other.                         *)

\* timeout(budget, hook(budget)): the timer starts when the hook does.
HookBegins ==
  /\ phase \in {"before", "after"}
  /\ ~hooking
  /\ hook < Hooks
  /\ hooking' = TRUE
  /\ deadline' = now + StopTimeout
  /\ UNCHANGED <<phase, stop_signal, fired, start, stop, first_start,
                 first_stop, hook, now, trigAt, outcome, done_tx>>

HookOver ==
  /\ hooking
  /\ hooking' = FALSE
  /\ hook' = hook + 1
  /\ UNCHANGED <<phase, stop_signal, fired, start, stop, first_start,
                 first_stop, deadline, now, trigAt, outcome, done_tx>>

\* `let _ = timeout(..)`: success, error and expiry are all discarded.
HookReturns == HookOver
HookCutOff == now >= deadline /\ HookOver

HooksDone ==
  /\ phase \in {"before", "after"}
  /\ ~hooking
  /\ hook = Hooks
  /\ \/ /\ phase = "before"
        /\ phase' = "stop"
        /\ stop' = [s \in Servers |-> "live"]
        /\ deadline' = now + StopTimeout
     \/ /\ phase = "after"
        /\ phase' = "publish"
        /\ UNCHANGED <<stop, deadline>>
  /\ UNCHANGED <<stop_signal, fired, start, first_start, first_stop, hook,
                 hooking, now, trigAt, outcome, done_tx>>

-----------------------------------------------------------------------------
(* Phase 3: all teardowns at once, each bounded by its own timer.          *)

StopRecorded(s, r) ==
  /\ phase = "stop"
  /\ stop[s] = "live"
  /\ stop' = [stop EXCEPT ![s] = r]
  /\ first_stop' = Record(first_stop, r, s)
  /\ UNCHANGED <<phase, stop_signal, fired, start, first_start, hook, hooking,
                 deadline, now, trigAt, outcome, done_tx>>

StopReturns(s, r) == StopRecorded(s, r)
StopCutOff(s) == now >= deadline /\ StopRecorded(s, "timeout")

\* Mutant of StopsDone: the loop ends with the first result.
StopsDoneAtFirst ==
  /\ phase = "stop"
  /\ Live(stop) # Servers \/ Servers = {}
  /\ phase' = "after"
  /\ hook' = 0
  /\ UNCHANGED <<stop_signal, fired, start, stop, first_start, first_stop,
                 hooking, deadline, now, trigAt, outcome, done_tx>>

StopsDone ==
  /\ phase = "stop"
  /\ Live(stop) = {}
  /\ phase' = "after"
  /\ hook' = 0
  /\ UNCHANGED <<stop_signal, fired, start, stop, first_start, first_stop,
                 hooking, deadline, now, trigAt, outcome, done_tx>>

-----------------------------------------------------------------------------
(* Aggregation and publication.                                            *)

\* Mutant of Aggregate: the stop side takes precedence.
AggregateStopFirst ==
  IF first_stop # None /\ ~is_cooperative(first_stop) THEN first_stop
  ELSE IF first_start # None /\ ~is_cooperative(first_start) THEN first_start
  ELSE None

Aggregate ==
  IF first_start # None /\ ~is_cooperative(first_start) THEN first_start
  ELSE IF first_stop # None /\ ~is_cooperative(first_stop) THEN first_stop
  ELSE None

Publish ==
  /\ phase = "publish"
  /\ phase' = "close"
  /\ outcome' = Aggregate
  /\ UNCHANGED <<stop_signal, fired, start, stop, first_start, first_stop,
                 hook, hooking, deadline, now, trigAt, done_tx>>

\* Mutant of Close: the channel may be closed before the outcome is published.
CloseEarly ==
  /\ phase \in {"publish", "close"}
  /\ phase' = "closed"
  /\ done_tx' = FALSE
  /\ UNCHANGED <<stop_signal, fired, start, stop, first_start, first_stop,
                 hook, hooking, deadline, now, trigAt, outcome>>

Close ==
  /\ phase = "close"
  /\ phase' = "closed"
  /\ done_tx' = FALSE
  /\ UNCHANGED <<stop_signal, fired, start, stop, first_start, first_stop,
                 hook, hooking, deadline, now, trigAt, outcome>>

-----------------------------------------------------------------------------
(* Faults and time.                                                        *)

\* `run` is suspended at an await.
Suspended ==
  \/ phase = "trigger"
  \/ phase = "drain" /\ Live(start) # {}
  \/ hooking
  \/ phase = "stop" /\ Live(stop) # {}

\* The stack of `run` goes away: its live futures are dropped with it and
\* nothing that comes after is executed.
Unwind ==
  /\ phase' = "unwound"
  /\ hooking' = FALSE
  /\ start' = [s \in Servers |->
                 IF start[s] = "live" THEN "dropped" ELSE start[s]]
  /\ stop' = [s \in Servers |->
                 IF stop[s] = "live" THEN "dropped" ELSE stop[s]]
  /\ UNCHANGED <<stop_signal, fired, first_start, first_stop, hook, deadline,
                 now, trigAt, outcome, done_tx>>

\* A hook future panics: unlike the server futures it is not wrapped in
\* catch_unwind, so the panic leaves `run`.
HookPanics == "hook_panic" \in Faults /\ hooking /\ Unwind

\* The caller drops the future of `run`, as timeout(.., app.run(..)) does.
RunDropped == "run_dropped" \in Faults /\ Suspended /\ Unwind

Tick ==
  /\ Suspended
  /\ IF phase = "trigger" THEN now < MaxUptime ELSE now < deadline
  /\ now' = now + 1
  /\ UNCHANGED <<phase, stop_signal, fired, start, stop, first_start,
                 first_stop, hook, hooking, deadline, trigAt, outcome, done_tx>>

\* `run` has returned, or is gone.
Terminated == phase \in {"closed", "unwound"} /\ UNCHANGED vars

-----------------------------------------------------------------------------

\* The steps `run` takes on its own, whatever the servers and hooks do.
Orchestrator ==
  \/ Run \/ SignalTriggers \/ DrainDeadline \/ Drained
  \/ HookBegins \/ HookCutOff \/ HooksDone
  \/ \E s \in Servers : StopCutOff(s)
  \/ StopsDone \/ Publish \/ Close

Environment ==
  \/ Stop \/ Fire
  \/ \E s \in Servers, r \in StartResult : ServerExits(s, r)
  \/ HookReturns
  \/ \E s \in Servers, r \in StartResult : StopReturns(s, r)
  \/ HookPanics \/ RunDropped

Next == Orchestrator \/ Environment \/ Tick \/ Terminated

Spec == Init /\ [][Next]_vars

\* The executor polls a woken task, and timers fire.  Nothing is assumed of
\* servers, hooks or callers.
FairSpec == Spec /\ WF_vars(Orchestrator) /\ WF_vars(Tick)

-----------------------------------------------------------------------------
(* Properties.                                                             *)

\* Every variable has its type.
TypeOK ==
  /\ phase \in Phases
  /\ stop_signal \in BOOLEAN
  /\ fired \in BOOLEAN
  /\ start \in [Servers -> FutureState \cup StartResult]
  /\ stop \in [Servers -> FutureState \cup StopResult]
  /\ first_start \in ErrorRecord \cup {None}
  /\ first_stop \in ErrorRecord \cup {None}
  /\ hook \in Nat
  /\ hooking \in BOOLEAN
  /\ deadline \in Nat
  /\ now \in Nat
  /\ trigAt \in Nat
  /\ outcome \in ErrorRecord \cup {None, Unset}
  /\ done_tx \in BOOLEAN

\* No server is ever torn down while any server's start future can still run,
\* and no hook runs while a start or a stop future does: the four phases of the
\* crate documentation never overlap, whatever the servers do.
PhasesDisjoint ==
  /\ (\E s \in Servers : stop[s] # "new") => Live(start) = {}
  /\ hooking => Live(start) = {} /\ Live(stop) = {}

\* A subscriber that sees the done channel closed finds the outcome published
\* and every server torn down (or cut off), exactly once.
ClosedMeansFinished ==
  ~done_tx => /\ outcome # Unset
              /\ \A s \in Servers : stop[s] \in StopResult
              /\ Live(start) = {}

\* The whole shutdown takes at most one budget for the drain, one per hook and
\* one for all the teardowns together: no phase inherits or extends a budget.
ShutdownBounded ==
  phase \notin {"idle", "trigger", "unwound"} =>
    now <= trigAt + StopTimeout * (BeforeHooks + AfterHooks + 2)

\* A start future is abandoned only when the servers have had the full budget
\* since the trigger, and it was told to stop: the drain deadline is never
\* derived from an earlier moment.
AbandonedOnlyAtFullBudget ==
  [][\A s \in Servers :
       start[s] = "live" /\ start'[s] = "dropped" /\ phase' # "unwound"
         => stop_signal /\ now >= trigAt + StopTimeout]_vars

\* The published error was really reported by the server it names, it is not
\* the cooperative marker, and a stop-side error is published only when no
\* start-side error could be: every server that failed to run is preceded by
\* one that reported Cancelled.
OutcomeSound ==
  outcome \notin {Unset, None} =>
    /\ ~is_cooperative(outcome)
    /\ \/ start[outcome.by] = outcome.kind
       \/ /\ stop[outcome.by] = outcome.kind
          /\ \/ \E s \in Servers : start[s] = "cancelled"
             \/ \A s \in Servers : start[s] \in {"ok", "dropped"}

\* App::run keeps its phases apart and publishes an error that a server really
\* reported, first the start side's.
OrderlyShutdown == TypeOK /\ PhasesDisjoint /\ OutcomeSound

\* A shutdown that has been asked for and is not over: none of its phases leads
\* back to serving.
ShutdownPending ==
  \/ phase = "trigger" /\ (stop_signal \/ fired)
  \/ phase \in {"drain", "before", "stop", "after", "publish", "close"}

-----------------------------------------------------------------------------
(* Refinement: the lifecycle implements the contract of AppContract.       *)

Contract == INSTANCE AppContract WITH
  Outcomes <- ErrorRecord \cup {None},
  Pending  <- Unset,
  status   <- CASE phase \in {"idle", "trigger"} -> "up"
                [] phase = "unwound" -> "gone"
                [] phase = "closed" -> "closed"
                [] OTHER -> "stopping",
  running  <- Live(start),
  torn     <- {s \in Servers : stop[s] # "new"},
  result   <- IF done_tx THEN Unset ELSE outcome

\* Every step of `run` is a step the contract allows, and a shutdown that has
\* begun is carried to its end unless `run` itself goes away.
ImplementsContract == Contract!Spec
=============================================================================
