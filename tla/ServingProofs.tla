---------------------------- MODULE ServingProofs ----------------------------
(***************************************************************************)
(* An application and the servers it runs.  The lifecycle comes first, for *)
(* any set of servers, any number of hooks and any budget; then, for any   *)
(* number of handshakes and any cap, the session counter on its own, the   *)
(* websocket route and the accept loops that count their sessions in it,   *)
(* and what the whole of MCServing promises.                               *)
(***************************************************************************)
EXTENDS MCServing, Sequences, FiniteSetTheorems, TLAPS

(* Type correctness.                                                       *)

\* The slots only ever hold records of the servers' results.
LEMMA RecordType ==
  ASSUME NEW slot \in ErrorRecord \cup {None},
         NEW r \in StopResult, NEW s \in Servers
  PROVE  Record(slot, r, s) \in ErrorRecord \cup {None}
BY DEF Record, ErrorRecord, StopResult, StartResult

\* Every variable keeps its type: App::run never leaves the states the model
\* gives it.
THEOREM TypeCorrect == Spec => []TypeOK
<1>1. Init => TypeOK
  <2> SUFFICES ASSUME Init PROVE TypeOK  OBVIOUS
  <2>1. stop_signal \in BOOLEAN /\ fired \in BOOLEAN /\ hooking \in BOOLEAN
        /\ done_tx \in BOOLEAN  BY Zenon DEF Init
  <2>2. /\ phase \in Phases
        /\ start \in [Servers -> FutureState \cup StartResult]
        /\ stop \in [Servers -> FutureState \cup StopResult]  BY DEF Init, Phases, FutureState
  <2>3. QED  BY <2>1, <2>2 DEF Init, TypeOK
<1>2. TypeOK /\ [Next]_vars => TypeOK'
  <2> SUFFICES ASSUME TypeOK, [Next]_vars PROVE TypeOK'  OBVIOUS
  <2> USE LifecycleAssumption
  <2>1. CASE Stop  BY <2>1 DEF Stop, TypeOK
  <2>2. CASE Fire  BY <2>2 DEF Fire, TypeOK
  <2>3. CASE Run  BY <2>3 DEF Run, TypeOK, Phases, FutureState
  <2>4. ASSUME NEW s \in Servers, NEW r \in StartResult, ServerExits(s, r)
        PROVE  TypeOK'
    <3>1. first_start' \in ErrorRecord \cup {None}  BY <2>4, RecordType DEF ServerExits, TypeOK, StopResult
    <3>2. start' \in [Servers -> FutureState \cup StartResult]  BY <2>4 DEF ServerExits, TypeOK
    <3>3. phase' \in Phases /\ stop_signal' \in BOOLEAN
      BY <2>4, Zenon DEF ServerExits, BeginShutdown, TypeOK, Phases
    <3>4. deadline' \in Nat /\ trigAt' \in Nat  BY <2>4 DEF ServerExits, BeginShutdown, TypeOK
    <3>5. QED  BY <2>4, <3>1, <3>2, <3>3, <3>4 DEF ServerExits, TypeOK
  <2>5. CASE SignalTriggers  BY <2>5 DEF SignalTriggers, BeginShutdown, TypeOK, Phases
  <2>6. CASE DrainDeadline  BY <2>6 DEF DrainDeadline, TypeOK, FutureState
  <2>7. CASE Drained  BY <2>7 DEF Drained, TypeOK, Phases
  <2>8. CASE HookBegins
    <3>1. deadline' \in Nat  BY <2>8 DEF HookBegins, TypeOK
    <3>2. hooking' \in BOOLEAN  BY <2>8, Zenon DEF HookBegins
    <3>3. /\ phase' = phase /\ hook' = hook /\ now' = now /\ trigAt' = trigAt
          /\ start' = start /\ stop' = stop
          /\ first_start' = first_start /\ first_stop' = first_stop
          /\ outcome' = outcome  BY <2>8 DEF HookBegins
    <3>4. stop_signal' = stop_signal /\ fired' = fired /\ done_tx' = done_tx  BY <2>8 DEF HookBegins
    <3>5. QED  BY <3>1, <3>2, <3>3, <3>4, Zenon DEF TypeOK
  <2>9. CASE HookOver
    <3>1. hook' \in Nat  BY <2>9 DEF HookOver, TypeOK
    <3>2. hooking' \in BOOLEAN  BY <2>9, Zenon DEF HookOver
    <3>3. /\ phase' = phase /\ deadline' = deadline /\ now' = now
          /\ trigAt' = trigAt /\ start' = start /\ stop' = stop
          /\ first_start' = first_start /\ first_stop' = first_stop
          /\ outcome' = outcome  BY <2>9 DEF HookOver
    <3>4. stop_signal' = stop_signal /\ fired' = fired /\ done_tx' = done_tx  BY <2>9 DEF HookOver
    <3>5. QED  BY <3>1, <3>2, <3>3, <3>4, Zenon DEF TypeOK
  <2>10. CASE HooksDone  BY <2>10 DEF HooksDone, TypeOK, Phases, FutureState
  <2>11. ASSUME NEW s \in Servers, NEW r \in StopResult, StopRecorded(s, r)
         PROVE  TypeOK'
    <3>1. first_stop' \in ErrorRecord \cup {None}  BY <2>11, RecordType DEF StopRecorded, TypeOK
    <3>2. QED  BY <2>11, <3>1 DEF StopRecorded, TypeOK
  <2>12. CASE StopsDone  BY <2>12 DEF StopsDone, TypeOK, Phases
  <2>13. CASE Publish  BY <2>13 DEF Publish, Aggregate, TypeOK, Phases
  <2>14. CASE Close  BY <2>14 DEF Close, TypeOK, Phases
  <2>15. CASE Unwind  BY <2>15 DEF Unwind, TypeOK, Phases, FutureState
  <2>16. CASE Tick  BY <2>16 DEF Tick, TypeOK
  <2>17. CASE UNCHANGED vars  BY <2>17 DEF vars, TypeOK
  <2>18. QED  BY <2>1, <2>2, <2>3, <2>4, <2>5, <2>6, <2>7, <2>8, <2>9, <2>10, <2>11,
       <2>12, <2>13, <2>14, <2>15, <2>16, <2>17
       DEF Next, Orchestrator, Environment, Terminated, HookReturns,
           HookCutOff, StopReturns, StopCutOff, HookPanics, RunDropped,
           StopResult
<1>3. QED  BY <1>1, <1>2, PTL DEF Spec

(* The phases.  PhasesDisjoint and ClosedMeansFinished are not inductive:  *)
(* they say nothing of the futures a phase leaves behind.  PhaseInv says,  *)
(* phase by phase, which futures exist and what has been published.        *)

PhaseInv ==
  /\ phase \notin {"trigger", "drain"} => \A s \in Servers : start[s] # "live"
  /\ phase \in {"idle", "trigger", "drain", "before"} =>
       \A s \in Servers : stop[s] = "new"
  /\ phase = "stop" => \A s \in Servers : stop[s] \in StopResult \cup {"live"}
  /\ phase \in {"after", "publish", "close", "closed"} =>
       \A s \in Servers : stop[s] \in StopResult
  /\ hooking => phase \in {"before", "after"}
  /\ phase \in {"close", "closed"} => outcome # Unset
  /\ ~done_tx => phase = "closed"

\* No record is mistaken for the empty slot or the empty OnceLock.
LEMMA RecordsAreErrors ==
  \A e \in ErrorRecord : e # None /\ e # Unset
<1> SUFFICES ASSUME NEW e \in ErrorRecord PROVE e # None /\ e # Unset  OBVIOUS
<1>1. e = [kind |-> e.kind, by |-> e.by] /\ e.by \in Servers
      /\ e.kind \in {"failed", "panicked", "cancelled", "timeout"}  BY DEF ErrorRecord, StopResult, StartResult
<1>2. QED  BY <1>1, LifecycleAssumption

\* What `run` publishes is an outcome: the OnceLock is not empty afterwards.
LEMMA AggregateIsSet == TypeOK => Aggregate # Unset
BY RecordsAreErrors, LifecycleAssumption DEF Aggregate, TypeOK

LEMMA PhaseInvariant == Spec => []PhaseInv
<1>1. Init => PhaseInv  BY DEF Init, PhaseInv
<1>2. TypeOK /\ PhaseInv /\ [Next]_vars => PhaseInv'
  <2> SUFFICES ASSUME TypeOK, PhaseInv, [Next]_vars PROVE PhaseInv'  OBVIOUS
  <2>1. CASE Stop  BY <2>1 DEF Stop, PhaseInv
  <2>2. CASE Fire  BY <2>2 DEF Fire, PhaseInv
  <2>3. CASE Run  BY <2>3 DEF Run, PhaseInv
  <2>4. ASSUME NEW s \in Servers, NEW r \in StartResult, ServerExits(s, r)
        PROVE  PhaseInv'  BY <2>4 DEF ServerExits, BeginShutdown, PhaseInv
  <2>5. CASE SignalTriggers  BY <2>5 DEF SignalTriggers, BeginShutdown, PhaseInv
  <2>6. CASE DrainDeadline  BY <2>6 DEF DrainDeadline, PhaseInv
  <2>7. CASE Drained  BY <2>7 DEF Drained, PhaseInv, Live
  <2>8. CASE HookBegins  BY <2>8 DEF HookBegins, PhaseInv
  <2>9. CASE HookOver  BY <2>9 DEF HookOver, PhaseInv
  <2>10. CASE HooksDone  BY <2>10 DEF HooksDone, PhaseInv
  <2>11. ASSUME NEW s \in Servers, NEW r \in StopResult, StopRecorded(s, r)
         PROVE  PhaseInv'  BY <2>11 DEF StopRecorded, PhaseInv, TypeOK
  <2>12. CASE StopsDone  BY <2>12 DEF StopsDone, PhaseInv, Live
  <2>13. CASE Publish  BY <2>13, AggregateIsSet DEF Publish, PhaseInv
  <2>14. CASE Close  BY <2>14 DEF Close, PhaseInv
  <2>15. CASE HookPanics \/ RunDropped
    <3>1. done_tx  BY <2>15 DEF HookPanics, RunDropped, Suspended, PhaseInv
    <3>2. QED  BY <2>15, <3>1 DEF HookPanics, RunDropped, Unwind, PhaseInv
  <2>16. CASE Tick  BY <2>16 DEF Tick, PhaseInv
  <2>17. CASE UNCHANGED vars  BY <2>17 DEF vars, PhaseInv
  <2>18. QED  BY <2>1, <2>2, <2>3, <2>4, <2>5, <2>6, <2>7, <2>8, <2>9, <2>10, <2>11,
       <2>12, <2>13, <2>14, <2>15, <2>16, <2>17
       DEF Next, Orchestrator, Environment, Terminated, HookReturns,
           HookCutOff, StopReturns, StopCutOff, StopResult
<1>3. QED  BY <1>1, <1>2, TypeCorrect, PTL DEF Spec

\* No server is torn down while a start future can run, and hooks run alone,
\* for any number of servers and hooks and any timing.
THEOREM PhasesAreDisjoint == Spec => []PhasesDisjoint
<1>1. PhaseInv => PhasesDisjoint  BY DEF PhaseInv, PhasesDisjoint, Live, StopResult, StartResult
<1>2. QED  BY <1>1, PhaseInvariant, PTL

\* The done channel is closed only over a finished lifecycle with its outcome
\* published, even if hooks panic or callers drop `run`.
THEOREM DoneIsFinal == Spec => []ClosedMeansFinished
<1>1. PhaseInv => ClosedMeansFinished  BY DEF PhaseInv, ClosedMeansFinished, Live
<1>2. QED  BY <1>1, PhaseInvariant, PTL

(* The budget.  ShutdownBounded is strengthened with how much of it each   *)
(* phase may have used: a phase that is waiting has its deadline in its    *)
(* own share, and the clock does not pass the deadline.                    *)

\* The end of the k-th share of the budget.
Share(k) == trigAt + StopTimeout * k

HookShare(total, first) ==
  /\ hook <= total
  /\ ~hooking => now <= Share(first + hook)
  /\ hooking => /\ hook < total
                /\ now <= deadline
                /\ deadline <= Share(first + hook + 1)

BudgetInv ==
  /\ phase = "drain" => now <= deadline /\ deadline <= Share(1)
  /\ phase = "before" => HookShare(BeforeHooks, 1)
  /\ phase = "stop" => now <= deadline /\ deadline <= Share(BeforeHooks + 2)
  /\ phase = "after" => HookShare(AfterHooks, BeforeHooks + 2)
  /\ phase \in {"publish", "close", "closed"} =>
       now <= Share(BeforeHooks + AfterHooks + 2)

\* A share of the budget is one StopTimeout long.
LEMMA NextShare ==
  ASSUME TypeOK, NEW k \in Nat
  PROVE  Share(k + 1) = Share(k) + StopTimeout /\ Share(k) \in Nat
<1>1. StopTimeout * (k + 1) = StopTimeout * k + StopTimeout
      /\ StopTimeout * k \in Nat  BY LifecycleAssumption, Z3
<1>2. QED  BY <1>1, LifecycleAssumption DEF Share, TypeOK

LEMMA BudgetInvariant == Spec => []BudgetInv
<1>1. Init => BudgetInv  BY DEF Init, BudgetInv
<1>2. TypeOK /\ PhaseInv /\ BudgetInv /\ [Next]_vars => BudgetInv'
  <2> SUFFICES ASSUME TypeOK, PhaseInv, BudgetInv, [Next]_vars
               PROVE  BudgetInv'  OBVIOUS
  <2> DEFINE Steady == trigAt' = trigAt
  <2>s. ASSUME Steady, NEW k PROVE Share(k)' = Share(k)  BY <2>s DEF Share
  <2>t. /\ now \in Nat /\ deadline \in Nat /\ hook \in Nat
        /\ StopTimeout \in Nat /\ BeforeHooks \in Nat /\ AfterHooks \in Nat  BY LifecycleAssumption DEF TypeOK
  <2>1. CASE Stop  BY <2>1, <2>s DEF Stop, BudgetInv, HookShare
  <2>2. CASE Fire  BY <2>2, <2>s DEF Fire, BudgetInv, HookShare
  <2>3. CASE Run  BY <2>3 DEF Run, BudgetInv
  <2>b. ASSUME BeginShutdown, now' = now PROVE BudgetInv'
    <3>1. Share(1)' = now + StopTimeout  BY <2>b, <2>t DEF Share, BeginShutdown
    <3>2. QED  BY <2>b, <3>1, <2>t DEF BeginShutdown, BudgetInv
  <2>4. ASSUME NEW s \in Servers, NEW r \in StartResult, ServerExits(s, r)
        PROVE  BudgetInv'
    <3>1. CASE phase = "trigger"  BY <2>4, <3>1, <2>b DEF ServerExits
    <3>2. CASE phase = "drain"  BY <2>4, <3>2, <2>s DEF ServerExits, BudgetInv
    <3>3. QED  BY <2>4, <3>1, <3>2 DEF ServerExits
  <2>5. CASE SignalTriggers  BY <2>5, <2>b DEF SignalTriggers
  <2>6. CASE DrainDeadline  BY <2>6, <2>s DEF DrainDeadline, BudgetInv, HookShare
  <2>7. CASE Drained
    <3>1. now <= Share(1) /\ Share(1)' = Share(1)  BY <2>7, <2>s, <2>t, NextShare DEF Drained, BudgetInv, Share
    <3>2. ~hooking'  BY <2>7 DEF Drained, PhaseInv
    <3>3. QED  BY <2>7, <3>1, <3>2, <2>t DEF Drained, BudgetInv, HookShare
  <2>8. CASE HookBegins
    <3>1. CASE phase = "before"
      <4> DEFINE k == 1 + hook
      <4>1. k \in Nat  BY <2>t
      <4>2. /\ Share(k)' = Share(k) /\ Share(k + 1)' = Share(k + 1)
            /\ Share(k + 1) = Share(k) + StopTimeout /\ Share(k) \in Nat
        BY <2>8, <2>s, <4>1, NextShare DEF HookBegins
      <4>3. now <= Share(k) /\ hook < BeforeHooks  BY <2>8, <3>1 DEF HookBegins, BudgetInv, HookShare, Hooks
      <4>4. now' <= deadline' /\ deadline' <= Share(k + 1)'  BY <2>8, <4>2, <4>3, <2>t DEF HookBegins
      <4>5. hook' < BeforeHooks /\ hook' <= BeforeHooks  BY <2>8, <4>3, <2>t DEF HookBegins
      <4>6. HookShare(BeforeHooks, 1)'
        <5>1. now' <= deadline' /\ deadline' <= Share(1 + hook + 1)'  BY <4>4
        <5>2. hooking'  BY <2>8 DEF HookBegins
        <5>3. QED  BY <5>1, <5>2, <4>5 DEF HookShare
      <4>7. QED  BY <2>8, <3>1, <4>6 DEF HookBegins, BudgetInv
    <3>2. CASE phase = "after"
      <4> DEFINE k == BeforeHooks + 2 + hook
      <4>1. k \in Nat  BY <2>t
      <4>2. /\ Share(k)' = Share(k) /\ Share(k + 1)' = Share(k + 1)
            /\ Share(k + 1) = Share(k) + StopTimeout /\ Share(k) \in Nat
        BY <2>8, <2>s, <4>1, NextShare DEF HookBegins
      <4>3. QED  BY <2>8, <3>2, <4>2, <2>t DEF HookBegins, BudgetInv, HookShare, Hooks
    <3>3. QED  BY <2>8, <3>1, <3>2 DEF HookBegins
  <2>9. CASE HookOver
    <3>1. CASE phase = "before"
      <4> DEFINE k == 1 + hook
      <4>1. k + 1 \in Nat /\ k + 1 = 1 + hook' /\ k \in Nat  BY <2>9, <2>t DEF HookOver
      <4>2. Share(k + 1) \in Nat  BY <4>1, NextShare
      <4>3. now <= Share(1 + hook') /\ hook' <= BeforeHooks
        BY <2>9, <3>1, <4>1, <4>2, <2>t DEF HookOver, BudgetInv, HookShare
      <4>4. now <= Share(1 + hook)'  BY <2>9, <4>3, <2>t DEF HookOver, Share
      <4>5. QED  BY <2>9, <3>1, <4>3, <4>4 DEF HookOver, BudgetInv, HookShare
    <3>2. CASE phase = "after"
      <4> DEFINE k == BeforeHooks + 2 + hook
      <4>1. k + 1 \in Nat /\ k + 1 = BeforeHooks + 2 + hook' /\ k \in Nat  BY <2>9, <2>t DEF HookOver
      <4>2. Share(k + 1) \in Nat  BY <4>1, NextShare
      <4>3. now <= Share(BeforeHooks + 2 + hook') /\ hook' <= AfterHooks
        BY <2>9, <3>2, <4>1, <4>2, <2>t DEF HookOver, BudgetInv, HookShare
      <4>4. now <= Share(BeforeHooks + 2 + hook)'  BY <2>9, <4>3, <2>t DEF HookOver, Share
      <4>5. QED  BY <2>9, <3>2, <4>3, <4>4 DEF HookOver, BudgetInv, HookShare
    <3>3. QED  BY <2>9, <3>1, <3>2 DEF HookOver, PhaseInv
  <2>10. CASE HooksDone
    <3>1. CASE phase = "before"
      <4>1. 1 + BeforeHooks \in Nat /\ 1 + BeforeHooks + 1 = BeforeHooks + 2  BY <2>t
      <4>2. /\ Share(BeforeHooks + 2)' = Share(1 + BeforeHooks) + StopTimeout
            /\ Share(1 + BeforeHooks) \in Nat  BY <2>10, <2>s, <4>1, NextShare DEF HooksDone
      <4>3. now <= Share(1 + BeforeHooks)  BY <2>10, <3>1 DEF HooksDone, BudgetInv, HookShare, Hooks
      <4>4. QED  BY <2>10, <3>1, <4>2, <4>3, <2>t DEF HooksDone, BudgetInv
    <3>2. CASE phase = "after"
      <4>1. BeforeHooks + 2 + AfterHooks = BeforeHooks + AfterHooks + 2  BY <2>t
      <4>2. now <= Share(BeforeHooks + AfterHooks + 2)
        BY <2>10, <3>2, <4>1 DEF HooksDone, BudgetInv, HookShare, Hooks
      <4>3. QED  BY <2>10, <3>2, <4>2, <2>s DEF HooksDone, BudgetInv
    <3>3. QED  BY <2>10, <3>1, <3>2 DEF HooksDone
  <2>11. ASSUME NEW s \in Servers, NEW r \in StopResult, StopRecorded(s, r)
         PROVE  BudgetInv'  BY <2>11, <2>s DEF StopRecorded, BudgetInv
  <2>12. CASE StopsDone
    <3>1. /\ Share(BeforeHooks + 2) \in Nat
          /\ Share(BeforeHooks + 2)' = Share(BeforeHooks + 2)  BY <2>12, <2>s, <2>t, NextShare DEF StopsDone
    <3>2. now <= Share(BeforeHooks + 2)  BY <2>12, <3>1, <2>t DEF StopsDone, BudgetInv
    <3>3. ~hooking'  BY <2>12 DEF StopsDone, PhaseInv
    <3>4. BeforeHooks + 2 + 0 = BeforeHooks + 2  BY <2>t
    <3>5. QED  BY <2>12, <3>1, <3>2, <3>3, <3>4, <2>t DEF StopsDone, BudgetInv, HookShare
  <2>13. CASE Publish  BY <2>13, <2>s DEF Publish, BudgetInv
  <2>14. CASE Close  BY <2>14, <2>s DEF Close, BudgetInv
  <2>15. CASE Unwind  BY <2>15 DEF Unwind, BudgetInv
  <2>16. CASE Tick
    <3>1. CASE phase = "trigger"  BY <2>16, <3>1 DEF Tick, BudgetInv
    <3>2. CASE phase # "trigger"
      <4>1. now' <= deadline' /\ hook' = hook /\ deadline' = deadline  BY <2>16, <3>2, <2>t DEF Tick
      <4>2. phase = "before" => HookShare(BeforeHooks, 1)'
        BY <2>16, <3>2, <4>1, <2>s DEF Tick, Suspended, BudgetInv, HookShare
      <4>3. phase = "after" => HookShare(AfterHooks, BeforeHooks + 2)'
        BY <2>16, <3>2, <4>1, <2>s DEF Tick, Suspended, BudgetInv, HookShare
      <4>4. phase \notin {"publish", "close", "closed"}  BY <2>16 DEF Tick, Suspended, PhaseInv
      <4>5. QED  BY <2>16, <4>1, <4>2, <4>3, <4>4, <2>s DEF Tick, BudgetInv
    <3>3. QED  BY <3>1, <3>2
  <2>17. CASE UNCHANGED vars  BY <2>17, <2>s DEF vars, BudgetInv, HookShare
  <2>18. QED  BY <2>1, <2>2, <2>3, <2>4, <2>5, <2>6, <2>7, <2>8, <2>9, <2>10, <2>11,
       <2>12, <2>13, <2>14, <2>15, <2>16, <2>17
       DEF Next, Orchestrator, Environment, Terminated, HookReturns,
           HookCutOff, StopReturns, StopCutOff, HookPanics, RunDropped,
           StopResult
<1>3. QED  BY <1>1, <1>2, TypeCorrect, PhaseInvariant, PTL DEF Spec

\* The end of a later share is not earlier.
LEMMA SharesGrow ==
  ASSUME TypeOK, NEW k \in Nat, NEW m \in Nat, k <= m
  PROVE  Share(k) <= Share(m)
<1>1. StopTimeout * k <= StopTimeout * m
      /\ StopTimeout * k \in Nat /\ StopTimeout * m \in Nat
  <2>1. PICK d \in Nat : m = k + d  BY SMT
  <2>2. StopTimeout * (k + d) = StopTimeout * k + StopTimeout * d
        /\ StopTimeout * d \in Nat /\ StopTimeout * k \in Nat  BY LifecycleAssumption, Z3
  <2>3. QED  BY <2>1, <2>2
<1>2. QED  BY <1>1, LifecycleAssumption DEF Share, TypeOK

\* App::run, l. 311-390: from the trigger on, every phase ends within its own
\* share of the budget, so the whole shutdown takes at most one stop_timeout
\* for the drain, one for all teardowns and one per hook.
THEOREM ShutdownIsBounded == Spec => []ShutdownBounded
<1> DEFINE last == BeforeHooks + AfterHooks + 2
<1>1. TypeOK /\ BudgetInv => ShutdownBounded
  <2> SUFFICES ASSUME TypeOK, BudgetInv, phase \notin {"idle", "trigger", "unwound"}
               PROVE  now <= Share(last)  BY DEF ShutdownBounded, Share
  <2>1. /\ BeforeHooks \in Nat /\ AfterHooks \in Nat /\ last \in Nat
        /\ hook \in Nat /\ now \in Nat /\ deadline \in Nat  BY LifecycleAssumption DEF TypeOK
  <2>2. \A k \in Nat : k <= last => Share(k) \in Nat /\ Share(k) <= Share(last)
                        /\ Share(last) \in Nat  BY <2>1, SharesGrow, NextShare
  <2>3. CASE phase = "drain"
    <3>1. now <= deadline /\ deadline <= Share(1) /\ 1 <= last  BY <2>1, <2>3 DEF BudgetInv
    <3>2. QED  BY <2>1, <2>2, <3>1
  <2>4. CASE phase = "before"
    <3>1. CASE hooking
      <4>1. now <= deadline /\ deadline <= Share(1 + hook + 1) /\ hook < BeforeHooks
        BY <2>4, <3>1 DEF BudgetInv, HookShare
      <4>2. QED  BY <2>1, <2>2, <4>1
    <3>2. CASE ~hooking
      <4>1. now <= Share(1 + hook) /\ hook <= BeforeHooks  BY <2>4, <3>2 DEF BudgetInv, HookShare
      <4>2. QED  BY <2>1, <2>2, <4>1
    <3>3. QED  BY <3>1, <3>2
  <2>5. CASE phase = "stop"
    <3>1. now <= deadline /\ deadline <= Share(BeforeHooks + 2)  BY <2>5 DEF BudgetInv
    <3>2. QED  BY <2>1, <2>2, <3>1
  <2>6. CASE phase = "after"
    <3>1. CASE hooking
      <4>1. /\ now <= deadline /\ deadline <= Share(BeforeHooks + 2 + hook + 1)
            /\ hook < AfterHooks  BY <2>6, <3>1 DEF BudgetInv, HookShare
      <4>2. QED  BY <2>1, <2>2, <4>1
    <3>2. CASE ~hooking
      <4>1. now <= Share(BeforeHooks + 2 + hook) /\ hook <= AfterHooks  BY <2>6, <3>2 DEF BudgetInv, HookShare
      <4>2. QED  BY <2>1, <2>2, <4>1
    <3>3. QED  BY <3>1, <3>2
  <2>7. CASE phase \in {"publish", "close", "closed"}  BY <2>7 DEF BudgetInv
  <2>8. QED  BY <2>3, <2>4, <2>5, <2>6, <2>7 DEF TypeOK, Phases
<1>2. QED  BY <1>1, TypeCorrect, BudgetInvariant, PTL

(* The outcome.  OutcomeSound speaks of the published record alone;        *)
(* OutcomeInv adds what the two slots say of the futures while they are    *)
(* still being polled: the slot of a side names a future that ended as it  *)
(* says, and an empty start slot means no start future has failed.         *)

OutcomeInv ==
  /\ \A s \in Servers : start[s] = "new" <=> phase = "idle"
  /\ first_start = None => \A s \in Servers : start[s] \in FutureState \cup {"ok"}
  /\ first_start # None => start[first_start.by] = first_start.kind
  /\ first_stop # None => stop[first_stop.by] = first_stop.kind
  /\ outcome # Unset => phase \in {"close", "closed"}
  /\ OutcomeSound

\* A recorded kind is a result: no state of a future is mistaken for it.
LEMMA RecordKinds ==
  \A e \in ErrorRecord : e.by \in Servers /\ e.kind \notin FutureState /\ e.kind # "ok"
BY DEF ErrorRecord, FutureState, StopResult, StartResult

\* What the slot says after a result came in: what it said before, or that
\* result.
LEMMA RecordIsFirst ==
  ASSUME NEW slot, NEW r, NEW s \in Servers
  PROVE  \/ slot # None /\ Record(slot, r, s) = slot
         \/ slot = None /\ r = "ok" /\ Record(slot, r, s) = None
         \/ /\ slot = None /\ r # "ok"
            /\ Record(slot, r, s).by = s /\ Record(slot, r, s).kind = r
BY DEF Record

LEMMA OutcomeInvariant == Spec => []OutcomeInv
<1>1. Init => OutcomeInv  BY DEF Init, OutcomeInv, OutcomeSound, FutureState
<1>2. TypeOK /\ PhaseInv /\ OutcomeInv /\ [Next]_vars => OutcomeInv'
  <2> SUFFICES ASSUME TypeOK, PhaseInv, OutcomeInv, [Next]_vars
               PROVE  OutcomeInv'  OBVIOUS
  <2>k. /\ first_start # None => /\ first_start.by \in Servers
                                 /\ first_start.kind \notin FutureState
                                 /\ first_start.kind # "ok"
        /\ first_stop # None => /\ first_stop.by \in Servers
                                /\ first_stop.kind \notin FutureState
                                /\ first_stop.kind # "ok"  BY RecordKinds DEF TypeOK
  <2>u. ASSUME outcome = Unset, outcome' = Unset PROVE OutcomeSound'  BY <2>u DEF OutcomeSound
  <2>1. CASE Stop  BY <2>1 DEF Stop, OutcomeInv, OutcomeSound, is_cooperative
  <2>2. CASE Fire  BY <2>2 DEF Fire, OutcomeInv, OutcomeSound, is_cooperative
  <2>3. CASE Run  BY <2>3, <2>k, <2>u DEF Run, OutcomeInv, FutureState
  <2>4. ASSUME NEW s \in Servers, NEW r \in StartResult, ServerExits(s, r)
        PROVE  OutcomeInv'
    <3>1. /\ outcome = Unset /\ outcome' = Unset /\ start[s] = "live"
          /\ phase' = "drain" /\ start' = [start EXCEPT ![s] = r]
          /\ first_start' = Record(first_start, r, s)
          /\ first_stop' = first_stop /\ stop' = stop  BY <2>4 DEF ServerExits, BeginShutdown, OutcomeInv
    <3>2. /\ start \in [Servers -> FutureState \cup StartResult]
          /\ r \notin FutureState  BY DEF TypeOK, StartResult, FutureState
    <3>3. \A t \in Servers : start'[t] # "new"  BY <2>4, <3>1, <3>2 DEF OutcomeInv, ServerExits, FutureState
    <3>4. first_start' = None =>
            \A t \in Servers : start'[t] \in FutureState \cup {"ok"}
      <4> SUFFICES ASSUME first_start' = None, NEW t \in Servers
                   PROVE  start'[t] \in FutureState \cup {"ok"}  OBVIOUS
      <4>1. first_start = None /\ (r = "ok" \/ first_start' = [kind |-> r, by |-> s])  BY <3>1 DEF Record
      <4>2. r # "ok" => [kind |-> r, by |-> s] # None  BY LifecycleAssumption DEF StartResult
      <4>3. QED  BY <3>1, <3>2, <4>1, <4>2 DEF OutcomeInv
    <3>5. first_start' # None => start'[first_start'.by] = first_start'.kind
      <4>1. CASE first_start # None
        <5>1. first_start' = first_start /\ first_start.by # s
          BY <3>1, <4>1, <2>k DEF Record, OutcomeInv, FutureState
        <5>2. QED  BY <3>1, <3>2, <4>1, <5>1, <2>k DEF OutcomeInv
      <4>2. CASE first_start = None  BY <3>1, <3>2, <4>2, RecordIsFirst
      <4>3. QED  BY <4>1, <4>2
    <3>6. QED  BY <3>1, <3>3, <3>4, <3>5, <2>u DEF OutcomeInv
  <2>5. CASE SignalTriggers  BY <2>5 DEF SignalTriggers, BeginShutdown, OutcomeInv, OutcomeSound, is_cooperative
  <2>6. CASE DrainDeadline  BY <2>6, <2>k, <2>u DEF DrainDeadline, OutcomeInv, FutureState
  <2>7. CASE Drained  BY <2>7 DEF Drained, OutcomeInv, OutcomeSound, is_cooperative
  <2>8. CASE HookBegins  BY <2>8 DEF HookBegins, OutcomeInv, OutcomeSound, is_cooperative
  <2>9. CASE HookOver  BY <2>9 DEF HookOver, OutcomeInv, OutcomeSound, is_cooperative
  <2>10. CASE HooksDone
    <3>1. outcome = Unset /\ outcome' = Unset  BY <2>10 DEF HooksDone, OutcomeInv
    <3>2. first_stop # None => phase # "before"  BY <2>k DEF PhaseInv, OutcomeInv, FutureState
    <3>3. QED  BY <2>10, <3>1, <3>2, <2>u DEF HooksDone, OutcomeInv
  <2>11. ASSUME NEW s \in Servers, NEW r \in StopResult, StopRecorded(s, r)
         PROVE  OutcomeInv'
    <3>1. /\ outcome = Unset /\ outcome' = Unset /\ stop[s] = "live"
          /\ phase' = phase /\ stop' = [stop EXCEPT ![s] = r]
          /\ first_stop' = Record(first_stop, r, s)
          /\ first_start' = first_start /\ start' = start  BY <2>11 DEF StopRecorded, OutcomeInv
    <3>2. stop \in [Servers -> FutureState \cup StopResult]  BY DEF TypeOK
    <3>3. first_stop' # None => stop'[first_stop'.by] = first_stop'.kind
      <4>1. CASE first_stop # None
        <5>1. first_stop' = first_stop /\ first_stop.by # s  BY <3>1, <4>1, <2>k DEF Record, OutcomeInv, FutureState
        <5>2. QED  BY <3>1, <3>2, <4>1, <5>1, <2>k DEF OutcomeInv
      <4>2. CASE first_stop = None  BY <3>1, <3>2, <4>2, RecordIsFirst
      <4>3. QED  BY <4>1, <4>2
    <3>4. QED  BY <3>1, <3>3, <2>u DEF OutcomeInv
  <2>12. CASE StopsDone  BY <2>12 DEF StopsDone, OutcomeInv, OutcomeSound, is_cooperative
  <2>13. CASE Publish
    <3>1. /\ phase = "publish" /\ phase' = "close" /\ outcome' = Aggregate
          /\ first_start' = first_start /\ first_stop' = first_stop
          /\ start' = start /\ stop' = stop  BY <2>13 DEF Publish
    <3>2. OutcomeSound'
      <4> SUFFICES ASSUME Aggregate \notin {Unset, None}
                   PROVE  /\ ~is_cooperative(Aggregate)
                          /\ \/ start[Aggregate.by] = Aggregate.kind
                             \/ /\ stop[Aggregate.by] = Aggregate.kind
                                /\ \/ \E s \in Servers : start[s] = "cancelled"
                                   \/ \A s \in Servers : start[s] \in {"ok", "dropped"}
        BY <3>1 DEF OutcomeSound, is_cooperative
      <4>1. CASE Aggregate = first_start /\ first_start # None /\ ~is_cooperative(first_start)
        BY <4>1 DEF OutcomeInv
      <4>2. CASE /\ Aggregate = first_stop /\ first_stop # None /\ ~is_cooperative(first_stop)
                 /\ first_start = None \/ is_cooperative(first_start)
        <5>1. CASE first_start = None  BY <3>1, <4>2, <5>1 DEF OutcomeInv, PhaseInv, FutureState
        <5>2. CASE first_start # None /\ is_cooperative(first_start)
          BY <4>2, <5>2, <2>k DEF OutcomeInv, is_cooperative
        <5>3. QED  BY <4>2, <5>1, <5>2
      <4>3. QED  BY <4>1, <4>2 DEF Aggregate
    <3>3. QED  BY <3>1, <3>2 DEF OutcomeInv
  <2>14. CASE Close  BY <2>14 DEF Close, OutcomeInv, OutcomeSound, is_cooperative
  <2>15. CASE HookPanics \/ RunDropped
    <3>1. /\ outcome = Unset /\ outcome' = Unset
          /\ phase # "idle" /\ phase' = "unwound"
      BY <2>15 DEF HookPanics, RunDropped, Unwind, Suspended, PhaseInv, OutcomeInv
    <3>2. QED  BY <2>15, <3>1, <2>k, <2>u DEF HookPanics, RunDropped, Unwind, OutcomeInv, FutureState
  <2>16. CASE Tick  BY <2>16 DEF Tick, OutcomeInv, OutcomeSound, is_cooperative
  <2>17. CASE UNCHANGED vars  BY <2>17 DEF vars, OutcomeInv, OutcomeSound, is_cooperative
  <2>18. QED  BY <2>1, <2>2, <2>3, <2>4, <2>5, <2>6, <2>7, <2>8, <2>9, <2>10, <2>11,
       <2>12, <2>13, <2>14, <2>15, <2>16, <2>17
       DEF Next, Orchestrator, Environment, Terminated, HookReturns,
           HookCutOff, StopReturns, StopCutOff, StopResult
<1>3. QED  BY <1>1, <1>2, TypeCorrect, PhaseInvariant, PTL DEF Spec

\* App::run, l. 198-320: with any number of servers and hooks, phases never
\* overlap and a published error is one that the server it names reported; the
\* stop side's only when no start future failed on its own before.
THEOREM ShutdownIsOrderly == Spec => []OrderlyShutdown
<1>1. TypeOK /\ PhasesDisjoint /\ OutcomeInv => OrderlyShutdown  BY DEF OrderlyShutdown, OutcomeInv
<1>2. QED  BY <1>1, TypeCorrect, PhasesAreDisjoint, OutcomeInvariant, PTL

(* Abandoned servers: the drain deadline is what the trigger made it, in   *)
(* every later state of the drain.                                         *)

DrainInv == phase = "drain" => stop_signal /\ deadline = trigAt + StopTimeout

LEMMA DrainInvariant == Spec => []DrainInv
<1>1. Init => DrainInv  BY DEF Init, DrainInv
<1>2. TypeOK /\ PhaseInv /\ DrainInv /\ [Next]_vars => DrainInv'
  <2> SUFFICES ASSUME TypeOK, PhaseInv, DrainInv, [Next]_vars PROVE DrainInv'  OBVIOUS
  <2>1. CASE Stop \/ Fire \/ Run  BY <2>1 DEF Stop, Fire, Run, DrainInv
  <2>2. ASSUME NEW s \in Servers, NEW r \in StartResult, ServerExits(s, r)
        PROVE  DrainInv'  BY <2>2 DEF ServerExits, BeginShutdown, DrainInv
  <2>3. CASE SignalTriggers  BY <2>3 DEF SignalTriggers, BeginShutdown, DrainInv
  <2>4. CASE DrainDeadline \/ Drained  BY <2>4 DEF DrainDeadline, Drained, DrainInv
  <2>5. CASE HookBegins \/ HookOver \/ HooksDone  BY <2>5 DEF HookBegins, HookOver, HooksDone, DrainInv
  <2>6. ASSUME NEW s \in Servers, NEW r \in StopResult, StopRecorded(s, r)
        PROVE  DrainInv'  BY <2>6 DEF StopRecorded, DrainInv
  <2>7. CASE StopsDone \/ Publish \/ Close  BY <2>7 DEF StopsDone, Publish, Close, DrainInv
  <2>8. CASE Unwind  BY <2>8 DEF Unwind, DrainInv
  <2>9. CASE Tick \/ UNCHANGED vars  BY <2>9 DEF Tick, vars, DrainInv
  <2>10. QED
    BY <2>1, <2>2, <2>3, <2>4, <2>5, <2>6, <2>7, <2>8, <2>9
       DEF Next, Orchestrator, Environment, Terminated, HookReturns,
           HookCutOff, StopReturns, StopCutOff, HookPanics, RunDropped,
           StopResult
<1>3. QED  BY <1>1, <1>2, TypeCorrect, PhaseInvariant, PTL DEF Spec

\* The step that abandons start futures, for any budget: no step of `run` but
\* the drain deadline drops one, and it does so a full stop_timeout after the
\* trigger, with the signal fired.
LEMMA AbandonStep ==
  ASSUME TypeOK, DrainInv, [Next]_vars, NEW s \in Servers,
         start[s] = "live", start'[s] = "dropped", phase' # "unwound"
  PROVE  stop_signal /\ now >= trigAt + StopTimeout
<1>1. CASE DrainDeadline  BY <1>1 DEF DrainDeadline, DrainInv
<1>2. ASSUME NEW t \in Servers, NEW r \in StartResult, ServerExits(t, r)
      PROVE  FALSE  BY <1>2 DEF ServerExits, TypeOK, StartResult
<1>3. CASE Run  BY <1>3 DEF Run
<1>4. CASE Unwind  BY <1>4 DEF Unwind
<1>5. CASE start' = start  BY <1>5
<1>6. QED
  BY <1>1, <1>2, <1>3, <1>4, <1>5
     DEF Next, Orchestrator, Environment, Terminated, HookReturns, HookOver,
         HookCutOff, StopReturns, StopCutOff, HookPanics, RunDropped, Stop,
         Fire, SignalTriggers, Drained, HookBegins, HooksDone, StopRecorded,
         StopsDone, Publish, Close, Tick, vars

\* App::run, l. 243-258: the drain never abandons a server before its budget.
THEOREM NobodyAbandonedEarly == Spec => AbandonedOnlyAtFullBudget
<1>1. TypeOK /\ DrainInv /\ [Next]_vars
        => [\A s \in Servers :
              start[s] = "live" /\ start'[s] = "dropped" /\ phase' # "unwound"
                => stop_signal /\ now >= trigAt + StopTimeout]_vars  BY AbandonStep
<1>2. QED  BY <1>1, TypeCorrect, DrainInvariant, PTL DEF Spec, AbandonedOnlyAtFullBudget

(* Refinement: a step of `run` is a step of AppContract or a stutter.  The *)
(* mapping is read off the phases; each lemma says how one part of it      *)
(* moves.                                                                  *)

status == CASE phase \in {"idle", "trigger"} -> "up"
            [] phase = "unwound" -> "gone"
            [] phase = "closed" -> "closed"
            [] OTHER -> "stopping"
running == Live(start)
torn == {s \in Servers : stop[s] # "new"}
result == IF done_tx THEN Unset ELSE outcome

\* The mapped status by phase.
LEMMA StatusByPhase ==
  ASSUME phase \in Phases
  PROVE  /\ status = "up" <=> phase \in {"idle", "trigger"}
         /\ status = "gone" <=> phase = "unwound"
         /\ status = "closed" <=> phase = "closed"
         /\ status \in {"up", "gone", "closed", "stopping"}
BY DEF Phases, status

\* The contract's initial state.
LEMMA InitMaps == Init => Contract!Init
<1> SUFFICES ASSUME Init PROVE Contract!Init  OBVIOUS
<1>1. status = "up"  BY DEF Init, status
<1>2. running = {} /\ torn = {} /\ result = Unset  BY DEF Init, running, torn, result, Live
<1>3. QED  BY <1>1, <1>2 DEF Contract!Init, status, running, torn, result

\* A step that keeps the four mapped parts is a stutter of the contract.
LEMMA StutterMaps ==
  ASSUME status' = status, running' = running, torn' = torn, result' = result
  PROVE  UNCHANGED Contract!vars
BY DEF Contract!vars, status, running, torn, result

\* One step of `run`, action by action: which contract step it is.
LEMMA StepMaps ==
  ASSUME TypeOK, PhaseInv, [Next]_vars, TypeOK', PhaseInv'
  PROVE  Contract!Next \/ UNCHANGED Contract!vars
<1>0. phase \in Phases /\ phase' \in Phases  BY DEF TypeOK
<1>s. /\ status = "up" <=> phase \in {"idle", "trigger"}
      /\ status = "gone" <=> phase = "unwound"
      /\ status = "closed" <=> phase = "closed"
      /\ status \in {"up", "gone", "closed", "stopping"}  BY <1>0, StatusByPhase
<1>t. /\ status' = "up" <=> phase' \in {"idle", "trigger"}
      /\ status' = "gone" <=> phase' = "unwound"
      /\ status' = "closed" <=> phase' = "closed"
      /\ status' \in {"up", "gone", "closed", "stopping"}  BY <1>0 DEF Phases, status
<1>r. phase # "closed" /\ phase' # "closed" => result = Unset /\ result' = Unset  BY DEF result, PhaseInv
<1>1. CASE Stop \/ Fire \/ Tick \/ HookBegins \/ HookOver \/ UNCHANGED vars
  <2>1. UNCHANGED <<phase, start, stop, done_tx, outcome>>  BY <1>1 DEF Stop, Fire, Tick, HookBegins, HookOver, vars
  <2>2. status' = status /\ running' = running /\ torn' = torn /\ result' = result
    BY <2>1 DEF status, running, torn, result, Live
  <2>3. QED  BY <2>2, StutterMaps
<1>2. CASE Run
  <2>1. /\ status = "up" /\ status' = "up" /\ result' = result /\ torn' = torn
        /\ running' = Servers  BY <1>2, <1>s, <1>t, <1>r DEF Run, running, torn, Live
  <2>2. running = {}  BY <1>2 DEF Run, running, Live, PhaseInv
  <2>3. Contract!Begin  BY <2>1, <2>2 DEF Contract!Begin, status, running, torn, result
  <2>4. QED  BY <2>3 DEF Contract!Next
<1>3. ASSUME NEW s \in Servers, NEW r \in StartResult, ServerExits(s, r)
      PROVE  Contract!Leave
  <2>1. /\ phase' = "drain" /\ start' = [start EXCEPT ![s] = r]
        /\ start[s] = "live" /\ stop' = stop /\ phase \in {"trigger", "drain"}
    BY <1>3 DEF ServerExits, BeginShutdown
  <2>2. status' = "stopping" /\ result' = result /\ torn' = torn  BY <2>1, <1>t, <1>r DEF torn
  <2>3. running' = running \ {s} /\ {s} \in (SUBSET running) \ {{}}  BY <2>1 DEF running, Live, TypeOK, StartResult
  <2>4. QED  BY <2>2, <2>3 DEF Contract!Leave, status, running, torn, result
<1>4. CASE SignalTriggers
  <2>1. /\ status = "up" /\ status' = "stopping" /\ result' = result
        /\ running' = running /\ torn' = torn
    BY <1>4, <1>s, <1>t, <1>r DEF SignalTriggers, BeginShutdown, running, torn, Live
  <2>2. Contract!AskedToStop  BY <2>1 DEF Contract!AskedToStop, status, running, torn, result
  <2>3. QED  BY <2>2 DEF Contract!Next
<1>5. CASE DrainDeadline
  <2>1. /\ status' = "stopping" /\ result' = result /\ torn' = torn  BY <1>5, <1>t, <1>r DEF DrainDeadline, torn
  <2>2. running' = running \ running /\ running \in (SUBSET running) \ {{}}
    BY <1>5 DEF DrainDeadline, running, Live
  <2>3. Contract!Leave  BY <2>1, <2>2 DEF Contract!Leave, status, running, torn, result
  <2>4. QED  BY <2>3 DEF Contract!Next
<1>6. CASE Drained \/ StopsDone \/ Publish
  <2>1. /\ status = "stopping" /\ status' = "stopping" /\ result' = result
        /\ running' = running /\ torn' = torn
    BY <1>6, <1>s, <1>t, <1>r DEF Drained, StopsDone, Publish, running, torn, Live
  <2>2. QED  BY <2>1, StutterMaps
<1>7. CASE HooksDone
  <2>1. /\ status = "stopping" /\ status' = "stopping" /\ result' = result
        /\ running' = running /\ running = {}  BY <1>7, <1>s, <1>t, <1>r DEF HooksDone, running, Live, PhaseInv
  <2>2. CASE phase = "before"
    <3>1. torn' = Servers  BY <1>7, <2>2 DEF HooksDone, torn
    <3>2. Contract!TearDown  BY <2>1, <3>1 DEF Contract!TearDown, status, running, torn, result
    <3>3. QED  BY <3>2 DEF Contract!Next
  <2>3. CASE phase = "after"
    <3>1. torn' = torn  BY <1>7, <2>3 DEF HooksDone, torn
    <3>2. QED  BY <2>1, <3>1, StutterMaps
  <2>4. QED  BY <1>7, <2>2, <2>3 DEF HooksDone
<1>8. ASSUME NEW s \in Servers, NEW r \in StopResult, StopRecorded(s, r)
      PROVE  UNCHANGED Contract!vars
  <2>1. /\ phase = "stop" /\ phase' = phase /\ start' = start
        /\ stop' = [stop EXCEPT ![s] = r] /\ stop[s] = "live"  BY <1>8 DEF StopRecorded
  <2>2. status' = status /\ result' = result /\ running' = running  BY <2>1, <1>r DEF status, running, Live
  <2>3. torn' = torn  BY <2>1 DEF torn, TypeOK, StopResult, StartResult
  <2>4. QED  BY <2>2, <2>3, StutterMaps
<1>9. CASE Close
  <2>1. /\ status = "stopping" /\ status' = "closed"
        /\ running' = running /\ torn' = torn  BY <1>9, <1>s, <1>t DEF Close, running, torn, Live
  <2>2. running = {} /\ torn = Servers  BY <1>9 DEF Close, running, torn, Live, PhaseInv, StopResult, StartResult
  <2>3. result' \in ErrorRecord \cup {None}  BY <1>9 DEF Close, result, TypeOK, PhaseInv
  <2>4. Contract!CloseApp  BY <2>1, <2>2, <2>3 DEF Contract!CloseApp, status, running, torn, result
  <2>5. QED  BY <2>4 DEF Contract!Next
<1>10. CASE HookPanics \/ RunDropped
  <2>1. phase \notin {"idle", "closed", "unwound"} /\ phase' = "unwound"
    BY <1>10 DEF HookPanics, RunDropped, Unwind, Suspended, PhaseInv
  <2>2. status \in {"up", "stopping"} /\ status' = "gone" /\ result' = result  BY <2>1, <1>s, <1>t, <1>r
  <2>3. running' = {}  BY <1>10 DEF HookPanics, RunDropped, Unwind, running, Live
  <2>4. torn' = torn  BY <1>10 DEF HookPanics, RunDropped, Unwind, torn
  <2>5. Contract!Vanish  BY <2>2, <2>3, <2>4 DEF Contract!Vanish, status, running, torn, result
  <2>6. QED  BY <2>5 DEF Contract!Next
<1>11. QED
  BY <1>1, <1>2, <1>3, <1>4, <1>5, <1>6, <1>7, <1>8, <1>9, <1>10
     DEF Next, Orchestrator, Environment, Terminated, HookReturns,
         HookCutOff, StopReturns, StopCutOff, StopResult, Contract!Next

\* App::run does what rushwind-core promises the rest of the process: its
\* initial state is the contract's, and every step it takes is one the
\* contract allows or changes nothing the contract speaks of.
THEOREM StepsImplementContract ==
  Spec => Contract!Init /\ [][Contract!Next]_(Contract!vars)
<1>1. TypeOK /\ PhaseInv /\ TypeOK' /\ PhaseInv' /\ [Next]_vars
        => [Contract!Next]_(Contract!vars)  BY StepMaps
<1>2. QED  BY <1>1, InitMaps, TypeCorrect, PhaseInvariant, PTL DEF Spec

-----------------------------------------------------------------------------
(* The counter.                                                            *)

CounterInv == CounterTypeOK /\ NoSlotLeaks /\ CapHolds

\* Adding an element, or taking one away, moves the size of a finite set by one.
LEMMA SizeByOne ==
  ASSUME NEW S \in SUBSET Callers, NEW c \in Callers
  PROVE  /\ Cardinality(S) \in Nat
         /\ c \notin S => Cardinality(S \cup {c}) = Cardinality(S) + 1
         /\ c \in S => Cardinality(S \ {c}) = Cardinality(S) - 1
<1>1. IsFiniteSet(S)  BY FS_Subset, CounterAssumption
<1>2. QED  BY <1>1, FS_CardinalityType, FS_AddElement, FS_RemoveElement

\* SessionCounter::admit and SessionCounterGuard::drop, session.rs l. 195-224:
\* the invariant that bounds the guards relates the counter to the guards and
\* to the refusals in flight.
LEMMA CounterInvariant == CounterSpec => []CounterInv
<1>1. CounterInit => CounterInv
  <2>1. Cardinality({}) = 0  BY FS_EmptySet
  <2>2. QED  BY <2>1, CounterAssumption DEF CounterInit, CounterInv, CounterTypeOK, NoSlotLeaks, CapHolds
<1>2. CounterInv /\ [CounterNext]_counterVars => CounterInv'
  <2> SUFFICES ASSUME CounterInv, [CounterNext]_counterVars
               PROVE  CounterInv'  OBVIOUS
  <2> USE DEF CounterInv, CounterTypeOK, NoSlotLeaks, CapHolds
  <2>0. /\ Cap \in Nat
        /\ Cardinality(held) \in Nat /\ Cardinality(over) \in Nat
    BY CounterAssumption, FS_Subset, FS_CardinalityType
  <2>1. ASSUME NEW c \in Callers, AdmitAdds(c) PROVE CounterInv'
    <3>1. CASE live >= Cap
      <4>1. Cardinality(over') = Cardinality(over) + 1 /\ held' = held  BY <2>1, <3>1, SizeByOne DEF AdmitAdds
      <4>2. live' = live + 1 /\ over' \subseteq Callers /\ over' \cap held = {}  BY <2>1, <3>1 DEF AdmitAdds
      <4>3. QED  BY <2>0, <4>1, <4>2
    <3>2. CASE ~(live >= Cap)
      <4>1. Cardinality(held') = Cardinality(held) + 1 /\ over' = over  BY <2>1, <3>2, SizeByOne DEF AdmitAdds
      <4>2. live' = live + 1 /\ held' \subseteq Callers /\ over \cap held' = {}  BY <2>1, <3>2 DEF AdmitAdds
      <4>3. QED  BY <2>0, <3>2, <4>1, <4>2
    <3>3. QED  BY <3>1, <3>2
  <2>2. ASSUME NEW c \in Callers, AdmitUndoes(c) PROVE CounterInv'
    <3>1. /\ Cardinality(over') = Cardinality(over) - 1 /\ held' = held
          /\ Cardinality(over') \in Nat  BY <2>2, SizeByOne DEF AdmitUndoes
    <3>2. live' = live - 1 /\ over' \subseteq Callers /\ over' \cap held = {}  BY <2>2 DEF AdmitUndoes
    <3>3. QED  BY <2>0, <3>1, <3>2
  <2>3. ASSUME NEW c \in Callers, GuardDrops(c) PROVE CounterInv'
    <3>1. /\ Cardinality(held') = Cardinality(held) - 1 /\ over' = over
          /\ Cardinality(held') \in Nat  BY <2>3, SizeByOne DEF GuardDrops
    <3>2. live' = live - 1 /\ held' \subseteq Callers /\ over \cap held' = {}  BY <2>3 DEF GuardDrops
    <3>3. QED  BY <2>0, <3>1, <3>2
  <2>4. CASE UNCHANGED counterVars  BY <2>4 DEF counterVars
  <2>5. QED  BY <2>1, <2>2, <2>3, <2>4 DEF CounterNext
<1>3. QED  BY <1>1, <1>2, PTL DEF CounterSpec

\* No interleaving of admissions, refusals and guard drops exceeds the cap.
THEOREM CapIsNeverExceeded == CounterSpec => []CapHolds
<1>1. CounterInv => CapHolds  BY DEF CounterInv
<1>2. QED  BY <1>1, CounterInvariant, PTL

\* The counter returns to zero with the last guard: no slot is lost or freed
\* twice, so it cannot wrap around either.
THEOREM SlotsNeverLeak == CounterSpec => []NoSlotLeaks
<1>1. CounterInv => NoSlotLeaks  BY DEF CounterInv
<1>2. QED  BY <1>1, CounterInvariant, PTL

-----------------------------------------------------------------------------
(* A step of the whole is a step of each part, or leaves it alone.         *)

\* The application among its servers behaves as it does alone.
LEMMA AppRunsAlone == ServingSpec => Spec
<1>1. ServingInit => Init  BY DEF ServingInit
<1>2. [ServingNext]_allVars => [Next]_vars  BY DEF ServingNext, InApp, InRoute, InLoop, allVars
<1>3. QED  BY <1>1, <1>2, PTL DEF ServingSpec, Spec

\* A step of the route asks the counter for one of its own steps, or none.
LEMMA RouteCounts ==
  ASSUME W!Next
  PROVE  [CounterNext]_counterVars
<1>1. ASSUME NEW c \in Callers, W!Serves(c) \/ W!Peer(c)
      PROVE  [CounterNext]_counterVars
  BY <1>1
     DEF W!Serves, W!Peer, W!Gates, W!Precheck, W!Admission, W!Refusal,
         W!BusEndsSession, W!Request, W!UpgradeFails, W!SessionEnds,
         W!AdmitAdds, W!AdmitUndoes, W!GuardDrops, W!counterVars,
         CounterNext, AdmitAdds, AdmitUndoes, GuardDrops, counterVars
<1>2. CASE W!StopFires \/ W!Relay \/ W!ServeReturns \/ W!Rest
  BY <1>2 DEF W!StopFires, W!Relay, W!ServeReturns, W!Rest, W!vars, W!counterVars, counterVars
<1>3. QED  BY <1>1, <1>2 DEF W!Next

\* And so does a step of an accept loop.
LEMMA LoopCounts ==
  ASSUME A!Next
  PROVE  [CounterNext]_counterVars
<1>1. ASSUME NEW c \in Callers, A!Accept(c) \/ A!Serves(c) \/ A!Winds(c) \/ A!Peer(c)
      PROVE  [CounterNext]_counterVars
  BY <1>1
     DEF A!Accept, A!Serves, A!Winds, A!Peer, A!Gate, A!HandshakeExpires,
         A!HandshakeDone, A!Admission, A!Refusal, A!SessionStopped, A!SessionCutOff,
         A!SessionOver, A!Knock, A!HandshakeFails, A!SessionEnds, A!SessionPanics, A!Resolves,
         A!AdmitAdds, A!AdmitUndoes, A!GuardDrops, A!counterVars,
         CounterNext, AdmitAdds, AdmitUndoes, GuardDrops, counterVars
<1>2. CASE A!StopFires \/ A!Returns \/ A!Teardown \/ A!Rest
  BY <1>2 DEF A!StopFires, A!Returns, A!Teardown, A!Rest, A!vars, A!counterVars, counterVars
<1>3. QED  BY <1>1, <1>2 DEF A!Next

\* Whoever uses it, the counter sees admissions, refusals and guard drops only.
LEMMA CounterRunsAlone == ServingSpec => CounterSpec
<1>1. ServingInit => CounterInit  BY DEF ServingInit, W!Init, W!CounterInit, CounterInit
<1>2. [ServingNext]_allVars => [CounterNext]_counterVars
  BY RouteCounts, LoopCounts DEF ServingNext, InApp, InRoute, InLoop, allVars
<1>3. QED  BY <1>1, <1>2, PTL DEF ServingSpec, CounterSpec

-----------------------------------------------------------------------------
(* The websocket route.  The counter's books are the route's places; what  *)
(* is said of sessions has to be said of handshakes on their way there.    *)

RouteTypes ==
  /\ place \in [Callers -> W!Places]
  /\ answer \in [Callers -> W!Answers]
  /\ wsStop \in BOOLEAN /\ bus \in BOOLEAN /\ listening \in BOOLEAN
  /\ serve \in {"running", "cancelled"}

\* A handshake that came past the gates was not one they reject, and one that
\* came past the pre-check has been answered.
OnTheWay ==
  \A c \in Callers :
    /\ place[c] \in {"gated", "upgrading", "refusing", "session"} => c \notin Rejected
    /\ place[c] \in {"upgrading", "session"} => answer[c] = "switching"

BooksAreRight ==
  /\ held = {c \in Callers : place[c] = "session"}
  /\ over = {c \in Callers : place[c] = "refusing"}

\* The relay comes first, then the listener stops, then start returns; no
\* request is handled after that.
StopInOrder ==
  /\ ~listening => bus
  /\ serve = "cancelled" =>
       ~listening /\ \A c \in Callers : place[c] \notin {"handler", "gated"}

RouteInv == RouteTypes /\ OnTheWay /\ BooksAreRight /\ StopInOrder

\* Every step of clients, sessions and server keeps that.
LEMMA RouteSteps ==
  ASSUME RouteInv, W!Next
  PROVE  RouteInv'
<1> USE DEF RouteInv, RouteTypes, OnTheWay, BooksAreRight, StopInOrder, W!Places, W!Answers
<1>1. ASSUME NEW c \in Callers, W!Request(c) PROVE RouteInv'
  <2>1. /\ place[c] = "away" /\ place' = [place EXCEPT ![c] = "handler"] /\ listening
        /\ UNCHANGED <<held, over, answer, wsStop, bus, listening, serve>>
    BY <1>1 DEF W!Request, W!Moves, W!counterVars
  <2>2. QED  BY <2>1
<1>2. ASSUME NEW c \in Callers, W!Gates(c) PROVE RouteInv'
  <2>1. /\ place[c] = "handler"
        /\ UNCHANGED <<held, over, wsStop, bus, listening, serve>>
        /\ \/ /\ c \in Rejected /\ place' = [place EXCEPT ![c] = "over"]
              /\ answer' = [answer EXCEPT ![c] = "forbidden"]
           \/ /\ c \notin Rejected /\ place' = [place EXCEPT ![c] = "gated"]
              /\ answer' = answer  BY <1>2 DEF W!Gates, W!Moves, W!Answered, W!counterVars
  <2>2. QED  BY <2>1
<1>3. ASSUME NEW c \in Callers, W!Precheck(c) PROVE RouteInv'
  <2>1. /\ place[c] = "gated"
        /\ UNCHANGED <<held, over, wsStop, bus, listening, serve>>
        /\ \/ /\ place' = [place EXCEPT ![c] = "over"]
              /\ answer' = [answer EXCEPT ![c] = "too_many"]
           \/ /\ place' = [place EXCEPT ![c] = "upgrading"]
              /\ answer' = [answer EXCEPT ![c] = "switching"]
    BY <1>3 DEF W!Precheck, W!Moves, W!Answered, W!counterVars
  <2>2. QED  BY <2>1
<1>4. ASSUME NEW c \in Callers, W!UpgradeFails(c) PROVE RouteInv'
  <2>1. /\ place[c] = "upgrading" /\ place' = [place EXCEPT ![c] = "over"]
        /\ UNCHANGED <<held, over, answer, wsStop, bus, listening, serve>>
    BY <1>4 DEF W!UpgradeFails, W!Moves, W!counterVars
  <2>2. QED  BY <2>1
<1>5. ASSUME NEW c \in Callers, W!Admission(c) PROVE RouteInv'
  <2>1. /\ place[c] = "upgrading"
        /\ place' = [place EXCEPT ![c] = IF c \in held' THEN "session" ELSE "refusing"]
        /\ UNCHANGED <<answer, wsStop, bus, listening, serve>>
        /\ \/ over' = over \cup {c} /\ held' = held
           \/ held' = held \cup {c} /\ over' = over  BY <1>5 DEF W!Admission, W!AdmitAdds, W!Moves
  <2>2. c \notin held  BY <2>1
  <2>3. QED  BY <2>1, <2>2
<1>6. ASSUME NEW c \in Callers, W!Refusal(c) PROVE RouteInv'
  <2>1. /\ place[c] = "refusing" /\ place' = [place EXCEPT ![c] = "over"]
        /\ over' = over \ {c} /\ held' = held
        /\ UNCHANGED <<answer, wsStop, bus, listening, serve>>  BY <1>6 DEF W!Refusal, W!AdmitUndoes, W!Moves
  <2>2. QED  BY <2>1
<1>7. ASSUME NEW c \in Callers, W!SessionEnds(c) \/ W!BusEndsSession(c) PROVE RouteInv'
  <2>1. /\ place[c] = "session" /\ place' = [place EXCEPT ![c] = "over"]
        /\ held' = held \ {c} /\ over' = over
        /\ UNCHANGED <<answer, wsStop, bus, listening, serve>>
    BY <1>7 DEF W!SessionEnds, W!BusEndsSession, W!GuardDrops, W!Moves
  <2>2. QED  BY <2>1
<1>8. CASE W!StopFires \/ W!Relay \/ W!ServeReturns \/ W!Rest
  <2>1. UNCHANGED <<held, over, place, answer>>
    BY <1>8 DEF W!StopFires, W!Relay, W!ServeReturns, W!Rest, W!vars, W!counterVars, W!routeVars
  <2>2. /\ wsStop' \in BOOLEAN /\ bus' \in BOOLEAN /\ listening' \in BOOLEAN
        /\ serve' \in {"running", "cancelled"}
    BY <1>8 DEF W!StopFires, W!Relay, W!ServeReturns, W!Rest, W!vars, W!routeVars
  <2>3. StopInOrder'  BY <1>8 DEF W!StopFires, W!Relay, W!ServeReturns, W!Rest, W!vars, W!routeVars, W!InFlight
  <2>4. QED  BY <2>1, <2>2, <2>3
<1>9. QED  BY <1>1, <1>2, <1>3, <1>4, <1>5, <1>6, <1>7, <1>8 DEF W!Next, W!Serves, W!Peer

LEMMA RouteInitially == W!Init => RouteInv
BY DEF W!Init, W!CounterInit, RouteInv, RouteTypes, OnTheWay, BooksAreRight, StopInOrder,
       W!Places, W!Answers

LEMMA RouteInvariant == ServingSpec => [](turn = "route" => RouteInv)
<1>1. ServingInit => RouteInv  BY RouteInitially DEF ServingInit
<1>2. (turn = "route" => RouteInv) /\ [ServingNext]_allVars => (turn = "route" => RouteInv)'
  <2> SUFFICES ASSUME turn = "route" => RouteInv, [ServingNext]_allVars, turn' = "route"
               PROVE  RouteInv'  OBVIOUS
  <2>1. CASE InRoute(W!Next)  BY <2>1, RouteSteps DEF InRoute
  <2>2. CASE UNCHANGED allVars
    BY <2>2 DEF allVars, counterVars, routeVars, RouteInv, RouteTypes, OnTheWay, BooksAreRight, StopInOrder
  <2>3. QED  BY <2>1, <2>2 DEF ServingNext, InApp, InLoop
<1>3. QED  BY <1>1, <1>2, PTL DEF ServingSpec

-----------------------------------------------------------------------------
(* The accept loops.  A loop has at most one attempt in hand, and only it  *)
(* admits; so whatever it obtained for that attempt is still its own.      *)

LoopTypes ==
  /\ config \in A!Configs
  /\ at \in [Callers -> {"away", "waiting", "current", "session", "over", "panicked"}]
  /\ stage \in {"accept", "gate", "handshake", "confirm", "admit", "undo", "returned"}
  /\ connected \subseteq Callers /\ closed \subseteq Callers /\ deaf \subseteq Callers
  /\ quicStop \in BOOLEAN /\ endpoint \in BOOLEAN

\* Every transport visits its own stages only.
StagesOfTheFlavor ==
  /\ stage = "gate" => config.flavor # "h3"
  /\ stage = "confirm" => config.flavor = "webtransport"

OneInHand ==
  /\ \A c, d \in Callers : at[c] = "current" /\ at[d] = "current" => c = d
  /\ stage \in {"accept", "returned"} => \A c \in Callers : at[c] # "current"

\* The refusal in flight, if there is one, is the loop's.
OnlyAdmitter ==
  \A c \in Callers : c \in over => at[c] = "current" /\ stage = "undo"

\* The endpoint is closed after the loop's last step, with all it owns.
EndpointLast == ~endpoint => stage = "returned" /\ connected \subseteq closed

LoopInv ==
  /\ LoopTypes /\ StagesOfTheFlavor /\ OneInHand /\ OnlyAdmitter
  /\ EndpointLast /\ A!NoConnectionForgotten

\* What comes after a stage, transport by transport.
LEMMA FollowingStages ==
  /\ config.flavor = "quic" =>
       A!Following("gate") = "handshake" /\ A!Following("handshake") = "admit"
  /\ config.flavor = "webtransport" =>
       /\ A!Following("handshake") = "gate"
       /\ A!Following("gate") = "confirm" /\ A!Following("confirm") = "admit"
  /\ config.flavor = "h3" => A!Following("handshake") = "admit"
<1>1. ASSUME config.flavor = "quic"
      PROVE  A!Following("gate") = "handshake" /\ A!Following("handshake") = "admit"
  <2>1. A!Stages = <<"gate", "handshake", "admit">>  BY <1>1 DEF A!Stages
  <2>2. \A k \in 1..(Len(A!Stages) - 1) : k = 1 \/ k = 2  BY <2>1
  <2>3. 1 \in 1..(Len(A!Stages) - 1) /\ 2 \in 1..(Len(A!Stages) - 1)  BY <2>1
  <2>4. /\ A!Stages[1] = "gate" /\ A!Stages[2] = "handshake" /\ A!Stages[3] = "admit"
        /\ 1 + 1 = 2 /\ 2 + 1 = 3  BY <2>1
  <2>5. QED  BY <2>2, <2>3, <2>4 DEF A!Following
<1>2. ASSUME config.flavor = "webtransport"
      PROVE  /\ A!Following("handshake") = "gate"
             /\ A!Following("gate") = "confirm" /\ A!Following("confirm") = "admit"
  <2>1. A!Stages = <<"handshake", "gate", "confirm", "admit">>  BY <1>2 DEF A!Stages
  <2>2. \A k \in 1..(Len(A!Stages) - 1) : k = 1 \/ k = 2 \/ k = 3  BY <2>1
  <2>3. 1 \in 1..(Len(A!Stages) - 1) /\ 2 \in 1..(Len(A!Stages) - 1)
        /\ 3 \in 1..(Len(A!Stages) - 1)  BY <2>1
  <2>4. /\ A!Stages[1] = "handshake" /\ A!Stages[2] = "gate" /\ A!Stages[3] = "confirm"
        /\ A!Stages[4] = "admit" /\ 1 + 1 = 2 /\ 2 + 1 = 3 /\ 3 + 1 = 4  BY <2>1
  <2>5. QED  BY <2>2, <2>3, <2>4 DEF A!Following
<1>3. ASSUME config.flavor = "h3"
      PROVE  A!Following("handshake") = "admit"
  <2>1. A!Stages = <<"handshake", "admit">>  BY <1>3 DEF A!Stages
  <2>2. \A k \in 1..(Len(A!Stages) - 1) : k = 1  BY <2>1
  <2>3. 1 \in 1..(Len(A!Stages) - 1)  BY <2>1
  <2>4. A!Stages[1] = "handshake" /\ A!Stages[2] = "admit" /\ 1 + 1 = 2  BY <2>1
  <2>5. QED  BY <2>2, <2>3, <2>4 DEF A!Following
<1>4. QED  BY <1>1, <1>2, <1>3

\* So the next stage exists, and belongs to the transport.
LEMMA NextStage ==
  ASSUME LoopTypes, StagesOfTheFlavor, stage \in {"gate", "handshake", "confirm"}
  PROVE  /\ A!Following(stage) \in {"gate", "handshake", "confirm", "admit"}
         /\ A!Following(stage) = "gate" => config.flavor # "h3"
         /\ A!Following(stage) = "confirm" => config.flavor = "webtransport"
         /\ stage = "gate" => A!Following(stage) \in {"handshake", "confirm"}
<1>1. config.flavor \in {"quic", "webtransport", "h3"}  BY DEF LoopTypes, A!Configs
<1>2. QED  BY <1>1, FollowingStages DEF StagesOfTheFlavor

LEMMA FirstStage ==
  ASSUME LoopTypes
  PROVE  /\ Head(A!Stages) \in {"gate", "handshake"}
         /\ Head(A!Stages) = "gate" => config.flavor # "h3"
<1>1. config.flavor \in {"quic", "webtransport", "h3"}  BY DEF LoopTypes, A!Configs
<1>2. CASE config.flavor = "quic"
  <2>1. A!Stages = <<"gate", "handshake", "admit">>  BY <1>2 DEF A!Stages
  <2>2. QED  BY <1>2, <2>1
<1>3. CASE config.flavor = "webtransport"
  <2>1. A!Stages = <<"handshake", "gate", "confirm", "admit">>  BY <1>3 DEF A!Stages
  <2>2. QED  BY <2>1
<1>4. CASE config.flavor = "h3"
  <2>1. A!Stages = <<"handshake", "admit">>  BY <1>4 DEF A!Stages
  <2>2. QED  BY <2>1
<1>5. QED  BY <1>1, <1>2, <1>3, <1>4

\* Every step of the loop, of sessions and of peers keeps the invariant.
LEMMA LoopSteps ==
  ASSUME LoopInv, A!Next
  PROVE  LoopInv'
<1> USE DEF LoopInv, LoopTypes, StagesOfTheFlavor, OneInHand, OnlyAdmitter,
            EndpointLast, A!NoConnectionForgotten, A!counterVars
<1>1. ASSUME NEW c \in Callers, A!Knock(c) PROVE LoopInv'  BY <1>1 DEF A!Knock
<1>2. ASSUME NEW c \in Callers, A!Accept(c) PROVE LoopInv'
  <2>1. /\ Head(A!Stages) \in {"gate", "handshake"}
        /\ Head(A!Stages) = "gate" => config.flavor # "h3"  BY FirstStage
  <2>2. /\ at[c] = "waiting" /\ at' = [at EXCEPT ![c] = "current"]
        /\ stage = "accept" /\ stage' = Head(A!Stages)
        /\ UNCHANGED <<config, live, over, held, connected, closed, deaf, quicStop, endpoint>>  BY <1>2 DEF A!Accept
  <2>3. QED  BY <2>1, <2>2
<1>g. ASSUME NEW c \in Callers, at[c] = "current", stage \in {"gate", "handshake", "confirm"},
             A!GivesUp(c),
             UNCHANGED <<config, live, over, held, connected, closed, deaf, quicStop, endpoint>>
      PROVE  LoopInv'
  <2>1. at' = [at EXCEPT ![c] = "over"] /\ stage' = "accept"  BY <1>g DEF A!GivesUp
  <2>2. \A d \in Callers : at'[d] # "current"  BY <1>g, <2>1
  <2>3. c \notin connected \/ c \in closed  BY <1>g
  <2>4. QED  BY <1>g, <2>1, <2>2, <2>3
<1>3. ASSUME NEW c \in Callers, A!Gate(c) PROVE LoopInv'
  <2>1. CASE A!GivesUp(c)  BY <1>3, <2>1, <1>g DEF A!Gate
  <2>2. CASE stage' = A!Following(stage) /\ UNCHANGED at
    <3>1. /\ stage = "gate" /\ at[c] = "current"
          /\ UNCHANGED <<config, live, over, held, connected, closed, deaf, quicStop, endpoint>>  BY <1>3 DEF A!Gate
    <3>2. /\ A!Following(stage) \in {"handshake", "confirm"}
          /\ A!Following(stage) = "confirm" => config.flavor = "webtransport"  BY <3>1, NextStage
    <3>3. QED  BY <2>2, <3>1, <3>2
  <2>3. QED  BY <1>3, <2>1, <2>2 DEF A!Gate
<1>4. ASSUME NEW c \in Callers, A!HandshakeExpires(c) \/ A!HandshakeFails(c) PROVE LoopInv'
  BY <1>4, <1>g DEF A!HandshakeExpires, A!HandshakeFails
<1>5. ASSUME NEW c \in Callers, A!HandshakeDone(c) PROVE LoopInv'
  <2>1. /\ stage \in {"handshake", "confirm"} /\ at[c] = "current"
        /\ stage' = A!Following(stage)
        /\ connected' = IF stage' = "admit" THEN connected \cup {c} ELSE connected
        /\ UNCHANGED <<config, live, over, held, at, closed, deaf, quicStop, endpoint>>  BY <1>5 DEF A!HandshakeDone
  <2>2. /\ A!Following(stage) \in {"gate", "handshake", "confirm", "admit"}
        /\ A!Following(stage) = "gate" => config.flavor # "h3"
        /\ A!Following(stage) = "confirm" => config.flavor = "webtransport"  BY <2>1, NextStage
  <2>3. \A d \in connected : at[d] = "current" => d \in closed  BY <2>1
  <2>4. QED  BY <2>1, <2>2, <2>3
<1>6. ASSUME NEW c \in Callers, A!Admission(c) PROVE LoopInv'
  <2>1. /\ stage = "admit" /\ at[c] = "current"
        /\ UNCHANGED <<config, connected, closed, quicStop, endpoint>>
        /\ \/ over' = over \cup {c} /\ held' = held
           \/ held' = held \cup {c} /\ over' = over  BY <1>6 DEF A!Admission, A!AdmitAdds
  <2>2. over = {} \/ \A d \in Callers : d \notin over  BY <2>1
  <2>3. CASE c \in held'
    <3>1. /\ at' = [at EXCEPT ![c] = "session"] /\ stage' = "accept"
          /\ deaf' = IF config.flavor = "h3" THEN deaf \cup {c} ELSE deaf  BY <1>6, <2>3 DEF A!Admission
    <3>2. \A d \in Callers : at'[d] # "current"  BY <2>1, <3>1
    <3>3. \A d \in Callers : d \notin over'  BY <1>6, <2>1, <2>2, <2>3 DEF A!AdmitAdds, A!Admission
    <3>4. QED  BY <2>1, <3>1, <3>2, <3>3
  <2>4. CASE c \notin held'
    <3>1. stage' = "undo" /\ at' = at /\ deaf' = deaf  BY <1>6, <2>4 DEF A!Admission
    <3>2. QED  BY <2>1, <2>2, <3>1
  <2>5. QED  BY <2>3, <2>4
<1>7. ASSUME NEW c \in Callers, A!Refusal(c) PROVE LoopInv'
  <2>1. /\ stage = "undo" /\ at[c] = "current" /\ over' = over \ {c} /\ held' = held
        /\ closed' = closed \cup {c}
        /\ at' = [at EXCEPT ![c] = "over"] /\ stage' = "accept"
        /\ UNCHANGED <<config, connected, deaf, quicStop, endpoint>>
    BY <1>7 DEF A!Refusal, A!AdmitUndoes, A!GivesUp
  <2>2. \A d \in Callers : at'[d] # "current" /\ d \notin over'  BY <2>1
  <2>3. QED  BY <2>1, <2>2
<1>8. CASE A!Returns
  <2>1. /\ stage \in {"accept", "handshake", "confirm"} /\ stage' = "returned"
        /\ at' = [c \in Callers |-> IF at[c] = "current" THEN "over" ELSE at[c]]
        /\ UNCHANGED <<config, live, over, held, connected, closed, deaf, quicStop, endpoint>>
    BY <1>8 DEF A!Returns
  <2>2. \A d \in Callers : at'[d] # "current" /\ d \notin over  BY <2>1
  <2>3. QED  BY <2>1, <2>2
<1>9. ASSUME NEW c \in Callers, A!SessionOver(c) PROVE LoopInv'
  <2>1. /\ at[c] = "session" /\ held' = held \ {c} /\ over' = over
        /\ at' = [at EXCEPT ![c] = "over"] /\ closed' = closed \cup {c}
        /\ deaf' = deaf \ {c}
        /\ UNCHANGED <<config, stage, connected, quicStop, endpoint>>  BY <1>9 DEF A!SessionOver, A!GuardDrops
  <2>2. QED  BY <2>1
<1>10. ASSUME NEW c \in Callers, A!Resolves(c) PROVE LoopInv'
  <2>1. /\ deaf' \subseteq Callers
        /\ UNCHANGED <<config, live, over, held, at, stage, connected, closed, quicStop, endpoint>>
    BY <1>10 DEF A!Resolves
  <2>2. QED  BY <2>1
<1>11. CASE A!StopFires \/ A!Rest
  <2>1. /\ UNCHANGED <<config, live, over, held, at, stage, connected, closed, deaf, endpoint>>
        /\ quicStop' \in BOOLEAN
    BY <1>11 DEF A!StopFires, A!Rest, A!vars, A!loopVars
  <2>2. QED  BY <2>1
<1>12. CASE A!Teardown
  <2>1. /\ stage = "returned" /\ endpoint' = FALSE /\ closed' = closed \cup connected
        /\ UNCHANGED <<config, live, over, held, at, stage, connected, deaf, quicStop>>
    BY <1>12 DEF A!Teardown
  <2>2. QED  BY <2>1
<1>13. ASSUME NEW c \in Callers, A!SessionPanics(c) PROVE LoopInv'
  <2>1. /\ at[c] = "session" /\ held' = held \ {c} /\ over' = over
        /\ at' = [at EXCEPT ![c] = "panicked"] /\ deaf' = deaf \ {c}
        /\ UNCHANGED <<config, stage, connected, closed, quicStop, endpoint>>
    BY <1>13 DEF A!SessionPanics, A!GuardDrops
  <2>2. QED  BY <2>1
<1>14. QED
  BY <1>1, <1>2, <1>3, <1>4, <1>5, <1>6, <1>7, <1>8, <1>9, <1>10, <1>11, <1>12, <1>13
     DEF A!Next, A!Serves, A!Winds, A!Peer, A!SessionStopped, A!SessionEnds, A!SessionCutOff

LEMMA LoopInitially == A!Init => LoopInv
BY DEF A!Init, A!CounterInit, LoopInv, LoopTypes, StagesOfTheFlavor, OneInHand,
       OnlyAdmitter, EndpointLast, A!NoConnectionForgotten

LEMMA LoopInvariant == ServingSpec => [](turn = "loop" => LoopInv)
<1>1. ServingInit => LoopInv  BY LoopInitially DEF ServingInit
<1>2. (turn = "loop" => LoopInv) /\ [ServingNext]_allVars => (turn = "loop" => LoopInv)'
  <2> SUFFICES ASSUME turn = "loop" => LoopInv, [ServingNext]_allVars, turn' = "loop"
               PROVE  LoopInv'  OBVIOUS
  <2>1. CASE InLoop(A!Next)  BY <2>1, LoopSteps DEF InLoop
  <2>2. CASE UNCHANGED allVars
    BY <2>2 DEF allVars, counterVars, loopVars, LoopInv, LoopTypes, StagesOfTheFlavor,
                OneInHand, OnlyAdmitter, EndpointLast, A!NoConnectionForgotten
  <2>3. QED  BY <2>1, <2>2 DEF ServingNext, InApp, InRoute
<1>3. QED  BY <1>1, <1>2, PTL DEF ServingSpec

-----------------------------------------------------------------------------
(* What the whole promises.                                                *)

\* Every session on the route has its guard, every guard its session, no start
\* reports Cancelled before the stop was relayed, and no connection that a loop
\* obtained is forgotten, except for as long as the endpoint is open after a
\* panic of its session task: for any number of handshakes and any cap.
THEOREM SessionsAreAccounted == ServingSpec => []SessionsAccounted
<1>1. CounterInv /\ (turn = "route" => RouteInv) /\ (turn = "loop" => LoopInv)
        => SessionsAccounted
  <2> SUFFICES ASSUME CounterInv, turn = "route" => RouteInv, turn = "loop" => LoopInv
               PROVE  SessionsAccounted  OBVIOUS
  <2>1. ASSUME turn = "route"
        PROVE  W!TypeOK /\ W!GuardsAreSessions /\ W!CancelledMeansRelayed
    <3>1. W!CounterTypeOK  BY DEF CounterInv, CounterTypeOK, W!CounterTypeOK
    <3>2. W!TypeOK  BY <2>1, <3>1 DEF RouteInv, RouteTypes, W!TypeOK
    <3>3. W!GuardsAreSessions  BY <2>1 DEF RouteInv, OnTheWay, BooksAreRight, W!GuardsAreSessions, W!Sessions
    <3>4. W!CancelledMeansRelayed
      BY <2>1 DEF RouteInv, RouteTypes, StopInOrder, W!CancelledMeansRelayed, W!InFlight
    <3>5. QED  BY <3>2, <3>3, <3>4
  <2>2. ASSUME turn = "loop"
        PROVE  A!TypeOK /\ A!NoConnectionForgotten
    <3>1. A!CounterTypeOK  BY DEF CounterInv, CounterTypeOK, A!CounterTypeOK
    <3>2. QED  BY <2>2, <3>1 DEF LoopInv, LoopTypes, A!TypeOK
  <2>3. QED  BY <2>1, <2>2 DEF SessionsAccounted
<1>2. QED  BY <1>1, CounterRunsAlone, CounterInvariant, RouteInvariant, LoopInvariant, PTL

\* One refusal of a loop: it is the only admitter, so the counter it read was
\* exactly the running sessions.
LEMMA RefusedAtTheCap ==
  ASSUME CounterInv, LoopInv, A!Next, NEW c \in Callers, c \in over', c \notin over
  PROVE  Cardinality(held) >= Cap
<1>1. ASSUME NEW d \in Callers, A!Admission(d)
      PROVE  Cardinality(held) >= Cap
  <2>1. over = {}  BY <1>1 DEF A!Admission, LoopInv, OnlyAdmitter, CounterInv, CounterTypeOK
  <2>2. live = Cardinality(held)
    <3>1. Cardinality(over) = 0 /\ Cardinality(held) \in Nat
      BY <2>1, FS_EmptySet, FS_Subset, FS_CardinalityType, CounterAssumption DEF CounterInv, CounterTypeOK
    <3>2. QED  BY <3>1 DEF CounterInv, NoSlotLeaks
  <2>3. live >= Cap  BY <1>1 DEF A!Admission, A!AdmitAdds
  <2>4. QED  BY <2>2, <2>3
<1>2. ASSUME over' = over \/ \E d \in Callers : over' = over \ {d}
      PROVE  FALSE  BY <1>2
<1>3. QED
  BY <1>1, <1>2
     DEF A!Next, A!Serves, A!Winds, A!Peer, A!Accept, A!Gate, A!HandshakeExpires,
         A!HandshakeDone, A!Refusal, A!SessionStopped, A!SessionCutOff, A!SessionOver,
         A!Knock, A!HandshakeFails, A!SessionEnds, A!SessionPanics, A!Resolves, A!StopFires, A!Returns,
         A!Teardown, A!Rest, A!AdmitUndoes, A!GuardDrops, A!counterVars, A!vars

\* The drain abandons a server only at the end of its budget, and the loop that
\* is the only admitter refuses a connection only with all slots in use.
THEOREM NothingIsGivenUpEarly == ServingSpec => NothingGivenUpEarly
<1>1. CounterInv /\ (turn = "loop" => LoopInv) /\ [ServingNext]_allVars
        => [turn = "loop" =>
              \A c \in Callers : c \in over' \ over => Cardinality(held) >= Cap]_allVars
  <2> SUFFICES ASSUME CounterInv, turn = "loop" => LoopInv, ServingNext, turn = "loop",
                      NEW c \in Callers, c \in over' \ over
               PROVE  Cardinality(held) >= Cap  OBVIOUS
  <2>1. A!Next  BY DEF ServingNext, InApp, InRoute, InLoop
  <2>2. QED  BY <2>1, RefusedAtTheCap
<1>2. ServingSpec => AbandonedOnlyAtFullBudget  BY AppRunsAlone, NobodyAbandonedEarly
<1>3. QED
  BY <1>1, <1>2, CounterRunsAlone, CounterInvariant, LoopInvariant, PTL DEF ServingSpec, NothingGivenUpEarly
=============================================================================
