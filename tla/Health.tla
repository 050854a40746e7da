-------------------------------- MODULE Health --------------------------------
(***************************************************************************)
(* rushwind-health: checkers registered by name, and a check that probes   *)
(* all of them at the same time, each under the timeout, and folds their   *)
(* answers into one verdict.  A checker is a leaf (ping, tcp, http) on one *)
(* component or one of the combinators `all` and `any` over several, which *)
(* ask their children one after the other while the components go up and   *)
(* down.                                                                   *)
(***************************************************************************)
EXTENDS Integers, Sequences

CONSTANTS
  Parts,      \* the components looked at
  Shapes,     \* name -> [kind : {"leaf", "all", "any"}, of : Seq(Parts)]
  MaxChanges, \* bound: changes of components and of the registry
  MaxChecks   \* bound: checks

VARIABLES
  registered, \* the names in Health::checkers
  part,       \* component -> "up", "down" or "unknown"
  check,      \* "idle" or "running"
  probe,      \* name -> what its task in this check has come to
  verdict,    \* the answer of the last check
  since,      \* component -> the states it was in since the check began
  changes, checks

healthVars == <<registered, part, check, probe, verdict, since, changes, checks>>

Names == DOMAIN Shapes
Statuses == {"up", "down", "unknown"}
NoProbe == [at |-> 0, result |-> "none"]

Running(n) == probe[n].at > 0 /\ probe[n].result = "none"

\* What a combinator knows after its child at position i answered s: a result,
\* or "none" to ask the next.
Folded(shape, i, s) ==
  LET last == i = Len(shape.of)
  IN  CASE shape.kind = "leaf" -> s
        [] shape.kind = "all" -> IF s = "down" THEN "down" ELSE IF last THEN "up" ELSE "none"
        [] shape.kind = "any" -> IF s = "up" THEN "up" ELSE IF last THEN "down" ELSE "none"

HealthInit ==
  /\ registered = {}
  /\ part \in [Parts -> Statuses]
  /\ check = "idle"
  /\ probe = [n \in Names |-> NoProbe]
  /\ verdict = "none"
  /\ since = [p \in Parts |-> {}]
  /\ changes = 0 /\ checks = 0

Register(n) ==
  /\ changes < MaxChanges
  /\ n \notin registered
  /\ registered' = registered \cup {n}
  /\ changes' = changes + 1
  /\ UNCHANGED <<part, check, probe, verdict, since, checks>>

Deregister(n) ==
  /\ changes < MaxChanges
  /\ n \in registered
  /\ registered' = registered \ {n}
  /\ changes' = changes + 1
  /\ UNCHANGED <<part, check, probe, verdict, since, checks>>

Change(p, s) ==
  /\ changes < MaxChanges
  /\ s # part[p]
  /\ part' = [part EXCEPT ![p] = s]
  /\ since' = [since EXCEPT ![p] = @ \cup {s}]
  /\ changes' = changes + 1
  /\ UNCHANGED <<registered, check, probe, verdict, checks>>

\* Health::check snapshots the checkers and spawns a task for each; with none
\* registered it answers at once.
Check ==
  /\ check = "idle"
  /\ checks < MaxChecks
  /\ checks' = checks + 1
  /\ since' = [p \in Parts |-> {part[p]}]
  /\ probe' = [n \in Names |-> [at |-> IF n \in registered THEN 1 ELSE 0, result |-> "none"]]
  /\ IF registered = {}
     THEN verdict' = "up" /\ UNCHANGED check
     ELSE verdict' = "none" /\ check' = "running"
  /\ UNCHANGED <<registered, part, changes>>

\* A task's checker gets its next answer from the component of its turn.
ProbeNext(n) ==
  /\ Running(n)
  /\ LET i == probe[n].at
         result == Folded(Shapes[n], i, part[Shapes[n].of[i]])
     IN  probe' = [probe EXCEPT ![n] = [at |-> i + 1, result |-> result]]
  /\ UNCHANGED <<registered, part, check, verdict, since, changes, checks>>

\* tokio::time::timeout: a checker that takes too long is down.
ProbeTimesOut(n) ==
  /\ Running(n)
  /\ probe' = [probe EXCEPT ![n].result = "timed out"]
  /\ UNCHANGED <<registered, part, check, verdict, since, changes, checks>>

\* A checker that panics ends its task without a result.
ProbePanics(n) ==
  /\ Running(n)
  /\ probe' = [probe EXCEPT ![n].result = "panicked"]
  /\ UNCHANGED <<registered, part, check, verdict, since, changes, checks>>

\* Down over unknown over up; a task without a result is passed over.
Overall(results) ==
  IF results \cap {"down", "timed out"} # {} THEN "down"
  ELSE IF "unknown" \in results THEN "unknown" ELSE "up"

\* All tasks have been joined.
Aggregate ==
  /\ check = "running"
  /\ \A n \in Names : ~Running(n)
  /\ verdict' = Overall({probe[n].result : n \in {m \in Names : probe[m].at > 0}})
  /\ check' = "idle"
  /\ UNCHANGED <<registered, part, probe, since, changes, checks>>

\* The caller of check goes away; the tasks go on unheard.
DropCheck ==
  /\ check = "running"
  /\ check' = "idle"
  /\ probe' = [n \in Names |-> NoProbe]
  /\ UNCHANGED <<registered, part, verdict, since, changes, checks>>

HealthNext ==
  \/ \E n \in Names : \/ Register(n) \/ Deregister(n)
                      \/ ProbeNext(n) \/ ProbeTimesOut(n) \/ ProbePanics(n)
  \/ \E p \in Parts, s \in Statuses : Change(p, s)
  \/ Check \/ Aggregate \/ DropCheck

\* readiness_handler.
StatusCode == IF verdict = "down" THEN 503 ELSE 200

\* Names whose checker has no choice but to fail: what it needs was never up
\* (a leaf, any) or always down for one (all) since the check began; and those
\* that have no choice but to pass.
MustFail(n) ==
  LET shape == Shapes[n]  seen == [i \in DOMAIN shape.of |-> since[shape.of[i]]]
  IN  CASE shape.kind = "leaf" -> seen[1] = {"down"}
        [] shape.kind = "all" -> \E i \in DOMAIN seen : seen[i] = {"down"}
        [] shape.kind = "any" -> \A i \in DOMAIN seen : "up" \notin seen[i]
MustPass(n) ==
  LET shape == Shapes[n]  seen == [i \in DOMAIN shape.of |-> since[shape.of[i]]]
  IN  CASE shape.kind = "leaf" -> seen[1] = {"up"}
        [] shape.kind = "all" -> \A i \in DOMAIN seen : "down" \notin seen[i]
        [] shape.kind = "any" -> \E i \in DOMAIN seen : seen[i] = {"up"}

\* A verdict speaks for the components as they were while the check ran: a
\* checker bound to fail makes the answer 503, unless it panicked, and where
\* all are bound to pass and none timed out the answer is 200
\* (health/src/lib.rs:255).
VerdictSpeaks ==
  LET checked == {n \in Names : probe[n].at > 0}
  IN  check = "idle" /\ verdict # "none" =>
        /\ \A n \in checked : MustFail(n) /\ probe[n].result # "panicked" => StatusCode = 503
        /\ (\A n \in checked : MustPass(n) /\ probe[n].result # "timed out") => StatusCode = 200

ChecksEnd == check = "idle"
===============================================================================
