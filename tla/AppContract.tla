----------------------------- MODULE AppContract -----------------------------
(***************************************************************************)
(* What rushwind-core promises to the rest of the process, with no phase,  *)
(* no timer and no future in sight: servers run, the app is told to stop,  *)
(* servers leave, each one is torn down only when none of them runs any    *)
(* more, and then - never before - the app is closed with its outcome.     *)
(***************************************************************************)
CONSTANTS Servers, Outcomes, Pending

VARIABLES
  status,    \* "up", "stopping", then "closed" for every subscriber, or "gone"
  running,   \* servers whose start future may still execute
  torn,      \* servers whose teardown has been invoked
  result     \* what `outcome()` answers once the app is closed

vars == <<status, running, torn, result>>

Init ==
  /\ status = "up"
  /\ running = {}
  /\ torn = {}
  /\ result = Pending

Begin ==
  /\ status = "up"
  /\ running = {}
  /\ running' = Servers
  /\ UNCHANGED <<status, torn, result>>

\* The first server to leave takes the app down with it.
Leave ==
  /\ \E S \in (SUBSET running) \ {{}} : running' = running \ S
  /\ status' = "stopping"
  /\ UNCHANGED <<torn, result>>

AskedToStop ==
  /\ status = "up"
  /\ status' = "stopping"
  /\ UNCHANGED <<running, torn, result>>

TearDown ==
  /\ status = "stopping"
  /\ running = {}
  /\ torn' = Servers
  /\ UNCHANGED <<status, running, result>>

CloseApp ==
  /\ status = "stopping"
  /\ running = {}
  /\ torn = Servers
  /\ status' = "closed"
  /\ result' \in Outcomes
  /\ UNCHANGED <<running, torn>>

\* The future of `run` is dropped, or unwinds: no server executes any longer,
\* and nobody will close the app.
Vanish ==
  /\ status \in {"up", "stopping"}
  /\ status' = "gone"
  /\ running' = {}
  /\ UNCHANGED <<torn, result>>

Next == Begin \/ Leave \/ AskedToStop \/ TearDown \/ CloseApp \/ Vanish

\* An app that is stopping does stop, unless it vanishes.
Spec == Init /\ [][Next]_vars /\ WF_vars(status = "stopping" /\ Next)
=============================================================================
