------------------------------ MODULE MCScripts ------------------------------
(***************************************************************************)
(* Instances for TLC of the scripts: the pools of engines, and the engines *)
(* themselves with their sources.  A pool lends an engine to one caller at *)
(* a time and knows nothing else of it, so the two are checked side by     *)
(* side; turn is the one that runs.                                        *)
(***************************************************************************)
EXTENDS ScriptPool, TLC

CONSTANTS
  c1, c2, c3,
  Calls, Loops, MaxText, Shady, Instances   \* of ScriptEngines

VARIABLES
  turn,
  inst, text, faults, stream, cache, entry, inited, bound, programs, table, aborted,
  left, tripped, frozen, worker, orders, sender, joinable, act, quiet, calm

AllEngines == {"lua", "javascript", "starlark", "cel", "wasm"}
AllSources == {"memory", "file", "config", "transform", "fallback", "firstok", "cached"}
Two == {c1, c2}
Three == {c1, c2, c3}

I(es, ss, kinds, cs, ops, n, fails, on, b) ==
  [engine : es, source : ss, shady : kinds, calls : {cs}, ops : {ops}, last : {n},
   faults : {fails}, up : {on}, budget : {b}]

AllInstances ==
  \* Loading, running, closing and starting again.
  I(AllEngines, {"memory"}, {"broken"}, Two, {"load", "run", "close", "init"}, 1, 0, TRUE, 0)
  \cup I(AllEngines, {"memory"}, {"broken"}, Two, {"close", "adhoc", "fromkey", "global", "call"}, 2, 0, TRUE, 0)
  \cup I({"javascript"}, {"memory"}, {"good"}, Three, {"close", "init", "run"}, 1, 1, TRUE, 0)
  \cup I({"lua"}, {"memory"}, {"good"}, Two, {"close", "init", "adhoc"}, 1, 1, FALSE, 0)
  \cup I({"starlark"}, {"memory"}, {"broken"}, Three, {"adhoc", "fromkey"}, 1, 0, TRUE, 0)
  \* Watches over every source, with a load at the same time.
  \cup I({"lua"}, AllSources, {"missing"}, Two, {"watch", "load"}, 3, 1, TRUE, 0)
  \cup I({"starlark"}, {"memory"}, {"broken"}, Two, {"watch", "load"}, 3, 0, TRUE, 0)
  \cup I(AllEngines \ {"lua"}, {"memory"}, {"good"}, Two, {"watch", "stop", "close"}, 2, 0, TRUE, 0)
  \cup I({"javascript"}, {"memory"}, {"good"}, Two, {"bind", "watch"}, 2, 0, FALSE, 0)
  \* The cached source, and lua's budget.
  \cup I({"cel"}, {"cached"}, {"good"}, Three, {"load", "invalidate"}, 2, 0, TRUE, 0)
  \cup I({"lua"}, {"memory"}, {"good"}, Three, {"run", "call", "quota"}, 1, 0, TRUE, 3)

AllOperations == {"init", "close", "bind", "load", "fromkey", "adhoc", "run", "call", "global",
                  "quota", "watch", "stop", "invalidate"}
AllRecords ==
  [engine : AllEngines, source : AllSources, shady : {"good", "broken", "missing"},
   calls : SUBSET Calls, ops : SUBSET AllOperations, last : 1..MaxText, faults : Nat,
   up : BOOLEAN, budget : 0..98]

(* Callers, loops and versions are told apart by their names.              *)
ASSUME ScriptsAssumption ==
  /\ MaxText \in Nat \ {0} /\ Calls \cap (1..MaxText) = {}
  /\ Calls \cap Loops = {} /\ {"none", "drop", "cache"} \cap (Calls \cup Loops) = {}
  /\ Instances \subseteq AllRecords

E == INSTANCE ScriptEngines

-----------------------------------------------------------------------------
engineVars == <<inst, text, faults, stream, cache, entry, inited, bound, programs, table, aborted,
                left, tripped, frozen, worker, orders, sender, joinable, act, quiet, calm>>
allVars == <<turn, vars, engineVars>>

(* The part whose turn it is not rests in one of its initial states.       *)
RestingInstance ==
  [engine |-> "cel", source |-> "memory", shady |-> "broken", calls |-> Two,
   ops |-> {"load", "run", "close", "init"}, last |-> 1, faults |-> 0, up |-> TRUE, budget |-> 0]
MCInit ==
  /\ turn \in {"pool", "engines"}
  /\ Init /\ (turn = "engines" => flavor = "fixed")
  /\ E!Init /\ (turn = "pool" => inst = RestingInstance)

InPool(step) == turn = "pool" /\ step /\ UNCHANGED <<turn, engineVars>>
InEngines(step) == turn = "engines" /\ step /\ UNCHANGED <<turn, vars>>

MCNext == InPool(Next) \/ InEngines(E!Next)

(* The executor polls every task of a pool that can go on, one by one, and *)
(* a close that began is carried through; an engine's calls, worker        *)
(* threads and reload loops go on.                                         *)
MCSpec ==
  /\ MCInit /\ [][MCNext]_allVars
  /\ \A c \in Callers :
       WF_allVars(\/ InPool(\/ Acquiring(c) \/ Working(c) \/ Releasing(c) \/ BuildFails(c)
                            \/ CloseSemaphore \/ CloseDrain)
                  \/ InEngines(E!GoesOn))

-----------------------------------------------------------------------------
(* The engines: a starlark script that ran stays in the set however runs   *)
(* overlap, and a load from the cached source that begins after an edit    *)
(* gets that edit.                                                         *)
LoadsHold == turn = "engines" => E!TypeOK /\ E!AnsweredScriptsStay /\ E!CachedLoadIsFresh

(* No javascript program is queued on a closed engine, and lua's verdict   *)
(* on a run is about that run.                                             *)
RunsAreTheirOwn ==
  [][(turn = "engines" => E!ClosedJsIsQuietStep /\ E!VerdictIsOwnStep)]_allVars

(* Close wakes whoever waits for an engine, a waiter is served unless      *)
(* capacity was lost, every call of an engine is answered, and a watched   *)
(* edit is loaded.                                                         *)
ScriptsGoOn ==
  /\ \A c \in Callers : []<>(WaiterServed(c) /\ (closed => pc[c] \notin {"waiting", "granted"}))
  /\ []<>(turn = "engines" => E!AllAnswered /\ ~E!EditPending)
=============================================================================
