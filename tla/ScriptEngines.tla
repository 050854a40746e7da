---- MODULE ScriptEngines ----
(***************************************************************************)
(* The five script engines (rushwind-script-lua, -javascript, -starlark,   *)
(* -cel and -wasm) behind one contract, and the sources they load from.    *)
(* One engine, one script key with its versions over time, the calls of    *)
(* several callers and the reload loops that start_watch() spawns.         *)
(*                                                                         *)
(* A program is the version it was loaded from, or the call that passed it *)
(* as a string.  Values, globals and error texts are left out; starlark's  *)
(* frozen module is the set of programs whose globals it holds.            *)
(***************************************************************************)
EXTENDS Naturals, Sequences, SequencesExt

CONSTANTS
    Calls,      \* callers, one call each
    Loops,      \* bound: reload loops spawned
    MaxText,    \* bound: versions of the script
    Shady,      \* the programs that are what inst.shady says: "good", "broken", "missing"
    Instances   \* what to check: engine, source, shady, the callers and what they may
                \* call, the last version, a bound on failing fetches, whether the
                \* engine starts out initialised with the first version loaded, and
                \* lua's budget, 0: none

Engines == {"lua", "javascript", "starlark", "cel", "wasm"}
Sources == {"memory", "file", "config", "transform", "fallback", "firstok", "cached"}

VARIABLES
    inst,      \* the instance: fixed
    text,      \* the current version at the source
    faults,    \* failed fetches so far
    stream,    \* loop or "cache" -> the version its signal stream last told of, or Shut
    cache,     \* cached source: the version held, 0: none
    entry,     \* cached source: the key has been loaded before
    inited, bound,
    programs,  \* the engine's list
    table,     \* the reload loop of the watcher map, or None
    aborted,   \* reload loops told to stop
    left,      \* lua: what is left of the instruction budget, Unarmed: no hook
    tripped,   \* lua: the flag the hook raises
    frozen,    \* starlark: the programs the frozen module was made from
    worker,    \* javascript: incarnation -> its thread
    orders,    \* javascript: incarnation -> commands queued: a caller, or "drop"
    sender,    \* javascript: the incarnation commands are sent to, 0: none
    joinable,  \* javascript: the incarnation whose thread handle is stored, 0: none
    act,       \* caller or loop -> what it is at
    quiet,     \* history: "yes", close() has returned and no other call of it or of
               \* init() is on the way; "raced", for good, once a close() met an
               \* init() that had yet to store the handle; else "no"
    calm       \* history: no edit so far came in the middle of a load

vars == <<inst, text, faults, stream, cache, entry, inited, bound, programs, table, aborted,
          left, tripped, frozen, worker, orders, sender, joinable, act, quiet, calm>>

Actors  == Calls \cup Loops
engine  == inst.engine
None    == "none"
Shut    == MaxText + 1
Unarmed == 99
Incs    == 1..2        \* bound: worker threads

Kind(p) == IF p \in Shady THEN inst.shady ELSE "good"

\* ver: the version it holds; snap: the programs of its run; via: the incarnation,
\* stream or outcome it goes by.  must is history: the version a load may not fall
\* short of, the version a loop was last told of, or that no run overlaps.
Idle == [op |-> None, pc |-> "idle", ver |-> 0, snap |-> <<>>, via |-> 0, must |-> 0, ans |-> None]

Init ==
    /\ inst \in Instances
    /\ text = 1 /\ faults = 0
    /\ stream = [x \in Loops \cup {"cache"} |-> Shut]
    /\ cache = 0 /\ entry = FALSE
    /\ inited = inst.up /\ bound = inst.up
    /\ programs = IF inst.up THEN <<1>> ELSE <<>>
    /\ table = None /\ aborted = {}
    /\ left = IF inst.up /\ inst.budget > 0 THEN inst.budget ELSE Unarmed
    /\ tripped = FALSE
    /\ frozen = {}
    /\ worker = [i \in Incs |-> IF inst.up /\ engine = "javascript" /\ i = 1 THEN "up" ELSE "none"]
    /\ orders = [i \in Incs |-> <<>>]
    /\ sender = (IF inst.up /\ engine = "javascript" THEN 1 ELSE 0)
    /\ joinable = sender
    /\ act = [a \in Actors |-> Idle]
    /\ quiet = "no" /\ calm = TRUE

(***************************************************************************)
(* Callers and loops: where they stand.                                    *)
(***************************************************************************)
At(a, pc)       == act[a].pc = pc
Goes(a, pc)        == act' = [act EXCEPT ![a].pc = pc]
GoesBy(a, pc, via) == act' = [act EXCEPT ![a].pc = pc, ![a].via = via]
Takes(a, pc, ver)  == act' = [act EXCEPT ![a].pc = pc, ![a].ver = ver]
\* Mutant: a reload that fails ends its loop.
AnswerEndsLoop(a, ans) ==
    act' = [act EXCEPT ![a] = IF a \in Loops THEN [Idle EXCEPT !.op = "reload", !.pc = IF ans = "ok" THEN "wait" ELSE "gone"]
                              ELSE [Idle EXCEPT !.op = act[a].op, !.pc = "done", !.ans = ans]]
\* A call returns; a reload loop ignores the outcome and waits for the next tick.
Answer(a, ans)  ==
    act' = [act EXCEPT ![a] = IF a \in Loops THEN [Idle EXCEPT !.op = "reload", !.pc = "wait", !.must = act[a].must]
                              ELSE [Idle EXCEPT !.op = act[a].op, !.pc = "done", !.ans = ans]]

Fetching(a) == act[a].pc \in {"fetch", "remote", "store", "probe"}

sourceVars == <<text, faults, stream, cache, entry, calm>>
engineVars == <<inited, bound, programs, table, aborted, left, tripped, frozen,
                worker, orders, sender, joinable, quiet>>
jsVars     == <<worker, orders, sender, joinable>>

\* A caller makes its call.
Begin(c) ==
    /\ At(c, "idle") /\ c \in inst.calls
    /\ \E op \in inst.ops : act' = [act EXCEPT ![c].op = op, ![c].pc = "call", ![c].must = IF calm THEN text ELSE 0]
    /\ UNCHANGED <<inst, sourceVars, engineVars>>

Calling(a, ops) == At(a, "call") /\ act[a].op \in ops

(***************************************************************************)
(* Sources.                                                                *)
(***************************************************************************)
\* The script is edited where it lives.
Edit ==
    /\ text < inst.last
    /\ text' = text + 1
    /\ calm' = (calm /\ \A a \in Actors : ~Fetching(a))
    /\ UNCHANGED <<inst, faults, stream, cache, entry, engineVars, act>>

\* A fetched program goes on to be compiled or queued; javascript and starlark
\* run what execute_from_key() fetched without queueing it.
Fetched(a, v) ==
    Takes(a, IF engine \in {"javascript", "starlark"} /\ act[a].op = "fromkey" THEN "start" ELSE "push", v)

\* What the place the script lives in answers: its version or, in a mirror that
\* lags behind, the first one.
Reads == IF Kind(text) = "missing" THEN {} ELSE {text}
Fails == faults < inst.faults /\ faults' = faults + 1

MemoryLoad(a) == inst.source = "memory" /\ IF Reads = {} THEN Answer(a, "failed") ELSE Fetched(a, text)
FileLoad(a)   == inst.source = "file"   /\ IF Reads = {} THEN Answer(a, "failed") ELSE Fetched(a, text)
\* The configuration source, and the transform, may fail on their own.
ConfigLoad(a) ==
    /\ inst.source = "config"
    /\ IF Reads = {} THEN Answer(a, "failed") /\ UNCHANGED faults
       ELSE \/ Fetched(a, text) /\ UNCHANGED faults
            \/ Answer(a, "failed") /\ Fails
TransformLoad(a) ==
    /\ inst.source = "transform"
    /\ IF Reads = {} THEN Answer(a, "failed") /\ UNCHANGED faults
       ELSE \/ Fetched(a, text) /\ UNCHANGED faults
            \/ Answer(a, "failed") /\ Fails
\* Two places, the second a mirror with the first version: in order, or the
\* first that answers.
FallbackLoad(a) ==
    /\ inst.source = "fallback"
    /\ IF Reads = {} THEN Fetched(a, 1) /\ UNCHANGED faults
       ELSE \/ Fetched(a, text) /\ UNCHANGED faults
            \/ Fetched(a, 1) /\ Fails
FirstOkLoad(a) ==
    /\ inst.source = "firstok"
    /\ \E v \in Reads \cup {1} : Fetched(a, v)

\* The cached source first takes a tick its stream has pending, which evicts the
\* entry, and then serves what it holds.  (Memory ticks at once; there is no
\* time to live.)
\* Mutant: the tick only resets the time of the entry.
DrainKeeps(a) ==
    /\ stream' = [stream EXCEPT !["cache"] = IF @ # Shut THEN text ELSE @]
    /\ IF entry /\ cache # 0 THEN Fetched(a, cache) ELSE GoesBy(a, "remote", IF entry THEN 1 ELSE 0)
    /\ UNCHANGED <<cache, entry>>
Drain(a) ==
    LET held == IF stream["cache"] < text THEN 0 ELSE cache
    IN  /\ cache' = held
        /\ stream' = [stream EXCEPT !["cache"] = IF @ # Shut THEN text ELSE @]
        /\ IF entry /\ held # 0 THEN Fetched(a, held)
           ELSE GoesBy(a, "remote", IF entry THEN 1 ELSE 0)
        /\ UNCHANGED entry

\* A miss: fetch, put in the cache, and on the key's first load open the stream.
CacheRemote(a) ==
    /\ At(a, "remote")
    /\ IF Reads = {} THEN Answer(a, "failed") ELSE Takes(a, "store", text)
    /\ UNCHANGED <<stream, cache, entry, faults>>
CacheStore(a) ==
    /\ At(a, "store")
    /\ cache' = act[a].ver
    /\ IF act[a].via = 1 THEN Fetched(a, act[a].ver) ELSE Goes(a, "probe")
    /\ UNCHANGED <<stream, entry, faults>>
CacheProbe(a) ==
    /\ At(a, "probe")
    /\ \/ stream' = [stream EXCEPT !["cache"] = text] /\ UNCHANGED faults
       \/ UNCHANGED stream /\ Fails
    /\ entry' = TRUE
    /\ Fetched(a, act[a].ver)
    /\ UNCHANGED cache

Fetch(a) ==
    /\ \/ /\ At(a, "fetch")
          /\ \/ (MemoryLoad(a) \/ FileLoad(a) \/ FirstOkLoad(a)) /\ UNCHANGED <<stream, cache, entry, faults>>
             \/ (ConfigLoad(a) \/ TransformLoad(a) \/ FallbackLoad(a)) /\ UNCHANGED <<stream, cache, entry>>
             \/ inst.source = "cached" /\ Drain(a) /\ UNCHANGED faults
       \/ CacheRemote(a) \/ CacheStore(a) \/ CacheProbe(a)
    /\ UNCHANGED <<inst, text, calm, engineVars>>

Invalidate(c) ==
    /\ Calling(c, {"invalidate"}) /\ inst.source = "cached"
    /\ cache' = 0
    /\ Answer(c, "ok")
    /\ UNCHANGED <<inst, text, faults, stream, entry, calm, engineVars>>

(***************************************************************************)
(* init(), close() and set_source().                                       *)
(***************************************************************************)
LuaInit(c) ==
    /\ engine = "lua"
    /\ \/ /\ Calling(c, {"init"})
          /\ inited' = TRUE
          /\ IF inited THEN Answer(c, "failed") ELSE Goes(c, "hooks")
          /\ UNCHANGED left
       \/ /\ At(c, "hooks")
          /\ \/ /\ left' = IF inst.budget > 0 /\ inited THEN inst.budget ELSE left
                /\ Answer(c, "ok")
             \/ inst.faults > 0 /\ Answer(c, "failed") /\ UNCHANGED left
          /\ UNCHANGED inited
    /\ UNCHANGED <<programs, frozen, jsVars>>

\* The thread and the sender come up under the init lock, the handle is stored
\* after it, and the hooks run last.
JsInit(c) ==
    /\ engine = "javascript"
    /\ \/ /\ Calling(c, {"init"})
          /\ IF inited THEN Answer(c, "failed") /\ UNCHANGED <<inited, worker, sender>>
             ELSE \E i \in Incs :
                    /\ worker[i] = "none" /\ \A j \in 1..(i - 1) : worker[j] # "none"
                    /\ inited' = TRUE
                    /\ worker' = [worker EXCEPT ![i] = "up"] /\ sender' = i
                    /\ GoesBy(c, "keep", i)
          /\ UNCHANGED joinable
       \/ /\ At(c, "keep")
          /\ joinable' = act[c].via
          /\ Goes(c, "hooks")
          /\ UNCHANGED <<inited, worker, sender>>
       \/ /\ At(c, "hooks")
          /\ \/ Answer(c, "ok")
             \/ inst.faults > 0 /\ Answer(c, "failed")
          /\ UNCHANGED <<inited, worker, sender, joinable>>
    /\ UNCHANGED <<programs, frozen, left, orders>>

StarlarkInit(c) ==
    /\ engine = "starlark"
    /\ \/ /\ Calling(c, {"init"})
          /\ inited' = TRUE
          /\ IF inited THEN Answer(c, "failed") ELSE Goes(c, "reset")
          /\ UNCHANGED <<programs, frozen>>
       \/ /\ At(c, "reset")
          /\ programs' = <<>> /\ frozen' = {}
          /\ Answer(c, "ok")
          /\ UNCHANGED inited
    /\ UNCHANGED <<left, jsVars>>

CelInit(c) ==
    /\ engine = "cel" /\ Calling(c, {"init"})
    /\ inited' = TRUE
    /\ Answer(c, IF inited THEN "failed" ELSE "ok")
    /\ UNCHANGED <<programs, frozen, left, jsVars>>
WasmInit(c) ==
    /\ engine = "wasm" /\ Calling(c, {"init"})
    /\ inited' = TRUE
    /\ Answer(c, IF inited THEN "failed" ELSE "ok")
    /\ UNCHANGED <<programs, frozen, left, jsVars>>

EngineInit(c) ==
    /\ LuaInit(c) \/ JsInit(c) \/ StarlarkInit(c) \/ CelInit(c) \/ WasmInit(c)
    /\ quiet' = IF quiet = "yes" /\ inited' # inited THEN "no" ELSE quiet
    /\ UNCHANGED <<inst, sourceVars, bound, table, aborted, tripped>>

\* Every engine but wasm stops its watchers, first or, in starlark, after the
\* flag; then the flag, the source and the programs go.
StopWatchers ==
    /\ aborted' = aborted \cup ({table} \ {None})
    /\ table' = None

LuaClose(c) ==
    /\ engine = "lua"
    /\ \/ /\ Calling(c, {"close"})
          /\ StopWatchers
          /\ Goes(c, "closing")
          /\ UNCHANGED <<inited, bound, programs, left>>
       \/ /\ At(c, "closing")
          /\ inited' = FALSE /\ bound' = FALSE /\ programs' = <<>> /\ left' = Unarmed
          /\ Answer(c, "ok")
          /\ UNCHANGED <<table, aborted>>
    /\ UNCHANGED <<frozen, jsVars, quiet>>

\* Mutant: the thread is told to stop, and left to itself.
JsCloseNoJoin(c) ==
    /\ engine = "javascript"
    /\ \/ /\ Calling(c, {"close"})
          /\ StopWatchers
          /\ Goes(c, "closing")
          /\ UNCHANGED <<inited, bound, programs, jsVars, quiet>>
       \/ /\ At(c, "closing")
          /\ inited' = FALSE
          /\ orders' = [i \in Incs |-> IF i = sender THEN Append(orders[i], "drop") ELSE orders[i]]
          /\ sender' = 0 /\ joinable' = 0
          /\ bound' = FALSE /\ programs' = <<>>
          /\ Answer(c, "ok")
          /\ quiet' = IF \E d \in Calls : At(d, "keep") THEN "raced"
                      ELSE IF quiet = "no" THEN "yes" ELSE quiet
          /\ UNCHANGED <<table, aborted, worker>>
    /\ UNCHANGED <<frozen, left>>
\* javascript sends the thread a last command and waits for it to end, if its
\* handle, via, was there to take.
JsClose(c) ==
    /\ engine = "javascript"
    /\ \/ /\ Calling(c, {"close"})
          /\ StopWatchers
          /\ Goes(c, "closing")
          /\ UNCHANGED <<inited, bound, programs, jsVars, quiet>>
       \/ /\ At(c, "closing")
          /\ inited' = FALSE
          /\ orders' = [i \in Incs |-> IF i = sender THEN Append(orders[i], "drop") ELSE orders[i]]
          /\ sender' = 0 /\ joinable' = 0
          /\ GoesBy(c, "joining", joinable)
          /\ quiet' = IF \E d \in Calls : At(d, "keep") THEN "raced" ELSE quiet
          /\ UNCHANGED <<table, aborted, bound, programs, worker>>
       \/ /\ At(c, "joining")
          /\ act[c].via # 0 => worker[act[c].via] = "gone"
          /\ bound' = FALSE /\ programs' = <<>>
          /\ Answer(c, "ok")
          /\ quiet' = IF quiet = "no" /\ ~inited /\ \A d \in Calls \ {c} : act[d].pc # "joining"
                      THEN "yes" ELSE quiet
          /\ UNCHANGED <<table, aborted, inited, jsVars>>
    /\ UNCHANGED <<frozen, left>>

StarlarkClose(c) ==
    /\ engine = "starlark"
    /\ \/ /\ Calling(c, {"close"})
          /\ inited' = FALSE
          /\ IF inited THEN Goes(c, "closing") ELSE Answer(c, "failed")
          /\ UNCHANGED <<bound, programs, frozen, table, aborted>>
       \/ /\ At(c, "closing")
          /\ StopWatchers
          /\ bound' = FALSE /\ programs' = <<>> /\ frozen' = {}
          /\ Answer(c, "ok")
          /\ UNCHANGED inited
    /\ UNCHANGED <<left, jsVars, quiet>>

CelClose(c) ==
    /\ engine = "cel"
    /\ \/ /\ Calling(c, {"close"})
          /\ StopWatchers
          /\ Goes(c, "closing")
          /\ UNCHANGED <<inited, bound, programs>>
       \/ /\ At(c, "closing")
          /\ inited' = FALSE /\ bound' = FALSE /\ programs' = <<>>
          /\ Answer(c, "ok")
          /\ UNCHANGED <<table, aborted>>
    /\ UNCHANGED <<frozen, left, jsVars, quiet>>
WasmClose(c) ==
    /\ engine = "wasm" /\ Calling(c, {"close"})
    /\ inited' = FALSE /\ bound' = FALSE /\ programs' = <<>>
    /\ Answer(c, "ok")
    /\ UNCHANGED <<table, aborted, frozen, left, jsVars, quiet>>

EngineClose(c) ==
    /\ LuaClose(c) \/ JsClose(c) \/ StarlarkClose(c) \/ CelClose(c) \/ WasmClose(c)
    /\ UNCHANGED <<inst, sourceVars, tripped>>

Bind(c) ==
    /\ Calling(c, {"bind"})
    /\ bound' = TRUE
    /\ Answer(c, "ok")
    /\ UNCHANGED <<inst, sourceVars, inited, programs, table, aborted, left, tripped, frozen, jsVars, quiet>>

(***************************************************************************)
(* Loading.                                                                *)
(***************************************************************************)
\* The guard and the bound source, then the fetch.
Fetches(c) ==
    /\ Calling(c, {"load", "fromkey"})
    /\ IF inited /\ bound THEN Goes(c, "fetch") ELSE Answer(c, "failed")
LuaLoad(c)      == engine = "lua" /\ Fetches(c)
JsLoad(c)       == engine = "javascript" /\ Fetches(c)
StarlarkLoad(c) == engine = "starlark" /\ Fetches(c)
CelLoad(c)      == engine = "cel" /\ Fetches(c)
WasmLoad(c)     == engine = "wasm" /\ Fetches(c)

\* A script passed as a string: compiled into the list, or run by itself.
Given(c, pc) == Calling(c, {"adhoc"}) /\ IF inited THEN Takes(c, pc, c) ELSE Answer(c, "failed")
LuaString(c)      == engine = "lua" /\ Given(c, "push")
JsString(c)       == engine = "javascript" /\ Given(c, "start")
StarlarkString(c) == engine = "starlark" /\ Given(c, "start")
CelString(c)      == engine = "cel" /\ Given(c, "push")
WasmString(c)     == engine = "wasm" /\ Given(c, "push")

Load(c) ==
    /\ \/ LuaLoad(c) \/ JsLoad(c) \/ StarlarkLoad(c) \/ CelLoad(c) \/ WasmLoad(c)
       \/ LuaString(c) \/ JsString(c) \/ StarlarkString(c) \/ CelString(c) \/ WasmString(c)
    /\ UNCHANGED <<inst, sourceVars, engineVars>>

Pushed(a) == IF act[a].op \in {"load", "reload"} THEN Answer(a, "ok") ELSE Goes(a, "start")

\* lua, cel and wasm check again that the engine is initialised, and compile.
Compiled(a) ==
    IF ~inited \/ Kind(act[a].ver) = "broken" THEN Answer(a, "failed") /\ UNCHANGED programs
    ELSE programs' = Append(programs, act[a].ver) /\ Pushed(a)
LuaCompile(a)  == engine = "lua"  /\ Compiled(a)
CelCompile(a)  == engine = "cel"  /\ Compiled(a)
WasmCompile(a) == engine = "wasm" /\ Compiled(a)
\* javascript and starlark queue the text as it is.
Queued(a) == programs' = Append(programs, act[a].ver) /\ Pushed(a)
JsQueue(a)       == engine = "javascript" /\ Queued(a)
StarlarkQueue(a) == engine = "starlark"   /\ Queued(a)

Push(a) ==
    /\ At(a, "push")
    /\ LuaCompile(a) \/ CelCompile(a) \/ WasmCompile(a) \/ JsQueue(a) \/ StarlarkQueue(a)
    /\ UNCHANGED <<inst, sourceVars, inited, bound, table, aborted, left, tripped, frozen, jsVars, quiet>>

(***************************************************************************)
(* Running.                                                                *)
(***************************************************************************)
Starting(a) == At(a, "start") \/ Calling(a, {"run"})
Ok(progs)   == \A n \in DOMAIN progs : Kind(progs[n]) # "broken"

\* lua copies the list, resets the flag, runs under the interpreter's own lock
\* with the hook counting, and reads the flag; must says that no other run was
\* on the way meanwhile.
Running == {b \in Actors : act[b].pc \in {"running", "ran"}}
Guarded(a, progs) ==
    /\ tripped' = FALSE
    /\ act' = [b \in Actors |->
                  IF b = a THEN [act[a] EXCEPT !.pc = "running", !.snap = progs,
                                               !.must = IF Running = {} THEN 1 ELSE 0]
                  ELSE IF b \in Running THEN [act[b] EXCEPT !.must = 0] ELSE act[b]]
LuaStart(a) ==
    /\ engine = "lua" /\ Starting(a)
    /\ IF programs = <<>> \/ ~inited THEN Answer(a, "failed") /\ UNCHANGED tripped
       ELSE Guarded(a, programs)
    /\ UNCHANGED <<programs, left, frozen, jsVars>>
\* A script's function is called under the same guard.
LuaCall(c) ==
    /\ engine = "lua" /\ Calling(c, {"call"})
    /\ IF ~inited THEN Answer(c, "failed") /\ UNCHANGED tripped ELSE Guarded(c, <<1>>)
    /\ UNCHANGED <<programs, left, frozen, jsVars>>
LuaRun(a) ==
    /\ engine = "lua" /\ At(a, "running")
    /\ LET n == Len(act[a].snap)
           trips == left # Unarmed /\ left <= n
       IN  /\ left' = IF left = Unarmed THEN left ELSE IF left > n THEN left - n ELSE 0
           /\ tripped' = (tripped \/ trips)
           /\ GoesBy(a, "ran", IF trips THEN 1 ELSE 0)
    /\ UNCHANGED <<programs, frozen, jsVars>>
LuaVerdict(a) == IF tripped THEN "quota" ELSE IF act[a].via = 1 THEN "failed" ELSE "ok"
LuaEnd(a) ==
    /\ engine = "lua" /\ At(a, "ran")
    /\ Answer(a, LuaVerdict(a))
    /\ UNCHANGED <<programs, left, tripped, frozen, jsVars>>

\* javascript takes the codes, the sender, sends, and waits for the reply.
JsStart(a) ==
    /\ engine = "javascript" /\ (Starting(a) \/ Calling(a, {"global", "call"}))
    /\ LET alone == act[a].op \in {"adhoc", "fromkey", "global", "call"}
       IN  IF (~inited /\ At(a, "call")) \/ (~alone /\ programs = <<>>) \/ sender = 0 THEN Answer(a, "failed")
           ELSE act' = [act EXCEPT ![a].pc = "send", ![a].via = sender,
                          ![a].snap = IF ~alone THEN programs
                                      ELSE IF act[a].op \in {"global", "call"} THEN <<>> ELSE <<act[a].ver>>]
    /\ UNCHANGED <<programs, left, tripped, frozen, jsVars>>
JsSend(a) ==
    /\ engine = "javascript" /\ At(a, "send")
    /\ IF worker[act[a].via] = "gone" THEN Answer(a, "failed") /\ UNCHANGED orders
       ELSE /\ orders' = [orders EXCEPT ![act[a].via] = Append(@, a)]
            /\ Goes(a, "sent")
    /\ UNCHANGED <<programs, left, tripped, frozen, worker, sender, joinable>>

\* starlark copies the set, runs it with the extra script in a new module, and
\* on success adds the extra script and keeps the module frozen.
Extra(a) == IF act[a].op = "run" THEN <<>> ELSE <<act[a].ver>>
StarlarkStart(a) ==
    /\ engine = "starlark" /\ Starting(a)
    /\ IF (act[a].op = "run" /\ programs = <<>>) \/ (~inited /\ At(a, "call")) THEN Answer(a, "failed")
       ELSE act' = [act EXCEPT ![a].pc = "running", ![a].snap = programs \o Extra(a)]
    /\ UNCHANGED <<programs, left, tripped, frozen, jsVars>>
StarlarkRun(a) ==
    /\ engine = "starlark" /\ At(a, "running")
    /\ IF Ok(act[a].snap)
       THEN /\ programs' = programs \o Extra(a)
            /\ frozen' = Range(act[a].snap)
            /\ Answer(a, "ok")
       ELSE Answer(a, "failed") /\ UNCHANGED <<programs, frozen>>
    /\ UNCHANGED <<left, tripped, jsVars>>

\* cel runs the list under its lock, wasm the last module.
CelRun(a) ==
    /\ engine = "cel" /\ Starting(a)
    /\ Answer(a, IF inited /\ programs # <<>> THEN "ok" ELSE "failed")
    /\ UNCHANGED <<programs, left, tripped, frozen, jsVars>>
WasmRun(a) ==
    /\ engine = "wasm" /\ Starting(a)
    /\ Answer(a, IF inited /\ programs # <<>> THEN "ok" ELSE "failed")
    /\ UNCHANGED <<programs, left, tripped, frozen, jsVars>>

\* The worker thread takes its next command; after the last one it ends, and the
\* replies still owed are dropped.
WorkerTakes(i) ==
    /\ worker[i] = "up" /\ orders[i] # <<>>
    /\ LET a == Head(orders[i])
           owed == Range(Tail(orders[i])) \ {"drop"}
       IN  IF a = "drop"
           THEN /\ worker' = [worker EXCEPT ![i] = "gone"]
                /\ orders' = [orders EXCEPT ![i] = <<>>]
                /\ act' = [b \in Actors |-> IF b \in owed
                                            THEN [Idle EXCEPT !.op = act[b].op, !.pc = "done", !.ans = "failed"]
                                            ELSE act[b]]
           ELSE /\ orders' = [orders EXCEPT ![i] = Tail(@)]
                /\ Answer(a, IF Ok(act[a].snap) THEN "ok" ELSE "failed")
                /\ UNCHANGED worker

Worker(i) ==
    /\ WorkerTakes(i)
    /\ UNCHANGED <<inst, sourceVars, inited, bound, programs, table, aborted, left, tripped, frozen,
                   sender, joinable, quiet>>

Run(a) ==
    /\ \/ LuaStart(a) \/ LuaRun(a) \/ LuaEnd(a)
       \/ JsStart(a) \/ JsSend(a) \/ StarlarkStart(a) \/ StarlarkRun(a)
       \/ CelRun(a) \/ WasmRun(a) \/ LuaCall(a)
    /\ UNCHANGED <<inst, sourceVars, inited, bound, table, aborted, quiet>>

\* Globals of the others are set and read at once; cel calls host functions only,
\* starlark runs the whole set once more to find the function, and keeps nothing.
Accessed(c) == Calling(c, {"global"}) /\ Answer(c, IF inited THEN "ok" ELSE "failed")
LuaGlobal(c)      == engine = "lua" /\ Accessed(c)
StarlarkGlobal(c) == engine = "starlark" /\ Accessed(c)
CelGlobal(c)      == engine = "cel" /\ Accessed(c)
CelCall(c)        == engine = "cel" /\ Calling(c, {"call"}) /\ Answer(c, IF inited THEN "ok" ELSE "failed")
StarlarkCall(c)   ==
    /\ engine = "starlark" /\ Calling(c, {"call"})
    /\ Answer(c, IF inited /\ programs # <<>> /\ Ok(programs) THEN "ok" ELSE "failed")
WasmStubs(c)      == engine = "wasm" /\ Calling(c, {"global", "call", "watch", "stop"}) /\ Answer(c, "failed")

Access(c) ==
    /\ LuaGlobal(c) \/ StarlarkGlobal(c) \/ CelGlobal(c) \/ CelCall(c) \/ StarlarkCall(c) \/ WasmStubs(c)
    /\ UNCHANGED <<inst, sourceVars, engineVars>>

\* set_quota() arms a new hook on the current interpreter.
SetQuota(c) ==
    /\ Calling(c, {"quota"}) /\ engine = "lua"
    /\ left' = IF inited THEN inst.budget ELSE left
    /\ Answer(c, "ok")
    /\ UNCHANGED <<inst, sourceVars, inited, bound, programs, table, aborted, tripped, frozen, jsVars, quiet>>

(***************************************************************************)
(* start_watch() and stop_watch().                                         *)
(***************************************************************************)
\* The source's stream is opened; a stream that delegates may end up with the
\* mirror, which never changes.
Opens(l) ==
    \/ stream' = [stream EXCEPT ![l] = text] /\ UNCHANGED faults
    \/ inst.source = "fallback" /\ Fails /\ stream' = [stream EXCEPT ![l] = MaxText]
Spawns(c) ==
    /\ At(c, "open") /\ \E x \in Loops : At(x, "idle")
    /\ LET l == CHOOSE x \in Loops : At(x, "idle")
       IN  /\ Opens(l)
           /\ table' = l
           /\ act' = [act EXCEPT ![c] = [Idle EXCEPT !.op = "watch", !.pc = "done", !.ans = "ok"],
                                 ![l] = [Idle EXCEPT !.op = "reload", !.pc = "wait"]]
WatchCall(c) ==
    \/ /\ Calling(c, {"watch"})
       /\ IF inited /\ bound THEN Goes(c, "open") ELSE Answer(c, "failed")
       /\ UNCHANGED <<faults, stream, table>>
    \/ Spawns(c)
LuaWatch(c)      == engine = "lua" /\ WatchCall(c)
JsWatch(c)       == engine = "javascript" /\ WatchCall(c)
StarlarkWatch(c) == engine = "starlark" /\ WatchCall(c)
CelWatch(c)      == engine = "cel" /\ WatchCall(c)
StartWatch(c) ==
    /\ LuaWatch(c) \/ JsWatch(c) \/ StarlarkWatch(c) \/ CelWatch(c)
    /\ UNCHANGED <<inst, text, cache, entry, calm, inited, bound, programs, aborted, left, tripped,
                   frozen, jsVars, quiet>>

StopWatch(c) ==
    /\ Calling(c, {"stop"}) /\ engine # "wasm"
    /\ StopWatchers
    /\ Answer(c, "ok")
    /\ UNCHANGED <<inst, sourceVars, inited, bound, programs, left, tripped, frozen, jsVars, quiet>>

\* A reload loop gets its tick, which stands for every edit so far, and loads.
Reload(l) ==
    /\ At(l, "wait") /\ l \notin aborted /\ stream[l] < text
    /\ stream' = [stream EXCEPT ![l] = text]
    /\ IF inited /\ bound THEN act' = [act EXCEPT ![l].pc = "fetch", ![l].must = text] ELSE UNCHANGED act

Ticks(l) ==
    /\ Reload(l)
    /\ UNCHANGED <<inst, text, faults, cache, entry, calm, engineVars>>

\* An aborted loop ends where it waits.
LoopEnds(l) ==
    /\ l \in aborted /\ act[l].pc \in {"wait", "fetch", "remote"}
    /\ Goes(l, "gone")
    /\ stream' = [stream EXCEPT ![l] = Shut]
    /\ UNCHANGED <<inst, text, faults, cache, entry, calm, engineVars>>

CallSteps(c) ==
    \/ Invalidate(c) \/ EngineInit(c) \/ EngineClose(c) \/ Bind(c)
    \/ Load(c) \/ Access(c) \/ SetQuota(c)
    \/ StartWatch(c) \/ StopWatch(c)
Steps(a) == Fetch(a) \/ Push(a) \/ Run(a)

Next ==
    \/ Edit
    \/ \E c \in Calls : Begin(c) \/ CallSteps(c)
    \/ \E a \in Actors : Steps(a)
    \/ \E i \in Incs : Worker(i)
    \/ \E l \in Loops : Ticks(l) \/ LoopEnds(l)

\* Calls that were made, the worker threads and the reload loops go on, and
\* have a bounded number of steps to go.
GoesOn ==
    \/ \E c \in Calls : CallSteps(c)
    \/ \E a \in Actors : Steps(a)
    \/ \E i \in Incs : Worker(i)
    \/ \E l \in Loops : Ticks(l) \/ LoopEnds(l)

Spec == Init /\ [][Next]_vars /\ WF_vars(GoesOn)

(***************************************************************************)
(* Properties.                                                             *)
(***************************************************************************)
\* States stay in their ranges, and the watcher map names a loop that lives.
TypeOK ==
    /\ text \in 1..MaxText /\ cache \in 0..MaxText
    /\ \A x \in DOMAIN stream : stream[x] \in 1..Shut
    /\ Range(programs) \subseteq (1..MaxText) \cup Calls
    /\ left \in 0..Unarmed
    /\ sender \in {0} \cup Incs /\ joinable \in {0} \cup Incs
    /\ sender # 0 => worker[sender] = "up" /\ inited
    /\ table # None => table \in Loops \ aborted /\ act[table].pc \notin {"idle", "gone"}
    /\ \A a \in Actors : act[a].ans \in {None, "ok", "failed", "quota"}

\* An edit of a watched script reaches the engine: while the watch stands, the
\* current version is in the list in the end, whatever else is loading.  Not
\* when a fetch failed, the version does not load, or the source may answer with
\* an older one (firstok, fallback, cached).
EditPending ==
    /\ table # None /\ inited /\ bound /\ faults = 0
    /\ inst.source \in {"memory", "file", "config", "transform"} /\ Kind(text) = "good"
    /\ stream[table] < text \/ act[table].must = text
    /\ text \notin Range(programs)

\* Every call is answered, also those a javascript worker leaves behind.
AllAnswered == \A c \in Calls : act[c].pc \in {"idle", "done"}

\* No javascript program runs between the return of close() and the next init(),
\* unless a second close() is still waiting for the thread, or an init() and a
\* close() have met halfway.
ClosedJsIsQuietStep == quiet = "yes" => \A i \in Incs : Len(orders'[i]) >= Len(orders[i])

\* starlark: a script whose execution was answered ok stays in the set as long as
\* the engine is up, however runs overlap, and one that failed is not in it.
AnsweredScriptsStay ==
    \A c \in Calls :
        engine = "starlark" /\ inited /\ act[c].op = "adhoc" /\ {"init", "close"} \cap inst.ops = {} =>
            /\ act[c].ans = "ok" => c \in Range(programs)
            /\ act[c].ans = "failed" => c \notin Range(programs)

\* lua: a run that no other run overlaps, as the pools arrange, is answered with
\* QuotaExceeded exactly when the hook stopped it.
VerdictIsOwnStep ==
    \A a \in Actors :
        engine = "lua" /\ At(a, "ran") /\ act[a].must = 1 /\ act'[a].pc = "done"
        => (act'[a].ans = "quota") = (act[a].via = 1)

\* The cached source: a load that begins after an edit gets that edit, when no
\* edit so far came in the middle of a load and the stream could be opened.
CachedLoadIsFresh ==
    \A c \in Calls :
        (inst.source = "cached" /\ faults = 0 /\ act[c].pc \in {"push", "start"} /\ act[c].op \in {"load", "fromkey"})
        => act[c].ver >= act[c].must
====
