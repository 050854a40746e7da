---- MODULE Watch ----
(***************************************************************************)
(* The watch streams of the registry (rushwind-registry-...) and of the    *)
(* configuration (rushwind-config-...): a backend holds an instance list   *)
(* or the value of a key, and a consumer calls next() for ever to learn of *)
(* its changes.  The engines do it in three ways.                          *)
(*                                                                         *)
(*   pull       a signal wakes next(), which then reads (etcd, zookeeper,  *)
(*              nacos);                                                    *)
(*   broadcast  a task reads and replaces a watch channel's value (consul, *)
(*              eureka, kubernetes, polaris);                              *)
(*   push       a task sends what it saw through an unbounded channel      *)
(*              (servicecomb, and the configuration engines);              *)
(*                                                                         *)
(* and FallbackSource merges the push streams of several sources.  Sources *)
(* are in priority order; every engine but the merge watches source 1.     *)
(***************************************************************************)
EXTENDS Naturals, Sequences, FiniteSets

CONSTANTS
    Engines,      \* the engines a behaviour may be of
    MaxChanges,   \* changes of one source in a behaviour
    MaxFaults     \* failed requests, broken streams and dropped calls in a behaviour

Pull      == {"etcd", "zookeeper", "nacos"}
Broadcast == {"consul", "eureka", "kubernetes", "polaris"}
Push      == {"servicecomb", "cfg_etcd", "cfg_consul", "cfg_http", "cfg_file"}
Merge     == {"fallback"}

Sources == 1..2

\* What a source holds: its version, whether there is a value at all (an instance,
\* the key present), and whether the instance is plain, not healthy, or lacks the
\* data the engine's own registration writes.
Marks   == {"plain", "sick", "odd"}
Value   == [src : Sources, ver : 0..MaxChanges, here : BOOLEAN, mark : Marks]
NoValue == [ver |-> 0, here |-> FALSE]

VARIABLES
    engine,    \* the engine of this behaviour
    truth,     \* Sources -> Value: what the backend holds
    events,    \* Sources -> Seq(Value): notifications of the backend not yet taken
    stream,    \* the backend's stream: "open", "down" or "none"
    loop,      \* per task: "arming", "armed", "fired", "resting", "fetched", "dead"
    fetched,   \* per task: the value read and not yet published
    known,     \* what the loop last saw: an index, a body, a listed instance
    cache,     \* the watch channel's value
    changed,   \* the consumer's receiver has not seen the cache
    queue,     \* Seq(Value): the unbounded channel to the consumer
    parked,    \* SUBSET Sources: FallbackValueStream's parked deliveries
    live,      \* SUBSET Sources: sub-streams not ended
    pc,        \* the consumer
    got,       \* the last value next() returned
    excused,   \* a merged next() was dropped in its re-read, or a read of it failed
    faults     \* failures so far

vars == <<engine, truth, events, stream, loop, fetched, known, cache, changed,
          queue, parked, live, pc, got, excused, faults>>

backend  == <<engine, truth>>
tasks    == <<stream, loop, fetched, known>>
channels == <<cache, changed, queue>>
merging  == <<parked, live>>

Tasks == 1..2
Steps == {"opening", "retry", "first", "waiting", "reading", "lower", "rebuilding", "done"}

TypeOK ==
    /\ engine \in Engines
    /\ truth \in [Sources -> Value]
    /\ \A s \in Sources : \A i \in DOMAIN events[s] : events[s][i] \in Value
    /\ stream \in {"open", "down", "none"}
    /\ loop \in [Tasks -> {"arming", "armed", "fired", "resting", "fetched", "dead"}]
    /\ fetched \in [Tasks -> Value \cup {NoValue}]
    /\ known \in [ver : 0..MaxChanges + 1, here : BOOLEAN]
    /\ cache \in Value \cup {NoValue}
    /\ changed \in BOOLEAN
    /\ \A i \in DOMAIN queue : queue[i] \in Value
    /\ parked \subseteq Sources /\ live \subseteq Sources
    /\ pc \in Steps
    /\ got \in Value
    /\ excused \in BOOLEAN
    /\ faults \in 0..MaxFaults

Unseen == MaxChanges + 1    \* no version: nothing fetched yet

\* The merge's value: the first source in priority order that has one.
Effective == IF truth[1].here THEN truth[1] ELSE truth[2]

\* What a consumer has before its first next(): the value it loaded; servicecomb
\* has told it of no instance yet.
Loaded ==
    CASE engine = "servicecomb" -> [truth[1] EXCEPT !.here = FALSE]
      [] engine \in Merge -> Effective
      [] OTHER -> truth[1]

Init ==
    /\ engine \in Engines
    /\ truth \in [Sources -> {v \in Value : v.ver = 0 /\ v.mark = "plain"}]
    /\ \A s \in Sources : truth[s].src = s
    /\ engine \in Merge \/ ~truth[2].here
    /\ events = [s \in Sources |-> <<>>]
    /\ stream = "open"
    /\ loop = [t \in Tasks |-> CASE engine = "zookeeper" -> "arming"
                                  [] engine = "consul" -> "dead"
                                  [] OTHER -> "resting"]
    /\ fetched = [t \in Tasks |-> NoValue]
    /\ known = [ver |-> Unseen, here |-> FALSE]
    /\ cache = NoValue
    /\ changed = FALSE
    /\ queue = <<>>
    /\ parked = {} /\ live = Sources
    /\ pc = CASE engine \in Broadcast -> "opening"
              [] engine \in Pull -> "first"
              [] OTHER -> "waiting"
    /\ got = Loaded
    /\ excused = FALSE
    /\ faults = 0

Fault == faults < MaxFaults /\ faults' = faults + 1

-----------------------------------------------------------------------------
(***************************************************************************)
(* The backends.                                                           *)
(***************************************************************************)

\* Backends that tell the watcher of a change, over a stream that may be down.
Notifies ==
    \/ engine \in {"etcd", "nacos", "kubernetes", "servicecomb", "cfg_etcd"} /\ stream = "open"
    \/ engine \in {"cfg_file", "fallback"}

\* The watched list or key changes.  A zookeeper watch fires once per arming.
Change(s) ==
    /\ engine \in Merge \/ s = 1
    /\ truth[s].ver < MaxChanges
    /\ \E here \in BOOLEAN, mark \in Marks :
          /\ here \/ truth[s].here
          /\ mark # "plain" => here /\ engine \in Pull \cup Broadcast
          /\ truth' = [truth EXCEPT ![s] = [src |-> s, ver |-> @.ver + 1, here |-> here, mark |-> mark]]
    /\ events' = IF Notifies /\ s \in live THEN [events EXCEPT ![s] = Append(@, truth'[s])] ELSE events
    /\ loop' = IF engine = "zookeeper" /\ loop[1] = "armed" THEN [loop EXCEPT ![1] = "fired"] ELSE loop
    /\ UNCHANGED <<engine, stream, fetched, known, channels, merging, pc, got, excused, faults>>

\* The stream breaks; what it carried may be lost with it.
StreamDown ==
    /\ engine \in {"etcd", "servicecomb", "cfg_etcd"} /\ stream = "open"
    /\ Fault
    /\ stream' = "down"
    /\ events' \in {events, [events EXCEPT ![1] = <<>>]}
    /\ UNCHANGED <<backend, loop, fetched, known, channels, merging, pc, got, excused>>

-----------------------------------------------------------------------------
(***************************************************************************)
(* Pull: a signal, then a read.                                            *)
(***************************************************************************)

\* What a read of the list answers, per engine: the set of its one answer, empty
\* where the read fails.
Without(v, marks) == [v EXCEPT !.here = @ /\ v.mark \notin marks]

\* etcd: one entry that is not an instance's JSON fails the whole read.
EtcdReads(v) == IF v.mark = "odd" THEN {} ELSE {v}

\* zookeeper: the same of one child.
ZookeeperReads(v) == IF v.mark = "odd" THEN {} ELSE {v}

\* nacos: instances are rebuilt from whatever metadata there is.
NacosReads(v) == {v}

\* consul: the query asks for what passes its checks; missing tags are left empty.
ConsulReads(v) == {Without(v, {"sick"})}

\* eureka: only what is UP.
EurekaReads(v) == {Without(v, {"sick"})}

\* kubernetes: only Running pods; an annotation that does not parse fails the list.
KubernetesReads(v) == IF v.mark = "odd" THEN {} ELSE {Without(v, {"sick"})}

\* polaris: what is not reported unhealthy, and has an id and a host.
PolarisReads(v) == {Without(v, {"sick", "odd"})}

Reads(v) ==
    CASE engine = "etcd"       -> EtcdReads(v)
      [] engine = "zookeeper"  -> ZookeeperReads(v)
      [] engine = "nacos"      -> NacosReads(v)
      [] engine = "consul"     -> ConsulReads(v)
      [] engine = "eureka"     -> EurekaReads(v)
      [] engine = "kubernetes" -> KubernetesReads(v)
      [] engine = "polaris"    -> PolarisReads(v)
      [] OTHER -> {v}

Readable == Reads(truth[1]) # {}
Listed   == CHOOSE v \in Reads(truth[1]) : TRUE

\* read_instances: next() returns the current list.
PullRead ==
    /\ engine \in Pull /\ pc \in {"first", "reading"}
    /\ Readable
    /\ got' = Listed
    /\ pc' = "waiting"
    /\ UNCHANGED <<backend, events, tasks, channels, merging, excused, faults>>

\* read_instances fails: next() returns the error.
PullReadFails ==
    /\ engine \in Pull /\ pc \in {"first", "reading"}
    /\ IF Readable THEN Fault ELSE UNCHANGED faults
    /\ pc' = "done"
    /\ UNCHANGED <<backend, events, tasks, channels, merging, got, excused>>

\* A notification wakes next().
PullSignal ==
    /\ engine \in Pull /\ pc = "waiting" /\ events[1] # <<>>
    /\ events' = [events EXCEPT ![1] = Tail(@)]
    /\ pc' = "reading"
    /\ UNCHANGED <<backend, tasks, channels, merging, got, excused, faults>>

\* etcd: an unhealthy message releases the stream, and next() sleeps.
EtcdRelease ==
    /\ engine = "etcd" /\ pc = "waiting" /\ stream = "down" /\ events[1] = <<>>
    /\ stream' = "none"
    /\ pc' = "rebuilding"
    /\ UNCHANGED <<backend, events, loop, fetched, known, channels, merging, got, excused, faults>>

\* The stream is opened again, and next() waits for what it brings.
EtcdReopenOnly ==
    /\ engine = "etcd" /\ pc = "rebuilding"
    /\ stream' = "open"
    /\ events' = events
    /\ pc' = "waiting"
    /\ UNCHANGED <<backend, loop, fetched, known, channels, merging, got, excused, faults>>

\* etcd: open_watch asks for a progress notification; the same call re-reads.
EtcdReopen ==
    /\ engine = "etcd" /\ pc = "rebuilding"
    /\ stream' = "open"
    /\ events' = [events EXCEPT ![1] = <<truth[1]>>]
    /\ pc' = "reading"
    /\ UNCHANGED <<backend, loop, fetched, known, channels, merging, got, excused, faults>>

\* etcd: open_watch fails, and the stream is not there for any later call either.
EtcdReopenFails ==
    /\ engine = "etcd" /\ pc = "rebuilding"
    /\ Fault
    /\ pc' = "done"
    /\ UNCHANGED <<backend, events, tasks, channels, merging, got, excused>>

\* zookeeper: the loop sets the children watch and drops the children it returns.
ZookeeperArm ==
    /\ engine = "zookeeper" /\ loop[1] = "arming"
    /\ loop' = [loop EXCEPT ![1] = "armed"]
    /\ UNCHANGED <<backend, events, stream, fetched, known, channels, merging, pc, got, excused, faults>>

\* zookeeper: a firing is forwarded, and the watch is set again.
ZookeeperForward ==
    /\ engine = "zookeeper" /\ loop[1] = "fired"
    /\ events' = [events EXCEPT ![1] = Append(@, truth[1])]
    /\ loop' = [loop EXCEPT ![1] = "arming"]
    /\ UNCHANGED <<backend, stream, fetched, known, channels, merging, pc, got, excused, faults>>

\* zookeeper: arming fails or the connection goes: the loop's last signal says so.
ZookeeperFatal ==
    /\ engine = "zookeeper" /\ loop[1] \in {"arming", "armed"}
    /\ Fault
    /\ loop' = [loop EXCEPT ![1] = "dead"]
    /\ UNCHANGED <<backend, events, stream, fetched, known, channels, merging, pc, got, excused>>

\* The signals before it are answered, then next() returns the error.
ZookeeperEnds ==
    /\ engine = "zookeeper" /\ loop[1] = "dead" /\ pc = "waiting" /\ events[1] = <<>>
    /\ pc' = "done"
    /\ UNCHANGED <<backend, events, tasks, channels, merging, got, excused, faults>>

-----------------------------------------------------------------------------
(***************************************************************************)
(* Broadcast: a task reads, then publishes into a watch channel.           *)
(***************************************************************************)

\* eureka's watch() spawns a refresh of its own beside the registry's loop.
Refreshers == IF engine = "eureka" THEN Tasks ELSE {1}

\* What lets a loop fetch: a consul blocking query answers when the index moved;
\* kubernetes re-lists at each event and each resync tick; the others poll.
Due(t) == engine = "consul" => known.ver # truth[1].ver

\* A task's request is answered.  A failed one skips the pass.
Fetch(t) ==
    /\ engine \in Broadcast /\ t \in Refreshers /\ loop[t] = "resting"
    /\ Due(t) /\ Readable
    /\ fetched' = [fetched EXCEPT ![t] = Listed]
    /\ loop' = [loop EXCEPT ![t] = "fetched"]
    /\ events' = [events EXCEPT ![1] = <<>>]
    /\ UNCHANGED <<backend, stream, known, channels, merging, pc, got, excused, faults>>

\* consul publishes a list that is not empty and came with another index.
Publishes(t) == engine = "consul" => fetched[t].here /\ fetched[t].ver # known.ver

\* What the task fetched replaces the cache and wakes the watchers.  The refresh
\* that eureka's watch() spawned ends here.
Publish(t) ==
    /\ engine \in Broadcast /\ loop[t] = "fetched"
    /\ IF Publishes(t) THEN cache' = fetched[t] /\ changed' = TRUE ELSE UNCHANGED <<cache, changed>>
    /\ known' = IF engine = "consul" THEN [ver |-> fetched[t].ver, here |-> TRUE] ELSE known
    /\ loop' = [loop EXCEPT ![t] = IF t = 1 THEN "resting" ELSE "dead"]
    /\ fetched' = [fetched EXCEPT ![t] = NoValue]
    /\ UNCHANGED <<backend, events, stream, queue, merging, pc, got, excused, faults>>

\* watch() subscribes; what was sent before it counts as seen.
Subscribe ==
    /\ engine \in Broadcast \ {"consul"} /\ pc = "opening"
    /\ changed' = FALSE
    /\ pc' = "waiting"
    /\ UNCHANGED <<backend, events, tasks, cache, queue, merging, got, excused, faults>>

\* consul: the watch() that creates the service's set fetches first, then spawns
\* the loop.
ConsulWatch ==
    /\ engine = "consul" /\ pc = "opening"
    /\ cache' = IF Listed.here THEN Listed ELSE cache
    /\ known' = [ver |-> Listed.ver, here |-> TRUE]
    /\ loop' = [loop EXCEPT ![1] = "resting"]
    /\ pc' = "first"
    /\ UNCHANGED <<backend, events, stream, fetched, changed, queue, merging, got, excused, faults>>

\* consul: the fetch fails and so does watch(), but the set stays in the map.
ConsulWatchFails ==
    /\ engine = "consul" /\ pc = "opening"
    /\ Fault
    /\ pc' = "retry"
    /\ UNCHANGED <<backend, events, tasks, channels, merging, got, excused>>

\* consul: a later watch() finds the set and starts no loop for it.
ConsulWatchAgain ==
    /\ engine = "consul" /\ pc = "retry"
    /\ pc' = "first"
    /\ UNCHANGED <<backend, events, tasks, channels, merging, got, excused, faults>>

\* consul: the first next() returns the cache if there is one.
ConsulFirst ==
    /\ engine = "consul" /\ pc = "first"
    /\ changed' = FALSE
    /\ got' = IF cache = NoValue THEN got ELSE cache
    /\ pc' = "waiting"
    /\ UNCHANGED <<backend, events, tasks, cache, queue, merging, excused, faults>>

\* next() returns the cache once it has changed.
BroadcastNext ==
    /\ engine \in Broadcast /\ pc = "waiting" /\ changed
    /\ changed' = FALSE
    /\ got' = cache
    /\ UNCHANGED <<backend, events, tasks, cache, queue, merging, pc, excused, faults>>

-----------------------------------------------------------------------------
(***************************************************************************)
(* Push: a task sends what it saw.                                         *)
(***************************************************************************)

Send(v) == queue' = Append(queue, v)

\* etcd configuration: every event's value goes out, a deletion's empty one too.
EtcdForward ==
    /\ engine = "cfg_etcd" /\ loop[1] = "resting" /\ events[1] # <<>>
    /\ Send(Head(events[1]))
    /\ events' = [events EXCEPT ![1] = Tail(@)]
    /\ UNCHANGED <<backend, tasks, cache, changed, merging, pc, got, excused, faults>>

\* etcd configuration: the task ends with its stream and drops the sender.
EtcdForwardEnds ==
    /\ engine = "cfg_etcd" /\ loop[1] = "resting" /\ stream = "down" /\ events[1] = <<>>
    /\ loop' = [loop EXCEPT ![1] = "dead"]
    /\ UNCHANGED <<backend, events, stream, fetched, known, channels, merging, pc, got, excused, faults>>

\* consul configuration: a blocking query answers with the value, an absent key
\* (404) only moves the index.
ConsulPoll ==
    /\ engine = "cfg_consul" /\ known.ver # truth[1].ver
    /\ known' = [known EXCEPT !.ver = truth[1].ver]
    /\ IF truth[1].here THEN Send(truth[1]) ELSE UNCHANGED queue
    /\ UNCHANGED <<backend, events, stream, loop, fetched, cache, changed, merging, pc, got, excused, faults>>

\* consul configuration: the wait ran out and the same answer came again; it is sent
\* again.
ConsulResend ==
    /\ engine = "cfg_consul" /\ known.ver = truth[1].ver /\ truth[1].here
    /\ Fault
    /\ Send(truth[1])
    /\ UNCHANGED <<backend, events, tasks, cache, changed, merging, pc, got, excused>>

\* http configuration: a poll that succeeds sends a body unlike the last one.
HttpPoll ==
    /\ engine = "cfg_http" /\ truth[1].here /\ known.ver # truth[1].ver
    /\ known' = [known EXCEPT !.ver = truth[1].ver]
    /\ Send(truth[1])
    /\ UNCHANGED <<backend, events, stream, loop, fetched, cache, changed, merging, pc, got, excused, faults>>

\* file configuration: a create or modify event drains the burst behind it and
\* reads the file; content already sent, or a file gone meanwhile, sends nothing.
FilePump ==
    /\ engine = "cfg_file" /\ loop[1] = "resting" /\ events[1] # <<>>
    /\ IF Head(events[1]).here
         THEN /\ events' = [events EXCEPT ![1] = <<>>]
              /\ IF truth[1].here /\ known.ver # truth[1].ver
                   THEN Send(truth[1]) /\ known' = [known EXCEPT !.ver = truth[1].ver]
                   ELSE UNCHANGED <<queue, known>>
         ELSE /\ events' = [events EXCEPT ![1] = Tail(@)]
              /\ UNCHANGED <<queue, known>>
    /\ UNCHANGED <<backend, stream, loop, fetched, cache, changed, merging, pc, got, excused, faults>>

\* file configuration: a fatal error of the watcher ends the pump.
FilePumpEnds ==
    /\ engine = "cfg_file" /\ loop[1] = "resting"
    /\ Fault
    /\ loop' = [loop EXCEPT ![1] = "dead"]
    /\ UNCHANGED <<backend, events, stream, fetched, known, channels, merging, pc, got, excused>>

\* servicecomb: an event, addition or removal, is remembered as seen and sent.
ServicecombEvent ==
    /\ engine = "servicecomb" /\ events[1] # <<>>
    /\ Send(Head(events[1]))
    /\ events' = [events EXCEPT ![1] = Tail(@)]
    /\ known' = [known EXCEPT !.here = TRUE]
    /\ UNCHANGED <<backend, stream, loop, fetched, cache, changed, merging, pc, got, excused, faults>>

\* servicecomb: reconcile_instances sends what differs from the last-seen set.
ServicecombReconcile ==
    /\ engine = "servicecomb" /\ stream = "open"
    /\ known.here # truth[1].here
    /\ Send(truth[1])
    /\ known' = [known EXCEPT !.here = truth[1].here]
    /\ UNCHANGED <<backend, events, stream, loop, fetched, cache, changed, merging, pc, got, excused, faults>>

\* servicecomb: the loop dials again after a break, for ever.
ServicecombDial ==
    /\ engine = "servicecomb" /\ stream = "down" /\ events[1] = <<>>
    /\ stream' = "open"
    /\ UNCHANGED <<backend, events, loop, fetched, known, channels, merging, pc, got, excused, faults>>

\* next() takes the oldest value sent.
PushNext ==
    /\ engine \in Push /\ pc = "waiting" /\ queue # <<>>
    /\ got' = Head(queue)
    /\ queue' = Tail(queue)
    /\ UNCHANGED <<backend, events, tasks, cache, changed, merging, pc, excused, faults>>

\* The sender is gone and the channel is empty: the stream ends.
PushEnds ==
    /\ engine \in Push /\ pc = "waiting" /\ queue = <<>> /\ loop[1] = "dead"
    /\ pc' = "done"
    /\ UNCHANGED <<backend, events, tasks, channels, merging, got, excused, faults>>

-----------------------------------------------------------------------------
(***************************************************************************)
(* FallbackSource: the merged stream over two push streams.                *)
(***************************************************************************)

\* A race round: one sub-stream's delivery ends it, others of the same poll wave
\* are parked with it.
FallbackRace ==
    /\ engine = "fallback" /\ pc = "waiting" /\ parked = {}
    /\ \E wave \in SUBSET {s \in Sources : events[s] # <<>>} \ {{}} :
          /\ parked' = wave
          /\ events' = [s \in Sources |-> IF s \in wave THEN Tail(events[s]) ELSE events[s]]
    /\ UNCHANGED <<backend, tasks, channels, live, pc, got, excused, faults>>

\* The parked deliveries are cleared, then the effective value is re-read.
FallbackCoalesce ==
    /\ engine = "fallback" /\ pc = "waiting" /\ parked # {}
    /\ parked' = {}
    /\ pc' = "reading"
    /\ UNCHANGED <<backend, events, tasks, channels, live, got, excused, faults>>

\* load_through: the first source that has a value answers; the walk goes on at
\* one that has none.
FallbackLoad ==
    /\ engine = "fallback"
    /\ \/ pc = "reading" /\ truth[1].here /\ got' = truth[1] /\ pc' = "waiting"
       \/ pc = "reading" /\ ~truth[1].here /\ got' = got /\ pc' = "lower"
       \/ pc = "lower" /\ pc' = "waiting" /\ got' = IF truth[2].here THEN truth[2] ELSE got
    /\ UNCHANGED <<backend, events, tasks, channels, merging, excused, faults>>

\* load_through skips a load that fails like one that finds nothing.
FallbackLoadFails ==
    /\ engine = "fallback" /\ pc \in {"reading", "lower"}
    /\ Fault
    /\ pc' = IF pc = "reading" THEN "lower" ELSE "waiting"
    /\ excused' = TRUE
    /\ UNCHANGED <<backend, events, tasks, channels, merging, got>>

\* The consumer drops the call in the re-read: the deliveries are gone.
FallbackDropped ==
    /\ engine = "fallback" /\ pc \in {"reading", "lower"}
    /\ Fault
    /\ pc' = "waiting"
    /\ excused' = TRUE
    /\ UNCHANGED <<backend, events, tasks, channels, merging, got>>

\* A sub-stream ends; the merge goes on over the others.
FallbackSubEnds(s) ==
    /\ engine = "fallback" /\ pc = "waiting" /\ s \in live /\ events[s] = <<>>
    /\ Fault
    /\ live' = live \ {s}
    /\ UNCHANGED <<backend, events, tasks, channels, parked, pc, got, excused>>

\* Every sub-stream has ended, and the merged stream with them.
FallbackEnds ==
    /\ engine = "fallback" /\ pc = "waiting" /\ parked = {} /\ live = {}
    /\ pc' = "done"
    /\ UNCHANGED <<backend, events, tasks, channels, merging, got, excused, faults>>

-----------------------------------------------------------------------------
PullStep      == PullSignal \/ PullRead \/ PullReadFails \/ EtcdRelease
                 \/ ZookeeperArm \/ ZookeeperForward \/ ZookeeperEnds
BroadcastStep == Subscribe \/ ConsulWatchAgain \/ ConsulFirst \/ BroadcastNext
PushStep      == EtcdForward \/ EtcdForwardEnds \/ ConsulPoll \/ HttpPoll \/ FilePump
                 \/ ServicecombEvent \/ ServicecombReconcile \/ ServicecombDial
                 \/ PushNext \/ PushEnds
MergeStep     == FallbackRace \/ FallbackCoalesce \/ FallbackLoad \/ FallbackEnds

Next ==
    \/ \E s \in Sources : Change(s) \/ FallbackSubEnds(s)
    \/ \E t \in Tasks : Fetch(t) \/ Publish(t)
    \/ PullStep \/ BroadcastStep \/ PushStep \/ MergeStep
    \/ StreamDown \/ EtcdReopen \/ EtcdReopenFails \/ ZookeeperFatal
    \/ ConsulWatch \/ ConsulWatchFails \/ ConsulResend \/ FilePumpEnds
    \/ FallbackLoadFails \/ FallbackDropped

\* The runtime polls every task, a request is answered in the end, and the
\* consumer calls next() again after every value.  Changes and failures are up to
\* the world.
ConsumerGoesOn == PullStep \/ BroadcastStep \/ PushStep \/ MergeStep \/ EtcdReopen \/ ConsulWatch
TaskGoesOn(t) == Fetch(t) \/ Publish(t)
Fairness == WF_vars(ConsumerGoesOn) /\ \A t \in Tasks : WF_vars(TaskGoesOn(t))

Spec == Init /\ [][Next]_vars /\ Fairness

-----------------------------------------------------------------------------
(***************************************************************************)
(* Properties.                                                             *)
(***************************************************************************)

\* next() never returns an older state than it returned before.  Not of eureka,
\* whose two refreshes publish in any order, of servicecomb, whose reconciliation
\* overtakes the events behind it, and of the merge, whose values are of two sources.
NeverBackwardsStep == engine \notin {"eureka", "servicecomb", "fallback"} => got'.ver >= got.ver

\* What the consumer holds is what the backend holds, as far as the engine tells
\* of it: an empty list or an absent key is not announced by consul, http and file.
\* servicecomb tells in the end of every departure; an arrival that a broken stream
\* lost is not told when the departure before it was, for that event put the
\* instance among those seen.
CaughtUp ==
    CASE engine = "servicecomb" -> known.here = truth[1].here /\ (got.here => truth[1].here)
      [] engine = "fallback"    -> Effective.here => got = Effective
      [] engine \in {"cfg_consul", "cfg_http", "cfg_file"} -> truth[1].here => got = truth[1]
      [] engine = "consul"      -> Listed.here => got = Listed
      [] engine \in Push -> got = truth[1]
      [] OTHER -> Readable /\ got = Listed

\* Where the code gives no way to catch up: a consul set whose first fetch failed,
\* a kubernetes list with an annotation that does not parse, a merge that lost a
\* delivery or a sub-stream.
Deaf ==
    \/ engine = "consul" /\ loop[1] = "dead"
    \/ engine = "kubernetes" /\ ~Readable
    \/ engine = "fallback" /\ (excused \/ live # Sources)

\* A consumer that keeps calling next() comes to hold the last change, or is told
\* that the watch is over.  Not of zookeeper, whose doc says "re-arming after every
\* firing; each firing delivers a fresh full snapshot": a change between the firing
\* and the next arming wakes nobody.
CatchesUpHere == engine # "zookeeper" => CaughtUp \/ pc = "done" \/ Deaf
====
