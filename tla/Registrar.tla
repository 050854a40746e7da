---- MODULE Registrar ----
(***************************************************************************)
(* Registration of an instance (rushwind-registry-...): register() lists   *)
(* the instance at the backend and leaves a keepalive task behind, the     *)
(* handle it returns stops that task when dropped, and deregister() stops  *)
(* it and takes the listing away.  A registrar finds its tasks in a map,   *)
(* by key: an endpoint's, or the instance's.                               *)
(*                                                                         *)
(* One process registers one instance, perhaps again while it is           *)
(* registered.  A registration is a number, an endpoint a part; a task is  *)
(* a pair of them.  Requests are awaited: a task that is aborted in one    *)
(* leaves it on its way to the backend.                                    *)
(***************************************************************************)
EXTENDS Naturals, FiniteSets

CONSTANTS
    Engines,     \* the engines a behaviour may be of
    Patience,    \* eureka: the failed beat that makes it register anew, the 4th in the code
    MaxRegs,     \* calls of register() in a behaviour
    MaxFaults    \* failed calls, lost leases and sessions in a behaviour

PerEndpoint == {"eureka", "nacos", "polaris"}
Expiring    == {"etcd", "eureka", "consul", "servicecomb"}

Regs  == 1..MaxRegs
Parts == 1..2
Keys  == Regs \X Parts

VARIABLES
    engine,    \* the engine of this behaviour
    op,        \* the caller: "idle", "register", "resolve", "delete", "reply"
    part,      \* the part its call is at
    reg,       \* registrations begun
    held,      \* registrations whose handle the caller holds
    slot,      \* part -> the registration whose task the map holds, 0 for none
    task,      \* task -> "none", "beating", "healing", "sent", "ended"
    misses,    \* eureka: task -> failed beats
    heard,     \* zookeeper: registrations whose listener has seen a Connected
    signals,   \* zookeeper: keepers told of a new session
    flight,    \* tasks' requests not yet at the backend
    listed,    \* part -> the backend lists it
    lease,     \* etcd: part -> the task whose lease the key hangs on, 0 for none
    deaf,      \* tasks that were not told of a loss
    over,      \* parts registered over a registration
    late,      \* parts listed since their last deregistration by a request without a task
    gone,      \* parts deregistered since they were last registered
    faults     \* failures so far

vars == <<engine, op, part, reg, held, slot, task, misses, heard, signals,
          flight, listed, lease, deaf, over, late, gone, faults>>

call    == <<op, part, reg, held>>
session == <<heard, signals>>
backend == <<listed, lease>>
past    == <<deaf, over, late, gone>>

States == {"none", "beating", "healing", "sent", "ended"}
Alive(t) == task[t] \in {"beating", "healing", "sent"}

TypeOK ==
    /\ engine \in Engines
    /\ op \in {"idle", "register", "resolve", "delete", "reply"}
    /\ part \in Parts
    /\ reg \in 0..MaxRegs
    /\ held \subseteq Regs /\ heard \subseteq Regs /\ signals \subseteq Regs
    /\ slot \in [Parts -> 0..MaxRegs]
    /\ task \in [Keys -> States]
    /\ misses \in [Keys -> 0..Patience - 1]
    /\ flight \subseteq Keys
    /\ listed \in [Parts -> BOOLEAN]
    /\ lease \in [Parts -> 0..MaxRegs]
    /\ deaf \subseteq Keys
    /\ over \subseteq Parts /\ late \subseteq Parts /\ gone \subseteq Parts
    /\ faults \in 0..MaxFaults

\* The parts of the instance: its endpoints, where each is registered for itself.
PartsOf == IF engine \in PerEndpoint THEN Parts ELSE {1}

Init ==
    /\ engine \in Engines
    /\ op = "idle" /\ part = 1 /\ reg = 0 /\ held = {}
    /\ slot = [p \in Parts |-> 0]
    /\ task = [t \in Keys |-> "none"]
    /\ misses = [t \in Keys |-> 0]
    /\ heard = {} /\ signals = {} /\ flight = {}
    /\ listed = [p \in Parts |-> FALSE]
    /\ lease = [p \in Parts |-> 0]
    /\ deaf = {} /\ over = {} /\ late = {} /\ gone = {}
    /\ faults = 0

Fault == faults < MaxFaults /\ faults' = faults + 1

\* The backend lists a part; an etcd key hangs on the lease it was put with.
Announce(r, p) ==
    /\ listed' = [listed EXCEPT ![p] = TRUE]
    /\ lease' = IF engine = "etcd" THEN [lease EXCEPT ![p] = r] ELSE lease

\* Tasks are aborted where they are.
Abort(ts) == task' = [t \in Keys |-> IF t \in ts THEN "ended" ELSE task[t]]

\* The tasks the map holds for some parts.
Mapped(ps) == {<<slot[p], p>> : p \in {q \in ps : slot[q] # 0}}

\* Stopping by key: the map's task for each of the parts, whoever spawned it.
Stop(ps) ==
    /\ Abort(Mapped(ps))
    /\ slot' = [p \in Parts |-> IF p \in ps THEN 0 ELSE slot[p]]

-----------------------------------------------------------------------------
(***************************************************************************)
(* register().                                                             *)
(***************************************************************************)

BeginRegister ==
    /\ op = "idle" /\ reg < MaxRegs
    /\ op' = "register" /\ part' = 1 /\ reg' = reg + 1
    /\ gone' = {}
    /\ UNCHANGED <<engine, held, slot, task, misses, session, flight, backend, deaf, over, late, faults>>

\* The part is listed; the call goes on to the next, or returns the handle.
Registering(name) == engine = name /\ op = "register" /\ Announce(reg, part)

Advance ==
    IF part + 1 \in PartsOf
      THEN part' = part + 1 /\ UNCHANGED <<op, held>>
      ELSE op' = "idle" /\ part' = 1 /\ held' = held \cup {reg}

\* A task is spawned, and the map never told.
SpawnUnmapped ==
    /\ task' = [task EXCEPT ![<<reg, part>>] = "beating"]
    /\ UNCHANGED <<slot, over>>

\* A task is spawned and put into the map; one that is there is let go, not aborted.
Spawn ==
    /\ task' = [task EXCEPT ![<<reg, part>>] = "beating"]
    /\ slot' = [slot EXCEPT ![part] = reg]
    /\ over' = IF slot[part] # 0 THEN over \cup {part} ELSE over

NoTask == UNCHANGED <<task, slot, over>>

RegisterRest == Advance /\ UNCHANGED <<engine, reg, misses, session, flight, deaf, late, gone, faults>>

\* etcd: grant and put, then the healing loop.
EtcdRegister == Registering("etcd") /\ Spawn /\ RegisterRest

\* zookeeper: three ensure_name, then the keeper.
ZookeeperRegister == Registering("zookeeper") /\ Spawn /\ RegisterRest

\* eureka: post and heartbeat, endpoint by endpoint.  One the registry's own watch,
\* which may lag, lists as UP is skipped; it is known by the instance's id, and
\* that is the id of one endpoint at most.
EurekaSkips ==
    /\ engine = "eureka" /\ op = "register" /\ part = 1
    /\ listed[part] \/ \E r \in 1..(reg - 1) : task[<<r, part>>] # "none"
    /\ UNCHANGED backend
EurekaRegister ==
    /\ (Registering("eureka") /\ Spawn) \/ (EurekaSkips /\ NoTask)
    /\ RegisterRest

\* consul: one put, and the TTL check's heartbeat.
ConsulRegister == Registering("consul") /\ Spawn /\ RegisterRest

\* servicecomb: the microservice, the instance, and a heartbeat.
ServicecombRegister == Registering("servicecomb") /\ Spawn /\ RegisterRest

\* nacos: endpoint by endpoint; the SDK keeps it alive.
NacosRegister == Registering("nacos") /\ NoTask /\ RegisterRest

\* polaris: endpoint by endpoint; nothing expires it.
PolarisRegister == Registering("polaris") /\ NoTask /\ RegisterRest

\* kubernetes: a patch of the process's own pod.
KubernetesRegister == Registering("kubernetes") /\ NoTask /\ RegisterRest

\* A request fails, with or without effect, or the caller gives up: there is no
\* handle, and what was done for the parts before stays.
RegisterFails ==
    /\ op = "register"
    /\ Fault
    /\ \/ Announce(reg, part) /\ late' = late \cup {part}
       \/ UNCHANGED <<backend, late>>
    /\ op' = "idle" /\ part' = 1
    /\ UNCHANGED <<engine, reg, held, slot, task, misses, session, flight, deaf, over, gone>>

-----------------------------------------------------------------------------
(***************************************************************************)
(* The handle, and deregister().                                           *)
(***************************************************************************)

\* A handle is cancelled or dropped; it stops by key what was spawned for it.
Cancel(r) ==
    /\ r \in held
    /\ held' = held \ {r}
    /\ Stop({p \in PartsOf : task[<<r, p>>] # "none"})
    /\ UNCHANGED <<engine, op, part, reg, misses, session, flight, backend, past, faults>>

\* deregister() of the engines that stop the task first.
StopFirst == {"etcd", "zookeeper", "consul"}

BeginDeregister ==
    /\ op = "idle" /\ reg > 0
    /\ part' = 1
    /\ op' = IF engine = "servicecomb" THEN "resolve" ELSE "delete"
    /\ IF engine \in StopFirst THEN Stop(PartsOf) ELSE UNCHANGED <<task, slot>>
    /\ UNCHANGED <<engine, reg, held, misses, session, flight, backend, past, faults>>

\* servicecomb: the service's id is looked up, then the heartbeat is stopped.
ServicecombResolve ==
    /\ engine = "servicecomb" /\ op = "resolve"
    /\ op' = "delete"
    /\ Stop(PartsOf)
    /\ UNCHANGED <<engine, part, reg, held, misses, session, flight, backend, past, faults>>

\* The backend takes the part away.
Delete ==
    /\ op = "delete"
    /\ listed' = [listed EXCEPT ![part] = FALSE]
    /\ late' = late \ {part}
    /\ op' = "reply"
    /\ UNCHANGED <<engine, part, reg, held, slot, task, misses, session, flight, lease, deaf, over, gone, faults>>

\* The answer: on to the next part.  eureka stops all heartbeats of the application.
Deregistered ==
    /\ op = "reply"
    /\ IF engine = "eureka" THEN Stop(PartsOf) ELSE UNCHANGED <<task, slot>>
    /\ gone' = gone \cup {part}
    /\ IF part + 1 \in PartsOf THEN op' = "delete" /\ part' = part + 1 ELSE op' = "idle" /\ part' = 1
    /\ UNCHANGED <<engine, reg, held, misses, session, flight, backend, deaf, over, late, faults>>

\* The call fails before or after the backend did its part.
DeregisterFails ==
    /\ op \in {"resolve", "delete", "reply"}
    /\ Fault
    /\ op' = "idle" /\ part' = 1
    /\ UNCHANGED <<engine, reg, held, slot, task, misses, session, flight, backend, past>>

-----------------------------------------------------------------------------
(***************************************************************************)
(* The keepalive tasks.                                                    *)
(***************************************************************************)

\* A task sends its (re-)registration and awaits the answer.
Send(t) ==
    /\ task' = [task EXCEPT ![t] = "sent"]
    /\ flight' = flight \cup {t}

\* etcd: the keepalive stream breaks or its answer does not come in time.
EtcdKeepaliveBreaks(t) ==
    /\ engine = "etcd" /\ task[t] = "beating"
    /\ Fault
    /\ task' = [task EXCEPT ![t] = "healing"]
    /\ UNCHANGED <<engine, call, slot, misses, session, flight, backend, past>>

\* etcd: the lease is gone at the server and the stream goes on; the loop does not
\* look at the TTL it is told.
EtcdLeaseLost(t) ==
    /\ engine = "etcd" /\ task[t] = "beating"
    /\ Fault
    /\ listed' = [p \in Parts |-> listed[p] /\ ~(<<lease[p], p>> = t)]
    /\ deaf' = deaf \cup {t}
    /\ UNCHANGED <<engine, call, slot, task, misses, session, flight, lease, over, late, gone>>

\* etcd: grant and put again.
EtcdHeal(t) ==
    /\ engine = "etcd" /\ task[t] = "healing"
    /\ Send(t)
    /\ UNCHANGED <<engine, call, slot, misses, session, backend, past, faults>>

\* zookeeper: the connection comes back, in the old session or, the ephemeral nodes
\* gone, in a new one.  A listener passes over the first Connected it sees.
ZookeeperFlap ==
    /\ engine = "zookeeper"
    /\ Fault
    /\ \E expired \in BOOLEAN :
          /\ listed' = [p \in Parts |-> listed[p] /\ ~expired]
          /\ deaf' = IF expired THEN deaf \cup {t \in Keys : Alive(t) /\ t[1] \notin heard} ELSE deaf
    /\ signals' = signals \cup {r \in heard : Alive(<<r, 1>>)}
    /\ heard' = heard \cup {r \in Regs : task[<<r, 1>>] # "none"}
    /\ UNCHANGED <<engine, call, slot, task, misses, flight, lease, over, late, gone>>

\* zookeeper: the keeper takes a leftover node away and creates it again.
ZookeeperHeal(t) ==
    /\ engine = "zookeeper" /\ task[t] = "beating" /\ t[1] \in signals
    /\ signals' = signals \ {t[1]}
    /\ listed' = [listed EXCEPT ![t[2]] = FALSE]
    /\ Send(t)
    /\ UNCHANGED <<engine, call, slot, misses, heard, lease, past, faults>>

\* The backend forgets a part: a restart, an eviction.
Lapse(p) ==
    /\ engine \in {"eureka", "consul", "servicecomb"} /\ listed[p]
    /\ Fault
    /\ listed' = [listed EXCEPT ![p] = FALSE]
    /\ deaf' = IF engine = "servicecomb" THEN deaf \cup (Regs \X {p}) ELSE deaf
    /\ UNCHANGED <<engine, call, slot, task, misses, session, flight, lease, over, late, gone>>

\* eureka: a beat fails, for the instance is not listed or by itself; beats that
\* succeed in between do not matter.
EurekaMiss(t) ==
    /\ engine = "eureka" /\ task[t] = "beating"
    /\ IF listed[t[2]] THEN Fault ELSE UNCHANGED faults
    /\ IF misses[t] + 1 = Patience
         THEN Send(t) /\ misses' = [misses EXCEPT ![t] = 0]
         ELSE misses' = [misses EXCEPT ![t] = @ + 1] /\ UNCHANGED <<task, flight>>
    /\ UNCHANGED <<engine, call, slot, session, backend, past>>

\* consul: the check is unknown, or the update fails: the service is put again.
ConsulMiss(t) ==
    /\ engine = "consul" /\ task[t] = "beating"
    /\ IF listed[t[2]] THEN Fault ELSE UNCHANGED faults
    /\ Send(t)
    /\ UNCHANGED <<engine, call, slot, misses, session, backend, past>>

\* A request reaches the backend.
Land(t) ==
    /\ t \in flight
    /\ flight' = flight \ {t}
    /\ Announce(t[1], t[2])
    /\ late' = IF task[t] = "ended" THEN late \cup {t[2]} ELSE late
    /\ UNCHANGED <<engine, call, slot, task, misses, session, deaf, over, gone, faults>>

\* Its task is answered.
Healed(t) ==
    /\ task[t] = "sent" /\ t \notin flight
    /\ task' = [task EXCEPT ![t] = "beating"]
    /\ UNCHANGED <<engine, call, slot, misses, session, flight, backend, past, faults>>

\* After a request that failed: etcd tries again, the heartbeats go on beating, the
\* zookeeper keeper dies.
AfterFailure ==
    CASE engine = "etcd" -> "healing"
      [] engine = "zookeeper" -> "ended"
      [] OTHER -> "beating"

\* A request fails on its way or on the way back.
HealFails(t) ==
    /\ task[t] = "sent"
    /\ Fault
    /\ task' = [task EXCEPT ![t] = AfterFailure]
    /\ flight' \in {flight, flight \ {t}}
    /\ deaf' = IF engine = "zookeeper" THEN deaf \cup {t} ELSE deaf
    /\ UNCHANGED <<engine, call, slot, misses, session, backend, over, late, gone>>

\* What keeps a part from expiring: beats for the key's lease, or a lease just
\* granted; beats for the part.
Supported(p) ==
    IF engine = "etcd"
      THEN LET t == <<lease[p], p>> IN t \in Keys /\ task[t] \in {"beating", "sent"} /\ t \notin flight
      ELSE \E r \in Regs : Alive(<<r, p>>)

Expire(p) ==
    /\ engine \in Expiring /\ listed[p]
    /\ ~Supported(p)
    /\ op = "register" => part # p
    /\ listed' = [listed EXCEPT ![p] = FALSE]
    /\ UNCHANGED <<engine, call, slot, task, misses, session, flight, lease, past, faults>>

-----------------------------------------------------------------------------
RegisterStep ==
    \/ EtcdRegister \/ ZookeeperRegister \/ EurekaRegister \/ ConsulRegister
    \/ ServicecombRegister \/ NacosRegister \/ PolarisRegister \/ KubernetesRegister
DeregisterStep == ServicecombResolve \/ Delete \/ Deregistered
KeeperStep(t)  == EtcdHeal(t) \/ ZookeeperHeal(t) \/ Land(t) \/ Healed(t)
Beat(t)        == EurekaMiss(t) \/ ConsulMiss(t)

Next ==
    \/ BeginRegister \/ RegisterStep \/ RegisterFails
    \/ BeginDeregister \/ DeregisterStep \/ DeregisterFails
    \/ \E r \in Regs : Cancel(r)
    \/ \E t \in Keys : KeeperStep(t) \/ Beat(t) \/ HealFails(t)
                       \/ EtcdKeepaliveBreaks(t) \/ EtcdLeaseLost(t)
    \/ ZookeeperFlap
    \/ \E p \in Parts : Lapse(p) \/ Expire(p)

\* Requests are answered, tasks are polled, beats are timed and the backend's clock
\* runs.  Calls, handles and failures are the caller's and the world's.
GoesOn ==
    \/ RegisterStep \/ DeregisterStep
    \/ \E t \in Keys : KeeperStep(t) \/ (Beat(t) /\ ~listed[t[2]])
    \/ \E p \in Parts : Expire(p)
Fairness == WF_vars(GoesOn)

Spec == Init /\ [][Next]_vars /\ Fairness

-----------------------------------------------------------------------------
(***************************************************************************)
(* Properties.                                                             *)
(***************************************************************************)

\* A running keepalive task can be stopped: the map holds it, unless its key was
\* registered over it.
RunningTasksAreMapped ==
    \A r \in Regs, p \in Parts : Alive(<<r, p>>) /\ slot[p] # r => p \in over

\* "A lost connection is retried internally, forever, with the registration
\* re-established": what a held handle keeps alive is listed in the end, but for the
\* losses the engine is not told of (deaf), and for a put without a task, late or of a
\* failed register(), that hung an etcd key on a lease nobody keeps.
HeldIsListed ==
    \A r \in held, p \in PartsOf \ late :
        op = "idle" /\ slot[p] = r /\ ~(\E s \in Regs : <<s, p>> \in deaf) => listed[p]

\* "Removal completes through the backend's own expiry": a part whose task was
\* stopped is not listed in the end; and where nothing expires, one that was
\* deregistered, if no request of a stopped task came late.
GoneIsUnlisted ==
    \A p \in PartsOf \ over :
        op = "idle" /\ slot[p] = 0 =>
          \/ ~listed[p]
          \/ engine \notin Expiring /\ (p \notin gone \/ p \in late)

\* The trait says "the returned handle keeps the registration alive".  That of the
\* first of two registrations aborts the task of the second when it is dropped, so
\* only a handle whose task the map still holds is spoken of here.
====
