---------------------------- MODULE ClientsProofs ----------------------------
(***************************************************************************)
(* The clients of an application's backends, for any subscriptions,        *)
(* messages, registrations, changes and failures: the registrar finds the  *)
(* tasks it must stop, brokers and watches keep to their states, no        *)
(* handler, publish or next() acts out of turn, and a stream is read back  *)
(* as the model sent it, for any script.                                   *)
(***************************************************************************)
EXTENDS MCClients, FiniteSetTheorems, WellFoundedInduction, TLAPS

(* The registrar (rushwind-registry-...).                                  *)

(* What register() and the handle rely on: a call that registers has a     *)
(* number, and every task that runs is the map's or lies under another.    *)
RegistrarInv ==
  /\ R!TypeOK /\ R!RunningTasksAreMapped
  /\ op = "register" => reg > 0

LEMMA RegistrarInitially == R!Init => RegistrarInv
BY ClientsAssumption
   DEF R!Init, RegistrarInv, R!TypeOK, R!RunningTasksAreMapped, R!Alive, R!Parts, R!Keys, R!Regs, R!States

\* Tasks that do not come to life cannot come to be missing in the map.
LEMMA NoneComesToLife ==
  ASSUME RegistrarInv, UNCHANGED <<slot, over>>,
         \A t \in R!Keys : R!Alive(t)' => R!Alive(t)
  PROVE  R!RunningTasksAreMapped'
BY DEF RegistrarInv, R!RunningTasksAreMapped, R!Keys

\* Stopping takes a task out of the map and aborts it in one step.
LEMMA StopKeepsMap ==
  ASSUME RegistrarInv, NEW ps \in SUBSET R!Parts, R!Stop(ps), UNCHANGED over
  PROVE  /\ R!RunningTasksAreMapped'
         /\ slot' \in [R!Parts -> 0..MaxRegs]
         /\ task' \in [R!Keys -> R!States]
BY ClientsAssumption DEF RegistrarInv, R!TypeOK, R!Stop, R!Abort, R!Mapped, R!Alive, R!RunningTasksAreMapped, R!Keys, R!Regs, R!States

\* A registration lists a part and, where the engine keeps it alive, leaves
\* a task that the map holds from the same step on.
LEMMA RegisterSteps == ASSUME RegistrarInv, R!RegisterStep PROVE RegistrarInv'
<1>0. /\ op = "register" /\ R!RegisterRest
      /\ R!Announce(reg, part) \/ UNCHANGED <<listed, lease>>
      /\ R!Spawn \/ R!NoTask
  BY DEF R!Registering, R!RegisterStep, R!EtcdRegister, R!ZookeeperRegister, R!EurekaRegister, R!EurekaSkips, R!backend, R!ConsulRegister,
         R!ServicecombRegister, R!NacosRegister, R!PolarisRegister, R!KubernetesRegister
<1> USE DEF RegistrarInv, R!TypeOK
<1>1. reg \in R!Regs /\ part \in R!Parts /\ <<reg, part>> \in R!Keys  BY <1>0, ClientsAssumption DEF R!Regs, R!Keys
<1>2. listed' \in [R!Parts -> BOOLEAN] /\ lease' \in [R!Parts -> 0..MaxRegs]  BY <1>0, <1>1 DEF R!Announce, R!Regs
<1>3. op' \in {"register", "idle"} /\ part' \in R!Parts /\ held' \subseteq R!Regs
 <2>1. CASE part + 1 \in R!PartsOf
  <3>1. part' = part + 1 /\ op' = op /\ held' = held  BY <2>1, <1>0 DEF R!RegisterRest, R!Advance
  <3>2. R!PartsOf \subseteq R!Parts  BY DEF R!PartsOf, R!Parts
  <3>3. QED BY <3>1, <3>2, <2>1, <1>0
 <2>2. CASE part + 1 \notin R!PartsOf
  <3>1. part' = 1 /\ op' = "idle" /\ held' = held \cup {reg}  BY <2>2, <1>0 DEF R!RegisterRest, R!Advance
  <3>2. QED BY <3>1, <1>1 DEF R!Parts
 <2>3. QED BY <2>1, <2>2
<1>4. slot' \in [R!Parts -> 0..MaxRegs] /\ task' \in [R!Keys -> R!States] /\ over' \subseteq R!Parts
  BY <1>0, <1>1 DEF R!Spawn, R!NoTask, R!Regs, R!States
<1>5. R!RunningTasksAreMapped'
 <2>1. CASE R!NoTask  BY <2>1 DEF R!NoTask, R!RunningTasksAreMapped, R!Alive
 <2>2. CASE R!Spawn  BY <2>2, <1>1 DEF R!Spawn, R!RunningTasksAreMapped, R!Alive, R!Keys, R!Regs
 <2>3. QED BY <2>1, <2>2, <1>0
<1>6. QED  BY <1>0, <1>1, <1>2, <1>3, <1>4, <1>5 DEF R!RegisterRest, R!session

\* The caller's other steps: beginning, giving up, the handle, deregister().
LEMMA CallerSteps ==
  ASSUME RegistrarInv,
         \/ R!BeginRegister \/ R!RegisterFails \/ R!BeginDeregister \/ R!DeregisterStep
         \/ R!DeregisterFails \/ \E r \in R!Regs : R!Cancel(r)
  PROVE  RegistrarInv'
<1> USE DEF RegistrarInv, R!TypeOK, R!session, R!backend, R!past
<1>0. R!PartsOf \in SUBSET R!Parts  BY DEF R!PartsOf, R!Parts
<1>1. CASE R!BeginRegister
 <2>1. R!RunningTasksAreMapped'  BY <1>1, NoneComesToLife DEF R!BeginRegister, R!Alive
 <2>2. QED  BY <1>1, <2>1, ClientsAssumption DEF R!BeginRegister, R!Parts
<1>2. CASE R!RegisterFails
 <2>1. R!RunningTasksAreMapped'  BY <1>2, NoneComesToLife DEF R!RegisterFails, R!Alive
 <2>2. /\ listed' \in [R!Parts -> BOOLEAN] /\ lease' \in [R!Parts -> 0..MaxRegs]
       /\ late' \subseteq R!Parts  BY <1>2 DEF R!RegisterFails, R!Announce
 <2>3. faults' \in 0..MaxFaults  BY <1>2, ClientsAssumption DEF R!RegisterFails, R!Fault
 <2>4. QED  BY <1>2, <2>1, <2>2, <2>3 DEF R!RegisterFails, R!Parts
<1>3. CASE \E r \in R!Regs : R!Cancel(r)
 <2>1. PICK r \in R!Regs : R!Cancel(r)  BY <1>3
 <2>2. QED  BY <2>1, <1>0, StopKeepsMap DEF R!Cancel
<1>4. CASE R!BeginDeregister
 <2>1. /\ R!RunningTasksAreMapped'
       /\ slot' \in [R!Parts -> 0..MaxRegs] /\ task' \in [R!Keys -> R!States]
  <3>1. CASE R!Stop(R!PartsOf)  BY <3>1, <1>0, <1>4, StopKeepsMap DEF R!BeginDeregister
  <3>2. CASE UNCHANGED <<task, slot>>  BY <3>2, <1>4, NoneComesToLife DEF R!BeginDeregister, R!Alive
  <3>3. QED BY <1>4, <3>1, <3>2 DEF R!BeginDeregister
 <2>2. QED  BY <1>4, <2>1 DEF R!BeginDeregister, R!Parts
<1>5. CASE R!DeregisterStep
 <2>1. CASE R!ServicecombResolve  BY <2>1, <1>0, StopKeepsMap DEF R!ServicecombResolve
 <2>2. CASE R!Delete
  <3>1. R!RunningTasksAreMapped'  BY <2>2, NoneComesToLife DEF R!Delete, R!Alive
  <3>2. QED BY <2>2, <3>1 DEF R!Delete
 <2>3. CASE R!Deregistered
  <3>1. /\ R!RunningTasksAreMapped'
        /\ slot' \in [R!Parts -> 0..MaxRegs] /\ task' \in [R!Keys -> R!States]
   <4>1. CASE R!Stop(R!PartsOf)  BY <4>1, <1>0, <2>3, StopKeepsMap DEF R!Deregistered
   <4>2. CASE UNCHANGED <<task, slot>>  BY <4>2, <2>3, NoneComesToLife DEF R!Deregistered, R!Alive
   <4>3. QED BY <2>3, <4>1, <4>2 DEF R!Deregistered
  <3>2. op' \in {"delete", "idle"} /\ part' \in R!Parts  BY <2>3, <1>0 DEF R!Deregistered, R!Parts
  <3>3. gone' \subseteq R!Parts  BY <2>3 DEF R!Deregistered
  <3>4. QED BY <2>3, <3>1, <3>2, <3>3 DEF R!Deregistered
 <2>4. QED BY <1>5, <2>1, <2>2, <2>3 DEF R!DeregisterStep
<1>6. CASE R!DeregisterFails
 <2>1. R!RunningTasksAreMapped'  BY <1>6, NoneComesToLife DEF R!DeregisterFails, R!Alive
 <2>2. QED  BY <1>6, <2>1, ClientsAssumption DEF R!DeregisterFails, R!Fault, R!Parts
<1>7. QED  BY <1>1, <1>2, <1>3, <1>4, <1>5, <1>6

\* The tasks' own steps, and what the backend does to them: none comes to
\* life again once it has ended.
LEMMA KeeperSteps ==
  ASSUME RegistrarInv, NEW t \in R!Keys,
         R!KeeperStep(t) \/ R!Beat(t) \/ R!HealFails(t) \/ R!EtcdKeepaliveBreaks(t) \/ R!EtcdLeaseLost(t)
  PROVE  RegistrarInv'
<1> USE DEF RegistrarInv, R!TypeOK, R!session, R!backend, R!past, R!call, R!Send
<1>1. PICK r \in R!Regs, p \in R!Parts : t = <<r, p>>  BY DEF R!Keys
<1>2. UNCHANGED <<slot, over>>
  BY DEF R!KeeperStep, R!EtcdHeal, R!ZookeeperHeal, R!Land, R!Healed, R!Beat, R!EurekaMiss, R!ConsulMiss,
         R!HealFails, R!EtcdKeepaliveBreaks, R!EtcdLeaseLost
<1>3. /\ task' \in [R!Keys -> R!States]
      /\ \A u \in R!Keys : R!Alive(u)' => R!Alive(u)
 <2>1. CASE \E s \in {"beating", "healing", "sent", "ended"} :
               R!Alive(t) /\ task' = [task EXCEPT ![t] = s]  BY <2>1 DEF R!Alive, R!States
 <2>2. CASE UNCHANGED task  BY <2>2 DEF R!Alive
 <2>3. QED
   BY <2>1, <2>2
      DEF R!KeeperStep, R!EtcdHeal, R!ZookeeperHeal, R!Land, R!Healed, R!Beat, R!EurekaMiss, R!ConsulMiss,
          R!HealFails, R!EtcdKeepaliveBreaks, R!EtcdLeaseLost, R!Alive, R!AfterFailure
<1>4. R!RunningTasksAreMapped'  BY <1>2, <1>3, NoneComesToLife
<1>5. CASE R!KeeperStep(t)
 <2>1. CASE R!EtcdHeal(t)  BY <2>1, <1>3, <1>4 DEF R!EtcdHeal
 <2>2. CASE R!ZookeeperHeal(t)  BY <2>2, <1>1, <1>3, <1>4 DEF R!ZookeeperHeal
 <2>3. CASE R!Land(t)  BY <2>3, <1>1, <1>3, <1>4 DEF R!Land, R!Announce, R!Regs
 <2>4. CASE R!Healed(t)  BY <2>4, <1>3, <1>4 DEF R!Healed
 <2>5. QED BY <1>5, <2>1, <2>2, <2>3, <2>4 DEF R!KeeperStep
<1>6. CASE R!Beat(t)
 <2>1. CASE R!EurekaMiss(t)  BY <2>1, <1>3, <1>4, ClientsAssumption DEF R!EurekaMiss, R!Fault
 <2>2. CASE R!ConsulMiss(t)  BY <2>2, <1>3, <1>4, ClientsAssumption DEF R!ConsulMiss, R!Fault
 <2>3. QED BY <1>6, <2>1, <2>2 DEF R!Beat
<1>7. CASE R!HealFails(t)  BY <1>7, <1>3, <1>4, ClientsAssumption DEF R!HealFails, R!Fault
<1>8. CASE R!EtcdKeepaliveBreaks(t)  BY <1>8, <1>3, <1>4, ClientsAssumption DEF R!EtcdKeepaliveBreaks, R!Fault
<1>9. CASE R!EtcdLeaseLost(t)  BY <1>9, <1>3, <1>4, ClientsAssumption DEF R!EtcdLeaseLost, R!Fault
<1>10. QED  BY <1>5, <1>6, <1>7, <1>8, <1>9

LEMMA WorldSteps ==
  ASSUME RegistrarInv, R!ZookeeperFlap \/ \E p \in R!Parts : R!Lapse(p) \/ R!Expire(p)
  PROVE  RegistrarInv'
<1> USE DEF RegistrarInv, R!TypeOK, R!session, R!backend, R!past, R!call
<1>1. CASE R!ZookeeperFlap
 <2>1. R!RunningTasksAreMapped'  BY <1>1, NoneComesToLife DEF R!ZookeeperFlap, R!Alive
 <2>2. PICK expired \in BOOLEAN :
         /\ listed' = [p \in R!Parts |-> listed[p] /\ ~expired]
         /\ deaf' = IF expired THEN deaf \cup {t \in R!Keys : R!Alive(t) /\ t[1] \notin heard} ELSE deaf
   BY <1>1 DEF R!ZookeeperFlap
 <2>3. deaf' \subseteq R!Keys /\ listed' \in [R!Parts -> BOOLEAN]  BY <2>2
 <2>4. QED  BY <1>1, <2>1, <2>3, ClientsAssumption DEF R!ZookeeperFlap, R!Fault
<1>2. ASSUME NEW p \in R!Parts, R!Lapse(p) PROVE RegistrarInv'
 <2>1. R!RunningTasksAreMapped'  BY <1>2, NoneComesToLife DEF R!Lapse, R!Alive
 <2>2. QED  BY <1>2, <2>1, ClientsAssumption DEF R!Lapse, R!Fault, R!Keys
<1>3. ASSUME NEW p \in R!Parts, R!Expire(p) PROVE RegistrarInv'
 <2>1. R!RunningTasksAreMapped'  BY <1>3, NoneComesToLife DEF R!Expire, R!Alive
 <2>2. QED  BY <1>3, <2>1 DEF R!Expire
<1>4. QED  BY <1>1, <1>2, <1>3

LEMMA RegistrarStep == ASSUME RegistrarInv, R!Next PROVE RegistrarInv'
BY RegisterSteps, CallerSteps, KeeperSteps, WorldSteps DEF R!Next

(* The brokers (rushwind-broker-...).                                      *)
Queued == {"mqtt", "stomp", "nats"}    \* whose SUBSCRIBE frames wait in a queue
PubFrames == {"pub"} \X Msgs

BrokerShape ==
  /\ inst \in Instances
  /\ DOMAIN pump = Gens /\ DOMAIN armed = Gens /\ DOMAIN queue = Gens
  /\ DOMAIN table = Keys
  /\ DOMAIN reader = Subs /\ DOMAIN handle = Subs /\ DOMAIN handed = Subs /\ DOMAIN seen = Subs
  /\ \A s \in Subs : seen[s] \subseteq handed[s]
  /\ DOMAIN msg = Msgs

(* A pump routes by the table and has no readers; where there are readers  *)
(* there is no table, and no subscription waits in a queue.                *)
TwoKinds ==
  /\ Pumped => \A s \in Subs : reader[s] = "none"
  /\ ~Pumped => \A k \in Keys : table[k] = None
  /\ engine \notin Queued => queue \in [Gens -> Seq(PubFrames)]

(* Once unsubscribe() has returned nothing leads to the handler: not the   *)
(* table, and not a reader.                                                *)
NothingLeadsThere ==
  \A s \in Subs :
    handle[s] = "unsubscribed" =>
      IF Pumped THEN \A k \in Keys : table[k] = s => s = None ELSE reader[s] = "ended"

(* What a publish() looks at says so after disconnect(), until connect().  *)
AwayShows ==
  away => /\ engine \notin {"nats", "redis"}
          /\ engine = "stomp" => current = 0
          /\ engine \in {"kafka", "pulsar"} => ~connected
          /\ engine = "rabbitmq" => pump[1] # "live"

BrokerInv == BrokerShape /\ TypeOK /\ TwoKinds /\ NothingLeadsThere /\ AwayShows

LEMMA EngineKnown == ASSUME BrokerShape PROVE engine \in AllEngines /\ inst.subs \subseteq Subs /\ inst.msgs \subseteq Msgs
BY BrokerAssumption DEF BrokerShape, engine

LEMMA FirstGeneration == 1 \in Gens
BY BrokerAssumption DEF Gens

LEMMA BrokerInitially == Init => BrokerInv
<1> SUFFICES ASSUME Init PROVE BrokerInv  OBVIOUS
<1>1. BrokerShape  BY DEF Init, BrokerShape
<1>2. TypeOK  BY FirstGeneration, BrokerAssumption DEF Init, TypeOK, Gens
<1>3. TwoKinds  BY DEF Init, TwoKinds
<1>4. NothingLeadsThere /\ AwayShows  BY DEF Init, NothingLeadsThere, AwayShows
<1>5. QED BY <1>1, <1>2, <1>3, <1>4 DEF BrokerInv

\* The server takes a frame; a break, and nats coming back.
LEMMA ServerSteps ==
  ASSUME BrokerInv, NEW g \in Gens, ServerTakes(g) \/ Break(g) \/ NatsReconnects
  PROVE  BrokerInv'
<1> USE FirstGeneration DEF BrokerInv
<1>1. UNCHANGED <<inst, gen, current, connected, table, handle, msg, handed, seen, away>>
  BY DEF ServerTakes, Break, NatsReconnects
<1>2. engine' = engine /\ (Pumped' <=> Pumped)  BY <1>1 DEF engine, Pumped
<1>3. BrokerShape'  BY <1>1 DEF BrokerShape, ServerTakes, Break, NatsReconnects
<1>4. TwoKinds'
 <2>1. \A s \in Subs : reader[s] = "none" => reader'[s] = "none"  BY DEF ServerTakes, Break, NatsReconnects
 <2>2. engine \notin Queued => queue' \in [Gens -> Seq(PubFrames)]
  <3> SUFFICES ASSUME engine \notin Queued PROVE queue' \in [Gens -> Seq(PubFrames)]  OBVIOUS
  <3>1. queue \in [Gens -> Seq(PubFrames)]  BY DEF TwoKinds
  <3>2. CASE queue' = [queue EXCEPT ![g] = Tail(@)] /\ queue[g] # <<>>  BY <3>1, <3>2
  <3>3. CASE queue' = [queue EXCEPT ![g] = IF engine = "kafka" THEN <<>> ELSE @]  BY <3>1, <3>3
  <3>4. CASE queue' = queue  BY <3>1, <3>4
  <3>5. QED  BY <3>2, <3>3, <3>4 DEF ServerTakes, Break, NatsReconnects
 <2>3. QED BY <1>1, <1>2, <2>1, <2>2 DEF TwoKinds
<1>5. \A s \in Subs : /\ reader[s] = "ended" => reader'[s] = "ended"
                      /\ reader'[s] = "ended" => reader[s] = "ended"
                      /\ reader'[s] \in {"none", "run", "pause", "cancelled", "ending", "ended"}
  BY DEF ServerTakes, Break, NatsReconnects, TypeOK
<1>6. NothingLeadsThere'  BY <1>1, <1>2, <1>5 DEF NothingLeadsThere
<1>7. \A h \in Gens : pump'[h] \in {"none", "dial", "rearm", "live", "broken", "pause", "gone"}
  BY DEF ServerTakes, Break, NatsReconnects, TypeOK, BrokerShape
<1>8. ~Pumped /\ engine # "nats" => armed'[1] \subseteq armed[1]
 <2>1. CASE ServerTakes(g)
  <3>1. engine \notin Queued => Head(queue[g])[1] = "pub"  BY <2>1 DEF ServerTakes, TwoKinds, PubFrames
  <3>2. QED  BY <2>1, <3>1 DEF ServerTakes, BrokerShape, Queued, Pumped
 <2>2. CASE Break(g)  BY <2>2 DEF Break, BrokerShape
 <2>3. CASE NatsReconnects  BY <2>3 DEF NatsReconnects
 <2>4. QED BY <2>1, <2>2, <2>3
<1>9. TypeOK'  BY <1>1, <1>2, <1>5, <1>7, <1>8 DEF TypeOK, Key
<1>10. engine = "rabbitmq" => (pump'[1] = "live" => pump[1] = "live")
  BY DEF ServerTakes, Break, NatsReconnects, BrokerShape
<1>11. AwayShows'  BY <1>1, <1>2, <1>10 DEF AwayShows
<1>12. QED BY <1>3, <1>4, <1>6, <1>9, <1>11

\* connect() and disconnect().
LEMMA ConnectionSteps == ASSUME BrokerInv, Connect \/ Disconnect PROVE BrokerInv'
<1> USE FirstGeneration DEF BrokerInv
<1>1. UNCHANGED <<inst, table, handle, msg, handed, seen>>  BY DEF Connect, Disconnect
<1>2. engine' = engine /\ (Pumped' <=> Pumped)  BY <1>1 DEF engine, Pumped
<1>3. BrokerShape'
  BY <1>1 DEF BrokerShape, Connect, Disconnect, MqttConnect, StompConnect, KafkaConnect, MqttDisconnect,
              StompDisconnect, KafkaDisconnect, PulsarDisconnect, RabbitDisconnect
<1>4. \A s \in Subs : \/ reader'[s] = reader[s]
                      \/ reader[s] = "run" /\ reader'[s] = "ending"
  BY DEF Connect, Disconnect, MqttDisconnect, StompDisconnect, KafkaDisconnect, PulsarDisconnect, RabbitDisconnect
<1>5. engine \notin Queued => UNCHANGED queue
  BY DEF Queued, Connect, Disconnect, MqttDisconnect, StompDisconnect, KafkaDisconnect, PulsarDisconnect,
         RabbitDisconnect
<1>6. TwoKinds'  BY <1>1, <1>2, <1>4, <1>5 DEF TwoKinds
<1>7. NothingLeadsThere'  BY <1>1, <1>2, <1>4 DEF NothingLeadsThere
<1>8. TypeOK'
 <2>1. gen' \in 0..MaxConnects /\ current' \in {0, gen'}
   BY BrokerAssumption
      DEF TypeOK, Connect, Disconnect, MqttConnect, StompConnect, KafkaConnect, MqttDisconnect,
          StompDisconnect, KafkaDisconnect, PulsarDisconnect, RabbitDisconnect
 <2>2. \A g \in Gens : pump'[g] \in {"none", "dial", "rearm", "live", "broken", "pause", "gone"}
   BY DEF TypeOK, BrokerShape, Connect, Disconnect, MqttConnect, StompConnect, KafkaConnect, MqttDisconnect,
          StompDisconnect, KafkaDisconnect, PulsarDisconnect, RabbitDisconnect
 <2>3. armed'[1] \subseteq armed[1]
   BY DEF BrokerShape, Connect, Disconnect, MqttDisconnect, StompDisconnect, KafkaDisconnect,
          PulsarDisconnect, RabbitDisconnect
 <2>4. QED  BY <1>1, <1>2, <1>4, <2>1, <2>2, <2>3 DEF TypeOK, Key
<1>9. AwayShows'
 <2>1. CASE Connect  BY <2>1 DEF Connect, MqttConnect, StompConnect, KafkaConnect, AwayShows
 <2>2. CASE Disconnect
   BY <2>2, <1>2 DEF BrokerShape, Disconnect, MqttDisconnect, StompDisconnect, KafkaDisconnect,
                     PulsarDisconnect, RabbitDisconnect, AwayShows
 <2>3. QED BY <2>1, <2>2
<1>10. QED BY <1>3, <1>6, <1>7, <1>8, <1>9

\* The pump of mqtt and stomp.
LEMMA PumpSteps ==
  ASSUME BrokerInv, NEW g \in Gens, Live(g) \/ Notices(g) \/ Again(g) \/ Superseded(g) \/ Route(g) \/ HalfRead(g)
  PROVE  BrokerInv'
<1> USE FirstGeneration DEF BrokerInv
<1>0. Pumped  BY DEF Live, StompLive, MqttConnAck, MqttRearmed, Notices, Again, Superseded, Route, HalfRead, Pump, Pumped
<1>1. UNCHANGED <<inst, gen, current, table, reader, handle, msg, away>>
  BY DEF Live, Notices, Again, Superseded, Route, HalfRead
<1>2. engine' = engine /\ (Pumped' <=> Pumped)  BY <1>1 DEF engine, Pumped
<1>3. BrokerShape'
 <2>1. DOMAIN pump' = Gens /\ DOMAIN armed' = Gens
   BY DEF BrokerShape, Live, StompLive, MqttConnAck, MqttRearmed, Notices, Again, Superseded, Route, HalfRead
 <2>2. DOMAIN queue' = Gens
   BY DEF BrokerShape, Live, StompLive, MqttConnAck, MqttRearmed, Notices, Again, Superseded, Route, HalfRead
 <2>3. /\ DOMAIN handed' = Subs /\ DOMAIN seen' = Subs
       /\ \A s \in Subs : seen'[s] \subseteq handed'[s]
  <3>1. UNCHANGED seen  BY DEF Live, Notices, Again, Superseded, Route, HalfRead
  <3>2. handed' = handed \/ \E t, m : handed' = [handed EXCEPT ![t] = @ \cup {m}]
    BY ZenonT(60) DEF Live, Notices, Again, Superseded, Route, HalfRead
  <3> QED  BY <3>1, <3>2 DEF BrokerShape
 <2>4. QED BY <1>1, <2>1, <2>2, <2>3 DEF BrokerShape
<1>4. TwoKinds' /\ NothingLeadsThere'  BY <1>0, <1>1, <1>2 DEF TwoKinds, NothingLeadsThere, Queued, Pumped
<1>5. \A h \in Gens : pump'[h] \in {"none", "dial", "rearm", "live", "broken", "pause", "gone"}
  BY DEF TypeOK, BrokerShape, Live, StompLive, MqttConnAck, MqttRearmed, Notices, Again, Superseded, Route, HalfRead
<1>6. TypeOK'  BY <1>0, <1>1, <1>2, <1>5 DEF TypeOK, Key
<1>7. AwayShows'  BY <1>0, <1>1, <1>2 DEF AwayShows, Pumped
<1>8. QED BY <1>3, <1>4, <1>6, <1>7

\* publish(), here and elsewhere.
LEMMA PublishSteps ==
  ASSUME BrokerInv, NEW m \in Msgs, Foreign(m) \/ Publish(m) \/ Send(m)
  PROVE  BrokerInv'
<1> USE FirstGeneration DEF BrokerInv
<1>1. UNCHANGED <<inst, gen, current, connected, pump, armed, table, reader, handle, handed, seen, away>>
  BY DEF Foreign, Publish, Send
<1>2. engine' = engine /\ (Pumped' <=> Pumped)  BY <1>1 DEF engine, Pumped
<1>3. DOMAIN msg' = Msgs
  BY DEF BrokerShape, Foreign, Publish, Send, MqttPublish, StompPublish, KafkaPublish, PulsarPublish,
         RabbitPublish, RedisPublish, NatsPublish, Begin, Refused
<1>4. \/ queue' = queue
      \/ \E g : queue' = [queue EXCEPT ![g] = Append(@, <<"pub", m>>)]  BY DEF Foreign, Publish, Send
<1>5. DOMAIN queue' = Gens  BY <1>4 DEF BrokerShape
<1>6. engine \notin Queued => queue' \in [Gens -> Seq(PubFrames)]
 <2>1. <<"pub", m>> \in PubFrames  BY DEF PubFrames
 <2> SUFFICES ASSUME engine \notin Queued PROVE queue' \in [Gens -> Seq(PubFrames)]  OBVIOUS
 <2>2. queue \in [Gens -> Seq(PubFrames)]  BY DEF TwoKinds
 <2>3. ASSUME NEW g, queue' = [queue EXCEPT ![g] = Append(@, <<"pub", m>>)]
       PROVE  queue' \in [Gens -> Seq(PubFrames)]
  <3> DEFINE f == <<"pub", m>>
  <3> HIDE DEF f
  <3>1. f \in PubFrames  BY <2>1 DEF f
  <3>2. queue' = [queue EXCEPT ![g] = Append(@, f)]  BY <2>3 DEF f
  <3>3. \A q \in Seq(PubFrames) : Append(q, f) \in Seq(PubFrames)  BY <3>1
  <3>4. \A h \in Gens : queue'[h] \in Seq(PubFrames)  BY <2>2, <3>2, <3>3
  <3>5. queue' = [h \in Gens |-> queue'[h]]  BY <2>2, <3>2
  <3>6. QED BY <3>4, <3>5
 <2>4. QED BY <1>4, <2>2, <2>3
<1>7. BrokerShape' /\ TwoKinds' /\ NothingLeadsThere' /\ AwayShows'
  BY <1>1, <1>2, <1>3, <1>5, <1>6 DEF BrokerShape, TwoKinds, NothingLeadsThere, AwayShows
<1>8. TypeOK'  BY <1>1, <1>2 DEF TypeOK, Key
<1>9. QED BY <1>7, <1>8

\* subscribe(): mqtt and stomp enter the handler in the table; the others
\* start a reader, of which no earlier one can have ended.
LEMMA SubscribeSteps ==
  ASSUME BrokerInv, NEW s \in Subs, Subscribe(s)
  PROVE  BrokerInv'
<1> USE FirstGeneration DEF BrokerInv
<1>1. UNCHANGED <<inst, gen, current, connected, pump, msg, handed, seen, away>>  BY DEF Subscribe
<1>2. engine' = engine /\ (Pumped' <=> Pumped)  BY <1>1 DEF engine, Pumped
<1>3. BrokerShape'
 <2>1. DOMAIN armed' = Gens /\ DOMAIN queue' = Gens
   BY DEF BrokerShape, Subscribe, MqttSubscribe, StompSubscribe, NatsSubscribe, KafkaSubscribe,
          RabbitSubscribe, PulsarSubscribe, RedisSubscribe, Starts
 <2>2. DOMAIN table' = Keys /\ DOMAIN reader' = Subs /\ DOMAIN handle' = Subs
   BY DEF BrokerShape, Subscribe, MqttSubscribe, StompSubscribe, NatsSubscribe, KafkaSubscribe,
          RabbitSubscribe, PulsarSubscribe, RedisSubscribe, Starts
 <2>3. QED BY <1>1, <2>1, <2>2 DEF BrokerShape
<1>4. CASE Pumped
 <2>1. UNCHANGED reader
   BY <1>4 DEF Subscribe, MqttSubscribe, StompSubscribe, NatsSubscribe, KafkaSubscribe,
               RabbitSubscribe, PulsarSubscribe, RedisSubscribe, Pumped
 <2>2. /\ handle[s] # "unsubscribed" /\ handle'[s] # "unsubscribed"
       /\ \A t \in Subs : t # s => handle'[t] = handle[t]
   BY <1>4 DEF BrokerShape, Subscribe, MqttSubscribe, StompSubscribe, NatsSubscribe, KafkaSubscribe,
               RabbitSubscribe, PulsarSubscribe, RedisSubscribe, Pumped
 <2>3. \A k \in Keys : table'[k] = table[k] \/ (table'[k] = s /\ Key(s) = k)
   BY <1>4 DEF BrokerShape, Subscribe, MqttSubscribe, StompSubscribe, NatsSubscribe, KafkaSubscribe,
               RabbitSubscribe, PulsarSubscribe, RedisSubscribe, Pumped, Key, Keys
 <2>4. TwoKinds'  BY <1>2, <1>4, <2>1 DEF TwoKinds, Queued, Pumped
 <2>5. NothingLeadsThere'  BY <1>2, <1>4, <2>2, <2>3 DEF NothingLeadsThere
 <2>6. TypeOK'  BY <1>1, <1>2, <1>4, <2>1, <2>3 DEF TypeOK, Key
 <2>7. AwayShows'  BY <1>1, <1>2 DEF AwayShows
 <2>8. QED BY <1>3, <2>4, <2>5, <2>6, <2>7
<1>5. CASE ~Pumped
 <2>1. UNCHANGED table /\ (engine \notin Queued => UNCHANGED queue)
   BY <1>5 DEF Subscribe, MqttSubscribe, StompSubscribe, NatsSubscribe, KafkaSubscribe,
               RabbitSubscribe, PulsarSubscribe, RedisSubscribe, Pumped, Queued, Starts
 <2>2. /\ handle[s] # "unsubscribed" /\ handle'[s] # "unsubscribed"
       /\ \A t \in Subs : t # s => handle'[t] = handle[t]
   BY <1>5 DEF BrokerShape, Subscribe, MqttSubscribe, StompSubscribe, NatsSubscribe, KafkaSubscribe,
               RabbitSubscribe, PulsarSubscribe, RedisSubscribe, Pumped, Starts
 <2>3. \/ reader' = reader /\ armed' = armed
       \/ reader' = [reader EXCEPT ![s] = "run"] /\ (armed' = [armed EXCEPT ![1] = @ \cup {s}] \/ engine = "nats")
   BY <1>5 DEF Subscribe, MqttSubscribe, StompSubscribe, NatsSubscribe, KafkaSubscribe,
               RabbitSubscribe, PulsarSubscribe, RedisSubscribe, Pumped, Starts
 <2>4. TwoKinds'  BY <1>2, <1>5, <2>1 DEF TwoKinds
 <2>5. NothingLeadsThere'  BY <1>2, <1>5, <2>2, <2>3 DEF NothingLeadsThere, BrokerShape
 <2>6. TypeOK'  BY <1>1, <1>2, <1>5, <2>1, <2>3 DEF TypeOK, Key, BrokerShape
 <2>7. AwayShows'  BY <1>1, <1>2 DEF AwayShows
 <2>8. QED BY <1>3, <2>4, <2>5, <2>6, <2>7
<1>6. QED BY <1>4, <1>5

\* The readers, and unsubscribe() and the handle's drop: a reader that ended
\* has left the server's list.
LEMMA ReaderSteps ==
  ASSUME BrokerInv, NEW s \in Subs, Dispatch(s) \/ ReaderEnds(s) \/ KafkaRejoins(s)
  PROVE  BrokerInv'
<1> USE FirstGeneration DEF BrokerInv
<1>1. UNCHANGED <<inst, gen, current, connected, pump, queue, table, handle, msg, away>>
  BY DEF Dispatch, ReaderEnds, KafkaRejoins
<1>2. engine' = engine /\ (Pumped' <=> Pumped)  BY <1>1 DEF engine, Pumped
<1>3. ~Pumped  BY DEF Dispatch, ReaderEnds, KafkaRejoins, TwoKinds
<1>4. BrokerShape'  BY <1>1 DEF BrokerShape, Dispatch, ReaderEnds, KafkaRejoins
<1>5. TwoKinds' /\ AwayShows'  BY <1>1, <1>2, <1>3 DEF TwoKinds, AwayShows
<1>6. /\ \A t \in Subs : reader[t] = "ended" => reader'[t] = "ended"
      /\ \A t \in Subs : reader'[t] \in {"none", "run", "pause", "cancelled", "ending", "ended"}
  BY DEF Dispatch, ReaderEnds, KafkaRejoins, BrokerShape, TypeOK
<1>7. NothingLeadsThere'  BY <1>1, <1>2, <1>3, <1>6 DEF NothingLeadsThere
<1>8. \A t \in Subs : t \in armed'[1] => reader'[t] # "ended" \/ engine = "nats"
 <2>1. CASE Dispatch(s)  BY <2>1, <1>3 DEF Dispatch, TypeOK
 <2>2. CASE ReaderEnds(s)  BY <2>2, <1>3 DEF ReaderEnds, BrokerShape, TypeOK
 <2>3. CASE KafkaRejoins(s)  BY <2>3, <1>3 DEF KafkaRejoins, BrokerShape, TypeOK
 <2>4. QED BY <2>1, <2>2, <2>3
<1>9. TypeOK'  BY <1>1, <1>2, <1>3, <1>6, <1>8 DEF TypeOK, Key
<1>10. QED BY <1>4, <1>5, <1>7, <1>9

LEMMA HandleSteps ==
  ASSUME BrokerInv, NEW s \in Subs, Unsubscribe(s) \/ Drop(s)
  PROVE  BrokerInv'
<1> USE FirstGeneration DEF BrokerInv
<1>1. UNCHANGED <<inst, gen, current, connected, pump, armed, msg, handed, seen, away>>  BY DEF Unsubscribe, Drop
<1>2. engine' = engine /\ (Pumped' <=> Pumped)  BY <1>1 DEF engine, Pumped
<1>3. BrokerShape'
  BY <1>1 DEF BrokerShape, Unsubscribe, Drop, MqttUnsubscribe, StompUnsubscribe, AwaitReader, Cancel
<1>4. \A t \in Subs : t # s => handle'[t] = handle[t]
  BY DEF BrokerShape, Unsubscribe, Drop, MqttUnsubscribe, StompUnsubscribe, AwaitReader
<1>5. \A k \in Keys : table'[k] \in {table[k], None}
  BY DEF BrokerShape, Unsubscribe, Drop, MqttUnsubscribe, StompUnsubscribe, AwaitReader
<1>6. \A t \in Subs : \/ reader'[t] = reader[t]
                      \/ reader[t] \in {"run", "pause"} /\ reader'[t] = "cancelled"
  BY DEF BrokerShape, Unsubscribe, Drop, MqttUnsubscribe, StompUnsubscribe, AwaitReader, Cancel
<1>7. engine \notin Queued => UNCHANGED queue
  BY DEF Queued, Unsubscribe, Drop, MqttUnsubscribe, StompUnsubscribe, AwaitReader
<1>8. TwoKinds'  BY <1>2, <1>5, <1>6, <1>7 DEF TwoKinds
<1>9. TypeOK'  BY <1>1, <1>2, <1>5, <1>6 DEF TypeOK, Key
<1>10. AwayShows'  BY <1>1, <1>2 DEF AwayShows
<1>11. handle'[s] = "unsubscribed" =>
         IF Pumped THEN \A k \in Keys : table'[k] = s => s = None ELSE reader'[s] = "ended"
 <2>1. CASE MqttUnsubscribe(s)  BY <2>1 DEF MqttUnsubscribe, TypeOK, BrokerShape, Key, Pumped, Keys
 <2>2. CASE StompUnsubscribe(s)  BY <2>2 DEF StompUnsubscribe, TypeOK, BrokerShape, Key, Pumped, Keys
 <2>3. CASE AwaitReader(s)  BY <2>3 DEF AwaitReader, BrokerShape
 <2>4. CASE Drop(s)  BY <2>4 DEF Drop, BrokerShape
 <2>5. QED BY <2>1, <2>2, <2>3, <2>4 DEF Unsubscribe
<1>12. NothingLeadsThere'  BY <1>2, <1>4, <1>5, <1>6, <1>11 DEF NothingLeadsThere
<1>13. QED BY <1>3, <1>8, <1>9, <1>10, <1>12

LEMMA HandlerSteps == ASSUME BrokerInv, NEW s \in Subs, HandlerRuns(s) PROVE BrokerInv'
<1>1. UNCHANGED <<inst, gen, current, connected, pump, armed, queue, table, reader, handle, msg, handed, away>>
  BY DEF HandlerRuns
<1>2. engine' = engine /\ (Pumped' <=> Pumped)  BY <1>1 DEF engine, Pumped
<1>3. BrokerShape'  BY <1>1 DEF BrokerInv, BrokerShape, HandlerRuns
<1>4. QED  BY <1>1, <1>2, <1>3 DEF BrokerInv, TypeOK, TwoKinds, NothingLeadsThere, AwayShows, Key

LEMMA BrokerStep == ASSUME BrokerInv, Next PROVE BrokerInv'
BY HandlerSteps, EngineKnown, ServerSteps, ConnectionSteps, PumpSteps, PublishSteps, SubscribeSteps, ReaderSteps,
   HandleSteps, FirstGeneration DEF Next, BrokerInv

(* What travels between a pump and its server names a key of the table.    *)
Frames == {<<"close">>} \cup ({"sub", "unsub"} \X Keys) \cup PubFrames
KeysTravel ==
  Pumped => /\ queue \in [Gens -> Seq(Frames)]
            /\ armed \in [Gens -> SUBSET Keys]
            /\ inbox \in [Gens -> Seq(Keys \X Msgs)]

LEMMA SetToSeqType == ASSUME NEW S, IsFiniteSet(S) PROVE SetToSeq(S) \in Seq(S)
<1> DEFINE n == Cardinality(S)
<1>1. n \in Nat  BY FS_CardinalityType
<1>2. IsFiniteSet(1..n) /\ Cardinality(1..n) = n  BY <1>1, FS_Interval
<1>3. ExistsBijection(1..n, S)  BY <1>2, FS_SameCardinalityBij
<1>4. \E f \in [1..n -> S] : IsInjective(f)  BY <1>3 DEF ExistsBijection, Bijection, Injection
<1>5. SetToSeq(S) \in [1..n -> S]  BY <1>4 DEF SetToSeq
<1>6. QED BY <1>1, <1>5

LEMMA PairsInSequence ==
  ASSUME NEW S \in SUBSET Keys, NEW m
  PROVE  /\ SetToSeq({<<k, m>> : k \in S}) \in Seq(Keys \X {m})
         /\ SetToSeq({<<m, k>> : k \in S}) \in Seq({m} \X Keys)
<1>1. IsFiniteSet(S)
 <2>1. IsFiniteSet(Subs \cup {"filter"})  BY BrokerAssumption, FS_AddElement
 <2>2. IsFiniteSet((Subs \cup {"filter"}) \cup {"rest"})  BY <2>1, FS_AddElement
 <2>3. Keys = (Subs \cup {"filter"}) \cup {"rest"}  BY DEF Keys
 <2> QED  BY <2>2, <2>3, FS_Subset
<1>2. IsFiniteSet({<<k, m>> : k \in S})
 <2> DEFINE f == [k \in S |-> <<k, m>>]
 <2>1. f \in Surjection(S, {<<k, m>> : k \in S})  BY DEF Surjection
 <2>2. QED BY <1>1, <2>1, FS_Surjection
<1>3. IsFiniteSet({<<m, k>> : k \in S})
 <2> DEFINE f == [k \in S |-> <<m, k>>]
 <2>1. f \in Surjection(S, {<<m, k>> : k \in S})  BY DEF Surjection
 <2>2. QED BY <1>1, <2>1, FS_Surjection
<1>4. \A A, B : A \subseteq B => Seq(A) \subseteq Seq(B)  OBVIOUS
<1>5. QED  BY <1>2, <1>3, <1>4, SetToSeqType

\* Queues of a map: one grows, loses its head, or is emptied.
LEMMA QueueOfMap ==
  ASSUME NEW D, NEW T, NEW q \in [D -> Seq(T)], NEW g
  PROVE  /\ \A f \in T : [q EXCEPT ![g] = Append(@, f)] \in [D -> Seq(T)]
         /\ \A s \in Seq(T) : [q EXCEPT ![g] = @ \o s] \in [D -> Seq(T)]
         /\ (g \in D => q[g] # <<>>) => [q EXCEPT ![g] = Tail(@)] \in [D -> Seq(T)]
         /\ [q EXCEPT ![g] = <<>>] \in [D -> Seq(T)]
<1>1. \A f \in T, r \in Seq(T) : Append(r, f) \in Seq(T)  OBVIOUS
<1>2. \A s \in Seq(T), r \in Seq(T) : r \o s \in Seq(T)  OBVIOUS
<1>3. \A r \in Seq(T) : r # <<>> => Tail(r) \in Seq(T)  OBVIOUS
<1>4. <<>> \in Seq(T)  OBVIOUS
<1>5. \A f \in T : [q EXCEPT ![g] = Append(@, f)] \in [D -> Seq(T)]  BY <1>1
<1>6. \A s \in Seq(T) : [q EXCEPT ![g] = @ \o s] \in [D -> Seq(T)]  BY <1>2
<1>7. (g \in D => q[g] # <<>>) => [q EXCEPT ![g] = Tail(@)] \in [D -> Seq(T)]  BY <1>3
<1>8. [q EXCEPT ![g] = <<>>] \in [D -> Seq(T)]  BY <1>4
<1>9. QED BY <1>5, <1>6, <1>7, <1>8

LEMMA KindsOfFrame ==
  /\ \A k \in Keys : <<"sub", k>> \in Frames /\ <<"unsub", k>> \in Frames
  /\ \A m \in Msgs : <<"pub", m>> \in Frames
  /\ <<"close">> \in Frames
  /\ \A f \in Frames : /\ f[1] \in {"sub", "unsub"} => f[2] \in Keys
                       /\ f[1] = "pub" => f[2] \in Msgs
BY DEF Frames, PubFrames

LEMMA FrameSent ==
  ASSUME queue \in [Gens -> Seq(Frames)], NEW g, NEW f \in Frames,
         queue' = [queue EXCEPT ![g] = Append(@, f)]
  PROVE  queue' \in [Gens -> Seq(Frames)]
<1>1. [queue EXCEPT ![g] = Append(@, f)] \in [Gens -> Seq(Frames)]  BY QueueOfMap
<1>2. QED BY <1>1

LEMMA FannedOut ==
  ASSUME KeysTravel, Pumped, NEW m \in Msgs, FanOut(m)
  PROVE  inbox' \in [Gens -> Seq(Keys \X Msgs)]
<1>1. ASSUME NEW g \in Gens PROVE Deliveries(g, m) \in Seq(Keys \X Msgs)
 <2>1. armed[g] \in SUBSET Keys  BY DEF KeysTravel
 <2>2. Deliveries(g, m) \in Seq(Keys \X {m})  BY <2>1, PairsInSequence DEF Deliveries
 <2>3. Keys \X {m} \subseteq Keys \X Msgs  OBVIOUS
 <2>4. \A A, B : A \subseteq B => Seq(A) \subseteq Seq(B)  OBVIOUS
 <2>5. QED BY <2>2, <2>3, <2>4
<1>2. inbox' = [g \in Gens |-> inbox[g] \o Deliveries(g, m)]  BY DEF FanOut, Pumped
<1>3. \A T : \A a, b \in Seq(T) : a \o b \in Seq(T)  OBVIOUS
<1>4. \A g \in Gens : inbox[g] \in Seq(Keys \X Msgs)  BY DEF KeysTravel
<1>5. \A g \in Gens : inbox[g] \o Deliveries(g, m) \in Seq(Keys \X Msgs)  BY <1>1, <1>3, <1>4
<1>6. QED BY <1>2, <1>5

LEMMA KeysInitially == Init => KeysTravel
BY DEF Init, KeysTravel

LEMMA KeysKept ==
  ASSUME BrokerInv, KeysTravel, Pumped, Next
  PROVE  /\ queue' \in [Gens -> Seq(Frames)]
         /\ armed' \in [Gens -> SUBSET Keys]
         /\ inbox' \in [Gens -> Seq(Keys \X Msgs)]
<1> DEFINE Kept == /\ queue' \in [Gens -> Seq(Frames)]
                   /\ armed' \in [Gens -> SUBSET Keys]
                   /\ inbox' \in [Gens -> Seq(Keys \X Msgs)]
<1> USE KindsOfFrame DEF KeysTravel
<1>0. /\ \A q : queue' = q /\ q \in [Gens -> Seq(Frames)] => queue' \in [Gens -> Seq(Frames)]
      /\ ~(engine \in {"nats", "kafka", "rabbitmq", "pulsar", "redis"})  BY DEF Pumped
<1>1. ASSUME NEW g \in Gens, ServerTakes(g) PROVE Kept
 <2>1. Head(queue[g]) \in Frames  BY <1>1 DEF ServerTakes
 <2>2. queue' \in [Gens -> Seq(Frames)]  BY <1>1, QueueOfMap DEF ServerTakes
 <2> DEFINE f == Head(queue[g])
 <2> HIDE DEF f
 <2>3. CASE f[1] = "pub" /\ FanOut(f[2]) /\ UNCHANGED armed
  <3>1. f[2] \in Msgs  BY <2>1, <2>3 DEF f
  <3>2. QED BY <2>2, <2>3, <3>1, FannedOut
 <2>4. CASE /\ f[1] = "sub" /\ armed' = [armed EXCEPT ![g] = @ \cup {f[2]}]
            /\ UNCHANGED inbox
  <3>1. f[2] \in Keys  BY <2>1, <2>4 DEF f
  <3>2. QED BY <2>2, <2>4, <3>1
 <2>5. CASE armed' = [armed EXCEPT ![g] = @ \ {f[2]}] /\ UNCHANGED inbox  BY <2>2, <2>5
 <2>6. CASE armed' = [armed EXCEPT ![g] = {}] /\ inbox' = [inbox EXCEPT ![g] = <<>>]  BY <2>2, <2>6, QueueOfMap
 <2>7. QED BY <1>1, <2>3, <2>4, <2>5, <2>6 DEF ServerTakes, f
<1>2. ASSUME NEW g \in Gens, Break(g) PROVE Kept
 <2>1. armed' = [armed EXCEPT ![g] = {}] /\ inbox' = [inbox EXCEPT ![g] = <<>>] /\ queue' = queue
   BY <1>2, <1>0 DEF Break, BrokerInv, BrokerShape
 <2>2. QED BY <2>1, QueueOfMap
<1>3. ASSUME NEW g \in Gens, Live(g) PROVE Kept
 <2>1. CASE StompLive(g)  BY <1>3, <2>1 DEF Live, StompLive, ToRearm
 <2>2. CASE MqttConnAck(g)
  <3>1. ToRearm \in SUBSET Keys  BY DEF ToRearm
  <3>2. SetToSeq({<<"sub", k>> : k \in ToRearm}) \in Seq({"sub"} \X Keys)  BY <3>1, PairsInSequence
  <3>3. \A A, B : A \subseteq B => Seq(A) \subseteq Seq(B)  OBVIOUS
  <3>4. {"sub"} \X Keys \subseteq Frames  BY DEF Frames
  <3>5. SetToSeq({<<"sub", k>> : k \in ToRearm}) \in Seq(Frames)  BY <3>2, <3>3, <3>4
  <3> DEFINE again == SetToSeq({<<"sub", k>> : k \in ToRearm})
  <3> HIDE DEF again
  <3>6. queue' = [queue EXCEPT ![g] = @ \o again] /\ UNCHANGED <<armed, inbox>>
    BY <1>3, <2>2 DEF Live, MqttConnAck, again
  <3>7. QED BY <3>5, <3>6, QueueOfMap DEF again
 <2>3. CASE MqttRearmed(g)  BY <1>3, <2>3 DEF Live, MqttRearmed
 <2>4. QED BY <1>3, <2>1, <2>2, <2>3 DEF Live
<1>4. ASSUME NEW g \in Gens, Notices(g) \/ Again(g) PROVE Kept
 <2>1. CASE queue' = queue  BY <1>4, <2>1 DEF Notices, Again
 <2>2. CASE queue[g] # <<>> /\ queue' = [queue EXCEPT ![g] = Tail(@)]
  <3>1. queue' \in [Gens -> Seq(Frames)]  BY <2>2, QueueOfMap
  <3>2. QED BY <1>4, <3>1 DEF Notices, Again
 <2>3. QED BY <1>4, <2>1, <2>2 DEF Notices, Again
<1>5. ASSUME NEW g \in Gens, Superseded(g) PROVE Kept  BY <1>5, QueueOfMap DEF Superseded
<1>6. ASSUME NEW g \in Gens, Route(g) PROVE Kept
 <2> DEFINE few == IF Head(inbox[g])[1] = "rest" THEN 2 ELSE 1
 <2>1. few \in {1, 2}  OBVIOUS
 <2> HIDE DEF few
 <2>2. /\ few <= Len(inbox[g]) /\ UNCHANGED <<queue, armed>>
       /\ inbox' = [inbox EXCEPT ![g] = SubSeq(@, few + 1, Len(@))]  BY <1>6 DEF Route, few
 <2>3. inbox[g] \in Seq(Keys \X Msgs)  OBVIOUS
 <2>4. SubSeq(inbox[g], few + 1, Len(inbox[g])) \in Seq(Keys \X Msgs)  BY <2>1, <2>2, <2>3
 <2>5. QED BY <2>2, <2>4
<1>15. ASSUME NEW g \in Gens, HalfRead(g) PROVE Kept
 <2>1. UNCHANGED <<queue, armed>>  BY <1>15 DEF HalfRead
 <2>2. CASE inbox' = [inbox EXCEPT ![g] = Tail(@)]  BY <1>15, <2>1, <2>2, QueueOfMap DEF HalfRead
 <2>3. CASE inbox' = [inbox EXCEPT ![g][1] = <<"rest", @[2]>>]
  <3>1. inbox[g] \in Seq(Keys \X Msgs) /\ inbox[g] # <<>>  BY <1>15 DEF HalfRead
  <3>2. <<"rest", inbox[g][1][2]>> \in Keys \X Msgs  BY <3>1 DEF Keys
  <3>3. [inbox[g] EXCEPT ![1] = <<"rest", @[2]>>] \in Seq(Keys \X Msgs)  BY <3>1, <3>2
  <3>4. QED BY <2>1, <2>3, <3>3
 <2>4. QED BY <1>15, <2>2, <2>3 DEF HalfRead
<1>16. ASSUME NEW s \in Subs, HandlerRuns(s) PROVE Kept  BY <1>16 DEF HandlerRuns
<1>7. ASSUME NEW m \in Msgs, Foreign(m) \/ Publish(m) PROVE Kept  BY <1>7, FannedOut DEF Foreign, Publish
<1>8. ASSUME NEW m \in Msgs, Send(m) PROVE Kept
 <2> DEFINE f == <<"pub", m>>
 <2>1. f \in Frames  OBVIOUS
 <2> HIDE DEF f
 <2>2. /\ queue' = queue \/ \E g : queue' = [queue EXCEPT ![g] = Append(@, f)]
       /\ UNCHANGED <<armed, inbox>>  BY <1>8, <1>0 DEF Send, f
 <2>3. QED BY <2>1, <2>2, FrameSent
<1>9. ASSUME NEW s \in Subs, Subscribe(s) \/ Unsubscribe(s) PROVE Kept
 <2> DEFINE a == <<"sub", "filter">>  b == <<"sub", s>>  c == <<"unsub", "filter">>  d == <<"unsub", s>>
 <2>1. a \in Frames /\ b \in Frames /\ c \in Frames /\ d \in Frames  BY DEF Keys
 <2> HIDE DEF a, b, c, d
 <2>2. /\ \/ queue' = queue
          \/ \E f \in {a, b, c, d} : queue' = [queue EXCEPT ![current] = Append(@, f)]
       /\ UNCHANGED <<armed, inbox>>
   BY <1>9, <1>0 DEF Subscribe, MqttSubscribe, StompSubscribe, NatsSubscribe, KafkaSubscribe, RabbitSubscribe,
               PulsarSubscribe, RedisSubscribe, Unsubscribe, MqttUnsubscribe, StompUnsubscribe, AwaitReader,
               Pumped, a, b, c, d
 <2>3. QED BY <2>1, <2>2, FrameSent
<1>10. ASSUME Connect \/ Disconnect PROVE Kept
 <2> DEFINE f == <<"close">>
 <2>1. f \in Frames  OBVIOUS
 <2> HIDE DEF f
 <2>2. /\ queue' = queue \/ queue' = [queue EXCEPT ![current] = Append(@, f)]
       /\ UNCHANGED <<armed, inbox>>
   BY <1>10, <1>0 DEF Connect, Disconnect, MqttDisconnect, StompDisconnect, KafkaDisconnect, PulsarDisconnect,
                RabbitDisconnect, f
 <2>3. QED BY <2>1, <2>2, FrameSent
<1>11. ASSUME NEW s \in Subs, Drop(s) PROVE Kept  BY <1>11 DEF Drop
<1>12. ~NatsReconnects /\ \A s \in Subs : ~Dispatch(s) /\ ~ReaderEnds(s) /\ ~KafkaRejoins(s)
  BY <1>0 DEF NatsReconnects, Dispatch, ReaderEnds, KafkaRejoins, BrokerInv, TwoKinds
<1>13. inst.subs \subseteq Subs /\ inst.msgs \subseteq Msgs  BY EngineKnown DEF BrokerInv
<1>14. QED  BY <1>1, <1>2, <1>3, <1>4, <1>5, <1>6, <1>7, <1>8, <1>9, <1>10, <1>11, <1>12, <1>13, <1>15, <1>16
     DEF Next

LEMMA KeysStep == ASSUME BrokerInv, KeysTravel, Next PROVE KeysTravel'
<1>1. inst' = inst
  BY ZenonT(60)
  DEF Next, Connect, Disconnect, NatsReconnects, ServerTakes, Break, Live, Notices, Again, Superseded, Route,
         HalfRead, Foreign, Publish, Send, Subscribe, Dispatch, HandlerRuns, ReaderEnds, KafkaRejoins, Unsubscribe, Drop
<1>2. Pumped' => Pumped  BY <1>1 DEF Pumped, engine
<1>3. QED BY <1>2, KeysKept DEF KeysTravel

(* unsubscribe() has the last word, and so has disconnect().               *)
LEMMA BrokerKeepsOrder ==
  ASSUME BrokerInv, KeysTravel, Next PROVE NothingAfterUnsubscribeStep /\ DisconnectedRefusesStep
<1> USE DEF BrokerInv
<1>1. NothingAfterUnsubscribeStep
 <2>1. CASE \E g \in Gens : Route(g)
  <3>1. PICK g \in Gens : Route(g)  BY <2>1
  <3>2. Head(inbox[g])[1] \in Keys  BY <3>1 DEF Route, Pump, KeysTravel
  <3>3. UNCHANGED seen /\ \A s \in Subs : handle[s] = "unsubscribed" => handed'[s] = handed[s]
    BY <3>1, <3>2 DEF Route, Pump, NothingLeadsThere, BrokerShape
  <3>4. QED BY <3>3 DEF NothingAfterUnsubscribeStep, BrokerShape
 <2>2. CASE \E s \in inst.subs : Dispatch(s)
   BY <2>2, EngineKnown DEF Dispatch, TwoKinds, NothingLeadsThere, NothingAfterUnsubscribeStep, BrokerShape
 <2>3. CASE UNCHANGED <<handed, seen>>  BY <2>3, SMTT(60) DEF NothingAfterUnsubscribeStep, BrokerShape
 <2>5. CASE \E s \in inst.subs : HandlerRuns(s)
   BY <2>5, EngineKnown DEF HandlerRuns, NothingAfterUnsubscribeStep, BrokerShape
 <2>4. QED
   BY <2>1, <2>2, <2>3, <2>5, ZenonT(60)
      DEF Next, Connect, Disconnect, NatsReconnects, ServerTakes, Break, Live, Notices, Again, Superseded,
          HalfRead, Foreign, Publish, Send, Subscribe, ReaderEnds, KafkaRejoins, Unsubscribe, Drop
<1>2. DisconnectedRefusesStep
 <2>1. ASSUME NEW m \in Msgs, Publish(m) PROVE DisconnectedRefusesStep
   BY <2>1 DEF Publish, MqttPublish, StompPublish, KafkaPublish, PulsarPublish, RabbitPublish, RedisPublish,
               NatsPublish, Begin, Refused, New, AwayShows, DisconnectedRefusesStep, BrokerShape
 <2>2. ASSUME NEW m \in Msgs, Foreign(m) PROVE DisconnectedRefusesStep
   BY <2>2 DEF Foreign, New, DisconnectedRefusesStep, BrokerShape
 <2>3. ASSUME NEW m \in Msgs, Send(m) PROVE DisconnectedRefusesStep
   BY <2>3 DEF Send, Refused, DisconnectedRefusesStep, BrokerShape
 <2>4. CASE UNCHANGED msg  BY <2>4 DEF DisconnectedRefusesStep
 <2>5. QED
   BY EngineKnown, <2>1, <2>2, <2>3, <2>4, ZenonT(60)
      DEF Next, Connect, Disconnect, NatsReconnects, ServerTakes, Break, Live, Notices, Again, Superseded,
          Route, HalfRead, Subscribe, Dispatch, HandlerRuns, ReaderEnds, KafkaRejoins, Unsubscribe, Drop
<1>3. QED BY <1>1, <1>2

(* The watches (rushwind-registry-..., rushwind-config-...).               *)
Unordered == {"eureka", "servicecomb", "fallback"}    \* the engines NeverBackwardsStep leaves out

Rising(s)    == \A i, j \in 1..Len(s) : i <= j => s[i].ver <= s[j].ver
Before(n, s) == \A i \in 1..Len(s) : n <= s[i].ver
Until(s, n)  == \A i \in 1..Len(s) : s[i].ver <= n

(* What was read and waits to be published is a value, and so is what the  *)
(* consumer is woken for.                                                  *)
WatchShape ==
  /\ W!TypeOK
  /\ events \in [W!Sources -> Seq(W!Value)]
  /\ channel \in Seq(W!Value)
  /\ \A t \in W!Tasks : loop[t] = "fetched" => fetched[t] \in W!Value
  /\ changed => cache \in W!Value

(* Between the backend and the consumer versions only grow older: along    *)
(* the cache and what was read for it, or along the channel and the events *)
(* that are forwarded into it.                                             *)
CacheForward ==
  watching \in W!Broadcast =>
    /\ got.ver <= cache.ver /\ cache.ver <= truth[1].ver
    /\ loop[1] = "fetched" => cache.ver <= fetched[1].ver /\ fetched[1].ver <= truth[1].ver
    /\ loop[2] # "fetched"
ChannelForward ==
  watching \in W!Push =>
    /\ Rising(channel) /\ Before(got.ver, channel) /\ Until(channel, truth[1].ver)
    /\ watching = "cfg_etcd" =>
         /\ Rising(events[1]) /\ Before(got.ver, events[1]) /\ Until(events[1], truth[1].ver)
         /\ \A i \in 1..Len(channel) : Before(channel[i].ver, events[1])
WatchForward ==
  watching \notin Unordered => got.ver <= truth[1].ver /\ CacheForward /\ ChannelForward

WatchInv == WatchShape /\ WatchForward

LEMMA WatchInitially == W!Init => WatchInv
<1> SUFFICES ASSUME W!Init PROVE WatchInv  OBVIOUS
<1>1. truth \in [W!Sources -> W!Value] /\ truth[1].ver = 0  BY DEF W!Init, W!Sources
<1>2. got \in W!Value /\ (watching \notin Unordered => got = truth[1])
 <2>1. truth[1] \in W!Value /\ truth[2] \in W!Value  BY <1>1 DEF W!Sources
 <2>2. [truth[1] EXCEPT !.here = FALSE] \in W!Value  BY <2>1 DEF W!Value
 <2>3. W!Effective \in W!Value  BY <2>1 DEF W!Effective
 <2>4. got = W!Loaded  BY DEF W!Init
 <2>5. QED BY <2>1, <2>2, <2>3, <2>4 DEF W!Loaded, W!Merge, Unordered
<1>3. events \in [W!Sources -> Seq(W!Value)] /\ channel \in Seq(W!Value)  BY DEF W!Init
<1>4. loop \in [W!Tasks -> {"arming", "resting", "dead"}]  BY DEF W!Init
<1>5. known \in [ver : 0..MaxChanges + 1, here : BOOLEAN]  BY ClientsAssumption DEF W!Init, W!Unseen
<1>6. W!TypeOK
 <2>1. loop \in [W!Tasks -> {"arming", "armed", "fired", "resting", "fetched", "dead"}]  BY <1>4
 <2>2. fetched \in [W!Tasks -> W!Value \cup {W!NoValue}] /\ cache \in W!Value \cup {W!NoValue}  BY DEF W!Init
 <2>3. pc \in W!Steps  BY DEF W!Init, W!Steps
 <2>4. failures \in 0..MaxFaults  BY ClientsAssumption DEF W!Init
 <2>5. \A s \in W!Sources : \A i \in DOMAIN events[s] : events[s][i] \in W!Value  BY DEF W!Init
 <2>6. \A i \in DOMAIN channel : channel[i] \in W!Value  BY DEF W!Init
 <2>7. QED  BY <1>1, <1>2, <1>5, <2>1, <2>2, <2>3, <2>4, <2>5, <2>6 DEF W!Init, W!TypeOK
<1>7. WatchShape  BY <1>3, <1>4, <1>6 DEF WatchShape, W!Init
<1>8. WatchForward
 <2> SUFFICES ASSUME watching \notin Unordered PROVE got.ver <= truth[1].ver /\ CacheForward /\ ChannelForward
   BY DEF WatchForward
 <2>1. CacheForward  BY <1>1, <1>2, <1>4 DEF CacheForward, W!Init, W!NoValue, W!Tasks
 <2>2. ChannelForward  BY DEF ChannelForward, W!Init, W!Sources, Rising, Before, Until
 <2>3. QED BY <1>1, <1>2, <2>1, <2>2
<1>9. QED BY <1>7, <1>8 DEF WatchInv

\* What a read answers is what the backend held when it was made.
LEMMA ListedNow ==
  ASSUME WatchShape, W!Readable
  PROVE  W!Listed \in W!Value /\ W!Listed.ver = truth[1].ver
<1>1. truth[1] \in W!Value  BY DEF WatchShape, W!TypeOK, W!Sources
<1>2. ASSUME NEW marks PROVE W!Without(truth[1], marks) \in W!Value /\ W!Without(truth[1], marks).ver = truth[1].ver
  BY <1>1 DEF W!Without, W!Value
<1>3. \A v \in W!Reads(truth[1]) : v \in W!Value /\ v.ver = truth[1].ver
  BY <1>1, <1>2 DEF W!Reads, W!EtcdReads, W!ZookeeperReads, W!NacosReads, W!ConsulReads, W!EurekaReads,
                    W!KubernetesReads, W!PolarisReads
<1>4. W!Listed \in W!Reads(truth[1])  BY DEF W!Listed, W!Readable
<1>5. QED BY <1>3, <1>4

\* A step that moves no value: it starts, ends or fails something.
LEMMA NoValueMoves ==
  ASSUME WatchInv, UNCHANGED <<watching, truth, events, fetched, known, cache, channel, got>>,
         W!TypeOK', changed' => changed,
         \A t \in W!Tasks : loop'[t] = "fetched" => loop[t] = "fetched"
  PROVE  WatchInv' /\ W!NeverBackwardsStep
<1>1. WatchShape'  BY DEF WatchInv, WatchShape
<1>2. watching \notin Unordered => CacheForward' /\ ChannelForward' /\ got'.ver <= truth'[1].ver
  BY DEF WatchInv, WatchForward, CacheForward, ChannelForward, W!Tasks
<1>3. got.ver \in Nat  BY ClientsAssumption DEF WatchInv, WatchShape, W!TypeOK, W!Value
<1>4. QED BY <1>1, <1>2, <1>3 DEF WatchInv, WatchForward, W!NeverBackwardsStep

LEMMA QuietSteps ==
  ASSUME WatchInv,
         \/ W!PullReadFails \/ W!EtcdRelease \/ W!EtcdReopenFails
         \/ W!ZookeeperArm \/ W!ZookeeperFatal \/ W!ZookeeperEnds
         \/ W!Subscribe \/ W!ConsulWatchFails \/ W!ConsulWatchAgain
         \/ W!EtcdForwardEnds \/ W!FilePumpEnds \/ W!ServicecombDial \/ W!PushEnds
         \/ W!FallbackCoalesce \/ W!FallbackLoadFails \/ W!FallbackDropped \/ W!FallbackEnds
         \/ \E s \in W!Sources : W!FallbackSubEnds(s)
  PROVE  WatchInv' /\ W!NeverBackwardsStep
<1> USE DEF W!backend, W!tasks, W!channels, W!merging, W!PullReadFails, W!EtcdRelease, W!EtcdReopenFails,
            W!ZookeeperArm, W!ZookeeperFatal, W!ZookeeperEnds, W!Subscribe, W!ConsulWatchFails, W!ConsulWatchAgain,
            W!EtcdForwardEnds, W!FilePumpEnds, W!ServicecombDial, W!PushEnds, W!FallbackCoalesce,
            W!FallbackLoadFails, W!FallbackDropped, W!FallbackEnds, W!FallbackSubEnds
<1>1. UNCHANGED <<watching, truth, events, fetched, known, cache, channel, got>>  OBVIOUS
<1>2. changed' = changed \/ changed' = FALSE  OBVIOUS
<1>3. loop' = loop \/ loop' = [loop EXCEPT ![1] = "armed"] \/ loop' = [loop EXCEPT ![1] = "dead"]  OBVIOUS
<1>4. /\ loop' \in [W!Tasks -> {"arming", "armed", "fired", "resting", "fetched", "dead"}]
      /\ \A t \in W!Tasks : loop'[t] = "fetched" => loop[t] = "fetched"  BY <1>3 DEF WatchInv, WatchShape, W!TypeOK
<1>5. wire' \in {"open", "down", "none"} /\ pc' \in W!Steps  BY DEF WatchInv, WatchShape, W!TypeOK, W!Steps
<1>6. parked' \subseteq W!Sources /\ live' \subseteq W!Sources  BY DEF WatchInv, WatchShape, W!TypeOK
<1>7. excused' = excused \/ excused' = TRUE  OBVIOUS
<1>8. failures' = failures \/ W!Fault  OBVIOUS
<1>9. failures' \in 0..MaxFaults  BY <1>8, ClientsAssumption DEF W!Fault, WatchInv, WatchShape, W!TypeOK
<1>10. changed' => changed  BY <1>2
<1>11. changed' \in BOOLEAN /\ excused' \in BOOLEAN
 <2>1. changed \in BOOLEAN /\ excused \in BOOLEAN  BY DEF WatchInv, WatchShape, W!TypeOK
 <2>2. QED BY <1>2, <1>7, <2>1
<1>12. W!TypeOK'  BY <1>1, <1>4, <1>5, <1>6, <1>9, <1>11 DEF WatchInv, WatchShape, W!TypeOK
<1>13. QED BY <1>1, <1>4, <1>10, <1>12, NoValueMoves

\* Lines of values, by their versions.
LEMMA JoinsTheLine ==
  ASSUME NEW s \in Seq(W!Value), NEW v \in W!Value, Rising(s), Until(s, v.ver)
  PROVE  /\ Append(s, v) \in Seq(W!Value) /\ Rising(Append(s, v))
         /\ \A n \in Nat : Before(n, s) /\ n <= v.ver => Before(n, Append(s, v))
         /\ \A n \in Nat : v.ver <= n => Until(Append(s, v), n)
<1>a. \A w \in W!Value : w.ver \in Nat  BY ClientsAssumption DEF W!Value
<1>0. \A i \in 1..Len(s) : s[i] \in W!Value  OBVIOUS
<1> DEFINE r == Append(s, v)
<1>1. /\ r \in Seq(W!Value) /\ Len(r) = Len(s) + 1 /\ Len(s) \in Nat
      /\ \A i \in 1..Len(s) : r[i] = s[i]
      /\ r[Len(s) + 1] = v  OBVIOUS
<1> HIDE DEF r
<1>2. Rising(r)
 <2> SUFFICES ASSUME NEW i \in 1..Len(r), NEW j \in 1..Len(r), i <= j
              PROVE  r[i].ver <= r[j].ver  BY DEF Rising
 <2>1. CASE j <= Len(s)
  <3>1. i \in 1..Len(s) /\ j \in 1..Len(s) /\ r[i] = s[i] /\ r[j] = s[j]  BY <1>1, <2>1
  <3> QED BY <3>1 DEF Rising
 <2>2. CASE j = Len(s) + 1 /\ i <= Len(s)
  <3>1. i \in 1..Len(s) /\ r[i] = s[i] /\ r[j] = v  BY <1>1, <2>2
  <3> QED BY <3>1 DEF Until
 <2>3. CASE i = Len(s) + 1 /\ j = Len(s) + 1  BY <1>a, <1>1, <2>3
 <2> QED BY <1>1, <2>1, <2>2, <2>3
<1>3. \A n \in Nat : Before(n, s) /\ n <= v.ver => Before(n, r)  BY <1>a, <1>0, <1>1, SMTT(60) DEF Before
<1>4. \A n \in Nat : v.ver <= n => Until(r, n)  BY <1>a, <1>0, <1>1, SMTT(60) DEF Until
<1>5. QED BY <1>1, <1>2, <1>3, <1>4 DEF r

LEMMA LeavesTheLine ==
  ASSUME NEW s \in Seq(W!Value), s # <<>>, Rising(s)
  PROVE  /\ Head(s) \in W!Value /\ Tail(s) \in Seq(W!Value)
         /\ Rising(Tail(s)) /\ Before(Head(s).ver, Tail(s))
         /\ \A n \in Nat : Until(s, n) => Head(s).ver <= n /\ Until(Tail(s), n)
         /\ \A n \in Nat : Before(n, s) => n <= Head(s).ver /\ Before(n, Tail(s))
         /\ \A i \in 1..Len(Tail(s)) : Tail(s)[i] = s[i + 1] /\ i + 1 \in 1..Len(s)
<1>0. \A i \in 1..Len(s) : s[i] \in W!Value  OBVIOUS
<1> DEFINE r == Tail(s)
<1>1. /\ r \in Seq(W!Value) /\ Len(r) = Len(s) - 1 /\ Len(s) \in Nat \ {0}
      /\ \A i \in 1..Len(r) : r[i] = s[i + 1]
      /\ Head(s) = s[1]  OBVIOUS
<1> HIDE DEF r
<1>2. \A i \in 1..Len(r) : i + 1 \in 1..Len(s) /\ r[i].ver = s[i + 1].ver  BY <1>1
<1>2a. Rising(r)
 <2> SUFFICES ASSUME NEW i \in 1..Len(r), NEW j \in 1..Len(r), i <= j
              PROVE  r[i].ver <= r[j].ver  BY DEF Rising
 <2>1. i + 1 <= j + 1  BY <1>1
 <2> QED BY <1>2, <2>1 DEF Rising
<1>2b. Before(s[1].ver, r)
 <2> SUFFICES ASSUME NEW i \in 1..Len(r) PROVE s[1].ver <= r[i].ver  BY DEF Before
 <2>1. 1 \in 1..Len(s) /\ 1 <= i + 1  BY <1>1
 <2> QED BY <1>2, <2>1 DEF Rising
<1>3. \A n \in Nat : Until(s, n) => s[1].ver <= n /\ Until(r, n)  BY <1>0, <1>1 DEF Until
<1>4. \A n \in Nat : Before(n, s) => n <= s[1].ver /\ Before(n, r)  BY <1>0, <1>1 DEF Before
<1>5. QED BY <1>0, <1>1, <1>2a, <1>2b, <1>3, <1>4 DEF r

\* Versions are numbers wherever a value is.
LEMMA Versions ==
  ASSUME WatchInv
  PROVE  /\ \A v \in W!Value : v.ver \in Nat
         /\ got \in W!Value /\ truth[1] \in W!Value /\ truth[2] \in W!Value
         /\ cache.ver \in Nat
         /\ \A t \in W!Tasks : fetched[t].ver \in Nat
<1>1. /\ \A v \in W!Value : v.ver \in Nat
      /\ W!NoValue.ver \in Nat  BY ClientsAssumption DEF W!Value, W!NoValue
<1>2. QED BY <1>1 DEF WatchInv, WatchShape, W!TypeOK, W!Sources

\* Pull: next() reads what the backend holds.
LEMMA PullSteps ==
  ASSUME WatchInv, W!PullRead \/ W!PullSignal \/ W!EtcdReopen \/ W!ZookeeperForward
  PROVE  WatchInv' /\ W!NeverBackwardsStep
<1> USE DEF W!backend, W!tasks, W!channels, W!merging, W!PullRead, W!PullSignal, W!EtcdReopen, W!ZookeeperForward
<1>1. /\ UNCHANGED <<watching, truth, fetched, known, cache, changed, channel, parked, live, excused, failures>>
      /\ watching \in W!Pull  BY DEF W!Pull
<1>2. got' = got \/ (W!Readable /\ got' = W!Listed)  OBVIOUS
<1>3. got' \in W!Value /\ (got'.ver = got.ver \/ got'.ver = truth[1].ver)  BY <1>2, ListedNow, Versions DEF WatchInv
<1>4. events' \in [W!Sources -> Seq(W!Value)]
 <2>1. truth[1] \in W!Value /\ <<truth[1]>> \in Seq(W!Value)  BY Versions
 <2>2. \A q \in Seq(W!Value) : Append(q, truth[1]) \in Seq(W!Value)  BY <2>1
 <2>3. \A q \in Seq(W!Value) : q # <<>> => Tail(q) \in Seq(W!Value)  OBVIOUS
 <2>4. events \in [W!Sources -> Seq(W!Value)]  BY DEF WatchInv, WatchShape
 <2>5. \/ events' = events
       \/ events' = [events EXCEPT ![1] = Append(@, truth[1])]
       \/ events' = [events EXCEPT ![1] = <<truth[1]>>]
       \/ events' = [events EXCEPT ![1] = Tail(@)] /\ events[1] # <<>>  OBVIOUS
 <2>6. QED BY <2>1, <2>2, <2>3, <2>4, <2>5, ZenonT(60)
<1>5. /\ loop' \in [W!Tasks -> {"arming", "armed", "fired", "resting", "fetched", "dead"}]
      /\ \A t \in W!Tasks : loop'[t] = "fetched" => loop[t] = "fetched"  BY DEF WatchInv, WatchShape, W!TypeOK
<1>6. wire' \in {"open", "down", "none"} /\ pc' \in W!Steps  BY DEF WatchInv, WatchShape, W!TypeOK, W!Steps
<1>7. WatchShape'  BY <1>1, <1>3, <1>4, <1>5, <1>6 DEF WatchInv, WatchShape, W!TypeOK
<1>8. watching \notin Unordered => /\ got.ver <= truth[1].ver
                                   /\ got'.ver <= truth'[1].ver /\ got'.ver >= got.ver
  BY <1>1, <1>3, Versions DEF WatchInv, WatchForward
<1>9. WatchForward' /\ W!NeverBackwardsStep
  BY <1>1, <1>8 DEF WatchForward, CacheForward, ChannelForward, W!NeverBackwardsStep, W!Pull, W!Push, W!Broadcast,
                    Unordered
<1>10. QED BY <1>7, <1>9 DEF WatchInv

\* Broadcast: a task reads and publishes, and next() returns the cache.
LEMMA FetchSteps ==
  ASSUME WatchInv, NEW t \in W!Tasks, W!Fetch(t) \/ W!Publish(t)
  PROVE  WatchInv' /\ W!NeverBackwardsStep
<1> USE DEF W!backend, W!tasks, W!channels, W!merging
<1>1. /\ UNCHANGED <<watching, truth, wire, channel, parked, live, pc, got, excused, failures>>
      /\ watching \in W!Broadcast  BY DEF W!Fetch, W!Publish
<1>2. watching \notin W!Push  BY <1>1 DEF W!Broadcast, W!Push
<1>3. CASE W!Fetch(t)
 <2>1. W!Listed \in W!Value /\ W!Listed.ver = truth[1].ver  BY <1>3, ListedNow DEF W!Fetch, WatchInv
 <2>2. /\ fetched' = [fetched EXCEPT ![t] = W!Listed] /\ loop' = [loop EXCEPT ![t] = "fetched"]
       /\ events' = [events EXCEPT ![1] = <<>>] /\ UNCHANGED <<known, cache, changed>>  BY <1>3 DEF W!Fetch
 <2>3. events' \in [W!Sources -> Seq(W!Value)]  BY <2>2, QueueOfMap DEF WatchInv, WatchShape
 <2>4. WatchShape'  BY <1>1, <2>1, <2>2, <2>3 DEF WatchInv, WatchShape, W!TypeOK
 <2>5. ASSUME watching \notin Unordered PROVE got.ver <= truth[1].ver /\ CacheForward'
  <3>1. t = 1  BY <1>1, <1>3, <2>5 DEF W!Fetch, W!Refreshers, Unordered
  <3>2. got.ver <= cache.ver /\ cache.ver <= truth[1].ver /\ loop[2] # "fetched" /\ got.ver <= truth[1].ver
    BY <1>1, <2>5 DEF WatchInv, WatchForward, CacheForward
  <3>3. fetched'[1].ver = truth[1].ver /\ loop'[2] = loop[2]
    BY <2>1, <2>2, <3>1 DEF WatchInv, WatchShape, W!TypeOK, W!Tasks
  <3>4. truth[1].ver \in Nat  BY Versions
  <3>5. QED BY <1>1, <2>2, <3>2, <3>3, <3>4 DEF CacheForward
 <2>6. QED BY <1>1, <1>2, <2>4, <2>5, Versions DEF WatchInv, WatchForward, ChannelForward, W!NeverBackwardsStep
<1>4. CASE W!Publish(t)
 <2>1. fetched[t] \in W!Value  BY <1>4 DEF W!Publish, WatchInv, WatchShape
 <2>2. /\ loop' = [loop EXCEPT ![t] = IF t = 1 THEN "resting" ELSE "dead"]
       /\ fetched' = [fetched EXCEPT ![t] = W!NoValue] /\ UNCHANGED events
       /\ known' = IF watching = "consul" THEN [ver |-> fetched[t].ver, here |-> TRUE] ELSE known
   BY <1>4 DEF W!Publish
 <2>3. (cache' = fetched[t] /\ changed' = TRUE) \/ UNCHANGED <<cache, changed>>  BY <1>4 DEF W!Publish
 <2>4. known' \in [ver : 0..MaxChanges + 1, here : BOOLEAN]
  <3>1. [ver |-> fetched[t].ver, here |-> TRUE] \in [ver : 0..MaxChanges + 1, here : BOOLEAN]
    BY <2>1, ClientsAssumption DEF W!Value
  <3>2. QED BY <2>2, <3>1 DEF WatchInv, WatchShape, W!TypeOK
 <2>5. /\ cache' \in W!Value \cup {W!NoValue} /\ changed' \in BOOLEAN
       /\ changed' => cache' \in W!Value
  <3>1. CASE cache' = fetched[t] /\ changed' = TRUE  BY <2>1, <3>1
  <3>2. CASE UNCHANGED <<cache, changed>>  BY <3>2 DEF WatchInv, WatchShape, W!TypeOK
  <3>3. QED BY <2>3, <3>1, <3>2
 <2>6. WatchShape'  BY <1>1, <2>2, <2>4, <2>5 DEF WatchInv, WatchShape, W!TypeOK
 <2>7. ASSUME watching \notin Unordered PROVE got.ver <= truth[1].ver /\ CacheForward'
  <3>1. got.ver <= cache.ver /\ cache.ver <= truth[1].ver /\ loop[2] # "fetched" /\ got.ver <= truth[1].ver
    BY <1>1, <2>7 DEF WatchInv, WatchForward, CacheForward
  <3>2. t = 1  BY <1>4, <3>1 DEF W!Publish, W!Tasks
  <3>3. cache.ver <= fetched[1].ver /\ fetched[1].ver <= truth[1].ver
    BY <1>1, <1>4, <2>7, <3>2 DEF W!Publish, WatchInv, WatchForward, CacheForward
  <3>4. loop'[1] = "resting" /\ loop'[2] = loop[2]  BY <2>2, <3>2 DEF WatchInv, WatchShape, W!TypeOK, W!Tasks
  <3>5. got.ver \in Nat /\ cache.ver \in Nat /\ fetched[1].ver \in Nat /\ truth[1].ver \in Nat
    BY Versions DEF W!Tasks
  <3>6. QED BY <1>1, <2>3, <3>1, <3>2, <3>3, <3>4, <3>5 DEF CacheForward
 <2>8. QED BY <1>1, <1>2, <2>6, <2>7, Versions DEF WatchInv, WatchForward, ChannelForward, W!NeverBackwardsStep
<1>5. QED BY <1>3, <1>4

LEMMA CacheSteps ==
  ASSUME WatchInv, W!ConsulWatch \/ W!ConsulFirst \/ W!BroadcastNext
  PROVE  WatchInv' /\ W!NeverBackwardsStep
<1> USE DEF W!backend, W!tasks, W!channels, W!merging
<1>1. /\ UNCHANGED <<watching, truth, events, wire, fetched, channel, parked, live, excused, failures>>
      /\ watching \in W!Broadcast  BY DEF W!ConsulWatch, W!ConsulFirst, W!BroadcastNext, W!Broadcast
<1>2. watching \notin W!Push  BY <1>1 DEF W!Broadcast, W!Push
<1>3. CASE W!ConsulWatch
 <2>1. W!Readable  BY <1>3 DEF W!ConsulWatch, W!Readable, W!Reads, W!ConsulReads
 <2>2. W!Listed \in W!Value /\ W!Listed.ver = truth[1].ver  BY <2>1, ListedNow DEF WatchInv
 <2> DEFINE l == W!Listed
 <2> HIDE DEF l
 <2>3. /\ cache' = l \/ cache' = cache
       /\ known' = [ver |-> l.ver, here |-> TRUE]
       /\ loop' = [loop EXCEPT ![1] = "resting"] /\ pc' = "first"
       /\ UNCHANGED <<changed, got>>  BY <1>3 DEF W!ConsulWatch, l
 <2>4. l \in W!Value /\ l.ver = truth[1].ver  BY <2>2 DEF l
 <2>5. known' \in [ver : 0..MaxChanges + 1, here : BOOLEAN]  BY <2>3, <2>4, ClientsAssumption DEF W!Value
 <2>6. cache' \in W!Value \cup {W!NoValue} /\ (changed => cache' \in W!Value)
   BY <2>3, <2>4 DEF WatchInv, WatchShape, W!TypeOK
 <2>7. WatchShape'  BY <1>1, <2>3, <2>5, <2>6, ZenonT(60) DEF WatchInv, WatchShape, W!TypeOK, W!Steps
 <2>8. ASSUME watching \notin Unordered PROVE got.ver <= truth[1].ver /\ CacheForward'
  <3>1. got.ver <= cache.ver /\ cache.ver <= truth[1].ver /\ loop[2] # "fetched" /\ got.ver <= truth[1].ver
    BY <1>1, <2>8 DEF WatchInv, WatchForward, CacheForward
  <3>2. loop'[1] = "resting" /\ loop'[2] = loop[2]  BY <2>3 DEF WatchInv, WatchShape, W!TypeOK, W!Tasks
  <3>3. truth[1].ver \in Nat  BY Versions
  <3>4. QED BY <1>1, <2>3, <2>4, <3>1, <3>2, <3>3 DEF CacheForward
 <2>9. QED BY <1>1, <1>2, <2>3, <2>7, <2>8, Versions DEF WatchInv, WatchForward, ChannelForward, W!NeverBackwardsStep
<1>4. CASE W!ConsulFirst \/ W!BroadcastNext
 <2>1. /\ changed' = FALSE /\ UNCHANGED <<known, loop, cache>>
       /\ pc' = "waiting"  BY <1>4 DEF W!ConsulFirst, W!BroadcastNext
 <2>2. got' = got \/ (got' = cache /\ cache \in W!Value)
   BY <1>4 DEF W!ConsulFirst, W!BroadcastNext, WatchInv, WatchShape, W!TypeOK
 <2>3. WatchShape'  BY <1>1, <2>1, <2>2, ZenonT(60) DEF WatchInv, WatchShape, W!TypeOK, W!Steps
 <2>4. ASSUME watching \notin Unordered PROVE got'.ver <= truth[1].ver /\ got'.ver >= got.ver /\ CacheForward'
  <3>1. /\ got.ver <= cache.ver /\ cache.ver <= truth[1].ver /\ got.ver <= truth[1].ver
        /\ loop[1] = "fetched" => cache.ver <= fetched[1].ver /\ fetched[1].ver <= truth[1].ver
        /\ loop[2] # "fetched"  BY <1>1, <2>4 DEF WatchInv, WatchForward, CacheForward
  <3>2. got.ver \in Nat /\ cache.ver \in Nat /\ truth[1].ver \in Nat  BY Versions
  <3>3. got'.ver = got.ver \/ got'.ver = cache.ver  BY <2>2
  <3>4. QED BY <1>1, <2>1, <3>1, <3>2, <3>3 DEF CacheForward
 <2>5. QED  BY <1>1, <1>2, <2>3, <2>4 DEF WatchInv, WatchForward, ChannelForward, W!NeverBackwardsStep, Unordered
<1>5. QED BY <1>3, <1>4

\* The world: what is watched changes, and a stream breaks.
LEMMA ChangeSteps ==
  ASSUME WatchInv, NEW s \in W!Sources, W!Change(s)
  PROVE  WatchInv' /\ W!NeverBackwardsStep
<1> USE DEF W!backend, W!tasks, W!channels, W!merging
<1>1. UNCHANGED <<watching, wire, fetched, known, cache, changed, channel, parked, live, pc, got, excused, failures>>
  BY DEF W!Change
<1>2. PICK v : /\ truth' = [truth EXCEPT ![s] = v] /\ v \in W!Value /\ v.ver = truth[s].ver + 1
 <2>1. PICK here \in BOOLEAN, mark \in W!Marks :
         truth' = [truth EXCEPT ![s] = [src |-> s, ver |-> @.ver + 1, here |-> here, mark |-> mark]]
   BY DEF W!Change
 <2>2. truth[s] \in W!Value  BY DEF WatchInv, WatchShape, W!TypeOK
 <2>3. truth[s].ver + 1 \in 0..MaxChanges  BY <2>2, ClientsAssumption DEF W!Change, W!Value
 <2>4. [src |-> s, ver |-> truth[s].ver + 1, here |-> here, mark |-> mark] \in W!Value  BY <2>3 DEF W!Value
 <2> DEFINE w == [src |-> s, ver |-> truth[s].ver + 1, here |-> here, mark |-> mark]
 <2>5. truth' = [truth EXCEPT ![s] = w] /\ w.ver = truth[s].ver + 1 /\ w \in W!Value  BY <2>1, <2>4
 <2>6. QED BY <2>5
<1>3. truth' \in [W!Sources -> W!Value] /\ truth'[s] = v  BY <1>2 DEF WatchInv, WatchShape, W!TypeOK
<1>4. events' = events \/ events' = [events EXCEPT ![s] = Append(@, v)]  BY <1>3 DEF W!Change
<1>5. events' \in [W!Sources -> Seq(W!Value)]
 <2>1. events \in [W!Sources -> Seq(W!Value)]  BY DEF WatchInv, WatchShape
 <2>2. [events EXCEPT ![s] = Append(@, v)] \in [W!Sources -> Seq(W!Value)]  BY <1>2, <2>1, QueueOfMap
 <2>3. QED BY <1>4, <2>1, <2>2
<1>6. /\ loop' \in [W!Tasks -> {"arming", "armed", "fired", "resting", "fetched", "dead"}]
      /\ \A t \in W!Tasks : loop'[t] = "fetched" <=> loop[t] = "fetched"
  BY DEF W!Change, WatchInv, WatchShape, W!TypeOK
<1>7. WatchShape'  BY <1>1, <1>3, <1>5, <1>6 DEF WatchInv, WatchShape, W!TypeOK
<1>8. ASSUME watching \notin Unordered PROVE got.ver <= truth'[1].ver /\ CacheForward' /\ ChannelForward'
 <2>1. s = 1  BY <1>8 DEF W!Change, W!Merge, Unordered
 <2>2. truth'[1].ver = truth[1].ver + 1 /\ truth[1].ver \in Nat /\ got.ver \in Nat /\ cache.ver \in Nat
   BY <1>2, <1>3, <2>1, Versions
 <2>3. got.ver <= truth[1].ver  BY <1>8 DEF WatchInv, WatchForward
 <2>4. CacheForward'
  <3>1. fetched[1].ver \in Nat  BY Versions DEF W!Tasks
  <3>2. QED BY <1>1, <1>6, <1>8, <2>2, <3>1 DEF WatchInv, WatchForward, CacheForward, W!Tasks
 <2>5. ASSUME watching \in W!Push PROVE Until(channel, truth[1].ver + 1)
  <3>1. Until(channel, truth[1].ver) /\ channel \in Seq(W!Value)
    BY <1>8, <2>5 DEF WatchInv, WatchForward, ChannelForward, WatchShape
  <3>2. \A i \in 1..Len(channel) : channel[i].ver \in Nat  BY <3>1, Versions
  <3>3. QED BY <2>2, <3>1, <3>2 DEF Until
 <2>6. ASSUME watching = "cfg_etcd"
       PROVE  /\ Rising(events'[1]) /\ Before(got.ver, events'[1]) /\ Until(events'[1], truth[1].ver + 1)
              /\ \A i \in 1..Len(channel) : Before(channel[i].ver, events'[1])
  <3>1. /\ Rising(events[1]) /\ Before(got.ver, events[1]) /\ Until(events[1], truth[1].ver)
        /\ \A i \in 1..Len(channel) : Before(channel[i].ver, events[1])
        /\ Until(channel, truth[1].ver) /\ channel \in Seq(W!Value) /\ events[1] \in Seq(W!Value)
    BY <1>8, <2>6 DEF WatchInv, WatchForward, ChannelForward, WatchShape, W!Push, W!Sources
  <3>2. /\ \A i \in 1..Len(channel) : channel[i].ver \in Nat /\ channel[i].ver <= truth[1].ver
        /\ \A i \in 1..Len(events[1]) : events[1][i].ver \in Nat  BY <3>1, Versions, SMTT(60) DEF Until
  <3>3. Until(events[1], truth[1].ver + 1)  BY <2>2, <3>1, <3>2, SMTT(60) DEF Until
  <3>4. CASE events' = events  BY <3>1, <3>3, <3>4
  <3>5. CASE events' = [events EXCEPT ![1] = Append(@, v)]
   <4>1. events'[1] = Append(events[1], v)  BY <3>5 DEF WatchInv, WatchShape, W!Sources
   <4>2. v \in W!Value /\ v.ver = truth[1].ver + 1  BY <1>2, <2>1
   <4>3. /\ Rising(Append(events[1], v))
         /\ \A n \in Nat : Before(n, events[1]) /\ n <= v.ver => Before(n, Append(events[1], v))
         /\ \A n \in Nat : v.ver <= n => Until(Append(events[1], v), n)  BY <3>1, <3>3, <4>2, JoinsTheLine
   <4>4. QED BY <2>2, <2>3, <3>1, <3>2, <4>1, <4>2, <4>3, SMTT(60)
  <3>6. QED BY <1>4, <2>1, <3>4, <3>5
 <2>7. ChannelForward'  BY <1>1, <1>8, <2>2, <2>5, <2>6 DEF WatchInv, WatchForward, ChannelForward, W!Push
 <2>8. QED BY <2>2, <2>3, <2>4, <2>7
<1>9. QED BY <1>1, <1>7, <1>8, Versions DEF WatchInv, WatchForward, W!NeverBackwardsStep

LEMMA StreamDownStep == ASSUME WatchInv, W!StreamDown PROVE WatchInv' /\ W!NeverBackwardsStep
<1> USE DEF W!backend, W!tasks, W!channels, W!merging
<1>1. UNCHANGED <<watching, truth, loop, fetched, known, cache, changed, channel, parked, live, pc, got, excused>>
  BY DEF W!StreamDown
<1>2. wire' = "down" /\ failures' \in 0..MaxFaults
  BY ClientsAssumption DEF W!StreamDown, W!Fault, WatchInv, WatchShape, W!TypeOK
<1>3. events' = events \/ events' = [events EXCEPT ![1] = <<>>]  BY DEF W!StreamDown
<1>4. events' \in [W!Sources -> Seq(W!Value)]
 <2>1. events \in [W!Sources -> Seq(W!Value)]  BY DEF WatchInv, WatchShape
 <2>2. [events EXCEPT ![1] = <<>>] \in [W!Sources -> Seq(W!Value)]  BY <2>1, QueueOfMap
 <2>3. QED BY <1>3, <2>1, <2>2
<1>5. WatchShape'  BY <1>1, <1>2, <1>4 DEF WatchInv, WatchShape, W!TypeOK
<1>6. events'[1] = events[1] \/ events'[1] = <<>>  BY <1>3 DEF WatchInv, WatchShape, W!Sources
<1>7. \A n : Rising(<<>>) /\ Before(n, <<>>) /\ Until(<<>>, n)  BY DEF Rising, Before, Until
<1>8. WatchForward'  BY <1>1, <1>6, <1>7 DEF WatchInv, WatchForward, CacheForward, ChannelForward
<1>9. QED BY <1>1, <1>5, <1>8, Versions DEF WatchInv, W!NeverBackwardsStep

\* Push: a task sends what it saw through a channel.
LEMMA SendSteps ==
  ASSUME WatchInv,
         \/ W!EtcdForward \/ W!ConsulPoll \/ W!ConsulResend \/ W!HttpPoll \/ W!FilePump
         \/ W!ServicecombEvent \/ W!ServicecombReconcile
  PROVE  WatchInv' /\ W!NeverBackwardsStep
<1> USE DEF W!backend, W!tasks, W!channels, W!merging
<1>1. /\ UNCHANGED <<watching, truth, wire, loop, fetched, cache, changed, parked, live, pc, got, excused>>
      /\ watching \in W!Push
  BY DEF W!EtcdForward, W!ConsulPoll, W!ConsulResend, W!HttpPoll, W!FilePump, W!ServicecombEvent,
         W!ServicecombReconcile, W!Push
<1>2. failures' \in 0..MaxFaults
 <2>1. failures' = failures \/ W!Fault
   BY DEF W!EtcdForward, W!ConsulPoll, W!ConsulResend, W!HttpPoll, W!FilePump, W!ServicecombEvent,
          W!ServicecombReconcile
 <2>2. QED BY <2>1, ClientsAssumption DEF W!Fault, WatchInv, WatchShape, W!TypeOK
<1>3. known' \in [ver : 0..MaxChanges + 1, here : BOOLEAN]
 <2>1. known \in [ver : 0..MaxChanges + 1, here : BOOLEAN]  BY DEF WatchInv, WatchShape, W!TypeOK
 <2>2. truth[1].ver \in 0..MaxChanges + 1 /\ truth[1].here \in BOOLEAN  BY Versions, ClientsAssumption DEF W!Value
 <2>3. \A n \in 0..MaxChanges + 1 : [known EXCEPT !.ver = n] \in [ver : 0..MaxChanges + 1, here : BOOLEAN]  BY <2>1
 <2>4. \A b \in BOOLEAN : [known EXCEPT !.here = b] \in [ver : 0..MaxChanges + 1, here : BOOLEAN]  BY <2>1
 <2>5. \/ known' = known \/ known' = [known EXCEPT !.ver = truth[1].ver]
       \/ known' = [known EXCEPT !.here = TRUE] \/ known' = [known EXCEPT !.here = truth[1].here]
   BY DEF W!EtcdForward, W!ConsulPoll, W!ConsulResend, W!HttpPoll, W!FilePump, W!ServicecombEvent,
          W!ServicecombReconcile
 <2>6. QED BY <2>1, <2>2, <2>3, <2>4, <2>5
<1>4. \/ channel' = channel
      \/ channel' = Append(channel, truth[1])
      \/ channel' = Append(channel, Head(events[1])) /\ events[1] # <<>> /\ watching \in {"cfg_etcd", "servicecomb"}
  BY DEF W!Send, W!EtcdForward, W!ConsulPoll, W!ConsulResend, W!HttpPoll, W!FilePump, W!ServicecombEvent,
         W!ServicecombReconcile
<1>5. \/ events' = events
      \/ events' = [events EXCEPT ![1] = Tail(@)] /\ events[1] # <<>>
      \/ events' = [events EXCEPT ![1] = <<>>]
  BY DEF W!EtcdForward, W!ConsulPoll, W!ConsulResend, W!HttpPoll, W!FilePump, W!ServicecombEvent,
         W!ServicecombReconcile
<1>6. /\ events \in [W!Sources -> Seq(W!Value)] /\ events[1] \in Seq(W!Value)
      /\ channel \in Seq(W!Value) /\ truth[1] \in W!Value  BY Versions DEF WatchInv, WatchShape, W!Sources
<1>7. events' \in [W!Sources -> Seq(W!Value)]
 <2>1. [events EXCEPT ![1] = <<>>] \in [W!Sources -> Seq(W!Value)]  BY <1>6, QueueOfMap
 <2>2. events[1] # <<>> => [events EXCEPT ![1] = Tail(@)] \in [W!Sources -> Seq(W!Value)]  BY <1>6, QueueOfMap
 <2>3. QED BY <1>5, <1>6, <2>1, <2>2
<1>8. channel' \in Seq(W!Value)
 <2>1. \A v \in W!Value : Append(channel, v) \in Seq(W!Value)  BY <1>6
 <2>2. events[1] # <<>> => Head(events[1]) \in W!Value  BY <1>6
 <2>3. QED BY <1>4, <1>6, <2>1, <2>2
<1>9. WatchShape'  BY <1>1, <1>2, <1>3, <1>7, <1>8 DEF WatchInv, WatchShape, W!TypeOK
<1>10. ASSUME watching \notin Unordered, watching # "cfg_etcd" PROVE ChannelForward'
 <2>1. Rising(channel) /\ Before(got.ver, channel) /\ Until(channel, truth[1].ver) /\ got.ver <= truth[1].ver
   BY <1>1, <1>10 DEF WatchInv, WatchForward, ChannelForward
 <2>2. got.ver \in Nat /\ truth[1].ver \in Nat  BY Versions
 <2>3. CASE channel' = channel  BY <1>1, <1>10, <2>1, <2>3 DEF ChannelForward
 <2>4. CASE channel' = Append(channel, truth[1])
  <3>1. /\ Rising(Append(channel, truth[1])) /\ Before(got.ver, Append(channel, truth[1]))
        /\ Until(Append(channel, truth[1]), truth[1].ver)  BY <1>6, <2>1, <2>2, JoinsTheLine
  <3>2. QED BY <1>1, <1>10, <2>4, <3>1 DEF ChannelForward
 <2>5. QED BY <1>4, <1>10, <2>3, <2>4 DEF Unordered
<1>11. ASSUME watching = "cfg_etcd" PROVE ChannelForward'
 <2>1. /\ channel' = Append(channel, Head(events[1])) /\ events[1] # <<>>
       /\ events' = [events EXCEPT ![1] = Tail(@)]
   BY <1>11 DEF W!Send, W!EtcdForward, W!ConsulPoll, W!ConsulResend, W!HttpPoll, W!FilePump, W!ServicecombEvent,
                W!ServicecombReconcile
 <2>2. events'[1] = Tail(events[1])  BY <1>6, <2>1 DEF W!Sources
 <2>3. /\ Rising(channel) /\ Before(got.ver, channel) /\ Until(channel, truth[1].ver)
       /\ Rising(events[1]) /\ Before(got.ver, events[1]) /\ Until(events[1], truth[1].ver)
       /\ \A i \in 1..Len(channel) : Before(channel[i].ver, events[1])
   BY <1>11 DEF WatchInv, WatchForward, ChannelForward, W!Push, Unordered
 <2>4. got.ver \in Nat /\ truth[1].ver \in Nat /\ \A v \in W!Value : v.ver \in Nat  BY Versions
 <2>5. \A i \in 1..Len(channel) : channel[i] \in W!Value  BY <1>6
 <2> DEFINE v == Head(events[1])  rest == Tail(events[1])
 <2>6. /\ v \in W!Value /\ Rising(rest) /\ Before(v.ver, rest)
       /\ v.ver <= truth[1].ver /\ Until(rest, truth[1].ver)
       /\ \A n \in Nat : Before(n, events[1]) => n <= v.ver /\ Before(n, rest)
   BY <1>6, <2>1, <2>3, <2>4, LeavesTheLine
 <2> HIDE DEF v, rest
 <2>7. Until(channel, v.ver)  BY <2>3, <2>4, <2>5, <2>6 DEF Until
 <2>8. /\ Rising(Append(channel, v)) /\ Before(got.ver, Append(channel, v))
       /\ Until(Append(channel, v), truth[1].ver)  BY <1>6, <2>3, <2>4, <2>6, <2>7, JoinsTheLine
 <2>9. \A i \in 1..Len(Append(channel, v)) : Before(Append(channel, v)[i].ver, rest)
  <3>1. \A i \in 1..Len(channel) : Before(channel[i].ver, rest)  BY <2>3, <2>4, <2>5, <2>6
  <3>2. \A i \in 1..Len(Append(channel, v)) :
           \/ i \in 1..Len(channel) /\ Append(channel, v)[i] = channel[i]
           \/ Append(channel, v)[i] = v  BY <1>6, <2>6
  <3>3. QED BY <2>6, <3>1, <3>2
 <2>10. Before(got.ver, rest)  BY <2>3, <2>4, <2>6
 <2>11. channel' = Append(channel, v) /\ events'[1] = rest  BY <2>1, <2>2 DEF v, rest
 <2>12. QED BY <1>1, <2>6, <2>8, <2>9, <2>10, <2>11 DEF ChannelForward
<1>12. WatchForward'  BY <1>1, <1>10, <1>11 DEF WatchInv, WatchForward, CacheForward, W!Broadcast, W!Push
<1>13. QED BY <1>1, <1>9, <1>12, Versions DEF WatchInv, W!NeverBackwardsStep

LEMMA PushNextStep == ASSUME WatchInv, W!PushNext PROVE WatchInv' /\ W!NeverBackwardsStep
<1> USE DEF W!backend, W!tasks, W!channels, W!merging
<1>1. /\ UNCHANGED <<watching, truth, events, wire, loop, fetched, known, cache, changed, parked, live, pc, excused,
                     failures>>
      /\ watching \in W!Push /\ channel # <<>> /\ got' = Head(channel) /\ channel' = Tail(channel)
  BY DEF W!PushNext
<1>2. channel \in Seq(W!Value) /\ got.ver \in Nat /\ truth[1].ver \in Nat /\ \A v \in W!Value : v.ver \in Nat
  BY Versions DEF WatchInv, WatchShape
<1>3. channel' \in Seq(W!Value) /\ got' \in W!Value  BY <1>1, <1>2
<1>4. WatchShape'  BY <1>1, <1>3 DEF WatchInv, WatchShape, W!TypeOK
<1>5. ASSUME watching \notin Unordered PROVE got.ver <= got'.ver /\ got'.ver <= truth[1].ver /\ ChannelForward'
 <2>1. /\ Rising(channel) /\ Before(got.ver, channel) /\ Until(channel, truth[1].ver)
       /\ watching = "cfg_etcd" =>
            /\ Rising(events[1]) /\ Before(got.ver, events[1]) /\ Until(events[1], truth[1].ver)
            /\ \A i \in 1..Len(channel) : Before(channel[i].ver, events[1])
   BY <1>1, <1>5 DEF WatchInv, WatchForward, ChannelForward
 <2>2. /\ Rising(Tail(channel)) /\ Before(Head(channel).ver, Tail(channel))
       /\ got.ver <= Head(channel).ver
       /\ Head(channel).ver <= truth[1].ver /\ Until(Tail(channel), truth[1].ver)
       /\ \A i \in 1..Len(Tail(channel)) : Tail(channel)[i] = channel[i + 1] /\ i + 1 \in 1..Len(channel)
   BY <1>1, <1>2, <2>1, LeavesTheLine
 <2>3. Head(channel) = channel[1] /\ 1 \in 1..Len(channel)  BY <1>1, <1>2
 <2>4. watching = "cfg_etcd" =>
         /\ Before(Head(channel).ver, events[1])
         /\ \A i \in 1..Len(Tail(channel)) : Before(Tail(channel)[i].ver, events[1])  BY <2>1, <2>2, <2>3
 <2>5. QED BY <1>1, <2>1, <2>2, <2>4 DEF ChannelForward
<1>6. WatchForward' /\ W!NeverBackwardsStep
  BY <1>1, <1>2, <1>3, <1>5 DEF WatchForward, CacheForward, W!Broadcast, W!Push, W!NeverBackwardsStep, Unordered
<1>7. QED BY <1>4, <1>6 DEF WatchInv

\* FallbackSource: deliveries are parked, then the effective value is read.
LEMMA MergeSteps ==
  ASSUME WatchInv, W!FallbackRace \/ W!FallbackLoad
  PROVE  WatchInv' /\ W!NeverBackwardsStep
<1> USE DEF W!backend, W!tasks, W!channels, W!merging
<1>1. /\ UNCHANGED <<watching, truth, wire, loop, fetched, known, cache, changed, channel, live, excused, failures>>
      /\ watching = "fallback"  BY DEF W!FallbackRace, W!FallbackLoad
<1>2. got' \in W!Value /\ pc' \in W!Steps
  BY Versions DEF W!FallbackRace, W!FallbackLoad, W!Steps, WatchInv, WatchShape, W!TypeOK
<1>3. events' \in [W!Sources -> Seq(W!Value)] /\ parked' \subseteq W!Sources
 <2>1. events \in [W!Sources -> Seq(W!Value)] /\ parked \subseteq W!Sources  BY DEF WatchInv, WatchShape, W!TypeOK
 <2>2. CASE W!FallbackRace
  <3>1. PICK wave \in SUBSET {s \in W!Sources : events[s] # <<>>} :
          /\ parked' = wave
          /\ events' = [s \in W!Sources |-> IF s \in wave THEN Tail(events[s]) ELSE events[s]]
    BY <2>2 DEF W!FallbackRace
  <3>2. \A q \in Seq(W!Value) : q # <<>> => Tail(q) \in Seq(W!Value)  OBVIOUS
  <3>3. QED BY <2>1, <3>1, <3>2
 <2>3. CASE W!FallbackLoad  BY <2>1, <2>3 DEF W!FallbackLoad
 <2>4. QED BY <2>2, <2>3
<1>4. WatchShape'  BY <1>1, <1>2, <1>3 DEF WatchInv, WatchShape, W!TypeOK
<1>5. WatchForward' /\ W!NeverBackwardsStep  BY <1>1 DEF WatchForward, W!NeverBackwardsStep, Unordered
<1>6. QED BY <1>4, <1>5 DEF WatchInv

LEMMA WatchStep == ASSUME WatchInv, W!Next PROVE WatchInv' /\ W!NeverBackwardsStep
BY QuietSteps, PullSteps, FetchSteps, CacheSteps, ChangeSteps, StreamDownStep, SendSteps, PushNextStep, MergeSteps
   DEF W!Next, W!PullStep, W!BroadcastStep, W!PushStep, W!MergeStep

(* The chat client (rushwind-ai-openai): first what the numbers and the    *)
(* recursive functions of the model need.                                  *)

\* A set of numbers that has an element has a least one.
LEMMA LeastElement ==
  ASSUME NEW T, T \subseteq Nat, T # {}
  PROVE  \E x \in T : \A y \in T : x <= y
<1> DEFINE Less == {ss \in Nat \X Nat : ss[1] < ss[2]}
<1>1. IsWellFoundedOn(Less, Nat)  BY NatLessThanWellFounded DEF OpToRel
<1>2. PICK x \in T : \A y \in T : ~ (<<y, x>> \in Less)
 <2> HIDE DEF Less
 <2> QED  BY <1>1, WFMin
<1>3. ASSUME NEW y \in T PROVE x <= y
 <2>1. ~(y < x)  BY <1>2
 <2> QED  BY <2>1
<1> QED  BY <1>3

\* A set that holds 0 and, with a number, the next holds every number.
LEMMA Induct ==
  ASSUME NEW T, 0 \in T, \A n \in Nat : n \in T => n + 1 \in T
  PROVE  Nat \subseteq T
<1> SUFFICES ASSUME NEW m \in Nat, m \notin T PROVE FALSE  OBVIOUS
<1>1. PICK x \in Nat \ T : \A y \in Nat \ T : x <= y  BY LeastElement
<1>2. x - 1 \in Nat /\ x - 1 \in T  BY <1>1
<1> QED  BY <1>1, <1>2

Chained(g, n, first, next) == g[0] = first /\ \A i \in 1 .. n : g[i] = next[i][g[i - 1]]

\* A function given by its first value and by each from the one before it.
LEMMA Recursion ==
  ASSUME NEW n \in Nat, NEW V, NEW first \in V, NEW next, \A i \in 1 .. n : \A v \in V : next[i][v] \in V
  PROVE  \E g \in [0 .. n -> V] : Chained(g, n, first, next)
<1> DEFINE Upto(g, k) == g[0] = first /\ \A i \in 1 .. k : g[i] = next[i][g[i - 1]]
           T == {k \in Nat : k <= n => \E g \in [0 .. k -> V] : Upto(g, k)}
<1>1. 0 \in T
 <2> DEFINE g == [i \in 0 .. 0 |-> first]
 <2>1. g \in [0 .. 0 -> V] /\ Upto(g, 0)  OBVIOUS
 <2> HIDE DEF g, Upto
 <2> QED  BY <2>1
<1>2. ASSUME NEW k \in Nat, k \in T PROVE k + 1 \in T
 <2> SUFFICES ASSUME k + 1 <= n PROVE \E g \in [0 .. k + 1 -> V] : Upto(g, k + 1)  OBVIOUS
 <2>1. PICK g \in [0 .. k -> V] : Upto(g, k)  BY <1>2
 <2>2. g[k] \in V /\ k + 1 \in 1 .. n  BY <2>1
 <2>3. next[k + 1][g[k]] \in V  BY <2>2
 <2> DEFINE h == [i \in 0 .. k + 1 |-> IF i <= k THEN g[i] ELSE next[k + 1][g[k]]]
 <2>4. h \in [0 .. k + 1 -> V]  BY <2>3
 <2>5. h[0] = first  BY <2>1
 <2>6. ASSUME NEW i \in 1 .. k + 1 PROVE h[i] = next[i][h[i - 1]]
  <3>1. CASE i <= k
   <4>1. i \in 1 .. k /\ i - 1 \in 0 .. k /\ h[i - 1] = g[i - 1] /\ h[i] = g[i]  BY <3>1
   <4> QED  BY <2>1, <4>1
  <3>2. CASE i = k + 1
   <4>1. i - 1 = k /\ h[k] = g[k] /\ h[k + 1] = next[k + 1][g[k]]  BY <3>2
   <4> HIDE DEF h
   <4> QED  BY <3>2, <4>1
  <3> QED  BY <3>1, <3>2
 <2> HIDE DEF h
 <2>7. Upto(h, k + 1)  BY <2>5, <2>6
 <2> HIDE DEF Upto
 <2> QED  BY <2>4, <2>7
<1>3. n \in T
 <2> HIDE DEF T
 <2> QED  BY <1>1, <1>2, Induct
<1> QED  BY <1>3 DEF Chained

\* The lists flattened one after the other.
LEMMA FlatIs ==
  ASSUME NEW V, NEW ss \in Seq(Seq(V)), NEW g \in [0 .. Len(ss) -> Seq(V)],
         g[0] = <<>>, \A i \in 1 .. Len(ss) : g[i] = g[i - 1] \o ss[i]
  PROVE  C!FlattenSeq(ss) = g[Len(ss)]
<1> DEFINE n == Len(ss)
           Lists == Seq(V)
<1>1. n \in Nat /\ ss \in Seq(Lists)  OBVIOUS
<1>2. \A i \in 1 .. n : ss[i] \in Lists
 <2> HIDE DEF Lists
 <2> QED  BY <1>1
<1>3. g \in [0 .. n -> Lists] /\ g[0] = <<>> /\ \A i \in 1 .. n : g[i] = g[i - 1] \o ss[i]  OBVIOUS
<1>4. \A x \in Seq(V) : <<>> \o x = x  OBVIOUS
<1>5. CASE n = 0
 <2>1. ss = <<>>  BY <1>5
 <2>2. C!FlattenSeq(ss) = ss  BY <1>5 DEF C!FlattenSeq
 <2> QED  BY <1>3, <1>5, <2>1, <2>2
<1>6. CASE n # 0
 <2> DEFINE flatten[i \in 1 .. Len(ss)] == IF i = 1 THEN ss[i] ELSE flatten[i - 1] \o ss[i]
            f == [i \in 1 .. n |-> g[i]]
 <2>0. C!FlattenSeq(ss) = flatten[n]  BY <1>6 DEF C!FlattenSeq
 <2>1. ASSUME NEW i \in 1 .. n PROVE f[i] = IF i = 1 THEN ss[i] ELSE f[i - 1] \o ss[i]
  <3> HIDE DEF n, Lists
  <3>1. CASE i = 1
   <4>1. i - 1 = 0 /\ ss[i] \in Lists  BY <1>1, <1>2, <3>1
   <4>2. g[i] = g[i - 1] \o ss[i]  BY <1>3
   <4>3. g[i - 1] = <<>> /\ <<>> \o ss[i] = ss[i]  BY <1>3, <1>4, <4>1 DEF Lists
   <4>4. f[i] = g[i]  OBVIOUS
   <4> HIDE DEF f
   <4> QED  BY <3>1, <4>2, <4>3, <4>4
  <3>2. CASE i # 1
   <4>1. i - 1 \in 1 .. n  BY <1>1, <3>2
   <4> QED  BY <1>3, <3>2, <4>1
  <3> QED  BY <3>1, <3>2
 <2>2. f = [i \in 1 .. n |-> f[i]]  OBVIOUS
 <2> HIDE DEF f
 <2>3. f = [i \in 1 .. n |-> IF i = 1 THEN ss[i] ELSE f[i - 1] \o ss[i]]  BY <2>1, <2>2
 <2>4. \E h : h = [i \in 1 .. n |-> IF i = 1 THEN ss[i] ELSE h[i - 1] \o ss[i]]  BY <2>3
 <2>5. flatten = [i \in 1 .. n |-> IF i = 1 THEN ss[i] ELSE flatten[i - 1] \o ss[i]]  BY <2>4, ZenonT(60)
 <2> HIDE DEF flatten
 <2> DEFINE T == {i \in Nat : i >= 1 /\ i <= n => flatten[i] = g[i]}
 <2>7. 0 \in T  OBVIOUS
 <2>8. ASSUME NEW i \in Nat, i \in T PROVE i + 1 \in T
  <3> DEFINE a == i + 1
  <3> SUFFICES ASSUME a <= n PROVE flatten[a] = g[a]  OBVIOUS
  <3>0. i >= 1 => flatten[i] = g[i]  BY <2>8
  <3> HIDE DEF n, Lists
  <3>1. a \in 1 .. n /\ a - 1 = i  BY <1>1
  <3>2. CASE i = 0
   <4>1. a = 1 /\ a - 1 = 0  BY <3>2
   <4> HIDE DEF a
   <4>2. ss[a] \in Lists /\ g[a] = g[a - 1] \o ss[a]  BY <1>2, <1>3, <3>1
   <4>3. flatten[a] = ss[a]  BY <2>5, <3>1, <4>1
   <4>4. g[a - 1] = <<>> /\ <<>> \o ss[a] = ss[a]  BY <1>3, <4>1, <4>2, <1>4 DEF Lists
   <4> QED  BY <4>2, <4>3, <4>4
  <3>3. CASE i # 0
   <4>1. flatten[i] = g[i] /\ a # 1  BY <3>0, <3>3
   <4> HIDE DEF a
   <4>2. flatten[a] = flatten[a - 1] \o ss[a] /\ g[a] = g[a - 1] \o ss[a]  BY <1>3, <2>5, <3>1, <4>1
   <4> QED  BY <3>1, <4>1, <4>2
  <3> QED  BY <3>2, <3>3
 <2>9. n \in T
  <3> HIDE DEF T
  <3> QED  BY <1>1, <2>7, <2>8, Induct
 <2> QED  BY <1>1, <1>6, <2>0, <2>9
<1> QED  BY <1>1, <1>5, <1>6

(* What a script says.                                                     *)

\* The events the lines of a script can make.
Events ==
  {<<"delta", d>> : d \in UNION {{script[i].deltas[k] : k \in DOMAIN script[i].deltas} : i \in DOMAIN script}}
  \cup {<<"finish", script[i].finish>> : i \in DOMAIN script} \cup {<<"decode_error">>}

IsScript ==
  /\ IsList(script) /\ \A i \in DOMAIN script : IsList(script[i].deltas)
  /\ \A i, j \in DOMAIN script : i < j /\ script[i].kind = "done" => script[j].kind \notin {"data", "broken"}

\* What the first n lines say.
Upto(n) == C!FlattenSeq([i \in 1 .. n |-> C!EventsOf(script[i])])
\* One of them closes the stream.
Shut(n) == \E i \in 1 .. n : script[i].kind = "done"

LEMMA ScriptLength == ASSUME IsScript PROVE Len(script) \in Nat /\ DOMAIN script = 1 .. Len(script)
BY DEF IsScript, IsList

LEMMA EventsAre ==
  ASSUME IsScript, NEW i \in 1 .. Len(script)
  PROVE  C!EventsOf(script[i]) \in Seq(Events)
<1> DEFINE d == script[i].deltas
           m == Len(d)
<1>1. d \in Seq({d[k] : k \in DOMAIN d}) /\ i \in DOMAIN script  BY ScriptLength DEF IsScript, IsList
<1>2. m \in Nat /\ DOMAIN d = 1 .. m  BY <1>1
<1>3. \A k \in DOMAIN d : <<"delta", d[k]>> \in Events  BY <1>1 DEF Events
<1>4. <<"finish", script[i].finish>> \in Events /\ <<"decode_error">> \in Events  BY <1>1 DEF Events
<1> HIDE DEF d
<1> DEFINE said == [k \in DOMAIN d |-> <<"delta", d[k]>>]
<1>5. said \in Seq(Events)
 <2> HIDE DEF m
 <2>1. said \in [1 .. m -> Events]  BY <1>2, <1>3
 <2> QED  BY <1>2, <2>1
<1> HIDE DEF said
<1>6. <<<<"finish", script[i].finish>>>> \in Seq(Events) /\ <<<<"decode_error">>>> \in Seq(Events)
      /\ <<>> \in Seq(Events)  BY <1>4
<1>7. said \o <<<<"finish", script[i].finish>>>> \in Seq(Events) /\ said \o <<>> \in Seq(Events)  BY <1>5, <1>6
<1> HIDE DEF m
<1> QED  BY <1>6, <1>7 DEF C!EventsOf, said, d

LEMMA UptoChain ==
  ASSUME IsScript
  PROVE  \E g \in [0 .. Len(script) -> Seq(Events)] :
           /\ g[0] = <<>> /\ \A i \in 1 .. Len(script) : g[i] = g[i - 1] \o C!EventsOf(script[i])
           /\ \A n \in 0 .. Len(script) : Upto(n) = g[n]
<1> DEFINE n == Len(script)
           V == Seq(Events)
           empty == <<>>
           e == [i \in 1 .. n |-> C!EventsOf(script[i])]
           next == [i \in 1 .. n |-> [v \in V |-> v \o e[i]]]
<1>1. n \in Nat /\ empty \in V  BY ScriptLength
<1>2. \A i \in 1 .. n : e[i] \in Seq(Events) /\ e[i] = C!EventsOf(script[i])  BY EventsAre
<1>3. \A i \in 1 .. n : \A v \in V : next[i][v] = v \o e[i] /\ next[i][v] \in V
 <2> HIDE DEF e, n
 <2>1. \A i \in 1 .. n : \A v \in V : v \o e[i] \in V  BY <1>2
 <2> QED  BY <2>1
<1> HIDE DEF next, V, empty, n, e
<1>4. PICK g \in [0 .. n -> V] : Chained(g, n, empty, next)  BY <1>1, <1>3, Recursion
<1>5. g[0] = <<>>  BY <1>4 DEF Chained, empty
<1>6. ASSUME NEW i \in 1 .. n PROVE g[i] = g[i - 1] \o e[i]
 <2>1. i - 1 \in 0 .. n  BY <1>1
 <2>2. g[i - 1] \in V /\ g[i] = next[i][g[i - 1]]  BY <1>4, <2>1 DEF Chained
 <2> QED  BY <1>3, <2>2
<1>7. ASSUME NEW k \in 0 .. n PROVE Upto(k) = g[k]
 <2> DEFINE ss == [i \in 1 .. k |-> C!EventsOf(script[i])]
            h == [i \in 0 .. k |-> g[i]]
 <2>1. k \in Nat /\ 1 .. k \subseteq 1 .. n /\ 0 .. k \subseteq 0 .. n  BY <1>1
 <2>2. \A i \in 1 .. k : ss[i] = e[i] /\ ss[i] \in Seq(Events)  BY <1>2, <2>1
 <2>3. ss \in [1 .. k -> Seq(Events)]  BY <2>2
 <2> HIDE DEF ss
 <2>4. ss \in Seq(Seq(Events)) /\ Len(ss) = k  BY <2>1, <2>3
 <2>5. h \in [0 .. k -> Seq(Events)] /\ \A i \in 0 .. k : h[i] = g[i]  BY <1>4, <2>1 DEF V
 <2> HIDE DEF h
 <2>6. h[0] = <<>>  BY <1>5, <2>1, <2>5
 <2>7. ASSUME NEW i \in 1 .. k PROVE h[i] = h[i - 1] \o ss[i]
  <3>1. i \in 1 .. n /\ i \in 0 .. k /\ i - 1 \in 0 .. k  BY <2>1
  <3> QED  BY <1>6, <2>2, <2>5, <3>1
 <2>8. C!FlattenSeq(ss) = h[Len(ss)]  BY <2>4, <2>5, <2>6, <2>7, FlatIs
 <2> QED  BY <2>1, <2>4, <2>5, <2>8 DEF Upto, ss
<1> QED  BY <1>2, <1>4, <1>5, <1>6, <1>7 DEF n, V

\* One more line.
LEMMA UptoNext ==
  ASSUME IsScript
  PROVE  /\ Upto(0) = <<>>
         /\ \A n \in 0 .. Len(script) : Upto(n) \in Seq(Events)
         /\ \A n \in 0 .. Len(script) - 1 : Upto(n + 1) = Upto(n) \o C!EventsOf(script[n + 1])
<1> DEFINE m == Len(script)
<1>1. m \in Nat  BY ScriptLength
<1>2. PICK g \in [0 .. m -> Seq(Events)] :
           /\ g[0] = <<>> /\ \A i \in 1 .. m : g[i] = g[i - 1] \o C!EventsOf(script[i])
           /\ \A n \in 0 .. m : Upto(n) = g[n]  BY UptoChain
<1> HIDE DEF m
<1>3. ASSUME NEW n \in 0 .. m - 1 PROVE Upto(n + 1) = Upto(n) \o C!EventsOf(script[n + 1])
 <2> DEFINE a == n + 1
 <2>1. a \in 1 .. m /\ a \in 0 .. m /\ a - 1 = n /\ n \in 0 .. m  BY <1>1
 <2> HIDE DEF a
 <2>2. Upto(a) = Upto(n) \o C!EventsOf(script[a])  BY <1>2, <2>1
 <2> QED  BY <2>2 DEF a
<1> QED  BY <1>1, <1>2, <1>3 DEF m

\* What fewer lines say comes first, and is all of it when the rest is silent.
LEMMA UptoGrows ==
  ASSUME IsScript, NEW k \in 0 .. Len(script)
  PROVE  /\ \E r \in Seq(Events) : Upto(Len(script)) = Upto(k) \o r
         /\ (\A i \in k + 1 .. Len(script) : C!EventsOf(script[i]) = <<>>) => Upto(Len(script)) = Upto(k)
<1> DEFINE m == Len(script)
           More(n) == \E r \in Seq(Events) : Upto(n) = Upto(k) \o r
           Silent == \A i \in k + 1 .. m : C!EventsOf(script[i]) = <<>>
           T == {j \in Nat : k + j <= m => More(k + j) /\ (Silent => Upto(k + j) = Upto(k))}
<1>1. m \in Nat /\ k \in Nat /\ k <= m /\ Upto(k) \in Seq(Events)  BY ScriptLength, UptoNext
<1>0. \A x \in Seq(Events) : x \o <<>> = x /\ <<>> \in Seq(Events)  OBVIOUS
<1>2. 0 \in T
 <2>1. k + 0 = k  BY <1>1
 <2> QED  BY <1>0, <1>1, <2>1
<1>6. \A x, y, z \in Seq(Events) : y \o z \in Seq(Events) /\ (x \o y) \o z = x \o (y \o z)  BY SMTT(60)
<1>3. ASSUME NEW j \in Nat, j \in T PROVE j + 1 \in T
 <2> DEFINE a == k + j
            x == C!EventsOf(script[a + 1])
 <2> HIDE DEF More, Silent, m, x
 <2>1. ASSUME k + (j + 1) <= m PROVE More(k + (j + 1)) /\ (Silent => Upto(k + (j + 1)) = Upto(k))
  <3>1. k + j <= m  BY <1>1, <2>1
  <3>2. More(a) /\ (Silent => Upto(a) = Upto(k))  BY <1>3, <3>1
  <3>3. a \in 0 .. m - 1 /\ k + (j + 1) = a + 1 /\ a + 1 \in k + 1 .. m /\ a + 1 \in 1 .. m  BY <1>1, <2>1
  <3> HIDE DEF a
  <3>4. Upto(a + 1) = Upto(a) \o x /\ x \in Seq(Events)  BY <3>3, UptoNext, EventsAre DEF m, x
  <3>5. PICK r \in Seq(Events) : Upto(a) = Upto(k) \o r  BY <3>2 DEF More
  <3>6. Silent => x = <<>>  BY <3>3 DEF Silent, x
  <3>7. r \o x \in Seq(Events) /\ Upto(a + 1) = Upto(k) \o (r \o x)  BY <1>1, <1>6, <3>4, <3>5, SMTT(60)
  <3>8. Silent => Upto(a + 1) = Upto(k)  BY <1>0, <1>1, <3>2, <3>4, <3>6
  <3>9. More(a + 1)  BY <3>7 DEF More
  <3> QED  BY <3>3, <3>8, <3>9
 <2> QED  BY <2>1
<1>4. m - k \in T
 <2> HIDE DEF T
 <2> QED  BY <1>1, <1>2, <1>3, Induct
<1>5. k + (m - k) = m  BY <1>1
<1> QED  BY <1>4, <1>5, <1>1, SMTT(60)

(* What a chunk leaves.                                                    *)

\* The n-th symbol, by line and part.
LEMMA Symbols ==
  ASSUME NEW q \in Nat
  PROVE  C!Symbol(3 * q + 1) = <<q + 1, 1>> /\ C!Symbol(3 * q + 2) = <<q + 1, 2>> /\ C!Symbol(3 * q + 3) = <<q + 1, 3>>
BY DEF C!Symbol

\* Nothing, and a whole line.
LEMMA Lines ==
  ASSUME NEW q \in Nat
  PROVE  /\ C!parse_line(<<>>) = [events |-> <<>>, closes |-> FALSE]
         /\ C!parse_line(<< <<q, 1>>, <<q, 2>> >>) =
              [events |-> C!EventsOf(script[q]), closes |-> script[q].kind = "done"]
<1>1. << <<q, 1>>, <<q, 2>> >>[1] = <<q, 1>> /\ Len(<< <<q, 1>>, <<q, 2>> >>) = 2
      /\ << <<q, 1>>, <<q, 2>> >> # <<>>  OBVIOUS
<1> QED  BY <1>1 DEF C!parse_line

Parts == (1 .. Len(script)) \X {1, 2}
Reads == [events : Seq(Events), closes : BOOLEAN]
Scans == [read : Reads, open : Seq(Parts)]
ScanNext(v, s) ==
  IF s[2] = 3 THEN [read |-> C!Then(v.read, C!parse_line(v.open)), open |-> <<>>]
  ELSE [read |-> v.read, open |-> Append(v.open, s)]

LEMMA ParsedIs ==
  ASSUME IsScript, NEW parts \in Seq(Parts)
  PROVE  C!parse_line(parts) \in Reads
<1>0. <<>> \in Seq(Events) /\ <<<<"decode_error">>>> \in Seq(Events)  BY DEF Events
<1>1. CASE parts = <<>> \/ parts[1][2] # 1  BY <1>0, <1>1 DEF C!parse_line, Reads
<1>2. CASE ~(parts = <<>> \/ parts[1][2] # 1)
 <2> DEFINE k == parts[1][1]
 <2>1. parts[1] \in Parts  BY <1>2
 <2>2. k \in 1 .. Len(script)  BY <2>1 DEF Parts
 <2>3. C!EventsOf(script[k]) \in Seq(Events)  BY <2>2, EventsAre
 <2> DEFINE e == C!EventsOf(script[k])
            torned == IF script[k].kind \in {"data", "broken", "done"} THEN <<<<"decode_error">>>> ELSE <<>>
            line == script[k]
 <2>4. C!parse_line(parts) = IF Len(parts) = 2 THEN [events |-> e, closes |-> line.kind = "done"]
                             ELSE [events |-> torned, closes |-> FALSE]  BY <1>2 DEF C!parse_line
 <2>5. torned \in Seq(Events) /\ e \in Seq(Events)  BY <1>0, <2>3
 <2> HIDE DEF e, torned, line
 <2>6. [events |-> e, closes |-> line.kind = "done"] \in Reads /\ [events |-> torned, closes |-> FALSE] \in Reads
   BY <2>5 DEF Reads
 <2> QED  BY <2>4, <2>6
<1> QED  BY <1>1, <1>2

LEMMA ThenIs ==
  ASSUME NEW x \in Reads, NEW y \in Reads
  PROVE  /\ C!Then(x, y) \in Reads
         /\ C!Then(x, y).events = x.events \o y.events /\ C!Then(x, y).closes = (x.closes \/ y.closes)
<1>1. x.events \in Seq(Events) /\ y.events \in Seq(Events) /\ x.closes \in BOOLEAN /\ y.closes \in BOOLEAN
  BY DEF Reads
<1>2. x.events \o y.events \in Seq(Events) /\ (x.closes \/ y.closes) \in BOOLEAN  BY <1>1
<1> QED  BY <1>2 DEF C!Then, Reads

LEMMA ScanIs ==
  ASSUME IsScript, NEW v \in Scans, NEW s, s[2] # 3 => s \in Parts
  PROVE  ScanNext(v, s) \in Scans
<1>1. v.read \in Reads /\ v.open \in Seq(Parts)  BY DEF Scans
<1>2. C!Then(v.read, C!parse_line(v.open)) \in Reads  BY <1>1, ParsedIs, ThenIs
<1>3. s[2] # 3 => Append(v.open, s) \in Seq(Parts)  BY <1>1
<1>4. <<>> \in Seq(Parts)  OBVIOUS
<1> QED  BY <1>1, <1>2, <1>3, <1>4 DEF ScanNext, Scans

\* The symbols of a script.
LEMMA SymbolIs ==
  ASSUME IsScript, NEW p \in 1 .. 3 * Len(script)
  PROVE  C!Symbol(p)[2] # 3 => C!Symbol(p) \in Parts
<1>1. (p + 2) \div 3 \in 1 .. Len(script) /\ ((p + 2) % 3) + 1 \in 1 .. 3  BY ScriptLength
<1> QED  BY <1>1 DEF C!Symbol, Parts

\* Where the scan of a chunk that began after line l stands: r symbols behind
\* line q.  A newline the last chunk had left out is an empty line.
Far(l, q) == IF q < l THEN l ELSE q
Left(l, q, r) ==
  IF q < l \/ r = 0 THEN <<>> ELSE IF r = 1 THEN << <<q + 1, 1>> >> ELSE << <<q + 1, 1>>, <<q + 1, 2>> >>
ScanAt(l, q, r, v) ==
  /\ q < l => q = l - 1 /\ r = 2
  /\ v.open = Left(l, q, r)
  /\ Upto(l) \o v.read.events = Upto(Far(l, q))
  /\ v.read.closes => Shut(Far(l, q))
Scan(l, p, v) == \E q \in Nat, r \in 0 .. 2 : p = 3 * q + r /\ ScanAt(l, q, r, v)

LEMMA Pair ==
  ASSUME NEW x, NEW y
  PROVE  Append(<<>>, x) = <<x>> /\ Append(<<x>>, y) = <<x, y>>
<1> DEFINE s == <<x>>
           S == {x, y}
<1>1. s \in Seq(S) /\ Len(s) = 1 /\ s[1] = x /\ y \in S  OBVIOUS
<1> HIDE DEF s, S
<1> DEFINE t == Append(s, y)
<1>2. /\ t \in Seq(S) /\ Len(t) = Len(s) + 1 /\ t[Len(s) + 1] = y
      /\ \A i \in 1 .. Len(s) : t[i] = s[i]  BY <1>1, SMTT(60)
<1> HIDE DEF t
<1>3. t = <<x, y>>
 <2>1. Len(t) = 2 /\ t[1] = x /\ t[2] = y  BY <1>1, <1>2
 <2> QED  BY <1>2, <2>1, SMTT(60)
<1>4. Append(<<>>, x) = <<x>>  OBVIOUS
<1> QED  BY <1>3, <1>4 DEF t, s

LEMMA ScanSteps ==
  ASSUME IsScript, NEW l \in 0 .. Len(script), NEW p \in Nat, p < 3 * Len(script),
         NEW v \in Scans, Scan(l, p, v)
  PROVE  Scan(l, p + 1, ScanNext(v, C!Symbol(p + 1)))
<1> DEFINE m == Len(script)
           s == C!Symbol(p + 1)
           w == ScanNext(v, s)
<1>0. m \in Nat /\ v.read \in Reads /\ v.read.events \in Seq(Events) /\ v.read.closes \in BOOLEAN
  BY ScriptLength DEF Scans, Reads
<1>1. PICK q \in Nat, r \in 0 .. 2 : p = 3 * q + r /\ ScanAt(l, q, r, v)  BY DEF Scan
<1>2. q < m  BY <1>0, <1>1
<1>6. /\ Append(<<>>, <<q + 1, 1>>) = << <<q + 1, 1>> >>
      /\ Append(<< <<q + 1, 1>> >>, <<q + 1, 2>>) = << <<q + 1, 1>>, <<q + 1, 2>> >>  BY Pair
<1> HIDE DEF s, w
<1>3. CASE r = 0
 <2>1. s = <<q + 1, 1>> /\ p + 1 = 3 * q + 1 /\ ~(q < l)  BY <1>1, <1>3, Symbols DEF ScanAt, s
 <2>2. v.open = <<>>  BY <1>1, <1>3 DEF ScanAt, Left
 <2>3. w.read = v.read /\ w.open = << <<q + 1, 1>> >>  BY <1>6, <2>1, <2>2 DEF ScanNext, w
 <2>4. w.open = Left(l, q, 1)  BY <2>1, <2>3 DEF Left
 <2>5. ScanAt(l, q, 1, w)  BY <1>1, <2>1, <2>3, <2>4 DEF ScanAt
 <2> QED  BY <2>1, <2>5 DEF Scan, w, s
<1>4. CASE r = 1
 <2>1. s = <<q + 1, 2>> /\ p + 1 = 3 * q + 2 /\ ~(q < l)  BY <1>1, <1>4, Symbols DEF ScanAt, s
 <2>2. v.open = << <<q + 1, 1>> >>  BY <1>1, <1>4, <2>1 DEF ScanAt, Left
 <2>3. w.read = v.read /\ w.open = << <<q + 1, 1>>, <<q + 1, 2>> >>  BY <1>6, <2>1, <2>2 DEF ScanNext, w
 <2>4. w.open = Left(l, q, 2)  BY <2>1, <2>3 DEF Left
 <2>5. ScanAt(l, q, 2, w)  BY <1>1, <2>1, <2>3, <2>4 DEF ScanAt
 <2> QED  BY <2>1, <2>5 DEF Scan, w, s
<1>5. CASE r = 2
 <2>1. s = <<q + 1, 3>> /\ p + 1 = 3 * (q + 1) + 0  BY <1>1, <1>5, Symbols DEF s
 <2> DEFINE more == C!parse_line(v.open)
 <2>2. w.read = C!Then(v.read, more) /\ w.open = <<>>  BY <2>1 DEF ScanNext, w
 <2>3. w.open = Left(l, q + 1, 0)  BY <2>2 DEF Left
 <2>4. more \in Reads  BY ParsedIs DEF Scans
 <2>9. w.read.events = v.read.events \o more.events /\ w.read.closes = (v.read.closes \/ more.closes)
  <3> HIDE DEF more
  <3>1. v.read \in Reads  BY <1>0
  <3>2. /\ C!Then(v.read, more).events = v.read.events \o more.events
        /\ C!Then(v.read, more).closes = (v.read.closes \/ more.closes)  BY <2>4, <3>1, ThenIs
  <3> QED  BY <2>2, <3>2
 <2>5. w.read.events = v.read.events \o more.events /\ w.read.closes = (v.read.closes \/ more.closes)
       /\ more.events \in Seq(Events)  BY <2>4, <2>9 DEF Reads
 <2>6. Upto(l) \in Seq(Events)  BY UptoNext
 <2>10. (Upto(l) \o v.read.events) \o more.events = Upto(l) \o (v.read.events \o more.events)
  <3>1. \A x, y, z \in Seq(Events) : (x \o y) \o z = x \o (y \o z)  BY SMTT(60)
  <3> QED  BY <1>0, <2>5, <2>6, <3>1
 <2>7. CASE q < l
  <3>1. v.open = <<>> /\ q + 1 = l /\ Far(l, q) = l /\ Far(l, q + 1) = l /\ ~(q + 1 < l)
    BY <1>1, <2>7 DEF ScanAt, Left, Far
  <3>2. more.events = <<>> /\ ~more.closes
   <4>1. C!parse_line(<<>>) = [events |-> <<>>, closes |-> FALSE]  BY Lines
   <4> QED  BY <3>1, <4>1
  <3>3. w.read.events = v.read.events
   <4>1. \A x \in Seq(Events) : x \o <<>> = x  OBVIOUS
   <4> HIDE DEF more
   <4> QED  BY <1>0, <2>5, <3>2, <4>1
  <3>4. ScanAt(l, q + 1, 0, w)  BY <1>1, <2>3, <2>5, <3>1, <3>2, <3>3 DEF ScanAt
  <3> QED  BY <2>1, <3>4 DEF Scan, w, s
 <2>8. CASE ~(q < l)
  <3> DEFINE a == q + 1
  <3>1. v.open = << <<a, 1>>, <<a, 2>> >> /\ Far(l, q) = q /\ Far(l, a) = a /\ ~(a < l)
    BY <1>1, <1>5, <2>8 DEF ScanAt, Left, Far
  <3>2. a \in Nat /\ a \in 1 .. m /\ q \in 0 .. m - 1 /\ a \in 1 .. a /\ 1 .. q \subseteq 1 .. a  BY <1>0, <1>2
  <3>3. Upto(a) = Upto(q) \o C!EventsOf(script[a])  BY <3>2, UptoNext
  <3> HIDE DEF a
  <3>4. more.events = C!EventsOf(script[a]) /\ more.closes = (script[a].kind = "done")
   <4>1. more = [events |-> C!EventsOf(script[a]), closes |-> script[a].kind = "done"]  BY <3>1, <3>2, Lines
   <4> QED  BY <4>1
  <3>5. Upto(l) \o w.read.events = Upto(a)  BY <1>1, <2>5, <2>10, <3>1, <3>3, <3>4 DEF ScanAt
  <3>6. w.read.closes => Shut(a)  BY <1>1, <2>5, <3>1, <3>2, <3>4 DEF ScanAt, Shut
  <3>7. w.open = Left(l, a, 0)  BY <2>3 DEF a
  <3>8. ScanAt(l, a, 0, w)  BY <3>1, <3>5, <3>6, <3>7 DEF ScanAt
  <3> QED  BY <2>1, <3>2, <3>8 DEF Scan, a, w, s
 <2> QED  BY <2>7, <2>8
<1> QED  BY <1>3, <1>4, <1>5

\* The scan of a text, step by step.
LEMMA ScanChain ==
  ASSUME IsScript, NEW n \in Nat, NEW b, b \in Seq({b[i] : i \in DOMAIN b}), Len(b) = n,
         \A i \in 1 .. n : b[i][2] # 3 => b[i] \in Parts
  PROVE  \E g \in [0 .. n -> Scans] :
           /\ g[0] = [read |-> [events |-> <<>>, closes |-> FALSE], open |-> <<>>]
           /\ \A i \in 1 .. n : g[i] = ScanNext(g[i - 1], b[i])
           /\ C!Scanned(b) = g[n]
<1> DEFINE first == [read |-> [events |-> <<>>, closes |-> FALSE], open |-> <<>>]
           next == [i \in 1 .. n |-> [v \in Scans |-> ScanNext(v, b[i])]]
<1>1. first \in Scans
 <2>1. <<>> \in Seq(Events) /\ <<>> \in Seq(Parts)  OBVIOUS
 <2> QED  BY <2>1 DEF Scans, Reads
<1>2. \A i \in 1 .. n : \A v \in Scans : next[i][v] = ScanNext(v, b[i]) /\ next[i][v] \in Scans  BY ScanIs
<1> HIDE DEF next, first
<1>3. PICK g \in [0 .. n -> Scans] : Chained(g, n, first, next)  BY <1>1, <1>2, Recursion
<1>4. g[0] = first  BY <1>3 DEF Chained
<1>5. ASSUME NEW i \in 1 .. n PROVE g[i] = ScanNext(g[i - 1], b[i])
 <2>1. i - 1 \in 0 .. n  OBVIOUS
 <2>2. g[i - 1] \in Scans /\ g[i] = next[i][g[i - 1]]  BY <1>3, <2>1 DEF Chained
 <2> QED  BY <1>2, <2>2
<1>6. C!Scanned(b) = g[n]
 <2> DEFINE upto[i \in 0 .. Len(b)] ==
              IF i = 0 THEN [read |-> [events |-> <<>>, closes |-> FALSE], open |-> <<>>]
              ELSE IF b[i][2] = 3
              THEN [read |-> C!Then(upto[i - 1].read, C!parse_line(upto[i - 1].open)), open |-> <<>>]
              ELSE [read |-> upto[i - 1].read, open |-> Append(upto[i - 1].open, b[i])]
            Grows(h) ==
              h = [i \in 0 .. Len(b) |->
                     IF i = 0 THEN [read |-> [events |-> <<>>, closes |-> FALSE], open |-> <<>>]
                     ELSE IF b[i][2] = 3
                     THEN [read |-> C!Then(h[i - 1].read, C!parse_line(h[i - 1].open)), open |-> <<>>]
                     ELSE [read |-> h[i - 1].read, open |-> Append(h[i - 1].open, b[i])]]
 <2>1. C!Scanned(b) = upto[n]  BY DEF C!Scanned
 <2>2. ASSUME NEW h PROVE Grows(h) <=> h = [i \in 0 .. n |-> IF i = 0 THEN first ELSE ScanNext(h[i - 1], b[i])]
   BY DEF ScanNext, first
 <2>3. g = [i \in 0 .. n |-> IF i = 0 THEN first ELSE ScanNext(g[i - 1], b[i])]
  <3>1. \A i \in 0 .. n : g[i] = IF i = 0 THEN first ELSE ScanNext(g[i - 1], b[i])  BY <1>4, <1>5
  <3>2. g = [i \in 0 .. n |-> g[i]]  OBVIOUS
  <3> QED  BY <3>1, <3>2
 <2>4. \E h : Grows(h)
  <3> HIDE DEF Grows
  <3> QED  BY <2>2, <2>3, SMTT(60)
 <2>5. Grows(upto)  BY <2>4, ZenonT(60)
 <2> HIDE DEF upto
 <2>6. upto = [i \in 0 .. n |-> IF i = 0 THEN first ELSE ScanNext(upto[i - 1], b[i])]
  <3> HIDE DEF Grows
  <3> QED  BY <2>2, <2>5
 <2>7. upto[0] = first /\ \A i \in 1 .. n : upto[i] = ScanNext(upto[i - 1], b[i])
  <3>1. \A i \in 1 .. n : i \in 0 .. n /\ i # 0  OBVIOUS
  <3>2. 0 \in 0 .. n  OBVIOUS
  <3>3. \A i \in 0 .. n : upto[i] = IF i = 0 THEN first ELSE ScanNext(upto[i - 1], b[i])  BY <2>6
  <3> QED  BY <3>1, <3>2, <3>3
 <2> DEFINE T == {i \in Nat : i <= n => upto[i] = g[i]}
 <2>8. 0 \in T  BY <1>4, <2>7
 <2>9. ASSUME NEW i \in Nat, i \in T PROVE i + 1 \in T
  <3> DEFINE a == i + 1
  <3> SUFFICES ASSUME a <= n PROVE upto[a] = g[a]  OBVIOUS
  <3>1. a \in 1 .. n /\ a - 1 = i /\ upto[i] = g[i]  BY <2>9
  <3> HIDE DEF a
  <3> QED  BY <1>5, <2>7, <3>1
 <2>10. n \in T
  <3> HIDE DEF T
  <3> QED  BY <2>8, <2>9, Induct
 <2> QED  BY <2>1, <2>10
<1> QED  BY <1>3, <1>4, <1>5, <1>6 DEF first

\* What the symbols from a on hold.
Piece(a, n) == [i \in 1 .. (n - a) |-> C!Symbol(a + i)]

\* A chunk between two line ends says what its lines say.
LEMMA ChunkSays ==
  ASSUME IsScript, NEW l \in 0 .. Len(script), NEW a \in Nat, a = 3 * l \/ a = 3 * l - 1,
         NEW n \in a + 1 .. 3 * Len(script), C!Symbol(n)[2] # 1
  PROVE  /\ C!drained(Piece(a, n)) \in Reads
         /\ \E k \in l .. Len(script) :
              /\ (n = 3 * k \/ n = 3 * k - 1)
              /\ Upto(l) \o C!drained(Piece(a, n)).events = Upto(k)
              /\ C!drained(Piece(a, n)).closes => Shut(k)
<1> DEFINE m == Len(script)
           b == Piece(a, n)
           z == n - a
<1>0. m \in Nat /\ z \in Nat /\ l \in Nat /\ l <= m /\ n \in Nat  BY ScriptLength
<1>1. /\ b \in Seq({b[i] : i \in DOMAIN b}) /\ Len(b) = z
      /\ \A i \in 1 .. z : b[i] = C!Symbol(a + i)
 <2>1. b = [i \in 1 .. z |-> C!Symbol(a + i)]  BY DEF Piece
 <2> DEFINE B == {b[i] : i \in 1 .. z}
 <2> HIDE DEF b, z
 <2>2. DOMAIN b = 1 .. z /\ \A i \in 1 .. z : b[i] = C!Symbol(a + i) /\ b[i] \in B  BY <2>1
 <2>3. b = [i \in 1 .. z |-> b[i]]  BY <2>1
 <2> HIDE DEF B
 <2>4. b \in [1 .. z -> B]  BY <2>2, <2>3
 <2>5. b \in Seq(B) /\ Len(b) = z  BY <1>0, <2>4
 <2> QED  BY <2>2, <2>5 DEF B
<1>2. ASSUME NEW i \in 1 .. z PROVE b[i][2] # 3 => b[i] \in Parts
 <2>1. a + i \in 1 .. 3 * m  BY <1>0
 <2> QED  BY <1>1, <2>1, SymbolIs
<1> HIDE DEF b
<1>3. PICK g \in [0 .. z -> Scans] :
           /\ g[0] = [read |-> [events |-> <<>>, closes |-> FALSE], open |-> <<>>]
           /\ \A i \in 1 .. z : g[i] = ScanNext(g[i - 1], b[i])
           /\ C!Scanned(b) = g[z]
 <2> HIDE DEF z
 <2> QED  BY <1>0, <1>1, <1>2, ScanChain, ZenonT(60)
<1> DEFINE T == {i \in Nat : i <= z => Scan(l, a + i, g[i])}
<1>4. 0 \in T
 <2> DEFINE v == g[0]
 <2>1. v.open = <<>> /\ v.read.events = <<>> /\ v.read.closes = FALSE  BY <1>3
 <2>2. Upto(l) \o <<>> = Upto(l)
  <3>1. Upto(l) \in Seq(Events)  BY UptoNext
  <3> QED  BY <3>1
 <2> HIDE DEF v
 <2>3. CASE a = 3 * l
  <3>1. Far(l, l) = l /\ ~(l < l) /\ Left(l, l, 0) = <<>>  BY <1>0 DEF Far, Left
  <3>2. ScanAt(l, l, 0, v)  BY <2>1, <2>2, <3>1 DEF ScanAt
  <3>3. a + 0 = 3 * l + 0  BY <1>0, <2>3
  <3>4. Scan(l, a + 0, v)  BY <1>0, <3>2, <3>3 DEF Scan
  <3> QED  BY <3>4 DEF v
 <2>4. CASE a = 3 * l - 1
  <3> DEFINE q == l - 1
  <3>1. q \in Nat /\ a + 0 = 3 * q + 2 /\ q < l  BY <1>0, <2>4
  <3>2. Far(l, q) = l /\ Left(l, q, 2) = <<>>  BY <3>1 DEF Far, Left
  <3>3. ScanAt(l, q, 2, v)  BY <2>1, <2>2, <3>2 DEF ScanAt
  <3> HIDE DEF q
  <3>4. Scan(l, a + 0, v)  BY <3>1, <3>3 DEF Scan
  <3> QED  BY <3>4 DEF v
 <2> QED  BY <2>3, <2>4
<1>5. ASSUME NEW i \in Nat, i \in T PROVE i + 1 \in T
 <2> DEFINE c == i + 1
 <2> SUFFICES ASSUME c <= z PROVE Scan(l, a + c, g[c])  OBVIOUS
 <2>1. Scan(l, a + i, g[i])  BY <1>0, <1>5
 <2>2. c \in 1 .. z /\ c - 1 = i /\ a + i \in Nat /\ a + i < 3 * m /\ a + c = (a + i) + 1
       /\ i \in 0 .. z  BY <1>0
 <2>3. g[c] = ScanNext(g[i], C!Symbol((a + i) + 1))
  <3> HIDE DEF c, z
  <3> QED  BY <1>1, <1>3, <2>2
 <2>4. g[i] \in Scans  BY <1>3, <2>2
 <2> DEFINE p == a + i
 <2> HIDE DEF p, c, z
 <2>5. p \in Nat /\ p < 3 * m /\ Scan(l, p, g[i])  BY <2>1, <2>2 DEF p
 <2>6. Scan(l, p + 1, ScanNext(g[i], C!Symbol(p + 1)))  BY <2>4, <2>5, ScanSteps
 <2> QED  BY <2>2, <2>3, <2>6 DEF p
<1>6. Scan(l, n, g[z])
 <2>1. z \in T
  <3> HIDE DEF T
  <3> QED  BY <1>0, <1>4, <1>5, Induct
 <2>2. a + z = n  BY <1>0
 <2> QED  BY <1>0, <2>1, <2>2
<1> DEFINE v == g[z]
           more == C!parse_line(v.open)
<1>7. v \in Scans /\ v.read \in Reads /\ v.open \in Seq(Parts) /\ v.read.events \in Seq(Events)
 <2>1. v \in Scans  BY <1>0, <1>3
 <2> HIDE DEF v
 <2> QED  BY <2>1 DEF Scans, Reads
<1>8. more \in Reads /\ C!drained(b) = C!Then(v.read, more)  BY <1>3, <1>7, ParsedIs DEF C!drained
<1>9. PICK q \in Nat, r \in 0 .. 2 : n = 3 * q + r /\ ScanAt(l, q, r, v)  BY <1>6 DEF Scan
<1> HIDE DEF more
<1>10. /\ C!drained(b) \in Reads
       /\ C!drained(b).events = v.read.events \o more.events
       /\ C!drained(b).closes = (v.read.closes \/ more.closes)
 <2> DEFINE w == C!Then(v.read, more)
 <2>1. w \in Reads /\ w.events = v.read.events \o more.events /\ w.closes = (v.read.closes \/ more.closes)
   BY <1>7, <1>8, ThenIs
 <2> HIDE DEF w
 <2> QED  BY <1>8, <2>1, SMTT(60) DEF w
<1> DEFINE d == C!drained(b)
<1>15. more.events \in Seq(Events) /\ Upto(l) \in Seq(Events)  BY <1>8, UptoNext DEF Reads
<1>11. ~(q < l)  BY <1>0, <1>9 DEF ScanAt
<1>12. r # 1  BY <1>9, Symbols
<1>16. Far(l, q) = q /\ Upto(l) \o v.read.events = Upto(q) /\ (v.read.closes => Shut(q)) /\ v.open = Left(l, q, r)
  BY <1>9, <1>11 DEF Far, ScanAt
<1> HIDE DEF v
<1>13. CASE r = 0
 <2>1. v.open = <<>>  BY <1>13, <1>16 DEF Left
 <2>2. more.events = <<>> /\ ~more.closes
  <3>1. C!parse_line(<<>>) = [events |-> <<>>, closes |-> FALSE]  BY <1>0, Lines
  <3> QED  BY <2>1, <3>1 DEF more
 <2>5. \A x \in Seq(Events) : x \o <<>> = x  OBVIOUS
 <2>3. d.events = v.read.events /\ (d.closes => v.read.closes)  BY <1>7, <1>10, <2>2, <2>5
 <2>4. q \in l .. m /\ n = 3 * q  BY <1>0, <1>9, <1>11, <1>13
 <2>6. (d.closes => Shut(q)) /\ Upto(l) \o d.events = Upto(q)  BY <1>16, <2>3
 <2> QED  BY <1>10, <2>4, <2>6 DEF b
<1>14. CASE r = 2
 <2> DEFINE k == q + 1
 <2>1. v.open = << <<k, 1>>, <<k, 2>> >>  BY <1>11, <1>14, <1>16 DEF Left
 <2>2. k \in l .. m /\ n = 3 * k - 1 /\ k \in Nat /\ k \in 1 .. k /\ 1 .. q \subseteq 1 .. k /\ q \in 0 .. m - 1
   BY <1>0, <1>9, <1>11, <1>14
 <2>3. Upto(k) = Upto(q) \o C!EventsOf(script[k])  BY <2>2, UptoNext
 <2> HIDE DEF k
 <2>4. more = [events |-> C!EventsOf(script[k]), closes |-> script[k].kind = "done"]  BY <2>1, <2>2, Lines DEF more
 <2>5. more.events = C!EventsOf(script[k]) /\ more.closes = (script[k].kind = "done")  BY <2>4
 <2>6. (Upto(l) \o v.read.events) \o more.events = Upto(l) \o (v.read.events \o more.events)
  <3>1. \A x, y, s \in Seq(Events) : (x \o y) \o s = x \o (y \o s)  BY SMTT(60)
  <3> QED  BY <1>7, <1>15, <3>1
 <2>7. Upto(l) \o d.events = Upto(k)  BY <1>10, <1>16, <2>3, <2>5, <2>6
 <2>8. d.closes => Shut(k)  BY <1>10, <1>16, <2>2, <2>5 DEF Shut
 <2> QED  BY <1>10, <2>2, <2>7, <2>8 DEF b
<1> QED  BY <1>12, <1>13, <1>14, SMTT(60)

(* Vectors.                                                                *)

LEMMA SizeIs == ASSUME NEW S PROVE C!Cardinality(S) = Cardinality(S)
BY DEF C!Cardinality, Cardinality

\* When the places are those of the texts, each vector is put at its place.
LEMMA VectorsArePlaced ==
  ASSUME NEW d, IsList(d), \A i \in DOMAIN d : d[i].index \in Nat,
         {x.index : x \in C!Range(d)} = 0 .. (Len(d) - 1), NEW i \in DOMAIN d
  PROVE  C!embedded(d)[d[i].index + 1] = d[i].vector
<1> DEFINE n == Len(d)
           f == [k \in 1 .. n |-> d[k].index]
<1>1. n \in Nat /\ DOMAIN d = 1 .. n /\ i \in 1 .. n  BY DEF IsList
<1>2. \A k \in 1 .. n : f[k] = d[k].index /\ f[k] \in 0 .. (n - 1)
 <2>1. \A k \in 1 .. n : d[k] \in C!Range(d)  BY <1>1 DEF C!Range
 <2> QED  BY <2>1
<1>3. \A y \in 0 .. (n - 1) : \E k \in 1 .. n : f[k] = y
 <2> SUFFICES ASSUME NEW y \in 0 .. (n - 1) PROVE \E k \in 1 .. n : f[k] = y  OBVIOUS
 <2>1. PICK x \in C!Range(d) : x.index = y  OBVIOUS
 <2>2. PICK k \in DOMAIN d : d[k] = x  BY <2>1 DEF C!Range
 <2> QED  BY <1>1, <2>1, <2>2
<1>4. f \in [1 .. n -> 0 .. (n - 1)]  BY <1>2
<1> HIDE DEF f, n
<1>5. \A j, k \in 1 .. n : f[j] = f[k] => j = k
 <2> DEFINE S == 1 .. n
            T == 0 .. (n - 1)
 <2>1. IsFiniteSet(S) /\ IsFiniteSet(T) /\ Cardinality(S) = Cardinality(T)
  <3>1. Cardinality(1 .. n) = n  BY <1>1, FS_Interval
  <3>2. 0 \in Int /\ n - 1 \in Int /\ 1 \in Int /\ n \in Int  BY <1>1
  <3>3. Cardinality(0 .. (n - 1)) = IF 0 > n - 1 THEN 0 ELSE (n - 1) - 0 + 1  BY <3>2, FS_Interval
  <3>4. IsFiniteSet(1 .. n) /\ IsFiniteSet(0 .. (n - 1))  BY <3>2, FS_Interval
  <3> QED  BY <1>1, <3>1, <3>3, <3>4
 <2>2. f \in Surjection(S, T)  BY <1>3, <1>4 DEF Surjection
 <2> HIDE DEF S, T
 <2>3. f \in Injection(S, T)  BY <2>1, <2>2, FS_SurjSameCardinalityImpliesInj
 <2> QED  BY <2>3 DEF Injection, S, IsInjective
<1>6. ASSUME NEW k \in 1 .. n PROVE C!Place(d, k) = f[k] + 1
 <2> DEFINE P == {j \in DOMAIN d : d[j].index < d[k].index \/ (d[j].index = d[k].index /\ j <= k)}
            Q == 0 .. f[k]
            h == [j \in P |-> f[j]]
 <2>1. C!Place(d, k) = Cardinality(P)
  <3>1. C!Place(d, k) = C!Cardinality(P)  BY DEF C!Place
  <3> QED  BY <3>1, SizeIs
 <2>2. P = {j \in 1 .. n : f[j] <= f[k]}
  <3>1. \A j \in 1 .. n : d[j].index = f[j] /\ f[j] \in Nat  BY <1>2
  <3>2. \A j \in 1 .. n : f[j] <= f[k] <=> (f[j] < f[k] \/ (f[j] = f[k] /\ j <= k))  BY <1>1, <1>5, <3>1
  <3> QED  BY <1>1, <3>1, <3>2
 <2>3. f[k] \in Nat /\ f[k] <= n - 1  BY <1>1, <1>2
 <2>4. IsFiniteSet(Q) /\ Cardinality(Q) = f[k] + 1
  <3>1. 0 \in Int /\ f[k] \in Int  BY <2>3
  <3>2. Cardinality(Q) = IF 0 > f[k] THEN 0 ELSE f[k] - 0 + 1  BY <3>1, FS_Interval
  <3>3. IsFiniteSet(Q)  BY <3>1, FS_Interval
  <3> QED  BY <2>3, <3>2, <3>3
 <2> HIDE DEF P
 <2>5. h \in [P -> Q] /\ \A j \in P : h[j] = f[j]  BY <1>2, <2>2
 <2>6. \A x, y \in P : h[x] = h[y] => x = y  BY <1>5, <2>2, <2>5
 <2>7. \A y \in Q : \E x \in P : h[x] = y
  <3> SUFFICES ASSUME NEW y \in Q PROVE \E x \in P : h[x] = y  OBVIOUS
  <3>1. y \in 0 .. (n - 1) /\ y <= f[k]  BY <1>1, <2>3
  <3>2. PICK x \in 1 .. n : f[x] = y  BY <1>3, <3>1
  <3>3. x \in P  BY <2>2, <3>1, <3>2
  <3> QED  BY <2>5, <3>2, <3>3
 <2> HIDE DEF h, Q
 <2>8. h \in Bijection(P, Q)  BY <2>5, <2>6, <2>7 DEF Bijection, Injection, Surjection, IsInjective
 <2>9. IsFiniteSet(P)
  <3>1. P \subseteq 1 .. n /\ IsFiniteSet(1 .. n)  BY <1>1, <2>2, FS_Interval
  <3> QED  BY <3>1, FS_Subset
 <2>10. Cardinality(Q) = Cardinality(P)  BY <2>8, <2>9, FS_Bijection DEF ExistsBijection
 <2> QED  BY <2>1, <2>4, <2>10
<1>7. DEFINE at1 == f[i] + 1
             who == CHOOSE k \in DOMAIN d : C!Place(d, k) = at1
<1>8. at1 \in DOMAIN d /\ f[i] \in Nat /\ d[i].index = f[i]  BY <1>1, <1>2
<1>9. \A k \in DOMAIN d : C!Place(d, k) = at1 => k = i
 <2> SUFFICES ASSUME NEW k \in DOMAIN d, C!Place(d, k) = at1 PROVE k = i  OBVIOUS
 <2>1. f[k] + 1 = f[i] + 1 /\ f[k] \in Nat /\ k \in 1 .. n  BY <1>1, <1>2, <1>6
 <2>2. f[k] = f[i]  BY <1>8, <2>1
 <2> QED  BY <1>1, <1>5, <2>1, <2>2
<1>10. who = i
 <2>1. C!Place(d, i) = at1  BY <1>1, <1>6
 <2> HIDE DEF at1
 <2> QED  BY <1>1, <1>9, <2>1
<1>11. C!embedded(d)[at1] = d[who].vector
 <2> HIDE DEF at1
 <2> QED  BY <1>8 DEF C!embedded
<1> QED  BY <1>8, <1>10, <1>11

(* The invariant of a call.                                                *)

FailedWith(g) == g # <<>> /\ g[Len(g)] = <<"request_error">>
HeardIn(g) == IF FailedWith(g) THEN SubSeq(g, 1, Len(g) - 1) ELSE g

\* What the consumer got, with what waits, is what the lines up to the last
\* line end say; the stream is done with them all, or with the closing one.
ReadsAt(l, a, g, waits, closed, final) ==
  /\ (a = 3 * l \/ a = 3 * l - 1)
  /\ g \in Seq(Events \cup {<<"request_error">>}) /\ waits \in Seq(Events)
  /\ HeardIn(g) \in Seq(Events) /\ HeardIn(g) \o waits = Upto(l)
  /\ closed /\ ~FailedWith(g) => l = Len(script) \/ Shut(l)
  /\ FailedWith(g) => waits = <<>> /\ closed
  /\ final => waits = <<>> /\ closed
Reads3(a, g, waits, closed, final) == \E l \in 0 .. Len(script) : ReadsAt(l, a, g, waits, closed, final)

AnswerInv == call = "done" /\ answer[1] = "vectors" => answer[2] = C!embedded(body.data)
ChatInv ==
  /\ body \in ChatBodies /\ IsScript /\ torn \in BOOLEAN /\ buffer = <<>> /\ at \in Nat
  /\ AnswerInv
  /\ ~torn => Reads3(at, given, pending, done, ended)

LEMMA NoRequestError == ASSUME NEW e \in Events PROVE e # <<"request_error">>
BY DEF Events

LEMMA GotMore ==
  ASSUME NEW g \in Seq(Events \cup {<<"request_error">>}), NEW e \in Events \cup {<<"request_error">>}
  PROVE  /\ Append(g, e) \in Seq(Events \cup {<<"request_error">>})
         /\ FailedWith(Append(g, e)) <=> e = <<"request_error">>
         /\ HeardIn(Append(g, e)) = IF e = <<"request_error">> THEN g ELSE Append(g, e)
<1> DEFINE S == Events \cup {<<"request_error">>}
           n == Len(g)
           t == Append(g, e)
           error == <<"request_error">>
<1>1. t \in Seq(S) /\ Len(t) = n + 1 /\ t[n + 1] = e /\ n \in Nat /\ g \in Seq(S) /\ \A i \in 1 .. n : t[i] = g[i]
 <2>1. e \in S /\ g \in Seq(S)  OBVIOUS
 <2> HIDE DEF S
 <2> QED  BY <2>1
<1> HIDE DEF S, n, t, error
<1>2. t # <<>> /\ t[Len(t)] = e  BY <1>1
<1>3. FailedWith(t) <=> e = error  BY <1>2 DEF FailedWith, error
<1>4. SubSeq(t, 1, Len(t) - 1) = g  BY <1>1 DEF n
<1> QED  BY <1>1, <1>3, <1>4 DEF HeardIn, S, t, error

LEMMA ChatStarts == C!ChatInit => ChatInv
<1> SUFFICES ASSUME C!ChatInit PROVE ChatInv  OBVIOUS
<1>1. /\ body \in ChatBodies /\ call = "new" /\ torn = FALSE /\ buffer = <<>> /\ at = 0 /\ given = <<>>
      /\ pending = <<>> /\ done = FALSE /\ ended = FALSE
      /\ script \in ChatScripts \/ script = <<>>  BY DEF C!ChatInit
<1>2. IsScript
 <2>1. CASE script \in ChatScripts  BY <2>1, ChatAssumption DEF IsScript
 <2>2. CASE script = <<>>
  <3>1. DOMAIN script = {} /\ script \in Seq({script[i] : i \in DOMAIN script})  BY <2>2
  <3> QED  BY <3>1 DEF IsScript, IsList
 <2> QED  BY <1>1, <2>1, <2>2
<1>3. ~FailedWith(given) /\ HeardIn(given) = <<>>  BY <1>1 DEF FailedWith, HeardIn
<1>4. Upto(0) = <<>> /\ 0 \in 0 .. Len(script) /\ <<>> \in Seq(Events) /\ <<>> \o <<>> = <<>>
      /\ <<>> \in Seq(Events \cup {<<"request_error">>})  BY <1>2, UptoNext, ScriptLength
<1>5. ReadsAt(0, at, given, pending, done, ended)
 <2>0. at = 3 * 0  BY <1>1
 <2>2. given \in Seq(Events \cup {<<"request_error">>}) /\ pending \in Seq(Events)  BY <1>1, <1>4
 <2>1. HeardIn(given) \in Seq(Events) /\ HeardIn(given) \o pending = Upto(0)  BY <1>1, <1>3, <1>4
 <2> QED  BY <1>1, <1>3, <2>0, <2>1, <2>2 DEF ReadsAt
<1> QED  BY <1>1, <1>2, <1>4, <1>5 DEF ChatInv, AnswerInv, Reads3

\* A step that leaves the script reads it on.
LEMMA ReadsOn ==
  ASSUME ChatInv, script' = script, body' = body, AnswerInv', torn' \in BOOLEAN, buffer' = <<>>, at' \in Nat,
         ~torn' => Reads3(at', given', pending', done', ended')
  PROVE  ChatInv'
<1>1. \A n : Upto(n)' = Upto(n) /\ Shut(n)' = Shut(n)  BY DEF Upto, Shut
<1>2. Events' = Events /\ IsScript'  BY DEF Events, IsScript, ChatInv
<1>3. Reads3(at', given', pending', done', ended') => Reads3(at, given, pending, done, ended)'
  BY <1>1, <1>2 DEF Reads3, ReadsAt, HeardIn, FailedWith
<1> QED  BY <1>2, <1>3 DEF ChatInv

LEMMA PopReads == ASSUME ChatInv, C!Pop PROVE ChatInv'
<1>1. /\ script' = script /\ body' = body /\ AnswerInv' /\ torn' = torn /\ buffer' = <<>> /\ at' = at
      /\ pending # <<>> /\ given' = Append(given, Head(pending)) /\ pending' = Tail(pending)
      /\ done' = done /\ ended' = ended  BY DEF C!Pop, ChatInv, AnswerInv
<1>2. ASSUME ~torn PROVE Reads3(at, given', pending', done, ended)
 <2>1. PICK l \in 0 .. Len(script) : ReadsAt(l, at, given, pending, done, ended)  BY <1>2 DEF ChatInv, Reads3
 <2> DEFINE e == Head(pending)
            rest == Tail(pending)
            g == given
 <2>2. pending \in Seq(Events) /\ e \in Events /\ rest \in Seq(Events) /\ <<e>> \o rest = pending
   BY <1>1, <2>1 DEF ReadsAt
 <2>3. ~FailedWith(g) /\ HeardIn(g) = g /\ g \in Seq(Events) /\ g \o pending = Upto(l)
   BY <1>1, <2>1 DEF ReadsAt, HeardIn
 <2> HIDE DEF e, rest, g
 <2>4. g \in Seq(Events \cup {<<"request_error">>}) /\ e # <<"request_error">>
   BY <2>1, <2>2, NoRequestError DEF ReadsAt, g
 <2> DEFINE t == Append(g, e)
 <2>5. t \in Seq(Events \cup {<<"request_error">>}) /\ ~FailedWith(t) /\ HeardIn(t) = t  BY <2>2, <2>4, GotMore
 <2>6. t \in Seq(Events) /\ t \o rest = g \o pending
  <3>1. \A x, y, z \in Seq(Events) : (x \o y) \o z = x \o (y \o z)  BY SMTT(60)
  <3>2. <<e>> \in Seq(Events) /\ t = g \o <<e>> /\ t \in Seq(Events)  BY <2>2, <2>3
  <3> HIDE DEF t
  <3> QED  BY <2>2, <2>3, <3>1, <3>2, ZenonT(60)
 <2> HIDE DEF t
 <2>7. ~ended  BY <1>1, <2>1 DEF ReadsAt
 <2>8. ReadsAt(l, at, t, rest, done, ended)  BY <2>1, <2>2, <2>3, <2>5, <2>6, <2>7 DEF ReadsAt
 <2> QED  BY <1>1, <2>8 DEF Reads3, t, e, rest, g
<1> QED  BY <1>1, <1>2, ReadsOn DEF ChatInv

LEMMA FinishedReads == ASSUME ChatInv, C!Finished PROVE ChatInv'
<1>1. /\ script' = script /\ body' = body /\ AnswerInv' /\ torn' = torn /\ buffer' = <<>> /\ at' = at
      /\ pending = <<>> /\ given' = given /\ pending' = pending /\ done' = done /\ done
  BY DEF C!Finished, ChatInv, AnswerInv
<1>2. ASSUME ~torn PROVE Reads3(at, given, pending, done, ended')  BY <1>1, <1>2 DEF ChatInv, Reads3, ReadsAt
<1> QED  BY <1>1, <1>2, ReadsOn DEF ChatInv

LEMMA FailureReads == ASSUME ChatInv, C!TransportFails PROVE ChatInv'
<1> DEFINE e == <<"request_error">>
<1>1. /\ script' = script /\ body' = body /\ AnswerInv' /\ torn' = torn /\ buffer' = <<>> /\ at' = at
      /\ pending = <<>> /\ given' = Append(given, e) /\ pending' = pending /\ ~done /\ done' = TRUE
      /\ ~ended /\ ended' = ended  BY DEF C!TransportFails, ChatInv, AnswerInv
<1>2. ASSUME ~torn PROVE Reads3(at, given', pending, TRUE, ended)
 <2>1. PICK l \in 0 .. Len(script) : ReadsAt(l, at, given, pending, done, ended)  BY <1>2 DEF ChatInv, Reads3
 <2>2. ~FailedWith(given) /\ HeardIn(given) = given  BY <1>1, <2>1 DEF ReadsAt, HeardIn
 <2> DEFINE t == Append(given, e)
 <2>3. t \in Seq(Events \cup {e}) /\ FailedWith(t) /\ HeardIn(t) = given  BY <2>1, GotMore DEF ReadsAt
 <2> HIDE DEF t, e
 <2>4. ReadsAt(l, at, t, pending, TRUE, ended)  BY <1>1, <2>1, <2>2, <2>3 DEF ReadsAt, e
 <2> QED  BY <1>1, <2>4 DEF Reads3, t
<1> QED  BY <1>1, <1>2, ReadsOn DEF ChatInv

\* What a chunk says from line l on, up to the symbol n: the events of whole
\* lines, and whether one of them shuts the stream.
Ends(l, n, d) ==
  \E k \in l .. Len(script) : /\ (n = 3 * k \/ n = 3 * k - 1)
                              /\ Upto(l) \o d.events = Upto(k)
                              /\ d.closes => Shut(k)
Says(l, n, d) ==
  \E says \in Seq(Events), closes \in BOOLEAN, k \in l .. Len(script) :
    /\ d.events = says /\ d.closes = closes
    /\ (n = 3 * k \/ n = 3 * k - 1)
    /\ Upto(l) \o says = Upto(k)
    /\ closes => Shut(k)

\* A chunk that is read so has its parts.
LEMMA ReadParts ==
  ASSUME NEW l, NEW n, NEW d \in Reads, Ends(l, n, d)
  PROVE  Says(l, n, d)
<1>1. d.events \in Seq(Events) /\ d.closes \in BOOLEAN  BY DEF Reads
<1>2. PICK k \in l .. Len(script) : /\ (n = 3 * k \/ n = 3 * k - 1)
                                    /\ Upto(l) \o d.events = Upto(k)
                                    /\ d.closes => Shut(k)  BY DEF Ends
<1>3. \E says \in Seq(Events), closes \in BOOLEAN, i \in l .. Len(script) :
        /\ d.events = says /\ d.closes = closes
        /\ (n = 3 * i \/ n = 3 * i - 1)
        /\ Upto(l) \o says = Upto(i)
        /\ closes => Shut(i)
 <2> USE <1>1
 <2> WITNESS d.events \in Seq(Events), d.closes \in BOOLEAN, k \in l .. Len(script)
 <2> QED  BY <1>2
<1> QED  BY <1>3, Zenon DEF Says

\* What the bytes from one symbol to a later one say.
LEMMA ChunkGives ==
  ASSUME IsScript, NEW l \in 0 .. Len(script), NEW a \in Nat, a = 3 * l \/ a = 3 * l - 1,
         NEW n \in a + 1 .. 3 * Len(script), C!Symbol(n)[2] # 1
  PROVE  Says(l, n, C!drained(Piece(a, n)))
<1>1. C!drained(Piece(a, n)) \in Reads /\ Ends(l, n, C!drained(Piece(a, n)))  BY ChunkSays DEF Ends
<1> QED  BY <1>1, ReadParts, Zenon

LEMMA ChunkKeeps ==
  ASSUME IsScript, NEW l \in 0 .. Len(script), NEW g \in Seq(Events), ~FailedWith(g), HeardIn(g) = g, g = Upto(l),
         NEW says \in Seq(Events), NEW closes \in BOOLEAN, NEW n, NEW k \in l .. Len(script),
         n = 3 * k \/ n = 3 * k - 1, Upto(l) \o says = Upto(k), closes => Shut(k), ~ended
  PROVE  Reads3(n, g, says, closes, ended)
<1>1. k \in 0 .. Len(script)  BY ScriptLength
<1>2. g \in Seq(Events \cup {<<"request_error">>})  OBVIOUS
<1>3. HeardIn(g) \o says = Upto(k) /\ HeardIn(g) \in Seq(Events)  OBVIOUS
<1>4. ReadsAt(k, n, g, says, closes, ended)  BY <1>2, <1>3 DEF ReadsAt
<1> QED  BY <1>1, <1>4 DEF Reads3

LEMMA ChunkReads == ASSUME ChatInv, C!Chunk PROVE ChatInv'
<1>1. /\ script' = script /\ body' = body /\ AnswerInv' /\ ~ended /\ ended' = ended
      /\ pending = <<>> /\ given' = given /\ ~done /\ buffer = <<>>  BY DEF C!Chunk, ChatInv, AnswerInv
<1>2. IsScript /\ at \in Nat /\ torn \in BOOLEAN  BY DEF ChatInv
<1>3. CASE \E n \in (at + 1) .. C!Text :
             /\ at' = n /\ torn' = (torn \/ C!Symbol(n)[2] = 1)
             /\ C!drain_lines(buffer \o [i \in 1 .. (n - at) |-> C!Symbol(at + i)])
 <2>1. PICK n \in (at + 1) .. C!Text :
            /\ at' = n /\ torn' = (torn \/ C!Symbol(n)[2] = 1)
            /\ C!drain_lines(buffer \o [i \in 1 .. (n - at) |-> C!Symbol(at + i)])  BY <1>3
 <2> DEFINE b == Piece(at, n)
            d == C!drained(b)
 <2>2. C!Text = 3 * Len(script) /\ n \in Nat  BY <1>2, <2>1, ScriptLength DEF C!Text
 <2>3. buffer \o [i \in 1 .. (n - at) |-> C!Symbol(at + i)] = b
  <3> DEFINE z == n - at
             B == {b[i] : i \in 1 .. z}
  <3>1. z \in Nat /\ b = [i \in 1 .. z |-> C!Symbol(at + i)]  BY <1>2, <2>1, <2>2 DEF Piece
  <3>2. \A i \in 1 .. z : b[i] \in B  OBVIOUS
  <3>3. b = [i \in 1 .. z |-> b[i]]  BY <3>1
  <3> HIDE DEF b, z, B
  <3>4. b \in Seq(B)  BY <3>1, <3>2, <3>3
  <3>5. <<>> \o b = b  BY <3>4
  <3> QED  BY <1>1, <3>1, <3>5 DEF z
 <2>4. pending' = pending \o d.events /\ done' = (done \/ d.closes) /\ buffer' = <<>>
  <3> HIDE DEF b
  <3> QED  BY <2>1, <2>3 DEF C!drain_lines
 <2> HIDE DEF b, d
 <2>5. ASSUME ~torn' PROVE Reads3(n, given, pending', done', ended)
  <3>1. ~torn /\ C!Symbol(n)[2] # 1  BY <1>2, <2>1, <2>5
  <3>2. PICK l \in 0 .. Len(script) : ReadsAt(l, at, given, pending, done, ended)  BY <3>1 DEF ChatInv, Reads3
  <3>3. ~FailedWith(given) /\ HeardIn(given) = given /\ given \in Seq(Events)  BY <1>1, <3>2 DEF ReadsAt, HeardIn
  <3>4. given = Upto(l)
   <4>1. given \o <<>> = given  BY <3>3
   <4> QED  BY <1>1, <3>2, <3>3, <4>1 DEF ReadsAt
  <3>5. at = 3 * l \/ at = 3 * l - 1  BY <3>2 DEF ReadsAt
  <3>6. n \in at + 1 .. 3 * Len(script) /\ d = C!drained(Piece(at, n))  BY <2>1, <2>2 DEF b, d
  <3>7. PICK says \in Seq(Events), closes \in BOOLEAN, k \in l .. Len(script) :
           /\ d.events = says /\ d.closes = closes
           /\ (n = 3 * k \/ n = 3 * k - 1)
           /\ Upto(l) \o says = Upto(k)
           /\ closes => Shut(k)
   <4>1. Says(l, n, C!drained(Piece(at, n)))
    <5>1. /\ at \in Nat /\ (at = 3 * l \/ at = 3 * l - 1) /\ IsScript
          /\ n \in at + 1 .. 3 * Len(script) /\ C!Symbol(n)[2] # 1  BY <1>2, <3>1, <3>5, <3>6
    <5> QED  BY <5>1, ChunkGives, ZenonT(60)
   <4> QED  BY <3>6, <4>1, Zenon DEF Says
  <3>8. pending' = says
   <4>1. <<>> \o says = says  OBVIOUS
   <4> QED  BY <1>1, <2>4, <3>7, <4>1
  <3>9. done' = closes  BY <1>1, <2>4, <3>7
  <3>10. Reads3(n, given, says, closes, ended)  BY <1>1, <1>2, <3>3, <3>4, <3>7, ChunkKeeps
  <3> QED  BY <3>8, <3>9, <3>10
 <2>6. torn' \in BOOLEAN  BY <2>1
 <2> QED  BY <1>1, <2>1, <2>2, <2>4, <2>5, <2>6, ReadsOn
<1>4. CASE /\ at = C!Text
           /\ pending' = pending \o C!drained(buffer).events
           /\ done' = TRUE /\ buffer' = <<>> /\ UNCHANGED <<at, torn>>
 <2>1. C!drained(buffer).events = <<>>
  <3>1. Len(<<>>) = 0 /\ <<>> \in Seq({<<>>[i] : i \in DOMAIN <<>>}) /\ 0 \in Nat  OBVIOUS
  <3> DEFINE b == <<>>
  <3>2. C!parse_line(b) = [events |-> <<>>, closes |-> FALSE]  BY Lines, <1>2
  <3>3. C!Scanned(b) = [read |-> [events |-> <<>>, closes |-> FALSE], open |-> <<>>]
   <4>1. \A i \in 1 .. 0 : b[i][2] # 3 => b[i] \in Parts  OBVIOUS
   <4> DEFINE n == 0
   <4>2. n \in Nat /\ Len(b) = n /\ b \in Seq({b[i] : i \in DOMAIN b})
         /\ \A i \in 1 .. n : b[i][2] # 3 => b[i] \in Parts  BY <3>1, <4>1
   <4> HIDE DEF n
   <4>3. \E g \in [0 .. n -> Scans] :
           /\ g[0] = [read |-> [events |-> <<>>, closes |-> FALSE], open |-> <<>>]
           /\ \A i \in 1 .. n : g[i] = ScanNext(g[i - 1], b[i])
           /\ C!Scanned(b) = g[n]
    <5> HIDE DEF b
    <5> QED  BY <1>2, <4>2, ScanChain
   <4> QED  BY <4>3 DEF n
  <3>4. C!drained(b) = C!Then([events |-> <<>>, closes |-> FALSE], [events |-> <<>>, closes |-> FALSE])
   <4>1. b = <<>>  OBVIOUS
   <4> DEFINE nothing == [events |-> <<>>, closes |-> FALSE]
   <4> HIDE DEF b
   <4>2. C!Scanned(b).read = nothing /\ C!Scanned(b).open = b  BY <3>3, <4>1
   <4> HIDE DEF nothing
   <4>3. C!drained(b) = C!Then(nothing, nothing)  BY <3>2, <4>2 DEF C!drained, nothing
   <4> QED  BY <4>3 DEF nothing
  <3> HIDE DEF b
  <3>5. C!Then([events |-> <<>>, closes |-> FALSE], [events |-> <<>>, closes |-> FALSE]).events = <<>>
    BY DEF C!Then
  <3> QED  BY <1>1, <3>4, <3>5 DEF b
 <2>2. pending' = <<>>  BY <1>1, <1>4, <2>1
 <2>3. ASSUME ~torn PROVE Reads3(at, given, pending, TRUE, ended)
  <3>1. PICK l \in 0 .. Len(script) : ReadsAt(l, at, given, pending, done, ended)  BY <2>3 DEF ChatInv, Reads3
  <3>2. l = Len(script)
   <4>1. (at = 3 * l \/ at = 3 * l - 1) /\ at = 3 * Len(script)  BY <1>4, <3>1 DEF ReadsAt, C!Text
   <4> DEFINE m == Len(script)
   <4>2. l \in Nat /\ m \in Nat  BY <1>2, ScriptLength
   <4> HIDE DEF m
   <4>3. l = m  BY <4>1, <4>2 DEF m
   <4> QED  BY <4>3 DEF m
  <3>3. ReadsAt(l, at, given, pending, TRUE, ended)  BY <1>1, <3>1, <3>2 DEF ReadsAt
  <3> QED  BY <3>3 DEF Reads3
 <2> QED  BY <1>1, <1>2, <1>4, <2>2, <2>3, ReadsOn
<1> QED  BY <1>3, <1>4 DEF C!Chunk

\* The calls that are answered at once.
LEMMA CallReads == ASSUME ChatInv, C!start_post \/ C!Answered PROVE ChatInv'
<1>1. /\ script' = script /\ body' = body /\ torn' = torn /\ buffer' = buffer /\ at' = at
      /\ given' = given /\ pending' = pending /\ done' = done /\ ended' = ended
  BY DEF C!start_post, C!Answered, C!stream
<1>2. AnswerInv'
 <2>1. CASE C!start_post  BY <2>1 DEF C!start_post, AnswerInv
 <2>2. CASE C!Answered
  <3>1. \/ call' = "done" /\ \E e \in {"request", "status"} : answer' = <<"error", e>>
        \/ call' = "done" /\ (answer' = <<"error", "decode">> \/ answer' = <<"message", Head(body.choices)>>)
        \/ call' = "done" /\ answer' = <<"vectors", C!embedded(body.data)>>
        \/ call' = "streaming"  BY <2>2 DEF C!Answered
  <3>2. body' = body  BY <1>1
  <3> DEFINE v == C!embedded(body.data)
             h == Head(body.choices)
  <3>3. <<"error", "request">>[1] # "vectors" /\ <<"error", "status">>[1] # "vectors"
        /\ <<"error", "decode">>[1] # "vectors" /\ <<"message", h>>[1] # "vectors" /\ <<"vectors", v>>[2] = v
    BY ZenonT(20), SMT
  <3>4. v' = v  BY <3>2
  <3> HIDE DEF v, h
  <3> QED  BY <3>1, <3>3, <3>4 DEF AnswerInv, v, h
 <2> QED  BY <2>1, <2>2
<1> QED  BY <1>1, <1>2, ReadsOn DEF ChatInv

LEMMA ChatStep == ASSUME ChatInv, C!ChatNext PROVE ChatInv'
BY CallReads, PopReads, FinishedReads, ChunkReads, FailureReads DEF C!ChatNext

LEMMA ChatRest == ASSUME ChatInv, UNCHANGED chatVars PROVE ChatInv'
<1>1. /\ script' = script /\ body' = body /\ AnswerInv' /\ torn' = torn /\ buffer' = buffer /\ at' = at
      /\ given' = given /\ pending' = pending /\ done' = done /\ ended' = ended  BY DEF chatVars, ChatInv, AnswerInv
<1> QED  BY <1>1, ReadsOn DEF ChatInv

\* From the first closing line on a script is silent.
LEMMA SilentBehind ==
  ASSUME IsScript, NEW j \in 1 .. Len(script), script[j].kind = "done", NEW i \in j .. Len(script)
  PROVE  C!EventsOf(script[i]) = <<>>
<1>1. i \in DOMAIN script /\ j \in DOMAIN script /\ (j < i \/ i = j)  BY ScriptLength
<1>2. script[i].kind \notin {"data", "broken"}  BY <1>1 DEF IsScript
<1> QED  BY <1>2 DEF C!EventsOf

LEMMA SaidIs == ASSUME IsScript PROVE C!Said = Upto(Len(script))
<1> DEFINE ends == {i \in DOMAIN script : script[i].kind = "done"}
           m == Len(script)
<1>0. m \in Nat /\ DOMAIN script = 1 .. m  BY ScriptLength
<1>1. CASE ends = {}
 <2>1. C!Closing = m + 1  BY <1>1 DEF C!Closing
 <2>2. C!Closing - 1 = m  BY <1>0, <2>1
 <2> QED  BY <2>2 DEF C!Said, Upto
<1>2. CASE ends # {}
 <2>1. ends \subseteq Nat  BY <1>0
 <2>2. \E x \in ends : \A y \in ends : x <= y  BY <1>2, <2>1, LeastElement
 <2> DEFINE c == CHOOSE i \in ends : \A j \in ends : i <= j
            k == c - 1
 <2>3. C!Closing = c  BY <1>2 DEF C!Closing
 <2>4. c \in ends  BY <2>2
 <2> HIDE DEF c
 <2>5. c \in 1 .. m /\ k \in 0 .. m /\ script[c].kind = "done" /\ k + 1 = c  BY <1>0, <2>4
 <2>6. C!Said = Upto(k)  BY <2>3 DEF C!Said, Upto
 <2>7. \A i \in k + 1 .. m : C!EventsOf(script[i]) = <<>>  BY <2>5, SilentBehind
 <2> HIDE DEF k
 <2> QED  BY <2>5, <2>6, <2>7, UptoGrows
<1> QED  BY <1>1, <1>2

\* What a call has read of a stream, and where vectors are put.
LEMMA ChatGives == ASSUME ChatInv PROVE C!StreamReadsBack /\ C!VectorsBelong
<1> DEFINE m == Len(script)
           g == HeardIn(given)
           said == Upto(m)
<1>0. IsScript /\ m \in Nat  BY ScriptLength DEF ChatInv
<1>1. C!Failed <=> FailedWith(given)  BY DEF C!Failed, FailedWith, C!Last
<1>2. C!Heard = g  BY <1>1 DEF C!Heard, HeardIn, C!Front
<1>3. C!Said = said  BY <1>0, SaidIs
<1>4. C!StreamReadsBack
 <2> SUFFICES ASSUME ~torn PROVE C!StreamReadsBack  BY DEF C!StreamReadsBack
 <2>1. PICK l \in 0 .. m : ReadsAt(l, at, given, pending, done, ended)  BY DEF ChatInv, Reads3
 <2>2. g \in Seq(Events) /\ pending \in Seq(Events) /\ g \o pending = Upto(l)  BY <2>1 DEF ReadsAt
 <2>3. PICK r \in Seq(Events) : said = Upto(l) \o r  BY <1>0, UptoGrows
 <2>4. \A i \in DOMAIN g : i \in DOMAIN said /\ g[i] = said[i]
  <3> DEFINE t == pending \o r
  <3>1. t \in Seq(Events) /\ said = g \o t
   <4>1. \A x, y, z \in Seq(Events) : y \o z \in Seq(Events) /\ (x \o y) \o z = x \o (y \o z)  BY SMTT(60)
   <4>2. g \in Seq(Events) /\ pending \in Seq(Events) /\ g \o pending = Upto(l) /\ said = Upto(l) \o r
     BY <2>2, <2>3
   <4> HIDE DEF g, said
   <4>3. t \in Seq(Events) /\ (g \o pending) \o r = g \o t  BY <4>1, <4>2
   <4> QED  BY <4>2, <4>3
  <3> HIDE DEF g, t, said
  <3> QED  BY <2>2, <3>1
 <2>5. ASSUME ended, ~FailedWith(given) PROVE g = said
  <3>1. pending = <<>> /\ done /\ (l = m \/ Shut(l))  BY <2>1, <2>5 DEF ReadsAt
  <3>2. g = Upto(l)
   <4>1. \A x \in Seq(Events) : x \o <<>> = x  OBVIOUS
   <4> HIDE DEF g
   <4> QED  BY <2>2, <3>1, <4>1
  <3>3. ASSUME Shut(l) PROVE said = Upto(l)
   <4>1. PICK j \in 1 .. l : script[j].kind = "done"  BY <3>3 DEF Shut
   <4>2. \A i \in l + 1 .. m : i \in j .. m  BY <1>0
   <4>3. j \in 1 .. m  BY <1>0
   <4>4. \A i \in l + 1 .. m : C!EventsOf(script[i]) = <<>>  BY <1>0, <4>1, <4>2, <4>3, SilentBehind
   <4> QED  BY <1>0, <4>4, UptoGrows
  <3> QED  BY <3>1, <3>2, <3>3
 <2> HIDE DEF g, said
 <2>6. \A i \in C!Opens(g) : i \in DOMAIN said /\ g[i] = said[i]  BY <2>4 DEF C!Opens
 <2>7. ASSUME ended, ~FailedWith(given) PROVE \A i \in C!Opens(said) : i \in DOMAIN g /\ g[i] = said[i]
   BY <2>5, <2>7 DEF C!Opens
 <2> QED  BY <1>1, <1>2, <1>3, <2>6, <2>7 DEF C!StreamReadsBack
<1>5. C!VectorsBelong
 <2> SUFFICES ASSUME call = "done", answer[1] = "vectors", NEW i \in DOMAIN body.data,
                     {d.index : d \in C!Range(body.data)} = 0 .. (Len(body.data) - 1)
              PROVE  answer[2][body.data[i].index + 1] = body.data[i].vector  BY DEF C!VectorsBelong
 <2>1. answer[2] = C!embedded(body.data)  BY DEF ChatInv, AnswerInv
 <2>2. IsList(body.data) /\ \A k \in DOMAIN body.data : body.data[k].index \in Nat  BY ChatAssumption DEF ChatInv
 <2> DEFINE d == body.data
 <2>3. C!embedded(d)[d[i].index + 1] = d[i].vector
  <3>1. IsList(d) /\ (\A k \in DOMAIN d : d[k].index \in Nat) /\ i \in DOMAIN d
        /\ {x.index : x \in C!Range(d)} = 0 .. (Len(d) - 1)  BY <2>2
  <3> HIDE DEF d
  <3> QED  BY <3>1, VectorsArePlaced
 <2> QED  BY <2>1, <2>3
<1> QED  BY <1>4, <1>5

(* The clients together.                                                   *)
ClientsInv ==
  /\ turn = "broker" => BrokerInv /\ KeysTravel
  /\ turn = "watch" => WatchInv
  /\ turn = "registry" => RegistrarInv
  /\ turn = "chat" => ChatInv

LEMMA ClientsInitially == MCInit => ClientsInv
BY BrokerInitially, KeysInitially, WatchInitially, RegistrarInitially, ChatStarts DEF MCInit, ClientsInv

(* A step is one component's; what the others hold does not change.        *)
LEMMA ClientsStep ==
  ASSUME ClientsInv, MCNext
  PROVE  /\ ClientsInv'
         /\ turn = "watch" => W!NeverBackwardsStep
         /\ turn = "broker" => NothingAfterUnsubscribeStep /\ DisconnectedRefusesStep
<1>1. CASE InBroker(Next)
 <2>1. turn = "broker" /\ turn' = "broker" /\ Next  BY <1>1 DEF InBroker
 <2>2. QED BY <2>1, BrokerStep, KeysStep, BrokerKeepsOrder DEF ClientsInv
<1>2. CASE InWatch(W!Next)
 <2>1. turn = "watch" /\ turn' = "watch" /\ W!Next  BY <1>2 DEF InWatch
 <2>2. QED BY <2>1, WatchStep DEF ClientsInv
<1>3. CASE InRegistry(R!Next)
 <2>1. turn = "registry" /\ turn' = "registry" /\ R!Next  BY <1>3 DEF InRegistry
 <2>2. QED BY <2>1, RegistrarStep DEF ClientsInv
<1>4. CASE InChat(C!ChatNext)
 <2>1. turn = "chat" /\ turn' = "chat" /\ C!ChatNext  BY <1>4 DEF InChat
 <2>2. QED BY <2>1, ChatStep DEF ClientsInv
<1>5. QED BY <1>1, <1>2, <1>3, <1>4 DEF MCNext

LEMMA ClientsRest == ASSUME ClientsInv, UNCHANGED allVars PROVE ClientsInv'
<1>1. UNCHANGED <<turn, vars, watchVars, registryVars, chatVars>>  BY DEF allVars
<1>2. ASSUME turn = "broker" PROVE BrokerInv' /\ KeysTravel'
 <2>1. BrokerInv /\ KeysTravel /\ UNCHANGED vars  BY <1>1, <1>2 DEF ClientsInv
 <2>2. BrokerShape' /\ TypeOK'  BY <2>1 DEF vars, BrokerInv, BrokerShape, TypeOK, Pumped, engine, Key
 <2>3. TwoKinds' /\ NothingLeadsThere' /\ AwayShows'
   BY <2>1 DEF vars, BrokerInv, TwoKinds, NothingLeadsThere, AwayShows, Pumped, engine
 <2>4. KeysTravel'  BY <2>1 DEF vars, KeysTravel, Pumped, engine
 <2>5. QED BY <2>2, <2>3, <2>4 DEF BrokerInv
<1>3. ASSUME turn = "watch" PROVE WatchInv'
 <2>1. WatchInv /\ UNCHANGED watchVars  BY <1>1, <1>3 DEF ClientsInv
 <2>2. WatchShape'  BY <2>1 DEF watchVars, WatchInv, WatchShape, W!TypeOK
 <2>3. WatchForward'  BY <2>1 DEF watchVars, WatchInv, WatchForward, CacheForward, ChannelForward
 <2>4. QED BY <2>2, <2>3 DEF WatchInv
<1>4. ASSUME turn = "registry" PROVE RegistrarInv'
  BY <1>1, <1>4 DEF ClientsInv, registryVars, RegistrarInv, R!TypeOK, R!RunningTasksAreMapped, R!Alive
<1>5. ASSUME turn = "chat" PROVE ChatInv'  BY <1>1, <1>5, ChatRest DEF ClientsInv
<1>6. QED BY <1>1, <1>2, <1>3, <1>4, <1>5 DEF ClientsInv

LEMMA ClientsAlways == MCSpec => []ClientsInv
<1>1. ClientsInv /\ [MCNext]_allVars => ClientsInv'  BY ClientsStep, ClientsRest
<1>2. QED BY ClientsInitially, <1>1, PTL DEF MCSpec

(* A keepalive task that runs can be stopped through the registrar's map,  *)
(* unless its key was registered over it, however many services register,  *)
(* stop and fail; and the states of brokers and watches stay theirs        *)
(* (keepalive maps of rushwind-registry-..., register and deregister).     *)
THEOREM TasksStayReachable == MCSpec => []RunningTasksAreMapped
<1>1. ClientsInv => RunningTasksAreMapped
  BY DEF ClientsInv, BrokerInv, WatchInv, WatchShape, RegistrarInv, RunningTasksAreMapped
<1>2. QED BY ClientsAlways, <1>1, PTL

(* A stream whose body is cut at line ends is read back as the model sent  *)
(* it, up to and with its first finish reason or undecodable line: every   *)
(* event once and in order, all of them from one that ended.  What comes   *)
(* after is not judged, as chat_stream's comment has it end there and the  *)
(* code reads on.  And the i-th vector of an embedding is that of the i-th *)
(* text: for any script, any answer and any cuts (SseState::drain_lines,   *)
(* OpenAiClient::embed).                                                   *)
THEOREM StreamsAreReadBack == MCSpec => []StreamReadsBack
<1>1. ClientsInv => StreamReadsBack  BY ChatGives DEF ClientsInv, StreamReadsBack
<1>2. QED BY ClientsAlways, <1>1, PTL

(* next() of a watch never returns an older state than before; a handler   *)
(* whose unsubscribe() has returned is looked up for no further message,   *)
(* by the table or by a reader, and runs only with one it was looked up    *)
(* for earlier, which a call spawned outside the lock may still do; and a  *)
(* broker that disconnect() has left refuses to publish: for any number of *)
(* subscriptions, messages, connections, changes and failures.             *)
THEOREM NobodyOutOfTurn == MCSpec => NothingOutOfTurn
<1> DEFINE InTurn == /\ turn = "watch" => W!NeverBackwardsStep
                     /\ turn = "broker" => NothingAfterUnsubscribeStep /\ DisconnectedRefusesStep
<1>1. ClientsInv /\ [MCNext]_allVars => [InTurn]_allVars  BY ClientsStep
<1>2. QED BY ClientsAlways, <1>1, PTL DEF MCSpec, NothingOutOfTurn
=============================================================================
