---- MODULE Broker ----
(***************************************************************************)
(* The broker contract (rushwind-broker) over its seven engines: one       *)
(* Broker object, subscriptions to one topic, publishes by this process    *)
(* and by others, and connections that break.                              *)
(*                                                                         *)
(* mqtt and stomp multiplex everything over one connection that a pump     *)
(* task owns, a new pump for every connect(); nats does the same inside    *)
(* its client library.  kafka, rabbitmq, pulsar and redis give every       *)
(* subscription a reader task with a stream of its own.  Payloads, headers *)
(* and keys are left out: a message is its number.                         *)
(***************************************************************************)
EXTENDS Naturals, Sequences, SequencesExt, FiniteSets, FiniteSetsExt

CONSTANTS
    Subs,         \* subscribe() calls
    Msgs,         \* messages
    MaxConnects,  \* bound: connect() calls
    Instances     \* what to check: an engine, the subscribe() calls made with it,
                  \* the messages published, and a bound on the upsets: breaks, disconnect() calls,
                  \* repeated connect() calls and frames dropped half read

AllEngines == {"mqtt", "stomp", "nats", "kafka", "rabbitmq", "pulsar", "redis"}

ASSUME BrokerAssumption ==
    /\ MaxConnects \in Nat \ {0}
    /\ IsFiniteSet(Subs)
    /\ Instances \subseteq [engine : AllEngines, subs : SUBSET Subs, msgs : SUBSET Msgs, upsets : Nat]

VARIABLES
    inst,        \* the instance: fixed
    gen,         \* the live pump generation: connect() calls so far
    current,     \* the generation whose client or frame sender is stored, 0: none
    connected,   \* the shared flag
    pump,        \* generation -> its pump, or the client library's connection
    armed,       \* generation -> keys subscribed at the server
    queue,       \* generation -> frames on their way to the server
    inbox,       \* generation -> deliveries on their way here: <<key, message>>
    table,       \* key -> the subscription whose handler it maps to
    reader,      \* subscription -> its reader task
    handle,      \* subscription -> its Subscriber handle
    msg,         \* message -> how its publish went
    handed,      \* subscription -> messages its handler was looked up for
    seen,        \* subscription -> messages its handler has run with
    log,         \* kafka: the messages of the topic
    away,        \* disconnect() has returned and connect() has not been called since
    upsets       \* breaks, disconnect() and repeated connect() calls, half-read frames so far

engine == inst.engine

vars == <<inst, gen, current, connected, pump, armed, queue, inbox, table, reader,
          handle, msg, handed, seen, log, away, upsets>>

Gens   == 1..MaxConnects
Pumped == engine \in {"mqtt", "stomp"}
None   == "none"
Keys   == Subs \cup {"filter", "rest"}

\* mqtt keeps one handler per topic filter, the others one per subscription; what
\* is left of a half-read frame is no one's.
Key(s) == IF engine = "mqtt" THEN "filter" ELSE s

New == [state |-> "new", via |-> 0, aimed |-> {}]

Init ==
    /\ inst \in Instances
    /\ gen = IF Pumped THEN 0 ELSE 1
    /\ current = IF Pumped THEN 0 ELSE 1
    /\ connected = (engine \notin {"mqtt", "stomp", "kafka"})
    /\ pump = [g \in Gens |-> IF Pumped \/ g > 1 THEN "none" ELSE "live"]
    /\ armed = [g \in Gens |-> {}]
    /\ queue = [g \in Gens |-> <<>>]
    /\ inbox = [g \in Gens |-> <<>>]
    /\ table = [k \in Keys |-> None]
    /\ reader = [s \in Subs |-> "none"]
    /\ handle = [s \in Subs |-> "none"]
    /\ msg = [m \in Msgs |-> New]
    /\ handed = [s \in Subs |-> {}]
    /\ seen = [s \in Subs |-> {}]
    /\ log = <<>>
    /\ away = FALSE
    /\ upsets = 0

\* The server has the subscription, or its SUBSCRIBE is on the way; not both in
\* stomp, where the second one may end the connection.
Armed(s) == \E g \in Gens : Key(s) \in armed[g]
Asking(s) == \E g \in Gens : <<"sub", Key(s)>> \in Range(queue[g])
Asked(s)  == IF engine = "stomp" THEN Armed(s) # Asking(s) ELSE Armed(s) \/ Asking(s)

(***************************************************************************)
(* The server (external).                                                  *)
(***************************************************************************)
Deliveries(g, m) == SetToSeq({<<k, m>> : k \in armed[g]})

\* Everyone armed gets the message; pulsar's subscription, shared by all and
\* kept once made, gives it to one of its readers.
FanOut(m) ==
    inbox' = [g \in Gens |-> inbox[g] \o
                 IF engine # "pulsar" THEN Deliveries(g, m)
                 ELSE IF g = 1 /\ \E s \in Subs : handle[s] # "none" THEN <<<<"shared", m>>>> ELSE <<>>]

Stored(m) == log' = IF engine = "kafka" THEN Append(log, m) ELSE log

\* The next frame of a connection.  A SUBSCRIBE whose id is taken may be answered
\* by closing the connection, as a DISCONNECT is; it breaks for all of them.
ServerTakes(g) ==
    /\ pump[g] = "live" /\ queue[g] # <<>>
    /\ queue' = [queue EXCEPT ![g] = Tail(@)]
    /\ LET f == Head(queue[g])
       IN  \/ /\ f[1] = "sub"
              /\ armed' = [armed EXCEPT ![g] = @ \cup {f[2]}]
              /\ UNCHANGED <<inbox, log, pump>>
           \/ /\ f[1] = "unsub"
              /\ armed' = [armed EXCEPT ![g] = @ \ {f[2]}]
              /\ UNCHANGED <<inbox, log, pump>>
           \/ /\ f[1] = "pub"
              /\ FanOut(f[2]) /\ Stored(f[2])
              /\ UNCHANGED <<armed, pump>>
           \/ /\ f[1] = "close" \/ (f[1] = "sub" /\ engine = "stomp" /\ f[2] \in armed[g])
              /\ pump' = [pump EXCEPT ![g] = "broken"]
              /\ armed' = [armed EXCEPT ![g] = {}]
              /\ inbox' = [inbox EXCEPT ![g] = <<>>]
              /\ UNCHANGED log
    /\ upsets' = IF Head(queue[g])[1] = "sub" /\ pump'[g] # "live" THEN upsets + 1 ELSE upsets
    /\ UNCHANGED <<inst, gen, current, connected, table, reader, handle, msg, handed, seen, away>>

\* Another process publishes.
Foreign(m) ==
    /\ msg[m].state = "new"
    /\ msg' = [msg EXCEPT ![m] = [New EXCEPT !.state = "foreign",
                                             !.aimed = {s \in Subs : handle[s] = "held" /\ Asked(s)}]]
    /\ FanOut(m) /\ Stored(m)
    /\ UNCHANGED <<inst, gen, current, connected, pump, armed, queue, table, reader, handle, handed, seen, away,
                   upsets>>

\* A connection breaks: what was on its way here is gone, and so are the
\* subscriptions; kafka keeps the group's offsets, pulsar the subscription.
Break(g) ==
    /\ pump[g] = "live" /\ upsets < inst.upsets
    /\ upsets' = upsets + 1
    /\ pump' = [pump EXCEPT ![g] = IF engine \in {"redis", "kafka", "pulsar"} THEN @ ELSE "broken"]
    /\ armed' = [armed EXCEPT ![g] = IF engine = "pulsar" THEN @ ELSE {}]
    /\ inbox' = [inbox EXCEPT ![g] = IF engine \in {"kafka", "pulsar"} THEN @ ELSE <<>>]
    /\ queue' = [queue EXCEPT ![g] = IF engine = "kafka" THEN <<>> ELSE @]
    /\ reader' = [s \in Subs |-> IF reader[s] # "run" \/ engine = "nats" THEN reader[s]
                                 ELSE IF engine = "kafka" THEN "pause" ELSE "ending"]
    /\ UNCHANGED <<inst, gen, current, connected, table, handle, msg, handed, seen, log, away>>

(***************************************************************************)
(* connect() and disconnect().                                             *)
(***************************************************************************)
\* mqtt and stomp: retire the old pump and start a new one.  The wait for the
\* flag that follows changes nothing.
MqttConnect ==
    /\ engine = "mqtt" /\ gen < MaxConnects
    /\ gen' = gen + 1 /\ current' = gen + 1
    /\ pump' = [pump EXCEPT ![gen + 1] = "dial"]
    /\ away' = FALSE
    /\ UNCHANGED connected
StompConnect ==
    /\ engine = "stomp" /\ gen < MaxConnects
    /\ gen' = gen + 1 /\ current' = gen + 1
    /\ pump' = [pump EXCEPT ![gen + 1] = "dial"]
    /\ away' = FALSE
    /\ UNCHANGED connected
\* kafka fetches the metadata; the others are live from construction.
KafkaConnect ==
    /\ engine = "kafka" /\ ~connected
    /\ connected' = TRUE /\ away' = FALSE
    /\ UNCHANGED <<gen, current, pump>>

Connect ==
    /\ MqttConnect \/ StompConnect \/ KafkaConnect
    /\ gen > 0 /\ Pumped => upsets < inst.upsets
    /\ upsets' = IF gen > 0 /\ Pumped THEN upsets + 1 ELSE upsets
    /\ UNCHANGED <<inst, armed, queue, inbox, table, reader, handle, msg, handed, seen, log>>

\* mqtt keeps its client and its pump; stomp drops the frame sender, which ends
\* the pump; kafka clears its producers, rabbitmq and pulsar close.
MqttDisconnect ==
    /\ engine = "mqtt" /\ current # 0
    /\ queue' = [queue EXCEPT ![current] = Append(@, <<"close">>)]
    /\ connected' = FALSE
    /\ UNCHANGED <<current, pump, armed, inbox, reader>>
StompDisconnect ==
    /\ engine = "stomp"
    /\ current' = 0 /\ connected' = FALSE
    /\ UNCHANGED <<pump, armed, queue, inbox, reader>>
KafkaDisconnect ==
    /\ engine = "kafka"
    /\ connected' = FALSE
    /\ UNCHANGED <<current, pump, armed, queue, inbox, reader>>
PulsarDisconnect ==
    /\ engine = "pulsar"
    /\ connected' = FALSE
    /\ UNCHANGED <<current, pump, armed, queue, inbox, reader>>
RabbitDisconnect ==
    /\ engine = "rabbitmq" /\ pump[1] = "live"
    /\ pump' = [pump EXCEPT ![1] = "broken"]
    /\ armed' = [armed EXCEPT ![1] = {}] /\ inbox' = [inbox EXCEPT ![1] = <<>>]
    /\ reader' = [s \in Subs |-> IF reader[s] = "run" THEN "ending" ELSE reader[s]]
    /\ UNCHANGED <<current, connected, queue>>

Disconnect ==
    /\ ~away
    /\ \/ MqttDisconnect \/ StompDisconnect \/ KafkaDisconnect
       \/ PulsarDisconnect \/ RabbitDisconnect
    /\ away' = TRUE
    /\ upsets < inst.upsets /\ upsets' = upsets + 1
    /\ UNCHANGED <<inst, gen, table, handle, msg, handed, seen, log>>

(***************************************************************************)
(* The pump of mqtt and stomp.                                             *)
(***************************************************************************)
Pump(g) == Pumped /\ pump[g] # "none"

\* Handshake done: every subscription is sent again and the flag goes up.
\* stomp writes the frames itself; mqtt queues them behind what the client
\* still holds, one await after another, and raises the flag last.
ToRearm == {k \in Keys : table[k] # None}

StompLive(g) ==
    /\ engine = "stomp" /\ pump[g] = "dial"
    /\ pump' = [pump EXCEPT ![g] = "live"]
    /\ connected' = TRUE
    /\ armed' = [armed EXCEPT ![g] = ToRearm]
    /\ UNCHANGED queue
MqttConnAck(g) ==
    /\ engine = "mqtt" /\ pump[g] = "dial"
    /\ pump' = [pump EXCEPT ![g] = "rearm"]
    /\ queue' = [queue EXCEPT ![g] = @ \o SetToSeq({<<"sub", k>> : k \in ToRearm})]
    /\ UNCHANGED <<connected, armed>>
MqttRearmed(g) ==
    /\ engine = "mqtt" /\ pump[g] = "rearm"
    /\ pump' = [pump EXCEPT ![g] = "live"]
    /\ connected' = TRUE
    /\ UNCHANGED <<queue, armed>>

Live(g) ==
    /\ StompLive(g) \/ MqttConnAck(g) \/ MqttRearmed(g)
    /\ UNCHANGED <<inst, gen, current, inbox, table, reader, handle, msg, handed, seen, log, away, upsets>>

\* The broken connection is noticed.  stomp has lost the frame it was writing.
Notices(g) ==
    /\ Pump(g) /\ pump[g] = "broken"
    /\ pump' = [pump EXCEPT ![g] = "pause"]
    /\ connected' = FALSE
    /\ \/ UNCHANGED queue
       \/ /\ engine = "stomp" /\ queue[g] # <<>>
          /\ queue' = [queue EXCEPT ![g] = Tail(@)]
    /\ UNCHANGED <<inst, gen, current, armed, inbox, table, reader, handle, msg, handed, seen, log,
                   away, upsets>>

\* After the backoff: a superseded pump is gone, the others dial.
Again(g) ==
    /\ Pump(g) /\ pump[g] = "pause"
    /\ pump' = [pump EXCEPT ![g] = IF g = gen THEN "dial" ELSE "gone"]
    /\ UNCHANGED <<inst, gen, current, connected, armed, queue, inbox, table, reader, handle, msg,
                   handed, seen, log, away, upsets>>

\* A superseded pump that is live is notified or sees the generation; stomp's
\* also ends when its frame sender is dropped.  Only mqtt can stop in a dial.
Superseded(g) ==
    /\ Pump(g)
    /\ \/ g # gen /\ pump[g] \in {"live"} \cup (IF engine = "mqtt" THEN {"dial"} ELSE {})
       \/ engine = "stomp" /\ pump[g] = "live" /\ current # g /\ queue[g] = <<>>
    /\ pump' = [pump EXCEPT ![g] = "gone"]
    /\ armed' = [armed EXCEPT ![g] = {}] /\ inbox' = [inbox EXCEPT ![g] = <<>>]
    /\ queue' = [queue EXCEPT ![g] = <<>>]
    /\ UNCHANGED <<inst, gen, current, connected, table, reader, handle, msg, handed, seen, log, away, upsets>>

\* A delivery's key is looked up in the table, which is locked for the lookup
\* alone: the handler's call is spawned afterwards.  The rest of a half-read frame
\* and the frame it runs into are read as one, and that is no MESSAGE.
Route(g) ==
    LET frames == IF Head(inbox[g])[1] = "rest" THEN 2 ELSE 1
        s == IF frames = 2 THEN None ELSE table[Head(inbox[g])[1]]
    IN  /\ Pump(g) /\ pump[g] = "live" /\ inbox[g] # <<>> /\ frames <= Len(inbox[g])
        /\ inbox' = [inbox EXCEPT ![g] = SubSeq(@, frames + 1, Len(@))]
        /\ handed' = IF s = None THEN handed ELSE [handed EXCEPT ![s] = @ \cup {Head(inbox[g])[2]}]
        /\ UNCHANGED <<inst, gen, current, connected, pump, armed, queue, table, reader, handle, msg, seen,
                       log, away, upsets>>

\* A frame to send, or the notice to stop, drops stomp's reader in the middle of a
\* frame.  The rest of its head is read as a frame that is no MESSAGE; the rest of
\* its body waits for the next frame (Route).
HalfRead(g) ==
    /\ engine = "stomp" /\ pump[g] = "live" /\ queue[g] # <<>>
    /\ inbox[g] # <<>> /\ Head(inbox[g])[1] # "rest"
    /\ upsets < inst.upsets /\ upsets' = upsets + 1
    /\ \/ inbox' = [inbox EXCEPT ![g] = Tail(@)]
       \/ inbox' = [inbox EXCEPT ![g][1] = <<"rest", @[2]>>]
    /\ UNCHANGED <<inst, gen, current, connected, pump, armed, queue, table, reader, handle, msg, handed, seen,
                   log, away>>

\* The nats client library: reconnects, and subscribes its readers again.
NatsReconnects ==
    /\ engine = "nats" /\ pump[1] = "broken"
    /\ pump' = [pump EXCEPT ![1] = "live"]
    /\ armed' = [armed EXCEPT ![1] = {s \in Subs : handle[s] = "opening" \/ reader[s] = "run"}]
    /\ UNCHANGED <<inst, gen, current, connected, queue, inbox, table, reader, handle, msg, handed, seen, log, away,
                   upsets>>

(***************************************************************************)
(* publish().                                                              *)
(***************************************************************************)
Begin(m, g) ==
    msg' = [msg EXCEPT ![m] = [state |-> "begun", via |-> g, aimed |-> {s \in Subs : handle[s] = "held" /\ Asked(s)}]]
Refused(m) == msg' = [msg EXCEPT ![m] = [New EXCEPT !.state = "refused"]]

\* The checks: a client or frame sender, then the flag.
MqttPublish(m)   == engine = "mqtt"  /\ IF current # 0 /\ connected THEN Begin(m, current) ELSE Refused(m)
StompPublish(m)  == engine = "stomp" /\ IF current # 0 /\ connected THEN Begin(m, current) ELSE Refused(m)
KafkaPublish(m)  == engine = "kafka"  /\ IF connected THEN Begin(m, 1) ELSE Refused(m)
PulsarPublish(m) == engine = "pulsar" /\ IF connected THEN Begin(m, 1) ELSE Refused(m)
RabbitPublish(m) == engine = "rabbitmq" /\ IF pump[1] = "live" THEN Begin(m, 1) ELSE Refused(m)
RedisPublish(m)  == engine = "redis" /\ Begin(m, 1)
NatsPublish(m)   == engine = "nats"  /\ Begin(m, 1)

Publish(m) ==
    /\ msg[m].state = "new"
    /\ \/ MqttPublish(m) \/ StompPublish(m) \/ KafkaPublish(m) \/ PulsarPublish(m)
       \/ RabbitPublish(m) \/ RedisPublish(m) \/ NatsPublish(m)
    /\ UNCHANGED <<inst, gen, current, connected, pump, armed, queue, inbox, table, reader, handle,
                   handed, seen, log, away, upsets>>

\* The send.  mqtt, stomp, nats and kafka queue it for the task that owns the
\* connection; the others wait for the server, and fail when it is not there.
Send(m) ==
    LET g == msg[m].via
        sent == msg' = [msg EXCEPT ![m].state = "ok", ![m].via = 0]
    IN  /\ msg[m].state = "begun"
        /\ \/ /\ engine \in {"mqtt", "stomp", "nats", "kafka"}
              /\ pump[g] # "gone"
              /\ queue' = [queue EXCEPT ![g] = Append(@, <<"pub", m>>)]
              /\ sent
              /\ UNCHANGED <<inbox, log>>
           \/ /\ engine \in {"rabbitmq", "pulsar", "redis"} /\ pump[1] = "live"
              /\ FanOut(m)
              /\ sent
              /\ UNCHANGED <<queue, log>>
           \/ /\ pump[g] \in {"gone", "broken"}
              /\ engine \in {"mqtt", "stomp", "rabbitmq"}
              /\ Refused(m)
              /\ UNCHANGED <<queue, inbox, log>>
        /\ UNCHANGED <<inst, gen, current, connected, pump, armed, table, reader, handle, handed, seen, away, upsets>>

(***************************************************************************)
(* subscribe().                                                            *)
(***************************************************************************)
\* mqtt enters the handler, and sends the SUBSCRIBE if it is connected.
MqttSubscribe(s) ==
    /\ engine = "mqtt"
    /\ \/ /\ handle[s] = "none"
          /\ table' = [table EXCEPT !["filter"] = s]
          /\ handle' = [handle EXCEPT ![s] = "opening"]
          /\ UNCHANGED queue
       \/ /\ handle[s] = "opening"
          /\ handle' = [handle EXCEPT ![s] = "held"]
          /\ queue' = IF current # 0 /\ connected
                      THEN [queue EXCEPT ![current] = Append(@, <<"sub", "filter">>)] ELSE queue
          /\ UNCHANGED table
    /\ UNCHANGED <<armed, inbox, reader>>

\* stomp enters the handler, and sends the frame if there is a sender.
StompSubscribe(s) ==
    /\ engine = "stomp"
    /\ \/ /\ handle[s] = "none"
          /\ table' = [table EXCEPT ![s] = s]
          /\ handle' = [handle EXCEPT ![s] = "opening"]
          /\ UNCHANGED queue
       \/ /\ handle[s] = "opening"
          /\ handle' = [handle EXCEPT ![s] = "held"]
          /\ queue' = IF current # 0
                      THEN [queue EXCEPT ![current] = Append(@, <<"sub", s>>)] ELSE queue
          /\ UNCHANGED table
    /\ UNCHANGED <<armed, inbox, reader>>

\* Mutant: no flush before subscribe() returns.
NatsSubscribeNoFlush(s) ==
    /\ engine = "nats" /\ handle[s] = "none"
    /\ queue' = [queue EXCEPT ![1] = Append(@, <<"sub", s>>)]
    /\ handle' = [handle EXCEPT ![s] = "held"]
    /\ reader' = [reader EXCEPT ![s] = "run"]
    /\ UNCHANGED <<armed, inbox, table>>
\* nats sends SUB, flushes, then starts the reader.
NatsSubscribe(s) ==
    /\ engine = "nats"
    /\ \/ /\ handle[s] = "none"
          /\ queue' = [queue EXCEPT ![1] = Append(@, <<"sub", s>>)]
          /\ handle' = [handle EXCEPT ![s] = "opening"]
          /\ UNCHANGED reader
       \/ /\ handle[s] = "opening" /\ pump[1] = "live" /\ <<"sub", s>> \notin Range(queue[1])
          /\ handle' = [handle EXCEPT ![s] = "held"]
          /\ reader' = [reader EXCEPT ![s] = "run"]
          /\ UNCHANGED queue
    /\ UNCHANGED <<armed, inbox, table>>

\* The others are answered by the server before they start the reader; a kafka
\* group starts at the head of the log.
Starts(s) ==
    /\ handle[s] = "none"
    /\ handle' = [handle EXCEPT ![s] = "held"]
    /\ reader' = [reader EXCEPT ![s] = "run"]
    /\ armed' = [armed EXCEPT ![1] = @ \cup {s}]
    /\ UNCHANGED <<queue, table>>
KafkaSubscribe(s) ==
    /\ engine = "kafka" /\ connected
    /\ Starts(s)
    /\ inbox' = [inbox EXCEPT ![1] = @ \o [n \in DOMAIN log |-> <<s, log[n]>>]]
RabbitSubscribe(s) == engine = "rabbitmq" /\ pump[1] = "live" /\ Starts(s) /\ UNCHANGED inbox
PulsarSubscribe(s) == engine = "pulsar" /\ connected /\ Starts(s) /\ UNCHANGED inbox
RedisSubscribe(s)  == engine = "redis" /\ Starts(s) /\ UNCHANGED inbox

Subscribe(s) ==
    /\ \/ MqttSubscribe(s) \/ StompSubscribe(s) \/ NatsSubscribe(s) \/ KafkaSubscribe(s)
       \/ RabbitSubscribe(s) \/ PulsarSubscribe(s) \/ RedisSubscribe(s)
    /\ UNCHANGED <<inst, gen, current, connected, pump, msg, handed, seen, log, away, upsets>>

(***************************************************************************)
(* The reader tasks.                                                       *)
(***************************************************************************)
Mine(s) == SelectSeq(inbox[1], LAMBDA d : d[1] \in {s, "shared"})

\* One delivery dispatched; the select may still take it when the token is
\* cancelled already.
Dispatch(s) ==
    /\ reader[s] \in {"run", "cancelled"} /\ Mine(s) # <<>>
    /\ LET d == Mine(s)[1]
       IN  /\ inbox' = [inbox EXCEPT ![1] = RemoveFirst(@, d)]
           /\ handed' = [handed EXCEPT ![s] = @ \cup {d[2]}]
    /\ UNCHANGED <<inst, gen, current, connected, pump, armed, queue, table, reader, handle, msg, seen, log,
                   away, upsets>>

\* The spawned call runs, in a task of its own.
HandlerRuns(s) ==
    /\ \E m \in handed[s] \ seen[s] : seen' = [seen EXCEPT ![s] = @ \cup {m}]
    /\ UNCHANGED <<inst, gen, current, connected, pump, armed, queue, inbox, table, reader, handle, msg,
                   handed, log, away, upsets>>

\* Cancelled, or its stream ended: the task returns and its subscription goes.
ReaderEnds(s) ==
    /\ reader[s] \in {"cancelled", "ending"}
    /\ reader' = [reader EXCEPT ![s] = "ended"]
    /\ armed' = [armed EXCEPT ![1] = @ \ {s}]
    /\ inbox' = [inbox EXCEPT ![1] = SelectSeq(@, LAMBDA d : d[1] # s)]
    /\ UNCHANGED <<inst, gen, current, connected, pump, queue, table, handle, msg, handed, seen, log,
                   away, upsets>>

\* kafka's reader joins its group again after the backoff.
KafkaRejoins(s) ==
    /\ reader[s] = "pause"
    /\ reader' = [reader EXCEPT ![s] = "run"]
    /\ armed' = [armed EXCEPT ![1] = @ \cup {s}]
    /\ LET got == {d[2] : d \in Range(Mine(s))} \cup handed[s]
       IN  inbox' = [inbox EXCEPT ![1] =
                        @ \o [n \in 1..Len(SelectSeq(log, LAMBDA m : m \notin got)) |->
                                 <<s, SelectSeq(log, LAMBDA m : m \notin got)[n]>>]]
    /\ UNCHANGED <<inst, gen, current, connected, pump, queue, table, handle, msg, handed, seen, log,
                   away, upsets>>

(***************************************************************************)
(* The handle: unsubscribe() and drop.                                     *)
(***************************************************************************)
\* mqtt and stomp take the handler out and send the frame if they can.
MqttUnsubscribe(s) ==
    /\ engine = "mqtt" /\ handle[s] = "held"
    /\ table' = [table EXCEPT !["filter"] = None]
    /\ queue' = IF current # 0 /\ connected
                THEN [queue EXCEPT ![current] = Append(@, <<"unsub", "filter">>)] ELSE queue
    /\ handle' = [handle EXCEPT ![s] = "unsubscribed"]
    /\ UNCHANGED reader
StompUnsubscribe(s) ==
    /\ engine = "stomp" /\ handle[s] = "held"
    /\ table' = [table EXCEPT ![s] = None]
    /\ queue' = IF current # 0
                THEN [queue EXCEPT ![current] = Append(@, <<"unsub", s>>)] ELSE queue
    /\ handle' = [handle EXCEPT ![s] = "unsubscribed"]
    /\ UNCHANGED reader

\* The others cancel the reader and wait for it to end.
Cancel(s) == reader' = [reader EXCEPT ![s] = IF @ \in {"run", "pause"} THEN "cancelled" ELSE @]

\* Mutant: unsubscribe() does not wait for the task.
AwaitReaderNot(s) ==
    /\ ~Pumped /\ handle[s] = "held"
    /\ Cancel(s)
    /\ handle' = [handle EXCEPT ![s] = "unsubscribed"]
    /\ UNCHANGED <<table, queue>>
AwaitReader(s) ==
    /\ ~Pumped
    /\ \/ /\ handle[s] = "held"
          /\ Cancel(s)
          /\ handle' = [handle EXCEPT ![s] = "closing"]
       \/ /\ handle[s] = "closing" /\ reader[s] = "ended"
          /\ handle' = [handle EXCEPT ![s] = "unsubscribed"]
          /\ UNCHANGED reader
    /\ UNCHANGED <<table, queue>>

Unsubscribe(s) ==
    /\ MqttUnsubscribe(s) \/ StompUnsubscribe(s) \/ AwaitReader(s)
    /\ UNCHANGED <<inst, gen, current, connected, pump, armed, inbox, msg, handed, seen, log, away, upsets>>

\* A dropped handle: the reader is cancelled and aborted; mqtt takes the handler
\* out unless the table is locked that moment; stomp does nothing.
Drop(s) ==
    /\ handle[s] = "held"
    /\ handle' = [handle EXCEPT ![s] = "dropped"]
    /\ Cancel(s)
    /\ \/ UNCHANGED table
       \/ engine = "mqtt" /\ table' = [table EXCEPT !["filter"] = None]
    /\ UNCHANGED <<inst, gen, current, connected, pump, armed, queue, inbox, msg, handed, seen, log,
                   away, upsets>>

Next ==
    \/ Connect \/ Disconnect \/ NatsReconnects
    \/ \E g \in Gens : \/ ServerTakes(g) \/ Break(g) \/ Live(g) \/ Notices(g)
                       \/ Again(g) \/ Superseded(g) \/ Route(g) \/ HalfRead(g)
    \/ \E m \in inst.msgs : Foreign(m) \/ Publish(m) \/ Send(m)
    \/ \E s \in inst.subs :
                       \/ Subscribe(s) \/ Dispatch(s) \/ HandlerRuns(s) \/ ReaderEnds(s)
                       \/ KafkaRejoins(s) \/ Unsubscribe(s) \/ Drop(s)

\* Tasks, servers and calls that were made go on, and have a bounded number of
\* steps to go.
Opening(s) == handle[s] \in {"opening", "closing"} /\ (Subscribe(s) \/ Unsubscribe(s))
GoesOn ==
    \/ NatsReconnects
    \/ \E g \in Gens : ServerTakes(g) \/ Live(g) \/ Notices(g) \/ Again(g) \/ Superseded(g) \/ Route(g)
    \/ \E m \in Msgs : Send(m)
    \/ \E s \in Subs : Opening(s) \/ Dispatch(s) \/ HandlerRuns(s) \/ ReaderEnds(s) \/ KafkaRejoins(s)

Spec == Init /\ [][Next]_vars /\ WF_vars(GoesOn)

(***************************************************************************)
(* Properties.                                                             *)
(***************************************************************************)
\* States stay in their ranges, and a table entry belongs to its key.
TypeOK ==
    /\ gen \in 0..MaxConnects /\ current \in {0, gen}
    /\ \A g \in Gens : pump[g] \in {"none", "dial", "rearm", "live", "broken", "pause", "gone"}
    /\ \A k \in Keys : table[k] # None => Key(table[k]) = k
    /\ \A s \in Subs : reader[s] \in {"none", "run", "pause", "cancelled", "ending", "ended"}
    /\ ~Pumped => \A s \in Subs : s \in armed[1] => reader[s] # "ended" \/ engine = "nats"

\* Once unsubscribe() has returned, its handler is looked up for no further message.
\* What it was looked up for before may still run: no unsubscribe() waits for that.
NothingAfterUnsubscribeStep ==
    \A s \in Subs : handle[s] = "unsubscribed" => handed'[s] = handed[s] /\ seen'[s] \subseteq handed[s]

\* A publish begun while the broker is disconnected is refused.  (mqtt's pump
\* connects again by itself; redis and nats have nothing to disconnect.)
DisconnectedRefusesStep ==
    \A m \in Msgs : (msg[m].state = "new" /\ msg'[m].state = "begun" /\ away) => engine = "mqtt"

\* While no connection breaks or is closed by the server for a SUBSCRIBE sent twice,
\* and stomp drops no frame half read (HalfRead), a message
\* published when subscribe() had returned reaches that handler: always when this
\* process publishes it, and also from elsewhere where subscribe() waits for the
\* server.  pulsar gives it to one of them.  In mqtt the handle must be the one its
\* table points to, and its SUBSCRIBE sent when the message was (see AllHeldAreBack).
Quiet == upsets = 0 /\ ~away /\ gen = 1
Due(m, s) ==
    /\ s \in msg[m].aimed /\ handle[s] = "held"
    /\ msg[m].state = "ok" \/ (msg[m].state = "foreign" /\ ~Pumped)
    /\ engine = "mqtt" => table["filter"] = s
AllSeen ==
    \A m \in Msgs, s \in Subs :
        Due(m, s) /\ Quiet =>
            m \in seen[s] \/ (engine = "pulsar" /\ \E t \in Subs : m \in seen[t])

\* Where the engine restores subscriptions, one whose handle is held is armed
\* again after every break, half-read frame and connect, unless disconnect() was called last.  mqtt
\* is left out: a subscribe() in the middle of the re-arming enters its filter too
\* late for it, and sends no SUBSCRIBE as the connection is not yet up.
AllHeldAreBack ==
    \A s \in Subs :
        engine \in {"stomp", "nats", "kafka"} /\ handle[s] = "held" /\ gen > 0 /\ ~away => Armed(s)

\* A handle that was given up stops its reader or loses its table entry for
\* good; dropping is only an attempt in mqtt, and nothing in stomp.
Released(s) == handle[s] = "unsubscribed" \/ (handle[s] = "dropped" /\ ~Pumped)
Served(s)   == reader[s] \in {"run", "pause", "cancelled"} \/ table[Key(s)] = s
AllReleasedAreGone == \A s \in Subs : Released(s) => ~Served(s)
====
