------------------------------- MODULE MCWork -------------------------------
(***************************************************************************)
(* Instances of the background work for TLC: the task queue, a distributed *)
(* transaction, the cron server and the MQTT bridge. The four share no     *)
(* state in the code, so one run explores them one at a time: Part is the  *)
(* one that runs, the others are idle.                                     *)
(***************************************************************************)
EXTENDS TaskQueue, Sequences

CONSTANTS
    MaxBranches, BranchLimit, MaxFaults,                        \* of the transaction: see Dtm.tla
    Second, Half, Minutes, MaxLate, Jobs, MaxValue, Word,       \* of the cron server: see Cron.tla
    Filters, Topics, Channel, MaxLosses, MaxDelivers, Base, Cap \* of the bridge: see MqttBridge.tla

ASSUME DtmAssumption ==
    MaxBranches \in Nat /\ BranchLimit \in Nat /\ MaxFaults \in Nat

\* A timer is served before the first second of the next half minute is over,
\* and two field values do not overflow a field's word.
ASSUME CronAssumption ==
    /\ Second \in Nat \ {0} /\ Half \in Nat \ {0} /\ Minutes \in Nat \ {0} /\ MaxLate \in Nat
    /\ MaxLate + Second <= Half * Second
    /\ MaxValue \in Nat \ {0} /\ Word \in Nat /\ 2 * MaxValue < Word

\* Filters and topics are sequences of levels; a filter is well-formed, as the
\* broker wants it: nothing follows a "#".
ASSUME MqttAssumption ==
    /\ \A f \in Filters \cup Topics : f # <<>> /\ f \in Seq({f[k] : k \in DOMAIN f})
    /\ \A f \in Filters : \A k \in 1 .. Len(f) - 1 : f[k] # "#"
    /\ Channel \in Nat /\ Base \in Nat /\ Cap \in Nat /\ Base <= Cap

VARIABLES
    part,
    pattern, pc, next, busi, answer, server, registered, effect, faults,
    clock, cronPc, deadline, cronStop, spec, fired, flights, began,
    subs, mqttPc, queued, sent, link, connected, backoff, mqttStop,
    inbox, handled, left

dtmVars == <<pattern, pc, next, busi, answer, server, registered, effect, faults>>
cronVars == <<clock, cronPc, deadline, cronStop, spec, fired, flights, began>>
mqttVars == <<subs, mqttPc, queued, sent, link, connected, backoff, mqttStop,
              inbox, handled, left>>

MCFilters == {<<"a", "b">>, <<"a", "#">>, <<"+", "b">>, <<"$", "+">>, <<"#">>}
MCTopics == {<<"a">>, <<"a", "b">>, <<"$", "b">>, <<"a", "b", "c">>}

D == INSTANCE Dtm
C == INSTANCE Cron WITH pc <- cronPc, stop <- cronStop
B == INSTANCE MqttBridge WITH pc <- mqttPc, stop <- mqttStop

WorkInit ==
    /\ part \in {"queue", "dtm", "cron", "mqtt"}
    /\ IF part = "queue" THEN Init ELSE Idle
    /\ IF part = "dtm" THEN D!Init ELSE D!Idle
    /\ IF part = "cron" THEN C!Init ELSE C!Idle
    /\ IF part = "mqtt" THEN B!Init ELSE B!Idle

WorkNext ==
    /\ UNCHANGED part
    /\ \/ part = "queue" /\ Next /\ UNCHANGED <<dtmVars, cronVars, mqttVars>>
       \/ part = "dtm" /\ D!Next /\ UNCHANGED <<vars, cronVars, mqttVars>>
       \/ part = "cron" /\ C!Next /\ UNCHANGED <<vars, dtmVars, mqttVars>>
       \/ part = "mqtt" /\ B!Next /\ UNCHANGED <<vars, dtmVars, cronVars>>

WorkVars == <<part, vars, dtmVars, cronVars, mqttVars>>

WorkSpec == WorkInit /\ [][WorkNext]_WorkVars
                /\ Fairness /\ C!Fairness /\ B!Fairness

-----------------------------------------------------------------------------
\* No row is handed out twice, and a task runs once per attempt of its budget, as
\* far as its lock did not lapse and no administrator moved it (TaskQueue.tla).
ClaimsHold == TypeOK /\ ClaimedOnce /\ AttemptsBounded

\* dtm: what an initiator leaves behind is confirmed or undone as a whole, and
\* its caller was told nothing else (Dtm.tla: do_and_submit, the two globals).
TransactionsWhole == D!TypeOK /\ D!AllOrNothing /\ D!MessageFollowsBusiness /\ D!ToldAsDone

\* cron: every whole minute fires its matching jobs, if its timers are not too
\* late, and never twice, and when start has returned none of its handlers runs
\* (Cron.tla: start).  mqtt: a delivery reaches the handler of the first
\* subscription it belongs to (MqttBridge.tla: topic_matches and the dispatch in
\* start).  An atom of a spec allows what cron means by it.
HandledOnceByItsOwn ==
    /\ part = "cron" /\ cronPc = "new" => C!ParseIsCron
    /\ C!TypeOK /\ C!EveryMinuteFires /\ C!OncePerMinute /\ C!OverIsQuiet
    /\ B!TypeOK /\ B!MatchesAsStandard /\ B!HandledByItsOwn

\* A pushed task is finished in the end and stays so; a stop signal ends the cron
\* server and a bridge, unless a handler either awaits never returns; a bridge that is not stopped has its subscriptions at the broker again.
WorkEnds ==
    /\ FinishedIsFinal /\ EndsInTheEnd
    /\ []<>(B!Settles(mqttStop) /\ (cronStop => cronPc = "over" \/ flights # {}))
=============================================================================
