----------------------------- MODULE MqttBridge -----------------------------
(***************************************************************************)
(* The bridge from an external MQTT broker into handlers (crate            *)
(* rushwind-transport-mqtt): start() runs one client generation after      *)
(* another. A generation queues its subscribe requests on the client's     *)
(* bounded channel, then polls the event loop, which alone drains that     *)
(* channel, and awaits a handler per delivery; a connection error ends the *)
(* generation and backs off before the next one.                           *)
(*                                                                         *)
(* The client library's event loop and the broker are external: poll()     *)
(* connects, sends queued requests, yields deliveries, and fails when the  *)
(* connection is lost. A topic is the sequence of its levels.              *)
(***************************************************************************)
EXTENDS Naturals, Sequences

CONSTANTS
    Filters,      \* the filters an instance subscribes, in order, may be one of
    Topics,       \* the topics the broker's other clients publish
    Channel,      \* the client channel's length (16)
    MaxLosses,    \* bound: connections lost or refused
    MaxDelivers,  \* bound: publications
    Base, Cap     \* BACKOFF_BASE and BACKOFF_CAP, in units of the base

-----------------------------------------------------------------------------
(* Topic filters.                                                          *)

Wild == {"#", "+"}
Hidden(topic) == Head(topic) = "$"

\* The loop over the two level iterators, from level k on.
MatchFrom(filter, topic) ==
    LET m[k \in 1 .. Len(filter) + 1] ==
            IF k > Len(filter) THEN Len(topic) = Len(filter)
            ELSE \/ filter[k] = "#"
                 \/ /\ k <= Len(topic)
                    /\ filter[k] = "+" \/ filter[k] = topic[k]
                    /\ m[k + 1]
    IN m[1]

TopicMatches(filter, topic) ==
    /\ ~(Hidden(topic) /\ Head(filter) \in Wild)
    /\ MatchFrom(filter, topic)

\* What the standard says of a well-formed filter ("#" last, if anywhere): the
\* levels before "#" are a prefix of the topic's, "+" is any one level.
StandardMatch(filter, topic) ==
    LET n == Len(filter)
        open == n > 0 /\ filter[n] = "#"
        fixed == IF open THEN n - 1 ELSE n
    IN /\ IF open THEN Len(topic) >= fixed ELSE Len(topic) = fixed
       /\ \A k \in 1 .. fixed : filter[k] = "+" \/ filter[k] = topic[k]
       /\ ~(Hidden(topic) /\ filter[1] \in Wild)

-----------------------------------------------------------------------------
VARIABLES
    subs,       \* BridgeState: the subscriptions, <<filter, bound handler?>>
    pc,         \* "subscribing", "polling", "handling", "backoff", "over"
    queued,     \* this generation: subscriptions sent to the client channel
    sent,       \* those the event loop has sent to the broker
    link,       \* "down", "up": the connection, as the event loop has it
    connected,  \* the generation saw a ConnAck
    backoff,
    stop,
    inbox,      \* deliveries the broker has sent
    handled,    \* the delivery being handled, and by whom
    left        \* what is left of the bounds

vars == <<subs, pc, queued, sent, link, connected, backoff, stop,
          inbox, handled, left>>

Nobody == [by |-> 0, topic |-> <<>>]
DefaultHandler == 99

TypeOK ==
    /\ \A i \in DOMAIN subs : subs[i].filter \in Filters /\ subs[i].bound \in BOOLEAN
    /\ pc \in {"subscribing", "polling", "handling", "backoff", "over"}
    /\ sent <= queued /\ queued <= Len(subs) /\ queued - sent <= Channel
    /\ link \in {"down", "up"} /\ connected \in BOOLEAN /\ stop \in BOOLEAN
    /\ backoff \in Base .. Cap
    /\ link = "up" => connected /\ pc \in {"polling", "handling"}
    /\ pc = "handling" <=> handled # Nobody

\* build() refuses a subscription nobody handles; with a default handler, any
\* subscription may be without its own.
Init ==
    /\ \E f, g \in Filters, n \in 1 .. 2, b, c \in BOOLEAN :
         subs = SubSeq(<<[filter |-> f, bound |-> b], [filter |-> g, bound |-> c]>>, 1, n)
    /\ pc = "subscribing" /\ queued = 0 /\ sent = 0 /\ link = "down"
    /\ connected = FALSE /\ backoff = Base /\ stop = FALSE
    /\ inbox = <<>> /\ handled = Nobody
    /\ left = [losses |-> MaxLosses, delivers |-> MaxDelivers]

\* A bridge that has been stopped.
Idle ==
    /\ subs = <<>> /\ pc = "over" /\ queued = 0 /\ sent = 0 /\ link = "down"
    /\ connected = FALSE /\ backoff = Base /\ stop = TRUE
    /\ inbox = <<>> /\ handled = Nobody /\ left = [losses |-> 0, delivers |-> 0]

\* client.subscribe(..).await for each subscription: waits while the channel is
\* full, and neither the event loop nor the stop signal is looked at meanwhile.
Subscribe ==
    /\ pc = "subscribing"
    /\ IF queued < Len(subs)
       THEN queued - sent < Channel /\ queued' = queued + 1 /\ UNCHANGED pc
       ELSE pc' = "polling" /\ UNCHANGED queued
    /\ UNCHANGED <<subs, sent, link, connected, backoff, stop, inbox, handled, left>>

\* poll(): connects, and yields ConnAck.
ConnAck ==
    /\ pc = "polling" /\ link = "down"
    /\ link' = "up" /\ connected' = TRUE /\ backoff' = Base
    /\ UNCHANGED <<subs, pc, queued, sent, stop, inbox, handled, left>>

\* poll(): sends the next queued request; the broker subscribes.
SendRequest ==
    /\ pc = "polling" /\ link = "up" /\ sent < queued
    /\ sent' = sent + 1
    /\ UNCHANGED <<subs, pc, queued, link, connected, backoff, stop, inbox, handled, left>>

\* poll(): the connection is lost or refused; the client and what it had queued
\* go with the generation.
PollFails ==
    /\ pc = "polling" /\ left.losses > 0
    /\ left' = [left EXCEPT !.losses = @ - 1]
    /\ pc' = "backoff" /\ link' = "down" /\ queued' = 0 /\ sent' = 0 /\ inbox' = <<>>
    /\ backoff' = IF connected THEN backoff
                  ELSE IF backoff * 2 < Cap THEN backoff * 2 ELSE Cap
    /\ UNCHANGED <<subs, connected, stop, handled>>

BackoffOver ==
    /\ pc = "backoff"
    /\ pc' = "subscribing" /\ connected' = FALSE
    /\ UNCHANGED <<subs, queued, sent, link, backoff, stop, inbox, handled, left>>

\* Another client publishes: the broker delivers what a subscription matches.
Publish ==
    /\ link = "up" /\ left.delivers > 0
    /\ \E t \in Topics :
         /\ \E i \in 1 .. sent : StandardMatch(subs[i].filter, t)
         /\ inbox' = Append(inbox, t)
    /\ left' = [left EXCEPT !.delivers = @ - 1]
    /\ UNCHANGED <<subs, pc, queued, sent, link, connected, backoff, stop, handled>>

\* The first subscription whose filter matches: its handler, or the default.
Handler(t) ==
    IF \E i \in DOMAIN subs : TopicMatches(subs[i].filter, t)
    THEN LET i == CHOOSE i \in DOMAIN subs :
                     /\ TopicMatches(subs[i].filter, t)
                     /\ \A k \in 1 .. i - 1 : ~TopicMatches(subs[k].filter, t)
         IN IF subs[i].bound THEN i ELSE DefaultHandler
    ELSE DefaultHandler

\* poll(): a delivery; its handler is awaited outside the select.
Deliver ==
    /\ pc = "polling" /\ link = "up" /\ inbox # <<>>
    /\ pc' = "handling"
    /\ handled' = [by |-> Handler(Head(inbox)), topic |-> Head(inbox)]
    /\ inbox' = Tail(inbox)
    /\ UNCHANGED <<subs, queued, sent, link, connected, backoff, stop, left>>

HandlerReturns ==
    /\ pc = "handling"
    /\ pc' = "polling" /\ handled' = Nobody
    /\ UNCHANGED <<subs, queued, sent, link, connected, backoff, stop, inbox, left>>

StopSignal ==
    /\ ~stop /\ stop' = TRUE
    /\ UNCHANGED <<subs, pc, queued, sent, link, connected, backoff, inbox, handled, left>>

\* The two selects: while polling, and while backing off.
ObserveStop ==
    /\ stop /\ pc \in {"polling", "backoff"}
    /\ pc' = "over" /\ link' = "down"
    /\ UNCHANGED <<subs, queued, sent, connected, backoff, stop, inbox, handled, left>>

Next == \/ Subscribe \/ ConnAck \/ SendRequest \/ PollFails \/ BackoffOver
        \/ Publish \/ Deliver \/ HandlerReturns \/ StopSignal \/ ObserveStop

\* The start future is polled, the broker comes back; select! does not starve the
\* signal.  Nothing makes a handler return.
Fairness ==
    /\ WF_vars(Subscribe) /\ WF_vars(ConnAck) /\ WF_vars(SendRequest)
    /\ WF_vars(BackoffOver) /\ WF_vars(Deliver)
    /\ SF_vars(ObserveStop)

Spec == Init /\ [][Next]_vars /\ Fairness

-----------------------------------------------------------------------------
\* The matching loop decides as the standard does.
MatchesAsStandard ==
    \A f \in Filters, t \in Topics : TopicMatches(f, t) = StandardMatch(f, t)

\* A delivery is handled by the handler of a subscription it belongs to: never
\* by one bound to a filter the topic does not match, nor by the default while
\* the first filter it matches has a handler of its own.
HandledByItsOwn ==
    pc = "handling" =>
        LET mine == {i \in DOMAIN subs : StandardMatch(subs[i].filter, handled.topic)}
        IN /\ mine # {}
           /\ \E i \in mine : /\ \A k \in mine : i <= k
                              /\ handled.by = IF subs[i].bound THEN i ELSE DefaultHandler

\* Unless its subscriptions overflow the client's channel, the bridge has every
\* subscription at the broker again after each lost connection, or is stopped;
\* a stop signal ends it.  Left out is a bridge that awaits a handler for ever: it
\* is deaf to the signal, where lib.rs:203 says that the signal ends the handler.
Settles(signalled) ==
    Len(subs) <= Channel =>
        pc = "handling" \/ IF signalled THEN pc = "over" ELSE sent = Len(subs) \/ stop
=============================================================================
