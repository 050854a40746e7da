------------------------------ MODULE AcceptLoop -------------------------------
(***************************************************************************)
(* rushwind-transport-quic, -webtransport and -h3: servers that own their  *)
(* accept loop.                                                            *)
(*                                                                         *)
(* The three `Server::start` futures are the same loop with the stages in  *)
(* a different order.  The loop handles one attempt at a time, so it is    *)
(* the only admitter of its SessionCounter, but it also makes every other  *)
(* attempt wait while a handshake is in progress.  Admitted sessions are   *)
(* tasks of their own.  The stop signal races every await of the loop, and *)
(* of a session except where h3 awaits without a select!.                  *)
(***************************************************************************)
EXTENDS SessionCounter, Sequences

CONSTANTS
  Rejected,   \* attempts some gate rejects
  Silent      \* peers that never finish their handshake

VARIABLES
  config,     \* the transport, and whether it has a handshake_timeout
  at,         \* where each attempt is
  stage,      \* what the loop is doing, "returned" when start is over
  connected,  \* attempts a Connection handle exists for
  closed,     \* connections that were closed explicitly, one by one or with the endpoint
  deaf,       \* h3 sessions in an await that does not race the stop signal
  stop,       \* the lifecycle's stop signal
  endpoint    \* the quinn endpoint is open

loopVars == <<config, at, stage, connected, closed, deaf, stop, endpoint>>
vars == <<counterVars, loopVars>>

\* The order of the stages after accept() has yielded an attempt.
Stages ==
  CASE config.flavor = "quic" -> <<"gate", "handshake", "admit">>
    [] config.flavor = "webtransport" -> <<"handshake", "gate", "confirm", "admit">>
    [] config.flavor = "h3" -> <<"handshake", "admit">>

Following(s) ==
  LET i == CHOOSE k \in 1..(Len(Stages) - 1) : Stages[k] = s IN Stages[i + 1]

Sessions == {c \in Callers : at[c] = "session"}

Configs == [flavor : {"quic", "webtransport", "h3"}, timeout : BOOLEAN]

Init ==
  /\ CounterInit
  /\ config \in Configs
  /\ at = [c \in Callers |-> "away"]
  /\ stage = "accept"
  /\ connected = {}
  /\ closed = {}
  /\ deaf = {}
  /\ stop = FALSE
  /\ endpoint = TRUE

-----------------------------------------------------------------------------
(* The accept loop.                                                        *)

\* A peer contacts the endpoint.
Knock(c) ==
  /\ endpoint
  /\ at[c] = "away"
  /\ at' = [at EXCEPT ![c] = "waiting"]
  /\ UNCHANGED <<config, counterVars, stage, connected, closed, deaf, stop, endpoint>>

\* endpoint.accept() yields the next attempt.
Accept(c) ==
  /\ stage = "accept"
  /\ endpoint
  /\ at[c] = "waiting"
  /\ at' = [at EXCEPT ![c] = "current"]
  /\ stage' = Head(Stages)
  /\ UNCHANGED <<config, counterVars, connected, closed, deaf, stop, endpoint>>

\* `continue`: the attempt is refused, dropped or has failed.
GivesUp(c) ==
  /\ at' = [at EXCEPT ![c] = "over"]
  /\ stage' = "accept"

\* GateChain::evaluate on the handshake snapshot.
Gate(c) ==
  /\ stage = "gate" /\ at[c] = "current"
  /\ \/ c \in Rejected /\ GivesUp(c)
     \/ c \notin Rejected /\ stage' = Following(stage) /\ UNCHANGED at
  /\ UNCHANGED <<config, counterVars, connected, closed, deaf, stop, endpoint>>

\* Mutant of HandshakeExpires: the deadline is not raced.
HandshakeUnbounded(c) == FALSE

\* The configured deadline wins the race; a budget that is not configured
\* never does.
HandshakeExpires(c) ==
  /\ config.timeout
  /\ stage = "handshake" /\ at[c] = "current"
  /\ GivesUp(c)
  /\ UNCHANGED <<config, counterVars, connected, closed, deaf, stop, endpoint>>

HandshakeFails(c) ==
  /\ stage \in {"handshake", "confirm"} /\ at[c] = "current"
  /\ c \notin Silent
  /\ GivesUp(c)
  /\ UNCHANGED <<config, counterVars, connected, closed, deaf, stop, endpoint>>

\* The awaited future resolves; the last one before admission yields the
\* Connection.
HandshakeDone(c) ==
  /\ stage \in {"handshake", "confirm"} /\ at[c] = "current"
  /\ c \notin Silent
  /\ stage' = Following(stage)
  /\ connected' = IF stage' = "admit" THEN connected \cup {c} ELSE connected
  /\ UNCHANGED <<config, counterVars, at, closed, deaf, stop, endpoint>>

\* admit, first half.  The session task is spawned; an h3 one begins with the
\* connection preface, which it awaits alone.
Admission(c) ==
  /\ stage = "admit" /\ at[c] = "current"
  /\ AdmitAdds(c)
  /\ IF c \in held'
     THEN /\ at' = [at EXCEPT ![c] = "session"]
          /\ stage' = "accept"
          /\ deaf' = IF config.flavor = "h3" THEN deaf \cup {c} ELSE deaf
     ELSE /\ stage' = "undo"
          /\ UNCHANGED <<at, deaf>>
  /\ UNCHANGED <<config, connected, closed, stop, endpoint>>

\* Mutant of Refusal: an over-cap connection is dropped but not closed.
RefusalUnclosed(c) ==
  /\ stage = "undo" /\ at[c] = "current"
  /\ AdmitUndoes(c)
  /\ GivesUp(c)
  /\ UNCHANGED <<config, connected, closed, deaf, stop, endpoint>>

\* Over the cap: admit's second half, and the explicit close.
Refusal(c) ==
  /\ stage = "undo" /\ at[c] = "current"
  /\ AdmitUndoes(c)
  /\ closed' = closed \cup {c}
  /\ GivesUp(c)
  /\ UNCHANGED <<config, connected, deaf, stop, endpoint>>

\* The stop signal wins one of the loop's selects, or accept() reports that
\* the endpoint is closed: start returns Cancelled and drops what it awaited.
Returns ==
  /\ \/ stage = "accept" /\ (stop \/ ~endpoint)
     \/ stage \in {"handshake", "confirm"} /\ stop
  /\ stage' = "returned"
  /\ at' = [c \in Callers |-> IF at[c] = "current" THEN "over" ELSE at[c]]
  /\ UNCHANGED <<config, counterVars, connected, closed, deaf, stop, endpoint>>

-----------------------------------------------------------------------------
(* The session tasks.                                                      *)

\* The end of a session task that reaches one of its calls of handle.close.
SessionOver(c) ==
  /\ at[c] = "session"
  /\ GuardDrops(c)
  /\ at' = [at EXCEPT ![c] = "over"]
  /\ closed' = closed \cup {c}
  /\ deaf' = deaf \ {c}
  /\ UNCHANGED <<config, stage, connected, stop, endpoint>>

\* The handler returns, or an await on the connection fails.
SessionEnds(c) == SessionOver(c)

\* The stop signal wins the select! of the session task.
SessionStopped(c) == stop /\ c \notin deaf /\ SessionOver(c)

\* h3 only: the task enters or leaves an await outside its select!, the
\* connection preface or the headers of a request.  A peer may keep it there.
Resolves(c) ==
  /\ config.flavor = "h3"
  /\ at[c] = "session"
  /\ \/ c \in deaf /\ c \notin Silent /\ deaf' = deaf \ {c}
     \/ c \notin deaf /\ deaf' = deaf \cup {c}
  /\ UNCHANGED <<config, counterVars, at, stage, connected, closed, stop, endpoint>>

\* Every await of a session on a closed endpoint fails.
SessionCutOff(c) == ~endpoint /\ SessionOver(c)

\* The handler panics, for h3 a gate or the request factory: unwinding drops
\* guard and handle, and no arm of the select! runs that would close.
SessionPanics(c) ==
  /\ at[c] = "session"
  /\ GuardDrops(c)
  /\ at' = [at EXCEPT ![c] = "panicked"]
  /\ deaf' = deaf \ {c}
  /\ UNCHANGED <<config, stage, connected, closed, stop, endpoint>>

-----------------------------------------------------------------------------
(* The lifecycle.                                                          *)

StopFires ==
  /\ ~stop
  /\ stop' = TRUE
  /\ UNCHANGED <<config, counterVars, at, stage, connected, closed, deaf, endpoint>>

\* Server::stop, which the lifecycle calls when start is over: the endpoint
\* is closed with every connection it owns.
Teardown ==
  /\ stage = "returned" /\ endpoint
  /\ endpoint' = FALSE
  /\ closed' = closed \cup connected
  /\ UNCHANGED <<config, counterVars, at, stage, connected, deaf, stop>>

\* The server's own steps.
Serves(c) ==
  \/ Gate(c) \/ HandshakeExpires(c) \/ HandshakeDone(c)
  \/ Admission(c) \/ Refusal(c)

Winds(c) == SessionStopped(c) \/ SessionCutOff(c)

Peer(c) ==
  Knock(c) \/ HandshakeFails(c) \/ SessionEnds(c) \/ SessionPanics(c) \/ Resolves(c)

Rest ==
  /\ ~endpoint
  /\ Sessions = {}
  /\ UNCHANGED vars

Next ==
  \/ \E c \in Callers : Accept(c) \/ Serves(c) \/ Winds(c) \/ Peer(c)
  \/ StopFires \/ Returns \/ Teardown \/ Rest

Spec == Init /\ [][Next]_vars

\* The runtime polls woken tasks, timers fire, the endpoint's queue is served,
\* and the lifecycle calls Server::stop.  Nothing is assumed of silent peers.
FairSpec ==
  /\ Spec
  /\ \A c \in Callers :
       SF_vars(Accept(c)) /\ WF_vars(Serves(c)) /\ WF_vars(Winds(c))
  /\ WF_vars(Returns) /\ WF_vars(Teardown)

-----------------------------------------------------------------------------
(* Properties.                                                             *)

TypeOK ==
  /\ CounterTypeOK
  /\ config \in Configs
  /\ at \in [Callers -> {"away", "waiting", "current", "session", "over", "panicked"}]
  /\ stage \in {"accept", "gate", "handshake", "confirm", "admit", "undo", "returned"}
  /\ {connected, closed, deaf} \subseteq SUBSET Callers
  /\ {stop, endpoint} \subseteq BOOLEAN

\* "Whichever way it ends, the connection is closed explicitly - quinn
\* connections do not close when handles drop": every Connection the loop
\* obtained is in the loop's hands, in a session, or closed explicitly; but one
\* way out the comment does not see, a panic of the session task, closes
\* nothing, and such a connection stays open until the endpoint is closed.
NoConnectionForgotten ==
  \A c \in connected :
    \/ c \in closed
    \/ at[c] = "session"
    \/ at[c] = "panicked" /\ endpoint
    \/ at[c] = "current" /\ stage \in {"admit", "undo"}

\* With a handshake deadline, no peer keeps the others waiting for ever: every
\* attempt is taken up or the server stops.
AttemptAnswered(c) == at[c] = "waiting" /\ config.timeout => stage = "returned"

\* After a stop, every session ends and its slot is free, even those whose task
\* is waiting for a silent peer; and every connection is closed, even those of
\* tasks that have panicked.
StopReleases == stop => Sessions = {} /\ live = 0 /\ connected \subseteq closed

=============================================================================
