------------------------------- MODULE WsRoute --------------------------------
(***************************************************************************)
(* rushwind-transport-ws mounted on rushwind-transport-axum: a gated       *)
(* websocket route, and the server that relays the lifecycle's stop signal *)
(* to the route's session-shutdown bus.                                    *)
(*                                                                         *)
(* A handshake is a request to the handler closure (gates, advisory cap    *)
(* check, 101), then a task of its own, spawned by `on_upgrade`, that asks *)
(* for admission and runs the session.  Handlers and tasks of different    *)
(* handshakes run on different threads.                                    *)
(***************************************************************************)
EXTENDS SessionCounter

CONSTANTS
  Rejected,    \* handshakes some gate of the chain rejects
  Registered   \* the bus was handed to AxumServer::with_aux_shutdown

VARIABLES
  at,         \* where each handshake is
  answer,     \* the response each handshake got
  stop,       \* the lifecycle's stop signal has fired
  bus,        \* the session-shutdown bus has fired
  listening,  \* the listener accepts requests
  serve       \* the future returned by Server::start

routeVars == <<at, answer, stop, bus, listening, serve>>
vars == <<counterVars, routeVars>>

Places == {"away", "handler", "gated", "upgrading", "refusing", "session", "over"}
Answers == {"none", "forbidden", "too_many", "switching"}

\* Requests the graceful shutdown of the server waits for.
InFlight == {c \in Callers : at[c] \in {"handler", "gated"}}
Sessions == {c \in Callers : at[c] = "session"}

Init ==
  /\ CounterInit
  /\ at = [c \in Callers |-> "away"]
  /\ answer = [c \in Callers |-> "none"]
  /\ stop = FALSE
  /\ bus = FALSE
  /\ listening = TRUE
  /\ serve = "running"

Moves(c, from, to) == at[c] = from /\ at' = [at EXCEPT ![c] = to]
Answered(c, a) == answer' = [answer EXCEPT ![c] = a]

-----------------------------------------------------------------------------
(* The handler closure of the route.                                       *)

Request(c) ==
  /\ listening
  /\ Moves(c, "away", "handler")
  /\ UNCHANGED <<counterVars, answer, stop, bus, listening, serve>>

\* GateChain::evaluate on the headers, and the rejection response.
Gates(c) ==
  /\ \/ c \in Rejected /\ Moves(c, "handler", "over") /\ Answered(c, "forbidden")
     \/ c \notin Rejected /\ Moves(c, "handler", "gated") /\ UNCHANGED answer
  /\ UNCHANGED <<counterVars, stop, bus, listening, serve>>

\* The advisory pre-check and the upgrade response.
Precheck(c) ==
  /\ \/ at_cap /\ Moves(c, "gated", "over") /\ Answered(c, "too_many")
     \/ ~at_cap /\ Moves(c, "gated", "upgrading") /\ Answered(c, "switching")
  /\ UNCHANGED <<counterVars, stop, bus, listening, serve>>

\* The client goes away before the upgrade: the callback never runs.
UpgradeFails(c) ==
  /\ Moves(c, "upgrading", "over")
  /\ UNCHANGED <<counterVars, answer, stop, bus, listening, serve>>

-----------------------------------------------------------------------------
(* The task on_upgrade spawns.                                             *)

\* Mutant of Admission: the pre-check is trusted and the cap not checked again.
AdmissionUnchecked(c) ==
  /\ Moves(c, "upgrading", "session")
  /\ live' = live + 1
  /\ held' = held \cup {c}
  /\ UNCHANGED <<over, answer, stop, bus, listening, serve>>

\* The authoritative check, first half.
Admission(c) ==
  /\ AdmitAdds(c)
  /\ Moves(c, "upgrading", IF c \in held' THEN "session" ELSE "refusing")
  /\ UNCHANGED <<answer, stop, bus, listening, serve>>

\* Over the cap: the task returns and drops the socket.
Refusal(c) ==
  /\ AdmitUndoes(c)
  /\ Moves(c, "refusing", "over")
  /\ UNCHANGED <<answer, stop, bus, listening, serve>>

\* The session future returns, panics or loses its socket; the guard is a
\* local of the task.
SessionEnds(c) ==
  /\ GuardDrops(c)
  /\ Moves(c, "session", "over")
  /\ UNCHANGED <<answer, stop, bus, listening, serve>>

\* The other arm of the select!.
BusEndsSession(c) ==
  /\ bus
  /\ GuardDrops(c)
  /\ Moves(c, "session", "over")
  /\ UNCHANGED <<answer, stop, bus, listening, serve>>

-----------------------------------------------------------------------------
(* AxumServer::start.                                                      *)

StopFires ==
  /\ ~stop
  /\ stop' = TRUE
  /\ UNCHANGED <<counterVars, at, answer, bus, listening, serve>>

\* The shutdown future: every registered bus is signalled, and with the end of
\* that future axum stops accepting.
Relay ==
  /\ stop /\ listening
  /\ bus' = Registered
  /\ listening' = FALSE
  /\ UNCHANGED <<counterVars, at, answer, stop, serve>>

\* Requests that were being handled are over: start returns Cancelled.
ServeReturns ==
  /\ serve = "running"
  /\ ~listening
  /\ InFlight = {}
  /\ serve' = "cancelled"
  /\ UNCHANGED <<counterVars, at, answer, stop, bus, listening>>

\* What the route's and the server's own code does with handshake c.
Serves(c) ==
  \/ Gates(c) \/ Precheck(c) \/ Admission(c) \/ Refusal(c) \/ BusEndsSession(c)

\* What clients and session handlers do.
Peer(c) == Request(c) \/ UpgradeFails(c) \/ SessionEnds(c)

\* All handshakes are over, or idle sessions keep a route without bus open.
Rest ==
  /\ serve = "cancelled"
  /\ \A c \in Callers : at[c] \in {"away", "session", "over"}
  /\ UNCHANGED vars

Next ==
  \/ \E c \in Callers : Serves(c) \/ Peer(c)
  \/ StopFires \/ Relay \/ ServeReturns \/ Rest

\* The runtime polls woken tasks; clients and session handlers owe nothing.
Spec == Init /\ [][Next]_vars
FairSpec ==
  /\ Spec
  /\ \A c \in Callers : WF_vars(Serves(c))
  /\ WF_vars(Relay) /\ WF_vars(ServeReturns)

-----------------------------------------------------------------------------
(* Properties.                                                             *)

TypeOK ==
  /\ CounterTypeOK
  /\ at \in [Callers -> Places]
  /\ answer \in [Callers -> Answers]
  /\ {stop, bus, listening} \subseteq BOOLEAN
  /\ serve \in {"running", "cancelled"}

\* Whatever the guards count is exactly the running sessions: a rejected,
\* refused or dropped handshake holds no slot, and no session lacks one or runs
\* without the response that switches protocols.
GuardsAreSessions ==
  /\ held = Sessions
  /\ over = {c \in Callers : at[c] = "refusing"}
  /\ held \cap Rejected = {}
  /\ \A c \in held : answer[c] = "switching"

\* When start reports Cancelled, every session that runs has been told to end.
CancelledMeansRelayed ==
  serve = "cancelled" => (bus = Registered) /\ InFlight = {}

\* With the bus registered, a stop ends every session for good, whatever the
\* session handlers do, and frees all slots.
StopReleases == stop /\ Registered => Sessions = {} /\ live = 0

=============================================================================
