------------------------------ MODULE MCServing ------------------------------
(***************************************************************************)
(* Instances for TLC of an application and of the servers it runs: the     *)
(* lifecycle, the websocket route and the three accept loops.  The         *)
(* lifecycle knows its servers by their start and stop futures alone, so   *)
(* one run explores them one at a time: turn is the one that runs.  The    *)
(* route and the loops count their sessions in the same SessionCounter.    *)
(***************************************************************************)
EXTENDS Lifecycle, SessionCounter

CONSTANTS Rejected, Silent

VARIABLES
  turn,
  place, answer, wsStop, bus, listening, serve,
  config, at, stage, connected, closed, deaf, quicStop, endpoint

W == INSTANCE WsRoute WITH at <- place, stop <- wsStop, Registered <- TRUE
A == INSTANCE AcceptLoop WITH stop <- quicStop

routeVars == <<place, answer, wsStop, bus, listening, serve>>
loopVars == <<config, at, stage, connected, closed, deaf, quicStop, endpoint>>
allVars == <<turn, vars, counterVars, routeVars, loopVars>>

ServingInit ==
  /\ turn \in {"app", "route", "loop"}
  /\ Init /\ W!Init
  /\ A!Init /\ (turn = "loop" \/ config = [flavor |-> "h3", timeout |-> FALSE])

InApp(step) == turn = "app" /\ step /\ UNCHANGED <<turn, counterVars, routeVars, loopVars>>
InRoute(step) == turn = "route" /\ step /\ UNCHANGED <<turn, vars, loopVars>>
InLoop(step) == turn = "loop" /\ step /\ UNCHANGED <<turn, vars, routeVars>>

ServingNext == InApp(Next) \/ InRoute(W!Next) \/ InLoop(A!Next)

(* run is polled and timers fire, woken tasks are polled, the endpoint's   *)
(* queue is served: as long as a server's own code has something to do, it *)
(* does something.  A handshake takes finitely many such steps, so this is *)
(* all the modules' fairness asks; servers, hooks, clients, session        *)
(* handlers and silent peers owe nothing.                                  *)
ServingFair ==
  /\ WF_allVars(InApp(Tick))
  /\ WF_allVars(\/ InApp(Orchestrator)
                \/ InRoute(W!Relay \/ W!ServeReturns \/ \E c \in Callers : W!Serves(c))
                \/ InLoop(\/ A!Returns \/ A!Teardown
                          \/ \E c \in Callers : A!Accept(c) \/ A!Serves(c) \/ A!Winds(c)))

ServingSpec == ServingInit /\ [][ServingNext]_allVars /\ ServingFair

-----------------------------------------------------------------------------
(* The guards that count are exactly the sessions that run (ws), the stop  *)
(* is relayed before Cancelled is reported (axum), and every connection    *)
(* is in hand, in a session or closed, unless its session task panicked    *)
(* and the endpoint is still open (quic, webtransport, h3).                *)
SessionsAccounted ==
  /\ turn = "route" => W!TypeOK /\ W!GuardsAreSessions /\ W!CancelledMeansRelayed
  /\ turn = "loop" => A!TypeOK /\ A!NoConnectionForgotten

(* A server is abandoned only when its full drain budget has passed        *)
(* (app.rs:243), a connection is refused by the one loop that admits only  *)
(* at the cap (session.rs:198).                                            *)
NothingGivenUpEarly ==
  /\ AbandonedOnlyAtFullBudget
  /\ [][turn = "loop" => \A c \in Callers : c \in over' \ over => Cardinality(held) >= Cap]_allVars

(* A shutdown ends whoever hangs, sessions end with the stop, and with a   *)
(* handshake deadline no peer makes the others wait for good.              *)
StopsAndWaitsEnd ==
  /\ []<>/\ ~ShutdownPending
         /\ \A c \in Callers : turn = "loop" => A!AttemptAnswered(c)
  /\ <>[](W!StopReleases /\ A!StopReleases)
=============================================================================
