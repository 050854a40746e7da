---------------------------- MODULE SessionCounter ----------------------------
(***************************************************************************)
(* rushwind-transport: the counter behind every session cap.               *)
(*                                                                         *)
(* `SessionCounter::admit` is not one atomic step: it is a fetch_add, a    *)
(* comparison of the previous value with the cap, and on refusal a         *)
(* fetch_sub.  Between the two, the counter is higher than the number of   *)
(* sessions.  Callers run on different threads; the operations on `live`   *)
(* are relaxed but each is atomic on the one location, so any interleaving *)
(* of them is possible and nothing else is.                                *)
(*                                                                         *)
(* The other modules about session transports INSTANCE this one.           *)
(***************************************************************************)
EXTENDS Naturals, FiniteSets

CONSTANTS
  Callers,   \* the handshakes that ask for admission
  Cap        \* SessionPolicy::max_concurrent_sessions

ASSUME CounterAssumption == IsFiniteSet(Callers) /\ Cap \in Nat

VARIABLES
  live,    \* the AtomicUsize
  over,    \* callers between the fetch_add and the fetch_sub of a refusal
  held     \* callers whose SessionCounterGuard is alive

counterVars == <<live, over, held>>

CounterInit ==
  /\ live = 0
  /\ over = {}
  /\ held = {}

\* The advisory check, SessionCounter::at_cap.
at_cap == live >= Cap

-----------------------------------------------------------------------------
(* admit, guard drop.                                                      *)

\* fetch_add, and the decision on the value it returned.
AdmitAdds(c) ==
  /\ c \notin held \cup over
  /\ live' = live + 1
  /\ IF live >= Cap
     THEN over' = over \cup {c} /\ UNCHANGED held
     ELSE held' = held \cup {c} /\ UNCHANGED over

\* Mutant of AdmitUndoes: the refusal forgets its fetch_sub.
AdmitUndoesNothing(c) ==
  /\ c \in over
  /\ over' = over \ {c}
  /\ UNCHANGED <<live, held>>

\* The fetch_sub of a refusal; admit returns None.
AdmitUndoes(c) ==
  /\ c \in over
  /\ live' = live - 1
  /\ over' = over \ {c}
  /\ UNCHANGED held

\* SessionCounterGuard::drop, by return or by abort of the task that owns it.
GuardDrops(c) ==
  /\ c \in held
  /\ live' = live - 1
  /\ held' = held \ {c}
  /\ UNCHANGED over

CounterNext ==
  \E c \in Callers : AdmitAdds(c) \/ AdmitUndoes(c) \/ GuardDrops(c)

CounterSpec == CounterInit /\ [][CounterNext]_counterVars

-----------------------------------------------------------------------------
(* Properties.                                                             *)

CounterTypeOK ==
  /\ live \in Nat
  /\ over \subseteq Callers
  /\ held \subseteq Callers
  /\ over \cap held = {}

\* However the three atomic operations of racing handshakes interleave, there
\* are never more guards than the cap allows.
CapHolds == Cardinality(held) <= Cap

\* "A cap can never leak slots": the counter is exactly the guards plus the
\* refusals in flight, so it returns to zero with them and never wraps.
NoSlotLeaks == live = Cardinality(held) + Cardinality(over)

=============================================================================
