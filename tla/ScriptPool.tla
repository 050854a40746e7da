------------------------------ MODULE ScriptPool ------------------------------
(***************************************************************************)
(* rushwind-script: EnginePool and AutoGrowEnginePool.                     *)
(*                                                                         *)
(* Both pools are a queue of idle engines beside a counting semaphore, and *)
(* the two are not updated together: a release pushes the engine, then     *)
(* adds its permit; an acquire takes a permit, looks at the closed flag,   *)
(* then pops.  `close` sets the flag, closes the semaphore and drains the  *)
(* queue, in three steps as well.  The growing pool adds a live count with *)
(* a lock of its own.  Callers run on different threads, so every one of   *)
(* these steps is an action here.                                          *)
(*                                                                         *)
(* `flavor` is chosen at the start: the fixed pool has all its engines at  *)
(* once and re-initialises them with init_all, the growing one starts with *)
(* any number of them and builds the rest on demand.                       *)
(*                                                                         *)
(* Engines are numbered in the order in which factories deliver them.      *)
(***************************************************************************)
EXTENDS Naturals, Sequences, FiniteSets

CONSTANTS
  Callers,   \* tasks that use the pool
  Max,       \* EnginePool.size, AutoGrowEnginePool.max
  Faults     \* what may go wrong: "cancel", "factory", "init_all", "close"

ASSUME PoolAssumption ==
  /\ IsFiniteSet(Callers)
  /\ Max \in Nat \ {0}
  /\ Faults \subseteq {"cancel", "factory", "init_all", "close"}

VARIABLES
  flavor,     \* "fixed" | "grow"
  queue,      \* the VecDeque of idle engines
  permits,    \* available permits of the semaphore
  waiters,    \* its FIFO list of blocked acquirers
  closing,    \* how far close has come: open, flagged, shut, drained
  total,      \* AutoGrowEnginePool.total
  life,       \* what became of each engine a factory delivered
  pc,         \* where each caller stands
  job,        \* what it is doing: a wrapped call, or init_all
  held,       \* the engines it holds, in the order of acquisition
  strained    \* history: capacity may have been lost, see EveryWaiterServed

vars == <<flavor, queue, permits, waiters, closing, total, life, pc, job, held,
          strained>>

\* One more engine than any pool may have, so that an overgrown pool is a state.
Engines == 1..(Max + 1)

closed == closing # "open"
semClosed == closing \in {"shut", "drained"}

At(where) == {c \in Callers : pc[c] \in where}
Queued == {queue[i] : i \in DOMAIN queue}
HeldBy(c) == {held[c][i] : i \in DOMAIN held[c]}
Born == {e \in Engines : life[e] # "unborn"}

\* Both constructors have delivered their eager engines when a pool exists; a
\* constructor that fails closes what it built and leaves no pool.
Init ==
  /\ flavor \in {"fixed", "grow"}
  /\ total \in 0..Max
  /\ flavor = "fixed" => total = Max
  /\ queue = [i \in 1..total |-> i]
  /\ permits = total
  /\ waiters = <<>>
  /\ closing = "open"
  /\ life = [e \in Engines |-> IF e <= total THEN "idle" ELSE "unborn"]
  /\ pc = [c \in Callers |-> "away"]
  /\ job = [c \in Callers |-> "call"]
  /\ held = [c \in Callers |-> <<>>]
  /\ strained = FALSE

-----------------------------------------------------------------------------
(* The semaphore.  add_permits hands the permit to the longest waiter.     *)

\* c gives one permit back and goes on at `next`.
AddPermit(c, next) ==
  \/ /\ waiters = <<>>
     /\ permits' = permits + 1
     /\ pc' = [pc EXCEPT ![c] = next]
     /\ UNCHANGED waiters
  \/ /\ waiters # <<>>
     /\ pc' = [pc EXCEPT ![c] = next, ![Head(waiters)] = "granted"]
     /\ waiters' = Tail(waiters)
     /\ UNCHANGED permits

Goto(c, next) ==
  /\ pc' = [pc EXCEPT ![c] = next]
  /\ UNCHANGED <<permits, waiters>>

\* The line without c, which is in it at most once.
Without(s, c) ==
  IF \E i \in DOMAIN s : s[i] = c
  THEN LET at == CHOOSE i \in DOMAIN s : s[i] = c
       IN  SubSeq(s, 1, at - 1) \o SubSeq(s, at + 1, Len(s))
  ELSE s

\* The engines c holds end in the given way, and c holds none.
Discard(c, how) ==
  /\ life' = [e \in Engines |-> IF e \in HeldBy(c) THEN how ELSE life[e]]
  /\ held' = [held EXCEPT ![c] = <<>>]

-----------------------------------------------------------------------------
(* acquire.                                                                *)

FirstStep == IF flavor = "grow" THEN "try" ELSE "permit"

\* A call on a closed pool fails and changes nothing.
CallRefused(c) ==
  /\ pc[c] = "away"
  /\ closed
  /\ UNCHANGED vars

\* Every per-call wrapper: acquire, invoke, release.
BeginCall(c) ==
  /\ pc[c] = "away"
  /\ ~closed
  /\ job' = [job EXCEPT ![c] = "call"]
  /\ Goto(c, FirstStep)
  /\ UNCHANGED <<flavor, queue, closing, total, life, held, strained>>

\* EnginePool::init_all; only the fixed pool has it.
BeginInitAll(c) ==
  /\ "init_all" \in Faults
  /\ flavor = "fixed"
  /\ pc[c] = "away"
  /\ ~closed
  /\ job' = [job EXCEPT ![c] = "init_all"]
  /\ strained' = TRUE
  /\ Goto(c, FirstStep)
  /\ UNCHANGED <<flavor, queue, closing, total, life, held>>

\* acquire answers Err; init_all closes what it has already taken.
Refuse(c) == Discard(c, "closed") /\ UNCHANGED <<flavor, queue, closing, total, job, strained>>

\* The next round of init_all looks at the closed flag again.
NextRound(c) ==
  /\ pc[c] = "again"
  /\ \/ /\ closed
        /\ Goto(c, "away")
        /\ Refuse(c)
     \/ /\ ~closed
        /\ Goto(c, FirstStep)
        /\ UNCHANGED <<flavor, queue, closing, total, life, job, held, strained>>

\* The fast path of the growing pool: try_acquire_owned, which a closed
\* semaphore refuses like an empty one.
TryIdle(c) ==
  /\ pc[c] = "try"
  /\ \/ /\ permits > 0 /\ ~semClosed
        /\ permits' = permits - 1
        /\ pc' = [pc EXCEPT ![c] = "recheck"]
        /\ UNCHANGED waiters
     \/ /\ permits = 0 \/ semClosed
        /\ Goto(c, "grow")
  /\ UNCHANGED <<flavor, queue, closing, total, life, job, held, strained>>

\* The live count is compared and incremented under its lock.
Grow(c) ==
  /\ pc[c] = "grow"
  /\ \/ /\ total < Max
        /\ total' = total + 1
        /\ Goto(c, "build")
     \/ /\ total = Max
        /\ Goto(c, "permit")
        /\ UNCHANGED total
  /\ UNCHANGED <<flavor, queue, closing, life, job, held, strained>>

\* The factory delivers; the engine is lent at once, closed pool or not.
Build(c) ==
  /\ pc[c] = "build"
  /\ \E e \in Engines :
       /\ e \notin Born /\ \A d \in Engines : d < e => d \in Born
       /\ life' = [life EXCEPT ![e] = "lent"]
       /\ held' = [held EXCEPT ![c] = <<e>>]
  /\ Goto(c, "using")
  /\ UNCHANGED <<flavor, queue, closing, total, job, strained>>

\* The factory fails: the count rolls back, and no blocked acquirer is told.
BuildFails(c) ==
  /\ "factory" \in Faults
  /\ pc[c] = "build"
  /\ total' = total - 1
  /\ strained' = TRUE
  /\ Goto(c, "away")
  /\ UNCHANGED <<flavor, queue, closing, life, job, held>>

\* acquire_owned: a permit at once, or a place at the end of the line.
TakePermit(c) ==
  /\ pc[c] = "permit"
  /\ ~semClosed
  /\ \/ /\ permits > 0
        /\ permits' = permits - 1
        /\ pc' = [pc EXCEPT ![c] = "recheck"]
        /\ UNCHANGED waiters
     \/ /\ permits = 0
        /\ waiters' = Append(waiters, c)
        /\ pc' = [pc EXCEPT ![c] = "waiting"]
        /\ UNCHANGED permits
  /\ UNCHANGED <<flavor, queue, closing, total, life, job, held, strained>>

\* A waiter that was handed a permit runs again.
Granted(c) ==
  /\ pc[c] = "granted"
  /\ ~semClosed
  /\ Goto(c, "recheck")
  /\ UNCHANGED <<flavor, queue, closing, total, life, job, held, strained>>

\* Semaphore::close fails every acquire_owned, a granted one included.
WokenByClose(c) ==
  /\ pc[c] \in {"permit", "waiting", "granted"}
  /\ semClosed
  /\ IF pc[c] = "granted" THEN AddPermit(c, "away") ELSE Goto(c, "away")
  /\ Refuse(c)

\* The closed flag is looked at again once the permit is there.
Recheck(c) ==
  /\ pc[c] = "recheck"
  /\ \/ /\ closed
        /\ AddPermit(c, "away")
        /\ Refuse(c)
     \/ /\ ~closed
        /\ Goto(c, "pop")
        /\ UNCHANGED <<flavor, queue, closing, total, life, job, held, strained>>

\* init_all acquires size times before it goes on.
AfterPop(c) ==
  IF job[c] = "call" THEN "using"
  ELSE IF Len(held[c]) + 1 < Max THEN "again" ELSE "reinit"

\* Mutant of Pop: the permit is dropped instead of forgotten.
PopDroppingPermit(c) ==
  /\ pc[c] = "pop"
  /\ queue # <<>>
  /\ AddPermit(c, AfterPop(c))
  /\ held' = [held EXCEPT ![c] = Append(held[c], Head(queue))]
  /\ life' = [life EXCEPT ![Head(queue)] = "lent"]
  /\ queue' = Tail(queue)
  /\ UNCHANGED <<flavor, closing, total, job, strained>>

\* Mutant of Pop: the engine is cloned out of the queue and left in it.
PopCloning(c) ==
  /\ pc[c] = "pop"
  /\ queue # <<>>
  /\ Goto(c, AfterPop(c))
  /\ held' = [held EXCEPT ![c] = Append(held[c], Head(queue))]
  /\ life' = [life EXCEPT ![Head(queue)] = "lent"]
  /\ UNCHANGED <<flavor, queue, closing, total, job, strained>>

\* The engine leaves the queue and its permit is forgotten.
Pop(c) ==
  /\ pc[c] = "pop"
  /\ queue # <<>>
  /\ Goto(c, AfterPop(c))
  /\ held' = [held EXCEPT ![c] = Append(held[c], Head(queue))]
  /\ life' = [life EXCEPT ![Head(queue)] = "lent"]
  /\ queue' = Tail(queue)
  /\ UNCHANGED <<flavor, closing, total, job, strained>>

\* close drained the queue in between: the permit is forgotten all the same.
PopNothing(c) ==
  /\ pc[c] = "pop"
  /\ queue = <<>>
  /\ Goto(c, "away")
  /\ Refuse(c)

-----------------------------------------------------------------------------
(* Use and release.                                                        *)

\* The wrapped operation is over, with Ok or Err alike.
Invoked(c) ==
  /\ pc[c] = "using"
  /\ Goto(c, "release")
  /\ UNCHANGED <<flavor, queue, closing, total, life, job, held, strained>>

\* init_all: every engine takes a second init.
Reinitialised(c) ==
  /\ pc[c] = "reinit"
  /\ Goto(c, "release")
  /\ UNCHANGED <<flavor, queue, closing, total, life, job, held, strained>>

\* One init fails, as the contract wants of an engine that is initialised: all
\* the acquired engines are closed, and none comes back.
ReinitFails(c) ==
  /\ pc[c] = "reinit"
  /\ Goto(c, "away")
  /\ Refuse(c)

\* release on a closed pool closes the engine.
ReleaseClosed(c) ==
  /\ pc[c] = "release"
  /\ closed
  /\ life' = [life EXCEPT ![Head(held[c])] = "closed"]
  /\ held' = [held EXCEPT ![c] = Tail(held[c])]
  /\ Goto(c, IF Len(held[c]) = 1 THEN "away" ELSE "release")
  /\ UNCHANGED <<flavor, queue, closing, total, job, strained>>

ReleaseOpen(c) ==
  /\ pc[c] = "release"
  /\ ~closed
  /\ Goto(c, "fit")
  /\ UNCHANGED <<flavor, queue, closing, total, life, job, held, strained>>

\* The queue has room: see ReleaseAlwaysFits for the branch that is not taken.
ReleaseFits(c) ==
  /\ pc[c] = "fit"
  /\ Len(queue) < Max
  /\ Goto(c, "push")
  /\ UNCHANGED <<flavor, queue, closing, total, life, job, held, strained>>

\* Under a second lock of the queue; the closed flag is not looked at again.
Push(c) ==
  /\ pc[c] = "push"
  /\ queue' = Append(queue, Head(held[c]))
  /\ life' = [life EXCEPT ![Head(held[c])] = "idle"]
  /\ held' = [held EXCEPT ![c] = Tail(held[c])]
  /\ Goto(c, "post")
  /\ UNCHANGED <<flavor, closing, total, job, strained>>

\* add_permits(1), after the lock is dropped.
Post(c) ==
  /\ pc[c] = "post"
  /\ AddPermit(c, IF held[c] = <<>> THEN "away" ELSE "release")
  /\ UNCHANGED <<flavor, queue, closing, total, life, job, held, strained>>

-----------------------------------------------------------------------------
(* A caller that drops its future, at any await; close.                    *)

\* Blocked in acquire_owned: the place in line is given up, a permit that was
\* already assigned goes to the next.
DropWaiting(c) ==
  /\ "cancel" \in Faults
  /\ \/ /\ pc[c] = "waiting"
        /\ waiters' = Without(waiters, c)
        /\ pc' = [pc EXCEPT ![c] = "away"]
        /\ UNCHANGED permits
     \/ /\ pc[c] = "granted"
        /\ AddPermit(c, "away")
  /\ Discard(c, "dropped")
  /\ UNCHANGED <<flavor, queue, closing, total, job, strained>>

\* Inside the factory, or while an engine works: the count stays as it is and
\* the engine goes with the future, neither queued nor closed.
DropWorking(c) ==
  /\ "cancel" \in Faults
  /\ pc[c] \in {"build", "using", "reinit"}
  /\ strained' = TRUE
  /\ Goto(c, "away")
  /\ Discard(c, "dropped")
  /\ UNCHANGED <<flavor, queue, closing, total, job>>

\* closed.swap(true).
CloseFlag ==
  /\ "close" \in Faults
  /\ closing = "open"
  /\ closing' = "flagged"
  /\ UNCHANGED <<flavor, queue, permits, waiters, total, life, pc, job, held, strained>>

\* semaphore.close(): the line is dissolved and everybody in it wakes up.
CloseSemaphore ==
  /\ closing = "flagged"
  /\ closing' = "shut"
  /\ waiters' = <<>>
  /\ UNCHANGED <<flavor, queue, permits, total, life, pc, job, held, strained>>

\* The queue is drained and each engine in it closed.
CloseDrain ==
  /\ closing = "shut"
  /\ closing' = "drained"
  /\ life' = [e \in Engines |-> IF e \in Queued THEN "closed" ELSE life[e]]
  /\ queue' = <<>>
  /\ UNCHANGED <<flavor, permits, waiters, total, pc, job, held, strained>>

-----------------------------------------------------------------------------
Acquiring(c) ==
  \/ NextRound(c) \/ TryIdle(c) \/ Grow(c) \/ Build(c) \/ TakePermit(c)
  \/ Granted(c) \/ WokenByClose(c) \/ Recheck(c) \/ Pop(c) \/ PopNothing(c)

Working(c) == Invoked(c) \/ Reinitialised(c) \/ ReinitFails(c)

Releasing(c) ==
  \/ ReleaseClosed(c) \/ ReleaseOpen(c) \/ ReleaseFits(c) \/ Push(c) \/ Post(c)

Closing == CloseFlag \/ CloseSemaphore \/ CloseDrain

Next ==
  \/ \E c \in Callers :
       \/ CallRefused(c) \/ BeginCall(c) \/ BeginInitAll(c)
       \/ Acquiring(c) \/ Working(c) \/ Releasing(c)
       \/ BuildFails(c) \/ DropWaiting(c) \/ DropWorking(c)
  \/ Closing

Spec == Init /\ [][Next]_vars

\* The executor polls every task that can go on, factories and scripts end, and
\* a close that began is carried through.  Nobody has to call, fail or drop.
FairSpec ==
  /\ Spec
  /\ \A c \in Callers : WF_vars(Acquiring(c) \/ Working(c) \/ Releasing(c) \/ BuildFails(c))
  /\ WF_vars(CloseSemaphore \/ CloseDrain)

-----------------------------------------------------------------------------
(* Properties.                                                             *)

Places == {"away", "again", "try", "grow", "build", "permit", "waiting", "granted",
           "recheck", "pop", "using", "reinit", "release", "fit", "push", "post"}

TypeOK ==
  /\ flavor \in {"fixed", "grow"}
  /\ queue \in Seq(Engines)
  /\ permits \in Nat
  /\ waiters \in Seq(Callers)
  /\ closing \in {"open", "flagged", "shut", "drained"}
  /\ total \in 0..Max
  /\ life \in [Engines -> {"unborn", "idle", "lent", "closed", "dropped"}]
  /\ pc \in [Callers -> Places]
  /\ job \in [Callers -> {"call", "init_all"}]
  /\ held \in [Callers -> Seq(Engines)]
  /\ strained \in BOOLEAN

\* "Every queued engine has exactly one permit": until close drains the queue,
\* the idle engines are the free permits, those on their way from a grant to a
\* pop, and those a release has yet to add.  So no acquirer of an open pool
\* pops an empty queue, and no idle engine lacks the permit that lends it.
PermitsMatchQueue ==
  closing # "drained" =>
    Len(queue) = permits + Cardinality(At({"granted", "recheck", "pop", "post"}))

\* One borrower per engine: an engine is in one place of the queue or with one
\* caller, however releases, acquires, cancellations and close interleave.
OneOwner ==
  /\ \A i, j \in DOMAIN queue : queue[i] = queue[j] => i = j
  /\ \A c \in Callers : HeldBy(c) \cap Queued = {}
  /\ \A c, d \in Callers : c # d => HeldBy(c) \cap HeldBy(d) = {}

\* Nobody is lent, or can be lent, an engine that was closed or dropped.
NoDeadEngine ==
  /\ \A e \in Queued : life[e] = "idle"
  /\ \A c \in Callers : \A e \in HeldBy(c) : life[e] = "lent"

\* A pool never has more live engines than its cap, those being built included.
CapHolds ==
  Cardinality({e \in Engines : life[e] \in {"idle", "lent"}}) + Cardinality(At({"build"}))
    <= Max

\* Both pools close an engine that comes back to a full queue and call that
\* branch unreachable: a release of an open or closing pool always finds room.
ReleaseAlwaysFits == \A c \in At({"fit", "push"}) : Len(queue) < Max

\* acquire and release of both pools: one borrower per engine, no engine lent
\* that was closed or lost, never more engines than the cap, and a full queue
\* never met by a release.
PoolIsSound == TypeOK /\ OneOwner /\ NoDeadEngine /\ CapHolds /\ ReleaseAlwaysFits

\* An acquirer is served, or refused by close, as long as no engine was dropped
\* with a cancelled call, no growth failed and no init_all ran: each of these
\* three can leave it waiting for good.  The comment on the rollback of a failed
\* growth promises more, that the capacity is usable at once: a caller that
\* blocked because of that growth is not told.
WaiterServed(c) == pc[c] # "waiting" \/ strained

=============================================================================
