----------------------------- MODULE TaskQueue -----------------------------
(***************************************************************************)
(* The apalis storage on Postgres (crate rushwind-apalis-postgres): one    *)
(* table of jobs shared by worker processes that never talk to each other. *)
(* A worker's heartbeat claims due rows and sends them over a bounded      *)
(* channel to the worker proper; its handlers' outcomes come back over an  *)
(* ack channel and the same heartbeat writes them; it refreshes the locks  *)
(* of its running rows and re-queues the rows whose lock has lapsed.       *)
(*                                                                         *)
(* Each SQL statement is atomic (one UPDATE or INSERT) and everything      *)
(* between two of them interleaves: handlers, the other workers, crashes,  *)
(* restarts under the same worker id, statements that fail, and the        *)
(* administrator's fetch_by_id, update, reschedule and vacuum.             *)
(*                                                                         *)
(* Time is what the statements compare: a row is due or not, and its lock  *)
(* is "live" until its holder has missed five keep-alives, then "late".    *)
(***************************************************************************)
EXTENDS Naturals, FiniteSets

CONSTANTS
    Workers,       \* worker ids, the names of lock_by
    Tasks,         \* task ids
    Settings,      \* the storage-wide attempt budget
    Default,       \* PgContext::default(): what "no explicit budget" looks like
    Limit,         \* BUFFER_SIZE: rows per claim, acks per write, channel length
    Concurrency,   \* handlers a worker runs at once (the worker's own setting)
    MaxPush,       \* bound: pushes
    MaxUpsets,     \* bound: crashes, stalls of a live worker, failed statements
                   \* and administrator's calls, together
    NoWorker

ASSUME TaskQueueAssumption ==
    /\ Settings \in Nat \ {0} /\ Default \in Nat \ {0}
    /\ Limit \in Nat \ {0} /\ Concurrency \in Nat \ {0}
    /\ NoWorker \notin Workers

VARIABLES
    rows,     \* the table: task -> row
    hb,       \* worker -> where its heartbeat is
    batch,    \* worker -> claimed jobs still to be sent
    chan,     \* worker -> jobs in the channel to the worker
    running,  \* worker -> jobs whose handler runs
    acks,     \* worker -> outcomes not yet written
    held,     \* what the administrator's last fetch_by_id answered
    used,     \* what is left of the bounds
    claims,   \* history: task -> times its row was claimed
    lapses,   \* history: task -> times its lock lapsed while claimed
    touched   \* history: tasks the administrator updated, moved or removed

vars == <<rows, hb, batch, chan, running, acks, held, used,
          claims, lapses, touched>>

Row == [st : {"none", "pending", "running", "done", "killed"},
        n : Nat, max : Nat, due : BOOLEAN, good : BOOLEAN,
        by : Workers \cup {NoWorker}, lock : {"none", "live", "late"}]

NoRow == [st |-> "none", n |-> 0, max |-> 0, due |-> FALSE, good |-> FALSE,
          by |-> NoWorker, lock |-> "none"]

Job == [task : Tasks, attempt : Nat, max : Nat]
AckRow == [task : Tasks, status : {"done", "killed", "pending"}]

TypeOK ==
    /\ rows \in [Tasks -> Row]
    /\ hb \in [Workers -> {"dead", "start", "loop", "sweep", "send"}]
    /\ \A w \in Workers : /\ batch[w] \subseteq Job /\ chan[w] \subseteq Job
                          /\ running[w] \subseteq Job /\ acks[w] \subseteq AckRow
                          /\ Cardinality(chan[w]) <= Limit
                          /\ hb[w] # "send" => batch[w] = {}
                          /\ hb[w] = "dead" => chan[w] \cup running[w] = {}
    /\ \A t \in Tasks : rows[t].st = "running" <=> rows[t].by # NoWorker
    /\ \A t \in Tasks : rows[t].by = NoWorker <=> rows[t].lock = "none"

Init ==
    /\ rows = [t \in Tasks |-> NoRow]
    /\ hb = [w \in Workers |-> "start"]
    /\ batch = [w \in Workers |-> {}]
    /\ chan = [w \in Workers |-> {}]
    /\ running = [w \in Workers |-> {}]
    /\ acks = [w \in Workers |-> {}]
    /\ held = NoRow
    /\ used = [push |-> 0, upset |-> 0]
    /\ claims = [t \in Tasks |-> 0]
    /\ lapses = [t \in Tasks |-> 0]
    /\ touched = {}

\* No worker, no row: a queue nothing happens in.
Idle ==
    /\ rows = [t \in Tasks |-> NoRow]
    /\ hb = [w \in Workers |-> "dead"]
    /\ batch = [w \in Workers |-> {}] /\ chan = batch
    /\ running = batch /\ acks = batch
    /\ held = NoRow /\ used = [push |-> 0, upset |-> 0]
    /\ claims = [t \in Tasks |-> 0] /\ lapses = claims /\ touched = {}

Spend(what) == used' = [used EXCEPT ![what] = @ + 1]

-----------------------------------------------------------------------------
(* Producers.                                                              *)

\* The default context takes the storage-wide budget; so does an explicit one
\* that happens to equal the default.
ResolveMaxAttempts(ctx) == IF ctx = Default THEN Settings ELSE ctx

Insert(t, ctx, due, good) ==
    rows' = [rows EXCEPT ![t] =
        IF @.st # "none" THEN @          \* ON CONFLICT (task_id) DO NOTHING
        ELSE [NoRow EXCEPT !.st = "pending", !.max = ResolveMaxAttempts(ctx),
                           !.due = due, !.good = good]]

PushRest == /\ used.push < MaxPush
            /\ Spend("push")
            /\ UNCHANGED <<hb, batch, chan, running, acks, held,
                           claims, lapses, touched>>

PushRequest(t) == \E ctx \in {1, Default} : Insert(t, ctx, TRUE, TRUE) /\ PushRest

\* A raw push is not encoded here: its payload may not decode at the claim.
PushRawRequest(t) == Insert(t, Default, TRUE, FALSE) /\ PushRest

ScheduleRequest(t) == Insert(t, Default, FALSE, TRUE) /\ PushRest

\* The due time of a scheduled or backed-off row arrives.
BecomesDue(t) ==
    /\ rows[t].st = "pending" /\ ~rows[t].due
    /\ rows' = [rows EXCEPT ![t].due = TRUE]
    /\ UNCHANGED <<hb, batch, chan, running, acks, held, used,
                   claims, lapses, touched>>

-----------------------------------------------------------------------------
(* The heartbeat.                                                          *)

Upset == used.upset < MaxUpsets /\ Spend("upset")
Works == UNCHANGED used

\* Mutant: the sweep updates nothing.
SweptNothing == rows

\* status running and lock_at < now(): pending again, unlocked, whatever the
\* number of attempts already spent.
Swept == [t \in Tasks |->
            IF rows[t].st = "running" /\ rows[t].lock = "late"
            THEN [rows[t] EXCEPT !.st = "pending", !.by = NoWorker, !.lock = "none"]
            ELSE rows[t]]

SweepOrphans(w, from) ==
    /\ hb[w] = from
    /\ hb' = [hb EXCEPT ![w] = "loop"]
    /\ \/ rows' = Swept /\ Works
       \/ UNCHANGED rows /\ Upset
    /\ UNCHANGED <<batch, chan, running, acks, held, claims, lapses, touched>>

StartSweep(w) == SweepOrphans(w, "start")

\* keep_alive: every running row that carries this worker's id, whoever
\* claimed it under that id.
RefreshLocks(w) ==
    /\ hb[w] = "loop"
    /\ hb' = [hb EXCEPT ![w] = "sweep"]
    /\ \/ /\ rows' = [t \in Tasks |->
                        IF rows[t].st = "running" /\ rows[t].by = w
                        THEN [rows[t] EXCEPT !.lock = "live"] ELSE rows[t]]
          /\ Works
       \/ UNCHANGED rows /\ Upset
    /\ UNCHANGED <<batch, chan, running, acks, held, claims, lapses, touched>>

KeepAliveSweep(w) == SweepOrphans(w, "sweep")

\* Mutant: a claim that does not look at the status.
DueOrRunning == {t \in Tasks : rows[t].st \in {"pending", "running"} /\ rows[t].due}

Due == {t \in Tasks : rows[t].st = "pending" /\ rows[t].due}

Claimed(S, w) ==
    [t \in Tasks |-> IF t \notin S THEN rows[t]
                     ELSE [rows[t] EXCEPT !.st = "running", !.n = @ + 1,
                                          !.by = w, !.lock = "live"]]

\* request_from_row: the job a claimed row becomes.
RequestFromRow(t, row) == [task |-> t, attempt |-> row.n, max |-> row.max]

\* One statement claims the rows; one row that does not decode makes the whole
\* answer an error, the rows stay claimed.
FetchNext(w) ==
    /\ hb[w] = "loop"
    /\ Cardinality(running[w]) < Concurrency        \* worker.is_ready()
    /\ \E S \in SUBSET Due :
         /\ S # {}
         /\ Cardinality(S) = Limit \/ (S = Due /\ Cardinality(S) < Limit)
         /\ rows' = Claimed(S, w)
         /\ claims' = [t \in Tasks |-> IF t \in S THEN claims[t] + 1 ELSE claims[t]]
         /\ IF \A t \in S : rows[t].good
            THEN /\ batch' = [batch EXCEPT ![w] =
                        {RequestFromRow(t, rows'[t]) : t \in S}]
                 /\ hb' = [hb EXCEPT ![w] = "send"]
            ELSE UNCHANGED <<batch, hb>>
    /\ UNCHANGED <<chan, running, acks, held, used, lapses, touched>>

\* tx.send(job).await inside the claim: nothing else of the loop runs until the
\* channel has taken every job of the batch.
SendJob(w) ==
    /\ hb[w] = "send"
    /\ Cardinality(chan[w]) < Limit
    /\ \E job \in batch[w] :
         /\ chan' = [chan EXCEPT ![w] = @ \cup {job}]
         /\ batch' = [batch EXCEPT ![w] = @ \ {job}]
         /\ hb' = [hb EXCEPT ![w] = IF batch[w] = {job} THEN "loop" ELSE "send"]
    /\ UNCHANGED <<rows, running, acks, held, used, claims, lapses, touched>>

AckApplies(t) == rows[t].st = "running"

StatusToSql(status) == status

\* One statement for a chunk of acks; it looks at the row's status, not at who
\* holds it. A retry keeps run_at from the ack: due later.
WriteAcks(w) ==
    /\ hb[w] = "loop"
    /\ \E A \in SUBSET acks[w] :
         /\ A # {} /\ Cardinality(A) <= Limit
         /\ \A a, b \in A : a.task = b.task => a = b
         /\ acks' = [acks EXCEPT ![w] = @ \ A]
         /\ \/ /\ rows' = [t \in Tasks |->
                     IF AckApplies(t) /\ \E a \in A : a.task = t
                     THEN LET a == CHOOSE a \in A : a.task = t
                          IN [rows[t] EXCEPT !.st = StatusToSql(a.status),
                                  !.due = (a.status # "pending" /\ rows[t].due),
                                  !.by = NoWorker, !.lock = "none"]
                     ELSE rows[t]]
               /\ Works
            \/ UNCHANGED rows /\ Upset
    /\ UNCHANGED <<hb, batch, chan, running, held, claims, lapses, touched>>

-----------------------------------------------------------------------------
(* The worker, its handlers, its end.                                      *)

\* The worker takes a job off the channel and runs its handler.
StartHandler(w) ==
    /\ Cardinality(running[w]) < Concurrency
    /\ \E job \in chan[w] :
         /\ chan' = [chan EXCEPT ![w] = @ \ {job}]
         /\ running' = [running EXCEPT ![w] = @ \cup {job}]
    /\ UNCHANGED <<rows, hb, batch, acks, held, used, claims, lapses, touched>>

\* What ack makes of an outcome: the attempt and its budget are those of the
\* claim, not those of the row by now.
AckStatus(job, out) ==
    CASE out = "ok" -> "done"
      [] out = "abort" -> "killed"
      [] out = "err" /\ job.attempt >= job.max -> "killed"
      [] out = "err" /\ job.attempt < job.max -> "pending"

FinishHandler(w) ==
    \E job \in running[w], out \in {"ok", "abort", "err"} :
        /\ running' = [running EXCEPT ![w] = @ \ {job}]
        /\ acks' = [acks EXCEPT ![w] = @ \cup
                       {[task |-> job.task, status |-> AckStatus(job, out)]}]
        /\ UNCHANGED <<rows, hb, batch, chan, held, used, claims, lapses, touched>>

\* The lock of a claimed row lapses: five keep-alives without a refresh. Its
\* holder is dead, or alive and stalled (in a send, or by failing statements).
LockLapses(t) ==
    /\ rows[t].st = "running" /\ rows[t].lock = "live"
    /\ \/ hb[rows[t].by] = "dead" /\ Works
       \/ hb[rows[t].by] # "dead" /\ Upset
    /\ rows' = [rows EXCEPT ![t].lock = "late"]
    /\ lapses' = [lapses EXCEPT ![t] = @ + 1]
    /\ UNCHANGED <<hb, batch, chan, running, acks, held, claims, touched>>

\* The process ends: claims, handlers and unwritten outcomes go with it.
Crash(w) ==
    /\ hb[w] # "dead"
    /\ Upset
    /\ hb' = [hb EXCEPT ![w] = "dead"]
    /\ batch' = [batch EXCEPT ![w] = {}]
    /\ chan' = [chan EXCEPT ![w] = {}]
    /\ running' = [running EXCEPT ![w] = {}]
    /\ acks' = [acks EXCEPT ![w] = {}]
    /\ UNCHANGED <<rows, held, claims, lapses, touched>>

\* A new process under the same id, sweeping before it claims.
Restart(w) ==
    /\ hb[w] = "dead"
    /\ hb' = [hb EXCEPT ![w] = "start"]
    /\ UNCHANGED <<rows, batch, chan, running, acks, held, used,
                   claims, lapses, touched>>

-----------------------------------------------------------------------------
(* The administrator's side of Storage.                                    *)

AdminRest == /\ Upset
             /\ UNCHANGED <<hb, batch, chan, running, acks, lapses>>

\* fetch_by_id: a row that does not decode is an error, nothing is held.
FetchById(t) ==
    /\ rows[t].st # "none" /\ rows[t].good
    /\ held' = rows[t]
    /\ AdminRest /\ UNCHANGED <<rows, claims, touched>>

\* update: budget and attempts as the caller read them, whatever happened to
\* the row since.
Update(t) ==
    /\ held.st # "none" /\ rows[t].st # "none"
    /\ rows' = [rows EXCEPT ![t].max = held.max + 1, ![t].n = held.n]
    /\ touched' = touched \cup {t}
    /\ AdminRest /\ UNCHANGED <<held, claims>>

\* reschedule: any row, a running or finished one too.
Reschedule(t) ==
    /\ rows[t].st # "none"
    /\ rows' = [rows EXCEPT ![t].st = "pending", ![t].due = FALSE,
                            ![t].by = NoWorker, ![t].lock = "none"]
    /\ touched' = touched \cup {t}
    /\ AdminRest /\ UNCHANGED <<held, claims>>

\* vacuum: rows done or killed before the retention cutoff.
Vacuum ==
    /\ \E old \in SUBSET {t \in Tasks : rows[t].st \in {"done", "killed"}} :
         /\ old # {}
         /\ rows' = [t \in Tasks |-> IF t \in old THEN NoRow ELSE rows[t]]
         /\ touched' = touched \cup old
    /\ AdminRest /\ UNCHANGED <<held, claims>>

-----------------------------------------------------------------------------
Admin == \/ Vacuum
         \/ \E t \in Tasks : FetchById(t) \/ Update(t) \/ Reschedule(t)

Push == \E t \in Tasks : PushRequest(t) \/ PushRawRequest(t) \/ ScheduleRequest(t)

Heartbeat(w) == \/ StartSweep(w) \/ RefreshLocks(w) \/ KeepAliveSweep(w)
                \/ FetchNext(w) \/ SendJob(w) \/ WriteAcks(w)

Next == \/ Push \/ Admin
        \/ \E t \in Tasks : BecomesDue(t) \/ LockLapses(t)
        \/ \E w \in Workers : \/ Heartbeat(w) \/ StartHandler(w)
                              \/ FinishHandler(w) \/ Crash(w) \/ Restart(w)

\* Due times arrive and locks nobody refreshes lapse; a live heartbeat serves
\* each of its three arms again and again (select! picks at random among those
\* ready, so an arm that stays ready is picked); handlers return.
Fairness ==
    /\ \A t \in Tasks : WF_vars(BecomesDue(t))
    /\ \A t \in Tasks : WF_vars(rows[t].by # NoWorker /\ hb[rows[t].by] = "dead"
                                /\ LockLapses(t))
    /\ \A w \in Workers :
         /\ WF_vars(StartSweep(w)) /\ WF_vars(KeepAliveSweep(w))
         /\ SF_vars(RefreshLocks(w)) /\ SF_vars(FetchNext(w)) /\ SF_vars(WriteAcks(w))
         /\ WF_vars(SendJob(w))
         /\ WF_vars(StartHandler(w)) /\ WF_vars(FinishHandler(w))

Spec == Init /\ [][Next]_vars /\ Fairness

-----------------------------------------------------------------------------
Copies(w) == batch[w] \cup chan[w] \cup running[w]
CopiesOf(t) == UNION {{<<w, job>> : job \in {j \in Copies(w) : j.task = t}}
                         : w \in Workers}

\* No row is handed out twice: two jobs of one task are in flight at once only
\* if its lock lapsed under the first, or an administrator moved the row.
ClaimedOnce ==
    \A t \in Tasks : Cardinality(CopiesOf(t)) <= 1 \/ lapses[t] > 0 \/ t \in touched

\* A task runs once per attempt of its budget, and once more for each lapse of
\* its lock, however late acks of earlier attempts and sweeps interleave.
AttemptsBounded ==
    \A t \in Tasks : claims[t] > 0 /\ t \notin touched /\ rows[t].st # "none"
                        => claims[t] <= rows[t].max + lapses[t]

\* A finished row stays as it is for every worker, whatever acks of earlier
\* claims are still on their way; only the administrator moves or removes it.
FinishedIsFinal ==
    [][\A t \in Tasks : rows[t].st \in {"done", "killed"} =>
            rows'[t] = rows[t] \/ Admin]_vars

\* A task whose row is running while no worker has it any more, under the id of
\* a live worker, which refreshes its lock for good.
Stranded(t) ==
    /\ rows[t].st = "running" /\ hb[rows[t].by] # "dead"
    /\ CopiesOf(t) = {}
    /\ \A w \in Workers : \A a \in acks[w] : a.task # t

\* A pushed task is finished in the end, after crashes, lapsed locks and failed
\* statements, as long as some worker stays up, unless it gets stranded.
EndsInTheEnd ==
    \A t \in Tasks :
        []<>(\/ rows[t].st \in {"none", "done", "killed"} \/ Stranded(t)
             \/ \A w \in Workers : hb[w] = "dead")

\* The crate's promise on a crash (lib.rs, "Crash recovery"): a dead worker's
\* in-flight work returns to the pool automatically.
OrphansReturn ==
    \A t \in Tasks :
        (rows[t].st = "running" /\ hb[rows[t].by] = "dead") ~>
            \/ rows[t].st # "running" \/ CopiesOf(t) # {}
            \/ \A w \in Workers : hb[w] = "dead"
=============================================================================
