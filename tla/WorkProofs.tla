------------------------------ MODULE WorkProofs ------------------------------
(***************************************************************************)
(* The background work, for any size of it: what a distributed transaction *)
(* leaves behind, whatever the number of its branches and the faults of    *)
(* its calls; what the workers of a task queue claim; which minutes the    *)
(* cron server fires, however late its timer; and whom the MQTT bridge     *)
(* hands a delivery to, whatever the filters.                              *)
(***************************************************************************)
EXTENDS MCWork, FiniteSetTheorems, WellFoundedInduction, TLAPS

-----------------------------------------------------------------------------
(* A distributed transaction.                                              *)

Undecided == {"prepared", "aborting", "failed"}

\* Where the initiator is, what it has seen so far: a closure runs only between
\* a prepare the server took and the submit, so no tcc or xa is submitted while
\* branches are called; who aborts has an error to tell.
InitiatorInv ==
  /\ pc = "start" => /\ server = "none" /\ registered = {} /\ busi = "none"
                     /\ \A b \in 0 .. MaxBranches : effect[b] = "none"
  /\ pc \in {"closure", "call"} => /\ pattern \in {"tcc", "xa"} /\ busi = "none"
                                   /\ server \in Undecided
  /\ pc = "call" => next \in D!Branches /\ (pattern = "tcc" => next \in registered)
  /\ pc = "business" => pattern = "msg" /\ busi = "none" /\ effect[0] # "done"
  /\ pc = "query" => pattern = "msg" /\ busi \in D!Errors
  /\ pc = "submit" => /\ pattern # "saga"
                      /\ busi # "ok" => pattern = "msg" /\ busi \in D!Errors
                      /\ pattern # "msg" => server \in Undecided
                      /\ pattern = "msg" => effect[0] = "done"
  /\ pc = "abort" => /\ pattern # "saga" /\ busi \in D!Errors
                     /\ pattern # "msg" => server \in Undecided
                     /\ pattern = "msg" => effect[0] # "done"

\* What the services did, as far as the server knows: no try without a
\* registration, nothing confirmed on the way to an abort, nothing cancelled on
\* the way to a commit, and nothing left open at the end of either.
BranchesInv ==
  \A b \in D!Branches :
    /\ effect[b] # "none" => b \in registered
    /\ server \in {"none", "prepared"} => effect[b] \in {"none", "done"}
    /\ server \in {"submitted", "succeeded"} => effect[b] # "cancelled"
    /\ server \in {"aborting", "failed"} => effect[b] # "confirmed"
    /\ server = "succeeded" /\ b \in registered => effect[b] = "confirmed"
    /\ server = "failed" /\ b \in registered => effect[b] = "cancelled"

\* The business call of a message: barred once the server has given it up.
MessageInv ==
  pattern = "msg" =>
    /\ registered = {}
    /\ pc = "business" /\ server \in {"aborting", "failed"} => effect[0] = "cancelled"

DtmInv ==
  /\ D!TypeOK /\ InitiatorInv /\ BranchesInv /\ MessageInv
  /\ D!MessageFollowsBusiness /\ D!ToldAsDone

\* call_dtm, l. 83-110: what each of its three uses leaves of the server's state.
LEMMA Exchanges ==
  ASSUME NEW r, faults \in 0 .. MaxFaults
  PROVE  /\ D!CallDtm("prepare", r) =>
              /\ r \in {"ok", "Dtm", "Request"} /\ faults' \in 0 .. MaxFaults
              /\ server' = server \/ (server = "none" /\ server' = "prepared")
              /\ r = "ok" => server = "none" /\ server' = "prepared"
         /\ D!CallDtm("submit", r) =>
              /\ r \in {"ok", "Dtm", "Request"} /\ faults' \in 0 .. MaxFaults
              /\ server' = server \/ (server \in {"none", "prepared"} /\ server' = "submitted")
              /\ r = "ok" => server' = "submitted"
         /\ D!CallDtm("abort", r) =>
              /\ r \in {"ok", "Dtm", "Request"} /\ faults' \in 0 .. MaxFaults
              /\ server' = server \/ (server = "prepared" /\ server' = "aborting")
<1>1. /\ D!Accepts("prepare") <=> server = "none"
      /\ D!Accepts("submit") <=> server \in {"none", "prepared", "submitted"}
      /\ D!Accepts("abort") <=> server \in {"prepared", "aborting"}  BY DEF D!Accepts
<1>2. /\ D!After("prepare") = "prepared" /\ D!After("submit") = "submitted"
      /\ D!After("abort") = "aborting"  BY DEF D!After
<1>3. MaxFaults \in Nat  BY DtmAssumption
<1>4. D!Lose => faults' \in 0 .. MaxFaults  BY <1>3 DEF D!Lose
<1> USE DEF D!CallDtm
<1>5. ASSUME D!CallDtm("prepare", r)
      PROVE  /\ r \in {"ok", "Dtm", "Request"} /\ faults' \in 0 .. MaxFaults
             /\ server' = server \/ (server = "none" /\ server' = "prepared")
             /\ r = "ok" => server = "none" /\ server' = "prepared"  BY <1>1, <1>2, <1>4, <1>5
<1>6. ASSUME D!CallDtm("submit", r)
      PROVE  /\ r \in {"ok", "Dtm", "Request"} /\ faults' \in 0 .. MaxFaults
             /\ server' = server \/ (server \in {"none", "prepared"} /\ server' = "submitted")
             /\ r = "ok" => server' = "submitted"  BY <1>1, <1>2, <1>4, <1>6
<1>7. ASSUME D!CallDtm("abort", r)
      PROVE  /\ r \in {"ok", "Dtm", "Request"} /\ faults' \in 0 .. MaxFaults
             /\ server' = server \/ (server = "prepared" /\ server' = "aborting")  BY <1>1, <1>2, <1>4, <1>7
<1> QED  BY <1>5, <1>6, <1>7

\* A call of a branch's service: it does its part at most once, and a failure of
\* the call itself spends a fault.
LEMMA Requests ==
  ASSUME D!TypeOK, NEW b \in 0 .. MaxBranches, NEW r, D!RequestBranch(b, r)
  PROVE  /\ effect' \in D!Effects /\ faults' \in 0 .. MaxFaults
         /\ r \in {"ok", "Failure", "Ongoing", "Dtm", "Request"}
         /\ \A d \in 0 .. MaxBranches : d # b => effect'[d] = effect[d]
         /\ \/ effect'[b] = effect[b] /\ r # "ok"
            \/ effect[b] = "none" /\ effect'[b] = "done" /\ r # "Failure"
<1>1. PICK did \in BOOLEAN :
        /\ did => effect[b] = "none"
        /\ effect' = [effect EXCEPT ![b] = IF did THEN "done" ELSE @]
        /\ r \in D!RespToDtmError(did)
        /\ IF r \in {"Ongoing", "Dtm", "Request"} THEN D!Lose ELSE UNCHANGED faults  BY DEF D!RequestBranch
<1>2. effect \in D!Effects /\ faults \in 0 .. MaxFaults /\ MaxFaults \in Nat  BY DtmAssumption DEF D!TypeOK
<1>3. faults' \in 0 .. MaxFaults  BY <1>1, <1>2 DEF D!Lose
<1>4. CASE did  BY <1>1, <1>2, <1>3, <1>4 DEF D!RespToDtmError, D!Effects
<1>5. CASE ~did  BY <1>1, <1>2, <1>3, <1>5 DEF D!RespToDtmError, D!Effects
<1> QED  BY <1>4, <1>5

LEMMA DtmStart == D!Init \/ D!Idle => DtmInv
<1> SUFFICES ASSUME D!Init \/ D!Idle PROVE DtmInv  OBVIOUS
<1>1. /\ pattern \in D!Patterns /\ pc \in {"start", "gone"} /\ next = 0 /\ busi = "none"
      /\ answer = "none" /\ server = "none" /\ registered = {} /\ faults = 0
      /\ effect = [b \in 0 .. MaxBranches |-> "none"]  BY DEF D!Init, D!Idle, D!Patterns
<1>2. D!TypeOK  BY <1>1, DtmAssumption DEF D!TypeOK, D!Effects
<1>3. InitiatorInv /\ MessageInv /\ D!MessageFollowsBusiness /\ D!ToldAsDone
  BY <1>1 DEF InitiatorInv, MessageInv, D!MessageFollowsBusiness, D!ToldAsDone
<1>4. BranchesInv  BY <1>1, DtmAssumption DEF BranchesInv, D!Branches
<1> QED  BY <1>2, <1>3, <1>4 DEF DtmInv

\* What each step of the initiator, the server and the services keeps.
LEMMA DtmStep == DtmInv /\ [D!Next]_dtmVars => DtmInv'
<1> SUFFICES ASSUME DtmInv, [D!Next]_dtmVars PROVE DtmInv'  OBVIOUS
<1> USE DEF DtmInv, D!TypeOK, InitiatorInv, BranchesInv, MessageInv,
            D!MessageFollowsBusiness, D!ToldAsDone, Undecided, D!Patterns, D!Errors
<1>t. /\ MaxBranches \in Nat /\ BranchLimit \in Nat /\ MaxFaults \in Nat
      /\ D!Branches = 1 .. MaxBranches /\ 0 \in 0 .. MaxBranches
      /\ \A b \in D!Branches : b \in 0 .. MaxBranches /\ b # 0  BY DtmAssumption DEF D!Branches
<1>1. CASE D!Prepare
 <2>1. PICK r \in D!Errors \cup {"ok"} :
         /\ D!CallDtm("prepare", r)
         /\ IF r = "ok"
            THEN /\ pc' = (IF pattern = "msg" THEN "business" ELSE "closure")
                 /\ UNCHANGED answer
            ELSE D!Tell(r)  BY <1>1 DEF D!Prepare
 <2>2. /\ r \in {"ok", "Dtm", "Request"} /\ faults' \in 0 .. MaxFaults
       /\ server' = server \/ (server = "none" /\ server' = "prepared")
       /\ r = "ok" => server' = "prepared"  BY <2>1, Exchanges
 <2>3. /\ pc = "start" /\ pattern \in {"tcc", "xa", "msg"}
       /\ UNCHANGED <<pattern, next, busi, registered, effect>>  BY <1>1 DEF D!Prepare
 <2> QED  BY <1>t, <2>1, <2>2, <2>3 DEF D!Tell
<1>2. CASE D!NextBranch
 <2>1. /\ pc = "closure" /\ next \in 0 .. BranchLimit /\ next < MaxBranches
       /\ UNCHANGED <<pattern, answer, server, effect>>  BY <1>2 DEF D!NextBranch
 <2>2. /\ next' \in 0 .. BranchLimit /\ faults' \in 0 .. MaxFaults
       /\ registered \subseteq registered' /\ registered' \subseteq D!Branches
       /\ registered' # registered => server = "prepared"
       /\ \/ pc' = "abort" /\ busi' \in D!Errors
          \/ /\ pc' = "call" /\ busi' = busi /\ next' \in D!Branches
             /\ pattern = "tcc" => next' \in registered'
  <3>1. CASE next >= BranchLimit  BY <1>2, <1>t, <2>1, <3>1 DEF D!NextBranch
  <3>2. CASE ~(next >= BranchLimit)
   <4>1. next' = next + 1 /\ next' \in 0 .. BranchLimit /\ next' \in D!Branches
     BY <1>2, <1>t, <2>1, <3>2 DEF D!NextBranch
   <4>2. CASE pattern = "tcc"
    <5>1. PICK r \in D!Errors \cup {"ok"} :
            /\ D!RegisterBranch(next', r)
            /\ busi' = (IF r = "ok" THEN busi ELSE r)
            /\ pc' = (IF r = "ok" THEN "call" ELSE "abort")  BY <1>2, <3>2, <4>2 DEF D!NextBranch
    <5>2. D!Lose => faults' \in 0 .. MaxFaults  BY <1>t DEF D!Lose
    <5>3. /\ faults' \in 0 .. MaxFaults
          /\ r \in {"ok", "Dtm", "Request"}
          /\ \/ registered' = registered /\ r # "ok"
             \/ registered' = registered \cup {next'} /\ server = "prepared"  BY <5>1, <5>2 DEF D!RegisterBranch
    <5> QED  BY <4>1, <5>1, <5>3
   <4>3. CASE pattern # "tcc"  BY <1>2, <2>1, <3>2, <4>1, <4>3 DEF D!NextBranch
   <4> QED  BY <4>2, <4>3
  <3> QED  BY <3>1, <3>2
 <2>3. D!TypeOK'  BY <2>1, <2>2
 <2>4. InitiatorInv' /\ MessageInv' /\ D!MessageFollowsBusiness' /\ D!ToldAsDone'  BY <2>1, <2>2
 <2>5. BranchesInv'  BY <2>1, <2>2
 <2> QED  BY <2>3, <2>4, <2>5
<1>3. CASE D!CallBranch
 <2>1. PICK r \in D!Errors \cup {"ok"} :
         /\ D!RequestBranch(next, r)
         /\ IF pattern = "xa" /\ effect'[next] # effect[next]
            THEN server = "prepared" /\ registered' = registered \cup {next}
            ELSE UNCHANGED registered
         /\ busi' = (IF r = "ok" THEN busi ELSE r)
         /\ pc' = (IF r = "ok" THEN "closure" ELSE "abort")  BY <1>3 DEF D!CallBranch
 <2>2. next \in D!Branches /\ next \in 0 .. MaxBranches  BY <1>3, <1>t DEF D!CallBranch
 <2>3. /\ effect' \in D!Effects /\ faults' \in 0 .. MaxFaults
       /\ \A d \in 0 .. MaxBranches : d # next => effect'[d] = effect[d]
       /\ \/ effect'[next] = effect[next] /\ r # "ok"
          \/ effect[next] = "none" /\ effect'[next] = "done" /\ r # "Failure"  BY <2>1, <2>2, Requests
 <2>4. pc = "call" /\ UNCHANGED <<pattern, next, answer, server>>  BY <1>3 DEF D!CallBranch
 <2>5. /\ pattern \in {"tcc", "xa"} /\ server \in Undecided /\ busi = "none"
       /\ r = "ok" \/ r \in D!Errors
       /\ pattern = "tcc" => next \in registered  BY <2>1, <2>4
 <2>6. /\ registered \subseteq registered' /\ registered' \subseteq D!Branches
       /\ registered' # registered \/ pattern = "xa" =>
             (effect'[next] = effect[next] \/ server = "prepared")
       /\ effect'[next] # effect[next] => next \in registered'
       /\ \A b \in registered' : b \in registered \/ (b = next /\ server = "prepared")
   BY <2>1, <2>2, <2>5, ZenonT(60)
 <2>7. D!TypeOK'  BY <2>1, <2>3, <2>4, <2>5, <2>6
 <2>8. InitiatorInv' /\ MessageInv' /\ D!MessageFollowsBusiness' /\ D!ToldAsDone'  BY <2>1, <2>4, <2>5
 <2>9. ASSUME NEW b \in D!Branches
       PROVE  /\ effect'[b] # "none" => b \in registered'
              /\ server \in {"none", "prepared"} => effect'[b] \in {"none", "done"}
              /\ server \in {"submitted", "succeeded"} => effect'[b] # "cancelled"
              /\ server \in {"aborting", "failed"} => effect'[b] # "confirmed"
              /\ server = "succeeded" /\ b \in registered' => effect'[b] = "confirmed"
              /\ server = "failed" /\ b \in registered' => effect'[b] = "cancelled"
  <3>1. CASE b = next  BY <2>2, <2>3, <2>5, <2>6, <3>1
  <3>2. CASE b # next  BY <1>t, <2>2, <2>3, <2>5, <2>6, <3>2
  <3> QED  BY <3>1, <3>2
 <2>10. BranchesInv'  BY <1>t, <2>4, <2>9
 <2> QED  BY <2>7, <2>8, <2>10
<1>4. CASE D!ClosureEnds  BY <1>4, <1>t DEF D!ClosureEnds
<1>5. CASE D!Submit
 <2>1. PICK r \in D!Errors \cup {"ok"} : D!CallDtm("submit", r) /\ D!Tell(D!Verdict(r))  BY <1>5 DEF D!Submit
 <2>2. /\ r \in {"ok", "Dtm", "Request"} /\ faults' \in 0 .. MaxFaults
       /\ server' = server \/ (server \in {"none", "prepared"} /\ server' = "submitted")
       /\ r = "ok" => server' = "submitted"  BY <2>1, Exchanges
 <2>3. pc = "submit" /\ UNCHANGED <<pattern, next, busi, registered, effect>>  BY <1>5 DEF D!Submit
 <2> QED  BY <1>t, <2>1, <2>2, <2>3 DEF D!Tell, D!Verdict
<1>6. CASE D!Abort
 <2>1. PICK r \in D!Errors \cup {"ok"} : D!CallDtm("abort", r)  BY <1>6 DEF D!Abort
 <2>2. /\ faults' \in 0 .. MaxFaults
       /\ server' = server \/ (server = "prepared" /\ server' = "aborting")  BY <2>1, Exchanges
 <2>3. pc = "abort" /\ D!Tell(busi) /\ UNCHANGED <<pattern, next, busi, registered, effect>>  BY <1>6 DEF D!Abort
 <2> QED  BY <1>t, <2>2, <2>3 DEF D!Tell
<1>7. CASE D!Business
 <2>1. PICK r \in D!Errors \cup {"ok"} :
         /\ D!RequestBranch(0, r) /\ busi' = r
         /\ pc' = (CASE r = "ok" -> "submit" [] r = "Failure" -> "abort" [] OTHER -> "query")
   BY <1>7 DEF D!Business
 <2>2. /\ effect' \in D!Effects /\ faults' \in 0 .. MaxFaults
       /\ r \in {"ok", "Failure", "Ongoing", "Dtm", "Request"}
       /\ \A d \in 0 .. MaxBranches : d # 0 => effect'[d] = effect[d]
       /\ \/ effect'[0] = effect[0] /\ r # "ok"
          \/ effect[0] = "none" /\ effect'[0] = "done" /\ r # "Failure"  BY <1>t, <2>1, Requests
 <2>3. pc = "business" /\ UNCHANGED <<pattern, next, answer, server, registered>>  BY <1>7 DEF D!Business
 <2> QED  BY <1>t, <2>1, <2>2, <2>3
<1>8. CASE D!QueryPrepared  BY <1>8, <1>t, SMTT(60) DEF D!QueryPrepared, D!QueryAnswer, D!Tell, D!Lose, D!Effects
<1>9. CASE D!SubmitSaga
 <2>1. PICK r \in D!Errors \cup {"ok"} : D!CallDtm("submit", r) /\ D!Tell(r)  BY <1>9 DEF D!SubmitSaga
 <2>2. /\ r \in {"ok", "Dtm", "Request"} /\ faults' \in 0 .. MaxFaults
       /\ server' = server \/ (server \in {"none", "prepared"} /\ server' = "submitted")
       /\ r = "ok" => server' = "submitted"  BY <2>1, Exchanges
 <2>3. /\ pc = "start" /\ pattern = "saga" /\ UNCHANGED <<pattern, next, busi, effect>>
       /\ registered' = (IF server' = "submitted" THEN D!Branches ELSE registered)  BY <1>9 DEF D!SubmitSaga
 <2> QED  BY <1>t, <2>1, <2>2, <2>3 DEF D!Tell
<1>10. CASE D!Crash  BY <1>10, <1>t DEF D!Crash
<1>11. CASE D!ServerTimeout  BY <1>11, <1>t DEF D!ServerTimeout, D!Effects
<1>12. CASE D!ServerBranch  BY <1>12, <1>t DEF D!ServerBranch, D!Effects
<1>13. CASE D!ServerStepFails  BY <1>13, <1>t DEF D!ServerStepFails, D!Effects
<1>14. CASE D!ServerEnds  BY <1>14, <1>t DEF D!ServerEnds
<1>15. CASE UNCHANGED dtmVars  BY <1>15 DEF dtmVars, D!Effects, D!Branches
<1> QED  BY <1>1, <1>2, <1>3, <1>4, <1>5, <1>6, <1>7, <1>8, <1>9, <1>10, <1>11, <1>12,
     <1>13, <1>14, <1>15 DEF D!Next

\* The transaction is one part of the background work; the others leave it alone.
LEMMA DtmRunsAlone == WorkNext => [D!Next]_dtmVars
BY DEF WorkNext, dtmVars, D!Next

\* Whatever the number of branches, whichever calls are lost and whoever times
\* out first, what an initiator leaves behind is confirmed or undone as a whole,
\* a message goes out exactly when its business call took effect, and nobody was
\* told anything else (do_and_submit and the two global transactions).
THEOREM TransactionsAreWhole == WorkSpec => []TransactionsWhole
<1>1. WorkInit => DtmInv  BY DtmStart DEF WorkInit
<1>2. DtmInv /\ [WorkNext]_WorkVars => DtmInv'
 <2>1. UNCHANGED WorkVars => UNCHANGED dtmVars  BY DEF WorkVars, dtmVars
 <2> QED  BY <2>1, DtmRunsAlone, DtmStep
<1>3. DtmInv => TransactionsWhole
 <2> SUFFICES ASSUME DtmInv PROVE D!AllOrNothing  BY DEF DtmInv, TransactionsWhole
 <2>1. effect \in [0 .. MaxBranches -> {"none", "done", "confirmed", "cancelled"}]
   BY DEF DtmInv, D!TypeOK, D!Effects
 <2>2. \A b \in D!Branches : b \in 0 .. MaxBranches  BY DtmAssumption DEF D!Branches
 <2> QED  BY <2>1, <2>2 DEF DtmInv, BranchesInv, D!AllOrNothing
<1> QED  BY <1>1, <1>2, <1>3, PTL DEF WorkSpec

-----------------------------------------------------------------------------
(* The task queue: types.                                                  *)

GoodRow(r) ==
  /\ r \in Row
  /\ r.st = "running" <=> r.by # NoWorker
  /\ r.by = NoWorker <=> r.lock = "none"

RowsOK == /\ rows \in [Tasks -> Row] /\ held \in Row
          /\ \A t \in Tasks : GoodRow(rows[t])

PlacesOK ==
  /\ hb \in [Workers -> {"dead", "start", "loop", "sweep", "send"}]
  /\ batch \in [Workers -> SUBSET Job] /\ chan \in [Workers -> SUBSET Job]
  /\ running \in [Workers -> SUBSET Job] /\ acks \in [Workers -> SUBSET AckRow]
  /\ \A w \in Workers : /\ IsFiniteSet(chan[w]) /\ Cardinality(chan[w]) <= Limit
                        /\ hb[w] # "send" => batch[w] = {}
                        /\ hb[w] = "dead" => chan[w] \cup running[w] = {}

HistoryOK ==
  claims \in [Tasks -> Nat] /\ lapses \in [Tasks -> Nat] /\ touched \subseteq Tasks

QueueTypes == RowsOK /\ PlacesOK /\ HistoryOK

LEMMA TypesGive == QueueTypes => TypeOK
BY DEF QueueTypes, RowsOK, GoodRow, PlacesOK, TypeOK

LEMMA NoRowIsGood == GoodRow(NoRow)
BY SMTT(60) DEF GoodRow, NoRow, Row

\* What the statements make of a row is a row.
LEMMA RowUpdates ==
  ASSUME NEW r, GoodRow(r)
  PROVE  /\ \A st \in {"pending", "done", "killed"}, due \in BOOLEAN :
              GoodRow([r EXCEPT !.st = st, !.due = due, !.by = NoWorker, !.lock = "none"])
         /\ GoodRow([r EXCEPT !.st = "pending", !.by = NoWorker, !.lock = "none"])
         /\ \A lock \in {"live", "late"} :
              r.st = "running" => GoodRow([r EXCEPT !.lock = lock])
         /\ \A w \in Workers :
              GoodRow([r EXCEPT !.st = "running", !.n = @ + 1, !.by = w, !.lock = "live"])
         /\ \A max, n \in Nat : GoodRow([r EXCEPT !.max = max, !.n = n])
         /\ \A due \in BOOLEAN : GoodRow([r EXCEPT !.due = due])
<1> USE DEF GoodRow, Row
<1>1. r = [st |-> r.st, n |-> r.n, max |-> r.max, due |-> r.due, good |-> r.good,
           by |-> r.by, lock |-> r.lock]  OBVIOUS
<1>2. /\ r.st \in {"none", "pending", "running", "done", "killed"}
      /\ r.n \in Nat /\ r.max \in Nat /\ r.due \in BOOLEAN /\ r.good \in BOOLEAN
      /\ r.by \in Workers \cup {NoWorker} /\ r.lock \in {"none", "live", "late"}  OBVIOUS
<1>3. ASSUME NEW st \in {"pending", "done", "killed"}, NEW due \in BOOLEAN
      PROVE  GoodRow([r EXCEPT !.st = st, !.due = due, !.by = NoWorker, !.lock = "none"])  BY <1>1, <1>2
<1>4. GoodRow([r EXCEPT !.st = "pending", !.by = NoWorker, !.lock = "none"])  BY <1>1, <1>2
<1>5. ASSUME NEW lock \in {"live", "late"}, r.st = "running"
      PROVE  GoodRow([r EXCEPT !.lock = lock])  BY <1>1, <1>2, <1>5
<1>6. ASSUME NEW w \in Workers
      PROVE  GoodRow([r EXCEPT !.st = "running", !.n = @ + 1, !.by = w, !.lock = "live"])
 <2> DEFINE m == r.n + 1
            new == [r EXCEPT !.st = "running", !.n = m, !.by = w, !.lock = "live"]
 <2>1. w # NoWorker /\ m \in Nat  BY <1>2, TaskQueueAssumption
 <2>2. new = [r EXCEPT !.st = "running", !.n = @ + 1, !.by = w, !.lock = "live"]  OBVIOUS
 <2> HIDE DEF m
 <2>3. GoodRow(new)  BY <1>1, <1>2, <2>1
 <2> HIDE DEF new, GoodRow
 <2> QED  BY <2>2, <2>3
<1>7. ASSUME NEW max \in Nat, NEW n \in Nat
      PROVE  GoodRow([r EXCEPT !.max = max, !.n = n])  BY <1>1, <1>2
<1>8. ASSUME NEW due \in BOOLEAN
      PROVE  GoodRow([r EXCEPT !.due = due])  BY <1>1, <1>2
<1> QED  BY <1>3, <1>4, <1>5, <1>6, <1>7, <1>8

\* Rows are good together when each is.
LEMMA RowsFrom ==
  ASSUME rows' = [t \in Tasks |-> rows'[t]], held' \in Row,
         \A t \in Tasks : GoodRow(rows'[t])
  PROVE  RowsOK'
<1>1. rows' \in [Tasks -> Row]  BY DEF GoodRow
<1> QED  BY <1>1 DEF RowsOK, GoodRow

LEMMA QueueTypesStart == Init \/ Idle => QueueTypes
<1> SUFFICES ASSUME Init \/ Idle PROVE QueueTypes  OBVIOUS
<1>1. /\ rows = [t \in Tasks |-> NoRow] /\ held = NoRow
      /\ hb \in [Workers -> {"dead", "start", "loop", "sweep", "send"}]
      /\ batch = [w \in Workers |-> {}] /\ chan = [w \in Workers |-> {}]
      /\ running = [w \in Workers |-> {}] /\ acks = [w \in Workers |-> {}]
      /\ claims = [t \in Tasks |-> 0] /\ lapses = [t \in Tasks |-> 0] /\ touched = {}  BY DEF Init, Idle
<1>2. RowsOK  BY <1>1, NoRowIsGood DEF RowsOK, GoodRow
<1>3. PlacesOK
 <2>1. IsFiniteSet({}) /\ Cardinality({}) = 0  BY FS_EmptySet
 <2> QED  BY <1>1, <2>1, TaskQueueAssumption DEF PlacesOK
<1> QED  BY <1>1, <1>2, <1>3 DEF QueueTypes, HistoryOK

\* The statements that touch rows, each with the rows it leaves.
LEMMA RowsStep == QueueTypes /\ [Next]_vars => RowsOK' /\ HistoryOK'
<1> SUFFICES ASSUME QueueTypes, [Next]_vars PROVE RowsOK' /\ HistoryOK'  OBVIOUS
<1> USE DEF QueueTypes, HistoryOK
<1>0. /\ rows \in [Tasks -> Row] /\ rows = [t \in Tasks |-> rows[t]] /\ held \in Row
      /\ \A t \in Tasks : GoodRow(rows[t]) /\ rows[t] \in Row  BY DEF RowsOK
<1>a. UNCHANGED <<rows, held>> => RowsOK'  BY DEF RowsOK, GoodRow
<1>1. ASSUME NEW t \in Tasks, PushRequest(t) \/ PushRawRequest(t) \/ ScheduleRequest(t)
      PROVE  RowsOK' /\ HistoryOK'
 <2>1. /\ UNCHANGED <<held, claims, lapses, touched>>
       /\ \E ctx \in {1, Default}, due \in BOOLEAN, good \in BOOLEAN : Insert(t, ctx, due, good)
   BY <1>1 DEF PushRequest, PushRawRequest, ScheduleRequest, PushRest
 <2>2. PICK ctx \in {1, Default}, due \in BOOLEAN, good \in BOOLEAN : Insert(t, ctx, due, good)  BY <2>1
 <2>3. rows' = [rows EXCEPT ![t] = IF rows[t].st # "none" THEN rows[t]
                  ELSE [NoRow EXCEPT !.st = "pending", !.max = ResolveMaxAttempts(ctx),
                                     !.due = due, !.good = good]]  BY <2>2 DEF Insert
 <2>4. ResolveMaxAttempts(ctx) \in Nat  BY TaskQueueAssumption DEF ResolveMaxAttempts
 <2>5. GoodRow([NoRow EXCEPT !.st = "pending", !.max = ResolveMaxAttempts(ctx),
                             !.due = due, !.good = good])  BY <2>4 DEF GoodRow, Row, NoRow
 <2>6. \A u \in Tasks : GoodRow(rows'[u])  BY <1>0, <2>3, <2>5
 <2>7. RowsOK'  BY <1>0, <2>1, <2>3, <2>6, RowsFrom
 <2> QED  BY <2>1, <2>7
<1>2. CASE Vacuum
 <2>1. PICK old \in SUBSET {t \in Tasks : rows[t].st \in {"done", "killed"}} :
         /\ rows' = [t \in Tasks |-> IF t \in old THEN NoRow ELSE rows[t]]
         /\ touched' = touched \cup old  BY <1>2 DEF Vacuum
 <2>2. UNCHANGED <<held, claims, lapses>>  BY <1>2 DEF Vacuum, AdminRest
 <2>3. \A t \in Tasks : GoodRow(rows'[t])  BY <1>0, <2>1, NoRowIsGood
 <2> QED  BY <1>0, <2>1, <2>2, <2>3, RowsFrom
<1>3. ASSUME NEW t \in Tasks, FetchById(t) \/ Update(t) \/ Reschedule(t)
      PROVE  RowsOK' /\ HistoryOK'
 <2>1. HistoryOK'  BY <1>3 DEF FetchById, Update, Reschedule, AdminRest
 <2>2. CASE FetchById(t)
  <3>1. held' \in Row /\ rows' = rows  BY <1>0, <2>2 DEF FetchById
  <3> QED  BY <1>0, <2>1, <3>1, RowsFrom
 <2>3. CASE Update(t)
  <3>1. rows' = [rows EXCEPT ![t] = [rows[t] EXCEPT !.max = held.max + 1, !.n = held.n]]  BY <2>3 DEF Update
  <3>2. held.max + 1 \in Nat /\ held.n \in Nat  BY <1>0, SMTT(60) DEF Row
  <3>3. \A u \in Tasks : GoodRow(rows'[u])  BY <1>0, <3>1, <3>2, RowUpdates
  <3> QED  BY <1>0, <2>1, <2>3, <3>1, <3>3, RowsFrom DEF Update
 <2>4. CASE Reschedule(t)
  <3>1. rows' = [rows EXCEPT ![t] = [rows[t] EXCEPT !.st = "pending", !.due = FALSE,
                                                    !.by = NoWorker, !.lock = "none"]]  BY <2>4 DEF Reschedule
  <3>2. \A u \in Tasks : GoodRow(rows'[u])  BY <1>0, <3>1, RowUpdates, ZenonT(60)
  <3> QED  BY <1>0, <2>1, <2>4, <3>1, <3>2, RowsFrom DEF Reschedule
 <2> QED  BY <1>3, <2>2, <2>3, <2>4
<1>4. ASSUME NEW t \in Tasks, BecomesDue(t) \/ LockLapses(t)
      PROVE  RowsOK' /\ HistoryOK'
 <2>1. HistoryOK' /\ held' = held  BY <1>4 DEF BecomesDue, LockLapses
 <2>2. \/ rows' = [rows EXCEPT ![t] = [rows[t] EXCEPT !.due = TRUE]]
       \/ rows[t].st = "running" /\ rows' = [rows EXCEPT ![t] = [rows[t] EXCEPT !.lock = "late"]]
   BY <1>4, SMTT(60) DEF BecomesDue, LockLapses
 <2>3. /\ GoodRow([rows[t] EXCEPT !.due = TRUE])
       /\ rows[t].st = "running" => GoodRow([rows[t] EXCEPT !.lock = "late"])  BY <1>0, RowUpdates
 <2>4. \A u \in Tasks : GoodRow(rows'[u])  BY <1>0, <2>2, <2>3
 <2> QED  BY <1>0, <2>1, <2>2, <2>4, RowsFrom
<1>5. ASSUME NEW w \in Workers, SweepOrphans(w, "start") \/ SweepOrphans(w, "sweep") \/ RefreshLocks(w)
      PROVE  RowsOK' /\ HistoryOK'
 <2>1. HistoryOK' /\ held' = held  BY <1>5 DEF SweepOrphans, RefreshLocks
 <2>2. rows' = [t \in Tasks |-> rows'[t]]  BY <1>0, <1>5 DEF SweepOrphans, RefreshLocks, Swept
 <2>4. ASSUME NEW t \in Tasks PROVE GoodRow(rows'[t])
  <3>1. GoodRow([rows[t] EXCEPT !.st = "pending", !.by = NoWorker, !.lock = "none"])
    BY <1>0, RowUpdates, ZenonT(60)
  <3>2. ASSUME rows[t].st = "running" PROVE GoodRow([rows[t] EXCEPT !.lock = "live"])  BY <1>0, <3>2, RowUpdates
  <3>3. CASE rows'[t] = rows[t]  BY <1>0, <3>3
  <3>4. CASE rows'[t] = [rows[t] EXCEPT !.st = "pending", !.by = NoWorker, !.lock = "none"]  BY <3>1, <3>4
  <3>5. CASE rows[t].st = "running" /\ rows'[t] = [rows[t] EXCEPT !.lock = "live"]  BY <3>2, <3>5
  <3>6. \/ rows'[t] = rows[t]
        \/ rows'[t] = [rows[t] EXCEPT !.st = "pending", !.by = NoWorker, !.lock = "none"]
        \/ rows[t].st = "running" /\ rows'[t] = [rows[t] EXCEPT !.lock = "live"]
    BY <1>5 DEF SweepOrphans, RefreshLocks, Swept
  <3> QED  BY <3>3, <3>4, <3>5, <3>6, SMTT(60)
 <2> QED  BY <1>0, <2>1, <2>2, <2>4, RowsFrom
<1>7. ASSUME NEW w \in Workers, FetchNext(w)
      PROVE  RowsOK' /\ HistoryOK'
 <2>1. PICK S \in SUBSET Due :
         /\ rows' = Claimed(S, w)
         /\ claims' = [t \in Tasks |-> IF t \in S THEN claims[t] + 1 ELSE claims[t]]  BY <1>7 DEF FetchNext
 <2>2. UNCHANGED <<held, lapses, touched>>  BY <1>7 DEF FetchNext
 <2>3. rows' = [t \in Tasks |-> IF t \notin S THEN rows[t]
                    ELSE [rows[t] EXCEPT !.st = "running", !.n = @ + 1,
                                         !.by = w, !.lock = "live"]]  BY <2>1 DEF Claimed
 <2>4. ASSUME NEW t \in Tasks PROVE GoodRow(rows'[t])
  <3>1. GoodRow([rows[t] EXCEPT !.st = "running", !.n = @ + 1, !.by = w, !.lock = "live"])  BY <1>0, RowUpdates
  <3> QED  BY <1>0, <2>3, <3>1, ZenonT(60)
 <2>5. RowsOK'  BY <1>0, <2>2, <2>3, <2>4, RowsFrom
 <2> QED  BY <2>1, <2>2, <2>5
<1>8. ASSUME NEW w \in Workers, WriteAcks(w)
      PROVE  RowsOK' /\ HistoryOK'
 <2>1. UNCHANGED <<held, claims, lapses, touched>>  BY <1>8, ZenonT(60) DEF WriteAcks
 <2>2. PICK A \in SUBSET acks[w] :
         \/ rows' = [t \in Tasks |->
                    IF AckApplies(t) /\ \E a \in A : a.task = t
                    THEN LET a == CHOOSE a \in A : a.task = t
                         IN [rows[t] EXCEPT !.st = StatusToSql(a.status),
                                 !.due = (a.status # "pending" /\ rows[t].due),
                                 !.by = NoWorker, !.lock = "none"]
                    ELSE rows[t]]
         \/ UNCHANGED rows  BY <1>8 DEF WriteAcks
 <2>4. \A a \in A : a.status \in {"pending", "done", "killed"}  BY DEF PlacesOK, AckRow
 <2>5. ASSUME NEW t \in Tasks PROVE GoodRow(rows'[t])
  <3>1. CASE rows'[t] = rows[t]  BY <1>0, <3>1
  <3>2. CASE rows'[t] # rows[t]
   <4> DEFINE a == CHOOSE a \in A : a.task = t
              due == a.status # "pending" /\ rows[t].due
   <4>1. /\ \E b \in A : b.task = t
         /\ rows'[t] = [rows[t] EXCEPT !.st = a.status, !.due = due,
                                      !.by = NoWorker, !.lock = "none"]  BY <2>2, <3>2 DEF StatusToSql
   <4>2. a \in A /\ due \in BOOLEAN  BY <4>1
   <4>3. a.status \in {"pending", "done", "killed"}  BY <2>4, <4>2, SMTT(60)
   <4> HIDE DEF a, due
   <4>4. GoodRow([rows[t] EXCEPT !.st = a.status, !.due = due,
                                 !.by = NoWorker, !.lock = "none"])  BY <1>0, <4>2, <4>3, RowUpdates
   <4> QED  BY <4>1, <4>4
  <3> QED  BY <3>1, <3>2
 <2>6. rows' = [t \in Tasks |-> rows'[t]]  BY <1>0, <2>2
 <2> QED  BY <1>0, <2>1, <2>5, <2>6, RowsFrom
<1>9. ASSUME NEW w \in Workers,
             SendJob(w) \/ StartHandler(w) \/ FinishHandler(w) \/ Crash(w) \/ Restart(w)
      PROVE  RowsOK' /\ HistoryOK'  BY <1>a, <1>9 DEF SendJob, StartHandler, FinishHandler, Crash, Restart
<1>10. CASE UNCHANGED vars  BY <1>a, <1>10 DEF vars
<1> QED
  BY <1>1, <1>2, <1>3, <1>4, <1>5, <1>7, <1>8, <1>9, <1>10
     DEF Next, Push, Admin, Heartbeat, StartSweep, KeepAliveSweep

\* Adding to a finite set, or taking from it, moves its size by one at most.
LEMMA SizesMove ==
  ASSUME NEW S, IsFiniteSet(S), NEW x
  PROVE  /\ IsFiniteSet(S \cup {x}) /\ IsFiniteSet(S \ {x})
         /\ Cardinality(S) \in Nat
         /\ Cardinality(S \cup {x}) \in Nat /\ Cardinality(S \ {x}) \in Nat
         /\ Cardinality(S \cup {x}) <= Cardinality(S) + 1
         /\ Cardinality(S \ {x}) <= Cardinality(S)
         /\ x \in S => Cardinality(S \ {x}) = Cardinality(S) - 1
<1>1. IsFiniteSet(S \cup {x}) /\ Cardinality(S) \in Nat  BY FS_AddElement, FS_CardinalityType
<1>2. IsFiniteSet(S \ {x})  BY FS_RemoveElement
<1>3. Cardinality(S \cup {x}) = IF x \in S THEN Cardinality(S) ELSE Cardinality(S) + 1  BY FS_AddElement
<1>4. Cardinality(S \ {x}) = IF x \in S THEN Cardinality(S) - 1 ELSE Cardinality(S)  BY FS_RemoveElement
<1>5. Cardinality(S \ {x}) \in Nat /\ Cardinality(S \cup {x}) \in Nat  BY <1>1, <1>2, FS_CardinalityType
<1> QED  BY <1>1, <1>2, <1>3, <1>4, <1>5

\* The heartbeat's batch and channel, the handlers and the outcomes.
LEMMA PlacesStep == QueueTypes /\ [Next]_vars => PlacesOK'
<1> SUFFICES ASSUME QueueTypes, [Next]_vars PROVE PlacesOK'  OBVIOUS
<1> USE DEF QueueTypes, PlacesOK
<1>1. ASSUME UNCHANGED <<hb, batch, chan, running, acks>> PROVE PlacesOK'  BY <1>1
<1>2. ASSUME NEW w \in Workers, NEW from \in {"start", "sweep"}, SweepOrphans(w, from)
      PROVE  PlacesOK'  BY <1>2 DEF SweepOrphans
<1>3. ASSUME NEW w \in Workers, RefreshLocks(w) PROVE PlacesOK'  BY <1>3 DEF RefreshLocks
<1>4. ASSUME NEW w \in Workers, FetchNext(w) PROVE PlacesOK'
 <2>1. PICK S \in SUBSET Due :
         /\ rows' = Claimed(S, w)
         /\ IF \A t \in S : rows[t].good
            THEN /\ batch' = [batch EXCEPT ![w] = {RequestFromRow(t, rows'[t]) : t \in S}]
                 /\ hb' = [hb EXCEPT ![w] = "send"]
            ELSE UNCHANGED <<batch, hb>>  BY <1>4 DEF FetchNext
 <2>2. UNCHANGED <<chan, running, acks>> /\ hb[w] = "loop"  BY <1>4 DEF FetchNext
 <2>3. S \subseteq Tasks /\ \A t \in Tasks : rows'[t] \in Row  BY <2>1, RowsStep DEF Due, RowsOK
 <2>4. {RequestFromRow(t, rows'[t]) : t \in S} \subseteq Job  BY <2>3 DEF RequestFromRow, Job, Row
 <2>5. /\ batch' \in [Workers -> SUBSET Job]
       /\ hb' \in [Workers -> {"dead", "start", "loop", "sweep", "send"}]
       /\ \A v \in Workers : hb'[v] # "send" => batch'[v] = {}
       /\ \A v \in Workers : hb'[v] = "dead" => hb[v] = "dead"
  <3>1. CASE UNCHANGED <<batch, hb>>  BY <3>1
  <3>2. CASE /\ batch' = [batch EXCEPT ![w] = {RequestFromRow(t, rows'[t]) : t \in S}]
             /\ hb' = [hb EXCEPT ![w] = "send"]
   <4> DEFINE J == {RequestFromRow(t, rows'[t]) : t \in S}
   <4>1. J \in SUBSET Job  BY <2>4
   <4> HIDE DEF J
   <4>2. batch' = [batch EXCEPT ![w] = J]  BY <3>2 DEF J
   <4> QED  BY <3>2, <4>1, <4>2
  <3> QED  BY <2>1, <3>1, <3>2
 <2> QED  BY <2>2, <2>5
<1>5. ASSUME NEW w \in Workers, SendJob(w) PROVE PlacesOK'
 <2>1. PICK job \in batch[w] :
         /\ chan' = [chan EXCEPT ![w] = @ \cup {job}]
         /\ batch' = [batch EXCEPT ![w] = @ \ {job}]
         /\ hb' = [hb EXCEPT ![w] = IF batch[w] = {job} THEN "loop" ELSE "send"]  BY <1>5 DEF SendJob
 <2>2. UNCHANGED <<running, acks>> /\ hb[w] = "send" /\ Cardinality(chan[w]) < Limit  BY <1>5 DEF SendJob
 <2>3. IsFiniteSet(chan'[w]) /\ Cardinality(chan'[w]) <= Limit
  <3>1. chan'[w] = chan[w] \cup {job}  BY <2>1
  <3>2. IsFiniteSet(chan[w])  OBVIOUS
  <3>3. /\ IsFiniteSet(chan[w] \cup {job}) /\ Cardinality(chan[w]) \in Nat
        /\ Cardinality(chan[w] \cup {job}) \in Nat
        /\ Cardinality(chan[w] \cup {job}) <= Cardinality(chan[w]) + 1  BY <3>2, SizesMove
  <3>4. Cardinality(chan[w] \cup {job}) <= Limit  BY <2>2, <3>3, TaskQueueAssumption
  <3> QED  BY <3>1, <3>3, <3>4
 <2>4. job \in Job  OBVIOUS
 <2> QED  BY <2>1, <2>2, <2>3, <2>4
<1>6. ASSUME NEW w \in Workers, WriteAcks(w) PROVE PlacesOK'  BY <1>6, ZenonT(60) DEF WriteAcks
<1>7. ASSUME NEW w \in Workers, StartHandler(w) PROVE PlacesOK'
 <2>1. PICK job \in chan[w] :
         /\ chan' = [chan EXCEPT ![w] = @ \ {job}]
         /\ running' = [running EXCEPT ![w] = @ \cup {job}]  BY <1>7 DEF StartHandler
 <2>2. UNCHANGED <<hb, batch, acks>> /\ hb[w] # "dead" /\ job \in Job  BY <1>7 DEF StartHandler
 <2>3. IsFiniteSet(chan'[w]) /\ Cardinality(chan'[w]) <= Limit
  <3>1. chan'[w] = chan[w] \ {job}  BY <2>1
  <3>2. IsFiniteSet(chan[w]) /\ Cardinality(chan[w]) <= Limit  OBVIOUS
  <3>3. /\ IsFiniteSet(chan[w] \ {job}) /\ Cardinality(chan[w]) \in Nat
        /\ Cardinality(chan[w] \ {job}) \in Nat
        /\ Cardinality(chan[w] \ {job}) <= Cardinality(chan[w])  BY <3>2, SizesMove
  <3> QED  BY <3>1, <3>2, <3>3, TaskQueueAssumption
 <2> QED  BY <2>1, <2>2, <2>3
<1>8. ASSUME NEW w \in Workers, FinishHandler(w) PROVE PlacesOK'
 <2>1. PICK job \in running[w], out \in {"ok", "abort", "err"} :
         /\ running' = [running EXCEPT ![w] = @ \ {job}]
         /\ acks' = [acks EXCEPT ![w] = @ \cup
                       {[task |-> job.task, status |-> AckStatus(job, out)]}]  BY <1>8 DEF FinishHandler
 <2>2. UNCHANGED <<hb, batch, chan>> /\ job \in Job  BY <1>8 DEF FinishHandler
 <2>3. AckStatus(job, out) \in {"done", "killed", "pending"}  BY <2>2 DEF AckStatus, Job
 <2>4. [task |-> job.task, status |-> AckStatus(job, out)] \in AckRow  BY <2>2, <2>3 DEF AckRow, Job
 <2> QED  BY <2>1, <2>2, <2>4
<1>9. ASSUME NEW w \in Workers, Crash(w) PROVE PlacesOK'
 <2>1. IsFiniteSet({}) /\ Cardinality({}) = 0  BY FS_EmptySet
 <2> QED  BY <1>9, <2>1, TaskQueueAssumption DEF Crash
<1>10. ASSUME NEW w \in Workers, Restart(w) PROVE PlacesOK'  BY <1>10 DEF Restart
<1>11. CASE UNCHANGED vars  BY <1>1, <1>11 DEF vars
<1>12. CASE Push \/ Admin \/ \E t \in Tasks : BecomesDue(t) \/ LockLapses(t)
  BY <1>1, <1>12, ZenonT(60) DEF Push, PushRequest, PushRawRequest, ScheduleRequest, PushRest, Admin,
     Vacuum, FetchById, Update, Reschedule, AdminRest, BecomesDue, LockLapses
<1> QED
  BY <1>2, <1>3, <1>4, <1>5, <1>6, <1>7, <1>8, <1>9, <1>10, <1>11, <1>12
     DEF Next, Heartbeat, StartSweep, KeepAliveSweep

LEMMA QueueTypesStep == QueueTypes /\ [Next]_vars => QueueTypes'
BY RowsStep, PlacesStep DEF QueueTypes
-----------------------------------------------------------------------------
(* The task queue: what is on its way for a task.                          *)

\* Every job and every outcome of a task, with the place where it is.
Traces(t) ==
  UNION {     {<<"batch", w, j>> : j \in {j \in batch[w] : j.task = t}}
         \cup {<<"chan", w, j>> : j \in {j \in chan[w] : j.task = t}}
         \cup {<<"running", w, j>> : j \in {j \in running[w] : j.task = t}}
         \cup {<<"acks", w, a>> : a \in {a \in acks[w] : a.task = t}}
           : w \in Workers}

\* The traces that may still bring the row back to pending by a retry.
Retries(tr) == IF tr[1] = "acks" THEN tr[3].status = "pending"
               ELSE tr[3].attempt < tr[3].max
Retrying(t) == {tr \in Traces(t) : Retries(tr)}

\* While nothing lapsed and nobody interfered, a task leaves one trace at most,
\* and none unless its row is running.
QuietInv(t) ==
  lapses[t] = 0 /\ t \notin touched =>
    /\ rows[t].lock # "late"
    /\ rows[t].st # "running" => Traces(t) = {}
    /\ \A x, y \in Traces(t) : x = y

\* Attempt numbers below the budget that no claim has had yet: each may make one
\* outcome that says retry.
Unclaimed(t) == IF claims[t] < rows[t].max THEN rows[t].max - 1 - claims[t] ELSE 0

\* A row returns to pending by an outcome that says retry, of which there is one
\* for each attempt below the budget, or by a sweep, of which there is one for
\* each lapse: what has been claimed and what is to come stay within both.
BudgetInv(t) ==
  t \notin touched =>
    /\ rows[t].n = claims[t]
    /\ rows[t].st = "none" => claims[t] = 0 /\ Traces(t) = {}
    /\ rows[t].st # "none" => rows[t].max > 0
    /\ \A tr \in Traces(t) : tr[1] # "acks" => tr[3].max = rows[t].max
    /\ rows[t].st = "pending" =>
         claims[t] + Unclaimed(t) + Cardinality(Retrying(t)) + 1 <= rows[t].max + lapses[t]
    /\ rows[t].st = "running" =>
         claims[t] + Unclaimed(t) + Cardinality(Retrying(t))
           + (IF rows[t].lock = "late" THEN 1 ELSE 0) <= rows[t].max + lapses[t]
    /\ rows[t].st \in {"done", "killed"} => claims[t] <= rows[t].max + lapses[t]

TaskInv(t) == IsFiniteSet(Traces(t)) /\ QuietInv(t) /\ BudgetInv(t)

QueueInv == QueueTypes /\ \A t \in Tasks : TaskInv(t)

-----------------------------------------------------------------------------
(* What a step may do to one task.                                         *)

Fewer(t) == Traces(t)' \subseteq Traces(t)
Uncounted(t) == claims'[t] = claims[t] /\ lapses'[t] = lapses[t]
SameBudget(t) == rows'[t].n = rows[t].n /\ rows'[t].max = rows[t].max

Rests(t) ==
  /\ Fewer(t) /\ Uncounted(t) /\ SameBudget(t)
  /\ rows'[t].st = rows[t].st /\ rows'[t].lock \in {rows[t].lock, "live"}

Moves(t) ==
  /\ Uncounted(t) /\ rows'[t] = rows[t]
  /\ \E x \in Traces(t) : \E y :
       /\ Traces(t)' \subseteq (Traces(t) \ {x}) \cup {y}
       /\ Retries(y) => Retries(x)
       /\ y[1] # "acks" => x[1] # "acks" /\ y[3].max = x[3].max

IsPushed(t) ==
  /\ Fewer(t) /\ Uncounted(t)
  /\ rows[t].st = "none" /\ rows'[t].st = "pending" /\ rows'[t].lock = "none"
  /\ rows'[t].n = 0 /\ rows'[t].max > 0

IsClaimed(t) ==
  /\ rows[t].st = "pending" /\ rows'[t].st = "running" /\ rows'[t].lock = "live"
  /\ rows'[t].n = rows[t].n + 1 /\ rows'[t].max = rows[t].max
  /\ claims'[t] = claims[t] + 1 /\ lapses'[t] = lapses[t]
  /\ \E y : /\ Traces(t)' \subseteq Traces(t) \cup {y}
            /\ Retries(y) => rows[t].n + 1 < rows[t].max
            /\ y[3].max = rows[t].max

Lapsed(t) ==
  /\ Fewer(t) /\ SameBudget(t)
  /\ rows[t].st = "running" /\ rows'[t].st = "running" /\ rows[t].lock # "late"
  /\ claims'[t] = claims[t] /\ lapses'[t] = lapses[t] + 1

IsSwept(t) ==
  /\ Fewer(t) /\ Uncounted(t) /\ SameBudget(t)
  /\ rows[t].st = "running" /\ rows[t].lock = "late"
  /\ rows'[t].st = "pending" /\ rows'[t].lock = "none"

IsAnswered(t) ==
  /\ Uncounted(t) /\ SameBudget(t)
  /\ rows[t].st = "running" /\ rows'[t].lock = "none"
  /\ \E x \in Traces(t) :
       /\ x[1] = "acks" /\ Traces(t)' \subseteq Traces(t) \ {x}
       /\ rows'[t].st = x[3].status /\ x[3].status \in {"pending", "done", "killed"}

IsTouched(t) == Fewer(t) /\ t \in touched'

StepOf(t) ==
  /\ t \in touched => t \in touched'
  /\ \/ Rests(t) \/ Moves(t) \/ IsPushed(t) \/ IsClaimed(t)
     \/ Lapsed(t) \/ IsSwept(t) \/ IsAnswered(t) \/ IsTouched(t)

\* The size of a set that shrinks, exchanges one element, or gains one.
LEMMA SizesAre ==
  ASSUME NEW S, NEW T, IsFiniteSet(S)
  PROVE  /\ Cardinality(S) \in Nat
         /\ T \subseteq S =>
              IsFiniteSet(T) /\ Cardinality(T) \in Nat /\ Cardinality(T) <= Cardinality(S)
         /\ \A y : T \subseteq S \cup {y} =>
              IsFiniteSet(T) /\ Cardinality(T) \in Nat /\ Cardinality(T) <= Cardinality(S) + 1
         /\ \A x \in S : T \subseteq S \ {x} => Cardinality(T) + 1 <= Cardinality(S)
         /\ \A x \in S : \A y : T \subseteq (S \ {x}) \cup {y} => Cardinality(T) <= Cardinality(S)
<1>1. ASSUME NEW U, NEW V, IsFiniteSet(U), V \subseteq U
      PROVE  /\ IsFiniteSet(V) /\ Cardinality(V) \in Nat /\ Cardinality(U) \in Nat
             /\ Cardinality(V) <= Cardinality(U)  BY <1>1, FS_Subset, FS_CardinalityType
<1>2. ASSUME NEW y, T \subseteq S \cup {y}
      PROVE  IsFiniteSet(T) /\ Cardinality(T) \in Nat /\ Cardinality(T) <= Cardinality(S) + 1
 <2>1. /\ IsFiniteSet(S \cup {y}) /\ Cardinality(S) \in Nat /\ Cardinality(S \cup {y}) \in Nat
       /\ Cardinality(S \cup {y}) <= Cardinality(S) + 1  BY SizesMove
 <2>2. /\ IsFiniteSet(T) /\ Cardinality(T) \in Nat
       /\ Cardinality(T) <= Cardinality(S \cup {y})  BY <1>1, <1>2, <2>1
 <2> QED  BY <2>1, <2>2
<1>3. ASSUME NEW x \in S
      PROVE  /\ IsFiniteSet(S \ {x}) /\ Cardinality(S) \in Nat
             /\ Cardinality(S \ {x}) \in Nat /\ Cardinality(S \ {x}) = Cardinality(S) - 1  BY SizesMove
<1>4. ASSUME NEW x \in S, T \subseteq S \ {x}
      PROVE  Cardinality(T) + 1 <= Cardinality(S)
 <2>1. Cardinality(T) \in Nat /\ Cardinality(T) <= Cardinality(S \ {x})  BY <1>1, <1>3, <1>4
 <2> QED  BY <1>3, <2>1
<1>5. ASSUME NEW x \in S, NEW y, T \subseteq (S \ {x}) \cup {y}
      PROVE  Cardinality(T) <= Cardinality(S)
 <2>1. /\ IsFiniteSet((S \ {x}) \cup {y}) /\ Cardinality((S \ {x}) \cup {y}) \in Nat
       /\ Cardinality((S \ {x}) \cup {y}) <= Cardinality(S \ {x}) + 1  BY <1>3, SizesMove
 <2>2. Cardinality(T) \in Nat /\ Cardinality(T) <= Cardinality((S \ {x}) \cup {y})  BY <1>1, <1>5, <2>1
 <2>3. /\ Cardinality(S) \in Nat /\ Cardinality(S \ {x}) \in Nat
       /\ Cardinality(S \ {x}) = Cardinality(S) - 1  BY <1>3
 <2> QED  BY <2>1, <2>2, <2>3
<1>6. Cardinality(S) \in Nat  BY FS_CardinalityType
<1> QED  BY <1>1, <1>2, <1>4, <1>5, <1>6

LEMMA StepKeepsQuiet ==
  ASSUME QueueTypes, NEW t \in Tasks, TaskInv(t), StepOf(t)
  PROVE  IsFiniteSet(Traces(t)') /\ QuietInv(t)'
<1> USE DEF TaskInv, QuietInv, StepOf, Fewer, Uncounted
<1>1. lapses[t] \in Nat  BY DEF QueueTypes, HistoryOK
<1>2. IsFiniteSet(Traces(t)')
 <2>1. Fewer(t) => IsFiniteSet(Traces(t)')  BY SizesAre
 <2>2. (\E y : Traces(t)' \subseteq Traces(t) \cup {y}) => IsFiniteSet(Traces(t)')  BY SizesAre
 <2>3. CASE \E x \in Traces(t) : \E y : Traces(t)' \subseteq (Traces(t) \ {x}) \cup {y}  BY <2>2, <2>3
 <2>4. CASE \E x \in Traces(t) : Traces(t)' \subseteq Traces(t) \ {x}  BY <2>1, <2>4
 <2> QED  BY <2>1, <2>2, <2>3, <2>4 DEF Rests, Moves, IsPushed, IsClaimed, Lapsed, IsSwept, IsAnswered, IsTouched
<1>3. ASSUME lapses'[t] = 0, t \notin touched'
      PROVE  /\ rows'[t].lock # "late"
             /\ rows'[t].st # "running" => Traces(t)' = {}
             /\ \A x, y \in Traces(t)' : x = y
 <2>1. t \notin touched  BY <1>3
 <2>2. CASE Rests(t)  BY <1>3, <2>1, <2>2 DEF Rests
 <2>3. CASE Moves(t)
  <3>0. PICK x \in Traces(t) : \E y : Traces(t)' \subseteq (Traces(t) \ {x}) \cup {y}  BY <2>3 DEF Moves
  <3>1. PICK y : Traces(t)' \subseteq (Traces(t) \ {x}) \cup {y}  BY <3>0
  <3>2. lapses[t] = 0 /\ rows'[t] = rows[t]  BY <1>3, <2>3 DEF Moves
  <3>3. Traces(t) \subseteq {x} /\ rows[t].st = "running"  BY <2>1, <3>2
  <3>4. Traces(t)' \subseteq {y}  BY <3>1, <3>3
  <3> QED  BY <2>1, <3>2, <3>3, <3>4
 <2>4. CASE IsPushed(t)  BY <1>3, <2>1, <2>4 DEF IsPushed
 <2>5. CASE IsClaimed(t)
  <3>1. lapses[t] = 0 /\ rows[t].st = "pending"  BY <1>3, <2>5 DEF IsClaimed
  <3>2. Traces(t) = {}  BY <2>1, <3>1
  <3>3. PICK y : Traces(t)' \subseteq Traces(t) \cup {y}  BY <2>5 DEF IsClaimed
  <3> QED  BY <2>5, <3>2, <3>3 DEF IsClaimed
 <2>6. CASE Lapsed(t)  BY <1>1, <1>3, <2>6 DEF Lapsed
 <2>7. CASE IsSwept(t)  BY <1>3, <2>1, <2>7 DEF IsSwept
 <2>8. CASE IsAnswered(t)
  <3>1. PICK x \in Traces(t) : Traces(t)' \subseteq Traces(t) \ {x}  BY <2>8 DEF IsAnswered
  <3>2. Traces(t)' = {}  BY <1>3, <2>1, <2>8, <3>1 DEF IsAnswered
  <3> QED  BY <2>8, <3>2 DEF IsAnswered
 <2>9. CASE IsTouched(t)  BY <1>3, <2>9 DEF IsTouched
 <2> QED  BY <2>2, <2>3, <2>4, <2>5, <2>6, <2>7, <2>8, <2>9
<1> QED  BY <1>2, <1>3

\* The traces that may retry, before and after.
LEMMA RetryingMoves ==
  ASSUME NEW t \in Tasks, IsFiniteSet(Traces(t))
  PROVE  /\ Cardinality(Retrying(t)) \in Nat
         /\ Fewer(t) => /\ Cardinality(Retrying(t)') \in Nat
                        /\ Cardinality(Retrying(t)') <= Cardinality(Retrying(t))
         /\ \A y : Traces(t)' \subseteq Traces(t) \cup {y} =>
              /\ Cardinality(Retrying(t)') \in Nat
              /\ Cardinality(Retrying(t)') <= Cardinality(Retrying(t)) + 1
              /\ ~Retries(y) => Cardinality(Retrying(t)') <= Cardinality(Retrying(t))
         /\ \A x \in Traces(t) : Retries(x) /\ Traces(t)' \subseteq Traces(t) \ {x} =>
              Cardinality(Retrying(t)') + 1 <= Cardinality(Retrying(t))
         /\ \A x \in Traces(t) : \A y :
              Traces(t)' \subseteq (Traces(t) \ {x}) \cup {y} /\ (Retries(y) => Retries(x)) =>
                Cardinality(Retrying(t)') <= Cardinality(Retrying(t))
<1> DEFINE R == Retrying(t)
           N == Retrying(t)'
<1>1. /\ R = {tr \in Traces(t) : Retries(tr)}
      /\ N = {tr \in Traces(t)' : Retries(tr)}  BY DEF Retrying
<1>2. IsFiniteSet(R) /\ Cardinality(R) \in Nat
 <2>1. R \subseteq Traces(t)  BY <1>1
 <2> QED  BY <2>1, FS_Subset, FS_CardinalityType
<1> HIDE DEF R, N
<1>3. ASSUME N \subseteq R
      PROVE  Cardinality(N) \in Nat /\ Cardinality(N) <= Cardinality(R)  BY <1>2, <1>3, SizesAre
<1>4. ASSUME NEW y, Traces(t)' \subseteq Traces(t) \cup {y}
      PROVE  /\ Cardinality(N) \in Nat /\ Cardinality(N) <= Cardinality(R) + 1
             /\ ~Retries(y) => Cardinality(N) <= Cardinality(R)
 <2>1. N \subseteq R \cup {y}  BY <1>1, <1>4
 <2>2. ~Retries(y) => N \subseteq R  BY <1>1, <1>4
 <2>3. Cardinality(N) \in Nat /\ Cardinality(N) <= Cardinality(R) + 1  BY <1>2, <2>1, SizesAre
 <2> QED  BY <1>3, <2>2, <2>3
<1>5. ASSUME NEW x \in Traces(t), Retries(x), Traces(t)' \subseteq Traces(t) \ {x}
      PROVE  Cardinality(N) + 1 <= Cardinality(R)
 <2>1. x \in R /\ N \subseteq R \ {x}  BY <1>1, <1>5
 <2> QED  BY <1>2, <2>1, SizesAre
<1>6. ASSUME NEW x \in Traces(t), NEW y, Retries(y) => Retries(x),
             Traces(t)' \subseteq (Traces(t) \ {x}) \cup {y}
      PROVE  Cardinality(N) <= Cardinality(R)
 <2>1. CASE Retries(x)
  <3>1. x \in R /\ N \subseteq (R \ {x}) \cup {y}  BY <1>1, <1>6, <2>1
  <3> QED  BY <1>2, <3>1, SizesAre
 <2>2. CASE ~Retries(x)
  <3>1. N \subseteq R  BY <1>1, <1>6, <2>2
  <3> QED  BY <1>3, <3>1
 <2> QED  BY <2>1, <2>2
<1>7. Fewer(t) => N \subseteq R  BY <1>1 DEF Fewer
<1> QED  BY <1>2, <1>3, <1>4, <1>5, <1>6, <1>7 DEF R, N

LEMMA StepKeepsBudget ==
  ASSUME QueueTypes, QueueTypes', NEW t \in Tasks, TaskInv(t), StepOf(t), t \notin touched'
  PROVE  BudgetInv(t)'
<1> DEFINE P == Cardinality(Retrying(t))
           Q == Cardinality(Retrying(t)')
<1> USE DEF Uncounted, SameBudget
<1>1. /\ claims[t] \in Nat /\ claims'[t] \in Nat /\ lapses[t] \in Nat /\ lapses'[t] \in Nat
      /\ rows[t].max \in Nat /\ rows'[t].max \in Nat /\ rows[t].n \in Nat
      /\ rows[t].st \in {"none", "pending", "running", "done", "killed"}  BY DEF QueueTypes, HistoryOK, RowsOK, Row
<1>2. BudgetInv(t) /\ t \notin touched  BY DEF TaskInv, StepOf
<1>3. P \in Nat  BY RetryingMoves DEF TaskInv
<1>4. Fewer(t) => Q \in Nat /\ Q <= P  BY RetryingMoves DEF TaskInv
<1>5. /\ rows[t].n = claims[t]
      /\ rows[t].st = "none" => claims[t] = 0 /\ Traces(t) = {}
      /\ rows[t].st # "none" => rows[t].max > 0
      /\ \A tr \in Traces(t) : tr[1] # "acks" => tr[3].max = rows[t].max
      /\ rows[t].st = "pending" => claims[t] + Unclaimed(t) + P + 1 <= rows[t].max + lapses[t]
      /\ rows[t].st = "running" => claims[t] + Unclaimed(t) + P
                + (IF rows[t].lock = "late" THEN 1 ELSE 0) <= rows[t].max + lapses[t]
      /\ rows[t].st \in {"done", "killed"} => claims[t] <= rows[t].max + lapses[t]  BY <1>2 DEF BudgetInv
<1>6. /\ Unclaimed(t) \in Nat /\ Unclaimed(t)' \in Nat
      /\ claims'[t] = claims[t] /\ rows'[t].max = rows[t].max => Unclaimed(t)' = Unclaimed(t)  BY <1>1 DEF Unclaimed
<1> DEFINE Goal ==
    /\ rows'[t].n = claims'[t]
    /\ rows'[t].st = "none" => claims'[t] = 0 /\ Traces(t)' = {}
    /\ rows'[t].st # "none" => rows'[t].max > 0
    /\ \A tr \in Traces(t)' : tr[1] # "acks" => tr[3].max = rows'[t].max
    /\ rows'[t].st = "pending" =>
         claims'[t] + Unclaimed(t)' + Q + 1 <= rows'[t].max + lapses'[t]
    /\ rows'[t].st = "running" =>
         claims'[t] + Unclaimed(t)' + Q
           + (IF rows'[t].lock = "late" THEN 1 ELSE 0) <= rows'[t].max + lapses'[t]
    /\ rows'[t].st \in {"done", "killed"} => claims'[t] <= rows'[t].max + lapses'[t]
<1>7. SUFFICES Goal  BY DEF BudgetInv
<1> HIDE DEF P, Q
<1>8. CASE Rests(t)
 <2>1. Q \in Nat /\ Q <= P /\ Traces(t)' \subseteq Traces(t)  BY <1>4, <1>8 DEF Rests, Fewer
 <2>2. /\ claims'[t] = claims[t] /\ lapses'[t] = lapses[t] /\ rows'[t].n = rows[t].n
       /\ rows'[t].max = rows[t].max /\ rows'[t].st = rows[t].st
       /\ rows'[t].lock = "late" => rows[t].lock = "late"  BY <1>8 DEF Rests
 <2> QED  BY <1>1, <1>3, <1>5, <1>6, <2>1, <2>2
<1>9. CASE Moves(t)
 <2>0. PICK x \in Traces(t) : \E y :
        /\ Traces(t)' \subseteq (Traces(t) \ {x}) \cup {y}
        /\ Retries(y) => Retries(x)
        /\ y[1] # "acks" => x[1] # "acks" /\ y[3].max = x[3].max  BY <1>9 DEF Moves
 <2>1. PICK y :
        /\ Traces(t)' \subseteq (Traces(t) \ {x}) \cup {y}
        /\ Retries(y) => Retries(x)
        /\ y[1] # "acks" => x[1] # "acks" /\ y[3].max = x[3].max  BY <2>0
 <2>2. Q <= P  BY <2>1, RetryingMoves DEF TaskInv, P, Q
 <2>3. Q \in Nat
  <3>1. Traces(t)' \subseteq Traces(t) \cup {y}  BY <2>1
  <3> QED  BY <3>1, RetryingMoves DEF TaskInv, Q
 <2>4. claims'[t] = claims[t] /\ lapses'[t] = lapses[t] /\ rows'[t] = rows[t]  BY <1>9 DEF Moves
 <2>5. rows[t].st # "none"  BY <1>5
 <2>6. \A tr \in Traces(t)' : tr[1] # "acks" => tr[3].max = rows'[t].max  BY <1>5, <2>1, <2>4
 <2> QED  BY <1>1, <1>3, <1>5, <1>6, <2>2, <2>3, <2>4, <2>5, <2>6
<1>10. CASE IsPushed(t)
 <2>1. /\ claims'[t] = claims[t] /\ lapses'[t] = lapses[t] /\ rows'[t].n = 0
       /\ rows'[t].max > 0 /\ rows[t].st = "none" /\ rows'[t].st = "pending"  BY <1>10 DEF IsPushed
 <2>2. claims[t] = 0 /\ Traces(t)' = {} /\ Retrying(t)' = {}  BY <1>5, <1>10, <2>1 DEF IsPushed, Fewer, Retrying
 <2>3. Q = 0  BY <2>2, FS_EmptySet DEF Q
 <2>4. Unclaimed(t)' = rows'[t].max - 1  BY <1>1, <2>1, <2>2 DEF Unclaimed
 <2> QED  BY <1>1, <2>1, <2>2, <2>3, <2>4
<1>11. CASE IsClaimed(t)
 <2>1. PICK y : /\ Traces(t)' \subseteq Traces(t) \cup {y}
                /\ Retries(y) => rows[t].n + 1 < rows[t].max
                /\ y[3].max = rows[t].max  BY <1>11 DEF IsClaimed
 <2>2. /\ rows[t].st = "pending" /\ rows'[t].st = "running" /\ rows'[t].lock = "live"
       /\ rows'[t].n = rows[t].n + 1 /\ rows'[t].max = rows[t].max
       /\ claims'[t] = claims[t] + 1 /\ lapses'[t] = lapses[t]  BY <1>11 DEF IsClaimed
 <2>3. Q \in Nat /\ Q <= P + 1 /\ (~Retries(y) => Q <= P)  BY <2>1, RetryingMoves DEF TaskInv, P, Q
 <2>4. \A tr \in Traces(t)' : tr[1] # "acks" => tr[3].max = rows'[t].max  BY <1>5, <2>1, <2>2
 <2>5. claims[t] + 1 + Unclaimed(t)' + Q <= rows[t].max + lapses[t]
  <3>1. claims[t] + Unclaimed(t) + P + 1 <= rows[t].max + lapses[t]  BY <1>5, <2>2
  <3>2. CASE claims[t] + 1 < rows[t].max
   <4>1. Unclaimed(t)' = Unclaimed(t) - 1  BY <1>1, <2>2, <3>2 DEF Unclaimed
   <4> QED  BY <1>1, <1>3, <1>6, <2>3, <3>1, <4>1
  <3>3. CASE ~(claims[t] + 1 < rows[t].max)
   <4>1. Unclaimed(t)' = 0  BY <1>1, <2>2, <3>3 DEF Unclaimed
   <4>2. Q <= P  BY <1>5, <2>1, <2>3, <3>3
   <4> QED  BY <1>1, <1>3, <1>6, <2>3, <3>1, <4>1, <4>2
  <3> QED  BY <3>2, <3>3
 <2>6. claims'[t] + Unclaimed(t)' + Q + 0 <= rows'[t].max + lapses'[t]  BY <1>1, <1>6, <2>2, <2>3, <2>5
 <2>7. rows'[t].n = claims'[t] /\ rows'[t].max > 0  BY <1>5, <2>2
 <2> QED  BY <2>2, <2>4, <2>6, <2>7
<1>12. CASE Lapsed(t)
 <2>1. Q \in Nat /\ Q <= P /\ Traces(t)' \subseteq Traces(t)  BY <1>4, <1>12 DEF Lapsed, Fewer
 <2>2. /\ claims'[t] = claims[t] /\ lapses'[t] = lapses[t] + 1 /\ rows'[t].n = rows[t].n
       /\ rows'[t].max = rows[t].max /\ rows[t].st = "running" /\ rows'[t].st = "running"
       /\ rows[t].lock # "late"  BY <1>12 DEF Lapsed
 <2> QED  BY <1>1, <1>3, <1>5, <1>6, <2>1, <2>2
<1>13. CASE IsSwept(t)
 <2>1. Q \in Nat /\ Q <= P /\ Traces(t)' \subseteq Traces(t)  BY <1>4, <1>13 DEF IsSwept, Fewer
 <2>2. /\ claims'[t] = claims[t] /\ lapses'[t] = lapses[t] /\ rows'[t].n = rows[t].n
       /\ rows'[t].max = rows[t].max /\ rows[t].st = "running" /\ rows'[t].st = "pending"
       /\ rows[t].lock = "late"  BY <1>13 DEF IsSwept
 <2> QED  BY <1>1, <1>3, <1>5, <1>6, <2>1, <2>2
<1>14. CASE IsAnswered(t)
 <2>1. PICK x \in Traces(t) :
         /\ x[1] = "acks" /\ Traces(t)' \subseteq Traces(t) \ {x}
         /\ rows'[t].st = x[3].status /\ x[3].status \in {"pending", "done", "killed"}  BY <1>14 DEF IsAnswered
 <2>2. /\ claims'[t] = claims[t] /\ lapses'[t] = lapses[t] /\ rows'[t].n = rows[t].n
       /\ rows'[t].max = rows[t].max /\ rows[t].st = "running"  BY <1>14 DEF IsAnswered
 <2>3. Fewer(t)  BY <2>1 DEF Fewer
 <2>4. Q \in Nat /\ Q <= P  BY <1>4, <2>3
 <2>5. rows'[t].st = "pending" => Q + 1 <= P
  <3> SUFFICES ASSUME rows'[t].st = "pending" PROVE Q + 1 <= P  OBVIOUS
  <3>1. Retries(x)  BY <2>1 DEF Retries
  <3> QED  BY <2>1, <3>1, RetryingMoves DEF TaskInv, P, Q
 <2>6. \A tr \in Traces(t)' : tr[1] # "acks" => tr[3].max = rows'[t].max  BY <1>5, <2>1, <2>2
 <2>7. rows'[t].st \in {"pending", "done", "killed"}  BY <2>1
 <2>8. claims[t] + Unclaimed(t) + P <= rows[t].max + lapses[t]  BY <1>1, <1>3, <1>5, <1>6, <2>2
 <2> QED  BY <1>1, <1>3, <1>5, <1>6, <2>2, <2>4, <2>5, <2>6, <2>7, <2>8
<1>15. CASE IsTouched(t)  BY <1>15 DEF IsTouched
<1> HIDE DEF Goal
<1> QED  BY <1>8, <1>9, <1>10, <1>11, <1>12, <1>13, <1>14, <1>15 DEF StepOf
-----------------------------------------------------------------------------
(* The steps of the queue, seen from one task.                             *)

IsTrace(t, tr) ==
  \E w \in Workers :
    \/ \E j \in batch[w] : j.task = t /\ tr = <<"batch", w, j>>
    \/ \E j \in chan[w] : j.task = t /\ tr = <<"chan", w, j>>
    \/ \E j \in running[w] : j.task = t /\ tr = <<"running", w, j>>
    \/ \E a \in acks[w] : a.task = t /\ tr = <<"acks", w, a>>

LEMMA TracesAre == \A t, tr : tr \in Traces(t) <=> IsTrace(t, tr)
BY DEF Traces, IsTrace

LEMMA TracesAreNext == \A t, tr : tr \in Traces(t)' <=> IsTrace(t, tr)'
BY DEF Traces, IsTrace

LEMMA PlacesShrink ==
  ASSUME NEW t,
         \A w \in Workers : /\ batch'[w] \subseteq batch[w] /\ chan'[w] \subseteq chan[w]
                            /\ running'[w] \subseteq running[w] /\ acks'[w] \subseteq acks[w]
  PROVE  Fewer(t)
BY TracesAre, TracesAreNext DEF IsTrace, Fewer

\* A job that goes from one place of its worker to another.
LEMMA JobMoves ==
  ASSUME QueueTypes, NEW t \in Tasks, NEW w \in Workers, NEW job, NEW x, NEW y,
         \/ /\ x = <<"batch", w, job>> /\ y = <<"chan", w, job>> /\ job \in batch[w]
            /\ batch' = [batch EXCEPT ![w] = @ \ {job}]
            /\ chan' = [chan EXCEPT ![w] = @ \cup {job}]
            /\ UNCHANGED <<running, acks>>
         \/ /\ x = <<"chan", w, job>> /\ y = <<"running", w, job>> /\ job \in chan[w]
            /\ chan' = [chan EXCEPT ![w] = @ \ {job}]
            /\ running' = [running EXCEPT ![w] = @ \cup {job}]
            /\ UNCHANGED <<batch, acks>>
  PROVE  /\ job.task = t =>
              x \in Traces(t) /\ Traces(t)' \subseteq (Traces(t) \ {x}) \cup {y}
         /\ job.task # t => Fewer(t)
<1> USE DEF QueueTypes, PlacesOK
<1>1. job.task = t => x \in Traces(t)  BY TracesAre DEF IsTrace
<1>2. ASSUME NEW tr, tr \in Traces(t)'
      PROVE  /\ tr \in Traces(t) \/ (tr = y /\ job.task = t)
             /\ tr # x
 <2>1. IsTrace(t, tr)'  BY <1>2, TracesAreNext
 <2>2. IsTrace(t, tr) \/ (tr = y /\ job.task = t)  BY <2>1 DEF IsTrace
 <2>3. tr # x  BY <2>1 DEF IsTrace
 <2> QED  BY <2>2, <2>3, TracesAre
<1> QED  BY <1>1, <1>2 DEF Fewer

\* A job whose handler has ended, and the answer that is left of it.
LEMMA AnswerMoves ==
  ASSUME QueueTypes, NEW t \in Tasks, NEW w \in Workers, NEW job, NEW ack,
         job \in running[w], ack.task = job.task,
         running' = [running EXCEPT ![w] = @ \ {job}],
         acks' = [acks EXCEPT ![w] = @ \cup {ack}],
         UNCHANGED <<batch, chan>>
  PROVE  /\ job.task = t =>
              /\ <<"running", w, job>> \in Traces(t)
              /\ Traces(t)' \subseteq (Traces(t) \ {<<"running", w, job>>})
                                         \cup {<<"acks", w, ack>>}
         /\ job.task # t => Fewer(t)
<1> USE DEF QueueTypes, PlacesOK
<1> DEFINE x == <<"running", w, job>>
           y == <<"acks", w, ack>>
<1>1. job.task = t => x \in Traces(t)  BY TracesAre DEF IsTrace
<1>2. ASSUME NEW tr, tr \in Traces(t)'
      PROVE  /\ tr \in Traces(t) \/ (tr = y /\ job.task = t)
             /\ tr # x
 <2>1. IsTrace(t, tr)'  BY <1>2, TracesAreNext
 <2>2. IsTrace(t, tr) \/ (tr = y /\ job.task = t)  BY <2>1 DEF IsTrace
 <2>3. tr # x  BY <2>1 DEF IsTrace
 <2> QED  BY <2>2, <2>3, TracesAre
<1> HIDE DEF x, y
<1> QED  BY <1>1, <1>2 DEF Fewer, x, y

LEMMA StepsAre ==
  ASSUME QueueTypes, QueueTypes', [Next]_vars, NEW t \in Tasks
  PROVE  StepOf(t)
<1> USE DEF QueueTypes, StepOf, Uncounted, SameBudget
<1>a. /\ rows \in [Tasks -> Row] /\ rows' \in [Tasks -> Row]
      /\ claims \in [Tasks -> Nat] /\ lapses \in [Tasks -> Nat]  BY DEF RowsOK, HistoryOK
<1>b. UNCHANGED <<batch, chan, running, acks>> => Fewer(t)  BY PlacesShrink
<1>c. ASSUME Fewer(t), UNCHANGED <<claims, lapses, touched>>, rows'[t] = rows[t]
      PROVE  StepOf(t)  BY <1>c DEF Rests
<1>1. ASSUME NEW u \in Tasks, PushRequest(u) \/ PushRawRequest(u) \/ ScheduleRequest(u)
      PROVE  StepOf(t)
 <2>1. /\ UNCHANGED <<batch, chan, running, acks, claims, lapses, touched>>
       /\ \E ctx \in {1, Default}, due, good \in BOOLEAN : Insert(u, ctx, due, good)
   BY <1>1 DEF PushRequest, PushRawRequest, ScheduleRequest, PushRest
 <2>2. PICK ctx \in {1, Default}, due, good \in BOOLEAN : Insert(u, ctx, due, good)  BY <2>1
 <2>3. rows' = [rows EXCEPT ![u] = IF rows[u].st # "none" THEN rows[u]
                  ELSE [NoRow EXCEPT !.st = "pending", !.max = ResolveMaxAttempts(ctx),
                                     !.due = due, !.good = good]]  BY <2>2 DEF Insert
 <2>4. ResolveMaxAttempts(ctx) > 0  BY TaskQueueAssumption DEF ResolveMaxAttempts
 <2>5. CASE rows'[t] = rows[t]  BY <1>b, <1>c, <2>1, <2>5
 <2>6. CASE rows'[t] # rows[t]
  <3>1. /\ rows[t].st = "none"
        /\ rows'[t] = [NoRow EXCEPT !.st = "pending", !.max = ResolveMaxAttempts(ctx),
                                   !.due = due, !.good = good]  BY <1>a, <2>3, <2>6
  <3>2. /\ rows'[t].st = "pending" /\ rows'[t].lock = "none" /\ rows'[t].n = 0
        /\ rows'[t].max > 0  BY <2>4, <3>1 DEF NoRow
  <3>3. IsPushed(t)  BY <1>b, <2>1, <3>1, <3>2 DEF IsPushed
  <3> QED  BY <2>1, <3>3
 <2> QED  BY <2>5, <2>6
<1>2. CASE Vacuum
 <2>1. PICK old \in SUBSET {u \in Tasks : rows[u].st \in {"done", "killed"}} :
         /\ rows' = [u \in Tasks |-> IF u \in old THEN NoRow ELSE rows[u]]
         /\ touched' = touched \cup old  BY <1>2 DEF Vacuum
 <2>2. UNCHANGED <<batch, chan, running, acks, claims, lapses>>  BY <1>2 DEF Vacuum, AdminRest
 <2>3. CASE t \in old  BY <1>b, <2>1, <2>2, <2>3 DEF IsTouched
 <2>4. CASE t \notin old  BY <1>b, <2>1, <2>2, <2>4 DEF Rests
 <2> QED  BY <2>3, <2>4
<1>3. ASSUME NEW u \in Tasks, FetchById(u) \/ Update(u) \/ Reschedule(u)
      PROVE  StepOf(t)
 <2>1. UNCHANGED <<batch, chan, running, acks, claims, lapses>>
   BY <1>3 DEF FetchById, Update, Reschedule, AdminRest
 <2>2. CASE FetchById(u)  BY <1>b, <1>c, <2>1, <2>2 DEF FetchById
 <2>3. CASE t = u /\ ~FetchById(u)  BY <1>3, <1>b, <2>1, <2>3 DEF Update, Reschedule, IsTouched
 <2>4. CASE t # u /\ ~FetchById(u)
  <3>1. rows'[t] = rows[t] /\ (t \in touched' <=> t \in touched)  BY <1>3, <1>a, <2>4 DEF Update, Reschedule
  <3> QED  BY <1>b, <2>1, <3>1 DEF Rests
 <2> QED  BY <2>2, <2>3, <2>4
<1>4. ASSUME NEW u \in Tasks, BecomesDue(u)
      PROVE  StepOf(t)
 <2>1. /\ UNCHANGED <<batch, chan, running, acks, claims, lapses, touched>>
       /\ rows' = [rows EXCEPT ![u] = [rows[u] EXCEPT !.due = TRUE]]  BY <1>4 DEF BecomesDue
 <2>2. /\ rows'[t].st = rows[t].st /\ rows'[t].n = rows[t].n /\ rows'[t].max = rows[t].max
       /\ rows'[t].lock = rows[t].lock  BY <1>a, <2>1 DEF Row
 <2> QED  BY <1>b, <2>1, <2>2 DEF Rests
<1>5. ASSUME NEW u \in Tasks, LockLapses(u)
      PROVE  StepOf(t)
 <2>1. /\ UNCHANGED <<batch, chan, running, acks, claims, touched>>
       /\ rows[u].st = "running" /\ rows[u].lock = "live"
       /\ rows' = [rows EXCEPT ![u] = [rows[u] EXCEPT !.lock = "late"]]
       /\ lapses' = [lapses EXCEPT ![u] = @ + 1]  BY <1>5 DEF LockLapses
 <2>2. CASE t = u
  <3>1. /\ rows'[t].st = rows[t].st /\ rows'[t].n = rows[t].n /\ rows'[t].max = rows[t].max
    BY <1>a, <2>1, <2>2 DEF Row
  <3> QED  BY <1>a, <1>b, <2>1, <2>2, <3>1 DEF Lapsed
 <2>3. CASE t # u  BY <1>a, <1>b, <2>1, <2>3 DEF Rests
 <2> QED  BY <2>2, <2>3
<1>6. ASSUME NEW w \in Workers, SweepOrphans(w, "start") \/ SweepOrphans(w, "sweep")
      PROVE  StepOf(t)
 <2>1. /\ UNCHANGED <<batch, chan, running, acks, claims, lapses, touched>>
       /\ rows' = Swept \/ UNCHANGED rows  BY <1>6 DEF SweepOrphans
 <2>2. CASE rows'[t] = rows[t]  BY <1>b, <1>c, <2>1, <2>2
 <2>3. CASE rows'[t] # rows[t]
  <3>1. /\ rows[t].st = "running" /\ rows[t].lock = "late"
        /\ rows'[t] = [rows[t] EXCEPT !.st = "pending", !.by = NoWorker, !.lock = "none"]  BY <2>1, <2>3 DEF Swept
  <3>2. /\ rows'[t].st = "pending" /\ rows'[t].lock = "none" /\ rows'[t].n = rows[t].n
        /\ rows'[t].max = rows[t].max  BY <1>a, <3>1 DEF Row
  <3> QED  BY <1>b, <2>1, <3>1, <3>2 DEF IsSwept
 <2> QED  BY <2>2, <2>3
<1>7. ASSUME NEW w \in Workers, RefreshLocks(w)
      PROVE  StepOf(t)
 <2>1. UNCHANGED <<batch, chan, running, acks, claims, lapses, touched>>  BY <1>7 DEF RefreshLocks
 <2>2. rows'[t] = rows[t] \/ rows'[t] = [rows[t] EXCEPT !.lock = "live"]  BY <1>7 DEF RefreshLocks
 <2>3. /\ rows'[t].st = rows[t].st /\ rows'[t].n = rows[t].n /\ rows'[t].max = rows[t].max
       /\ rows'[t].lock \in {rows[t].lock, "live"}  BY <1>a, <2>2 DEF Row
 <2> QED  BY <1>b, <2>1, <2>3 DEF Rests
<1>8. ASSUME NEW w \in Workers, FetchNext(w)
      PROVE  StepOf(t)
 <2>1. PICK S \in SUBSET Due :
         /\ rows' = Claimed(S, w)
         /\ claims' = [u \in Tasks |-> IF u \in S THEN claims[u] + 1 ELSE claims[u]]
         /\ IF \A u \in S : rows[u].good
            THEN /\ batch' = [batch EXCEPT ![w] = {RequestFromRow(u, rows'[u]) : u \in S}]
                 /\ hb' = [hb EXCEPT ![w] = "send"]
            ELSE UNCHANGED <<batch, hb>>  BY <1>8 DEF FetchNext
 <2>2. UNCHANGED <<chan, running, acks, lapses, touched>>  BY <1>8 DEF FetchNext
 <2>3. rows' = [u \in Tasks |-> IF u \notin S THEN rows[u]
                    ELSE [rows[u] EXCEPT !.st = "running", !.n = @ + 1,
                                         !.by = w, !.lock = "live"]]  BY <2>1 DEF Claimed
 <2>4. ASSUME NEW v \in Workers, NEW j, j \in batch'[v], j.task = t
       PROVE  j \in batch[v] \/ (t \in S /\ v = w /\ j = RequestFromRow(t, rows'[t]))
  <3>1. CASE j \in batch[v]  BY <3>1
  <3>2. CASE j \notin batch[v]
   <4>1. v = w /\ j \in {RequestFromRow(u, rows'[u]) : u \in S}  BY <2>1, <2>4, <3>2 DEF PlacesOK
   <4>2. PICK u \in S : j = RequestFromRow(u, rows'[u])  BY <4>1
   <4>3. u = t  BY <2>4, <4>2 DEF RequestFromRow
   <4> QED  BY <4>1, <4>2, <4>3
  <3> QED  BY <3>1, <3>2
 <2>5. CASE t \notin S
  <3>1. Fewer(t)
   <4>1. ASSUME NEW tr, IsTrace(t, tr)' PROVE IsTrace(t, tr)  BY <2>2, <2>4, <2>5, <4>1, SMTT(60) DEF IsTrace
   <4> QED  BY <4>1, TracesAre, TracesAreNext DEF Fewer
  <3>2. rows'[t] = rows[t] /\ claims'[t] = claims[t]  BY <2>1, <2>3, <2>5
  <3> QED  BY <2>2, <3>1, <3>2 DEF Rests
 <2>6. CASE t \in S
  <3> DEFINE job == RequestFromRow(t, rows'[t])
             y == <<"batch", w, job>>
  <3>1. ASSUME NEW tr, tr \in Traces(t)' PROVE tr \in Traces(t) \/ tr = y
   <4>1. IsTrace(t, tr)'  BY <3>1, TracesAreNext
   <4>2. IsTrace(t, tr) \/ tr = y  BY <2>2, <2>4, <4>1 DEF IsTrace
   <4> QED  BY <4>2, TracesAre
  <3>2. /\ rows[t].st = "pending" /\ rows'[t].st = "running" /\ rows'[t].lock = "live"
        /\ rows'[t].n = rows[t].n + 1 /\ rows'[t].max = rows[t].max
   <4>1. rows[t].st = "pending" /\ rows[t] \in Row  BY <1>a, <2>6 DEF Due
   <4>2. rows'[t] = [rows[t] EXCEPT !.st = "running", !.n = @ + 1, !.by = w, !.lock = "live"]  BY <2>3, <2>6
   <4> QED  BY <4>1, <4>2 DEF Row
  <3>3. job.attempt = rows[t].n + 1 /\ job.max = rows[t].max  BY <3>2 DEF RequestFromRow
  <3> HIDE DEF job
  <3>4. Retries(y) => rows[t].n + 1 < rows[t].max  BY <3>3 DEF Retries
  <3>5. y[3].max = rows[t].max  BY <3>3
  <3>6. claims'[t] = claims[t] + 1  BY <2>1, <2>6
  <3> HIDE DEF y
  <3>7. Traces(t)' \subseteq Traces(t) \cup {y}  BY <3>1
  <3> QED  BY <2>2, <3>2, <3>4, <3>5, <3>6, <3>7 DEF IsClaimed
 <2> QED  BY <2>5, <2>6
<1>9. ASSUME NEW w \in Workers, WriteAcks(w)
      PROVE  StepOf(t)
 <2>1. UNCHANGED <<batch, chan, running, claims, lapses, touched>>  BY <1>9, ZenonT(60) DEF WriteAcks
 <2>2. PICK sel \in SUBSET acks[w] :
         /\ \A a, b \in sel : a.task = b.task => a = b
         /\ acks' = [acks EXCEPT ![w] = @ \ sel]
         /\ \/ rows' = [u \in Tasks |->
                    IF AckApplies(u) /\ \E a \in sel : a.task = u
                    THEN LET a == CHOOSE a \in sel : a.task = u
                         IN [rows[u] EXCEPT !.st = StatusToSql(a.status),
                                 !.due = (a.status # "pending" /\ rows[u].due),
                                 !.by = NoWorker, !.lock = "none"]
                    ELSE rows[u]]
            \/ UNCHANGED rows  BY <1>9 DEF WriteAcks
 <2>3. Fewer(t)  BY <2>1, <2>2, PlacesShrink DEF PlacesOK
 <2>4. CASE rows'[t] = rows[t]  BY <1>c, <2>1, <2>3, <2>4
 <2>5. CASE rows'[t] # rows[t]
  <3> DEFINE a == CHOOSE a \in sel : a.task = t
             due == a.status # "pending" /\ rows[t].due
             x == <<"acks", w, a>>
  <3>1. /\ rows[t].st = "running" /\ \E b \in sel : b.task = t
        /\ rows'[t] = [rows[t] EXCEPT !.st = a.status, !.due = due,
                                     !.by = NoWorker, !.lock = "none"]  BY <2>2, <2>5 DEF StatusToSql, AckApplies
  <3>2. a \in sel /\ a.task = t  BY <3>1
  <3> HIDE DEF a, due
  <3>3. a \in acks[w] /\ a.status \in {"pending", "done", "killed"}  BY <3>2 DEF PlacesOK, AckRow
  <3>4. /\ rows'[t].st = a.status /\ rows'[t].lock = "none" /\ rows'[t].n = rows[t].n
        /\ rows'[t].max = rows[t].max  BY <1>a, <3>1 DEF Row
  <3>5. x \in Traces(t)  BY <3>2, <3>3, TracesAre DEF IsTrace
  <3>6. x \notin Traces(t)'
   <4>1. a \notin acks'[w]  BY <2>2, <3>2 DEF PlacesOK
   <4> QED  BY <4>1, TracesAreNext DEF IsTrace
  <3>7. Traces(t)' \subseteq Traces(t) \ {x}  BY <2>3, <3>6 DEF Fewer
  <3>8. x[1] = "acks" /\ x[3] = a  OBVIOUS
  <3> HIDE DEF x
  <3> QED  BY <2>1, <3>1, <3>3, <3>4, <3>5, <3>7, <3>8 DEF IsAnswered
 <2> QED  BY <2>4, <2>5
<1>10. ASSUME NEW w \in Workers, SendJob(w) \/ StartHandler(w)
       PROVE  StepOf(t)
 <2>1. UNCHANGED <<rows, claims, lapses, touched>>  BY <1>10 DEF SendJob, StartHandler
 <2> DEFINE ack == [task |-> t, status |-> "done"]
 <2>2. ack \in AckRow  BY DEF AckRow
 <2> HIDE DEF ack
 <2>3. CASE SendJob(w)
  <3>1. PICK job \in batch[w] :
          /\ batch' = [batch EXCEPT ![w] = @ \ {job}]
          /\ chan' = [chan EXCEPT ![w] = @ \cup {job}]
          /\ UNCHANGED <<running, acks>>  BY <2>3 DEF SendJob
  <3> DEFINE x == <<"batch", w, job>>
             y == <<"chan", w, job>>
  <3>2. /\ job.task = t => x \in Traces(t) /\ Traces(t)' \subseteq (Traces(t) \ {x}) \cup {y}
        /\ job.task # t => Fewer(t)  BY <2>2, <3>1, JobMoves
  <3>3. (Retries(y) => Retries(x)) /\ x[1] # "acks" /\ y[3].max = x[3].max  BY DEF Retries
  <3> HIDE DEF x, y
  <3>4. job.task = t => Moves(t)  BY <2>1, <3>2, <3>3 DEF Moves
  <3> QED  BY <1>c, <2>1, <3>2, <3>4
 <2>4. CASE StartHandler(w)
  <3>1. PICK job \in chan[w] :
          /\ chan' = [chan EXCEPT ![w] = @ \ {job}]
          /\ running' = [running EXCEPT ![w] = @ \cup {job}]
          /\ UNCHANGED <<batch, acks>>  BY <2>4 DEF StartHandler
  <3> DEFINE x == <<"chan", w, job>>
             y == <<"running", w, job>>
  <3>2. /\ job.task = t => x \in Traces(t) /\ Traces(t)' \subseteq (Traces(t) \ {x}) \cup {y}
        /\ job.task # t => Fewer(t)  BY <2>2, <3>1, JobMoves
  <3>3. (Retries(y) => Retries(x)) /\ x[1] # "acks" /\ y[3].max = x[3].max  BY DEF Retries
  <3> HIDE DEF x, y
  <3>4. job.task = t => Moves(t)  BY <2>1, <3>2, <3>3 DEF Moves
  <3> QED  BY <1>c, <2>1, <3>2, <3>4
 <2> QED  BY <1>10, <2>3, <2>4
<1>11. ASSUME NEW w \in Workers, FinishHandler(w)
       PROVE  StepOf(t)
 <2>1. PICK job \in running[w], out \in {"ok", "abort", "err"} :
         /\ running' = [running EXCEPT ![w] = @ \ {job}]
         /\ acks' = [acks EXCEPT ![w] = @ \cup
                       {[task |-> job.task, status |-> AckStatus(job, out)]}]
         /\ UNCHANGED <<rows, batch, chan, claims, lapses, touched>>  BY <1>11 DEF FinishHandler
 <2>2. job \in Job  BY DEF PlacesOK
 <2> DEFINE ack == [task |-> job.task, status |-> AckStatus(job, out)]
            x == <<"running", w, job>>
            y == <<"acks", w, ack>>
 <2>3. /\ AckStatus(job, out) \in {"done", "killed", "pending"}
       /\ AckStatus(job, out) = "pending" => job.attempt < job.max  BY <2>2 DEF AckStatus, Job
 <2>4. ack \in AckRow /\ ack.task = job.task /\ ack.status = AckStatus(job, out)  BY <2>2, <2>3 DEF AckRow, Job
 <2>5. acks' = [acks EXCEPT ![w] = @ \cup {ack}]  BY <2>1
 <2> HIDE DEF ack
 <2>6. /\ job.task = t => x \in Traces(t) /\ Traces(t)' \subseteq (Traces(t) \ {x}) \cup {y}
       /\ job.task # t => Fewer(t)
  <3>1. job \in running[w] /\ running' = [running EXCEPT ![w] = @ \ {job}]  BY <2>1
  <3>2. UNCHANGED <<batch, chan>>  BY <2>1
  <3> QED  BY <3>1, <3>2, <2>4, <2>5, AnswerMoves
 <2>7. /\ Retries(y) => Retries(x)
       /\ y[1] = "acks"  BY <2>3, <2>4 DEF Retries
 <2> HIDE DEF x, y
 <2>8. job.task = t => Moves(t)  BY <2>1, <2>6, <2>7 DEF Moves
 <2> QED  BY <1>c, <2>1, <2>6, <2>8
<1>12. ASSUME NEW w \in Workers, Crash(w) \/ Restart(w)
       PROVE  StepOf(t)
 <2>1. UNCHANGED <<rows, claims, lapses, touched>>  BY <1>12 DEF Crash, Restart
 <2>2. Fewer(t)  BY <1>12, PlacesShrink DEF Crash, Restart, PlacesOK
 <2> QED  BY <1>c, <2>1, <2>2
<1>13. CASE UNCHANGED vars  BY <1>13, <1>b, <1>c DEF vars
<1> QED
  BY <1>1, <1>2, <1>3, <1>4, <1>5, <1>6, <1>7, <1>8, <1>9, <1>10, <1>11, <1>12, <1>13
     DEF Next, Push, Admin, Heartbeat, StartSweep, KeepAliveSweep

-----------------------------------------------------------------------------
(* The whole queue.                                                        *)

LEMMA QueueStart == Init \/ Idle => QueueInv
<1> SUFFICES ASSUME Init \/ Idle PROVE QueueInv  OBVIOUS
<1>1. QueueTypes  BY QueueTypesStart
<1>2. ASSUME NEW t \in Tasks PROVE TaskInv(t)
 <2>1. /\ rows[t] = NoRow /\ claims[t] = 0 /\ lapses[t] = 0
       /\ \A w \in Workers : batch[w] = {} /\ chan[w] = {} /\ running[w] = {} /\ acks[w] = {}  BY DEF Init, Idle
 <2>2. Traces(t) = {}
  <3>1. \A tr : ~IsTrace(t, tr)  BY <2>1 DEF IsTrace
  <3> QED  BY <3>1, TracesAre
 <2>3. IsFiniteSet(Traces(t))  BY <2>2, FS_EmptySet
 <2> QED  BY <2>1, <2>2, <2>3 DEF TaskInv, QuietInv, BudgetInv, NoRow
<1> QED  BY <1>1, <1>2 DEF QueueInv

LEMMA QueueStep == QueueInv /\ [Next]_vars => QueueInv'
<1> SUFFICES ASSUME QueueInv, [Next]_vars PROVE QueueInv'  OBVIOUS
<1>1. QueueTypes /\ QueueTypes'  BY QueueTypesStep DEF QueueInv
<1>2. ASSUME NEW t \in Tasks PROVE TaskInv(t)'
 <2>1. TaskInv(t) /\ StepOf(t)  BY <1>1, StepsAre DEF QueueInv
 <2>2. IsFiniteSet(Traces(t)') /\ QuietInv(t)'  BY <1>1, <2>1, StepKeepsQuiet
 <2>3. CASE t \in touched'  BY <2>2, <2>3 DEF TaskInv, BudgetInv
 <2>4. CASE t \notin touched'  BY <1>1, <2>1, <2>2, <2>4, StepKeepsBudget DEF TaskInv
 <2> QED  BY <2>3, <2>4
<1> QED  BY <1>1, <1>2 DEF QueueInv

\* Every copy of a job leaves a trace, so a quiet task has one copy at most.
LEMMA OneCopy ==
  ASSUME NEW t \in Tasks, \A x, y \in Traces(t) : x = y
  PROVE  Cardinality(CopiesOf(t)) <= 1
<1>1. ASSUME NEW c \in CopiesOf(t)
      PROVE  \E w, job : /\ c = <<w, job>>
                         /\ \E place : <<place, w, job>> \in Traces(t)
 <2>1. PICK w \in Workers : \E job \in Copies(w) : job.task = t /\ c = <<w, job>>  BY DEF CopiesOf
 <2>2. PICK job \in Copies(w) : job.task = t /\ c = <<w, job>>  BY <2>1
 <2>3. \/ IsTrace(t, <<"batch", w, job>>) \/ IsTrace(t, <<"chan", w, job>>)
       \/ IsTrace(t, <<"running", w, job>>)  BY <2>2 DEF Copies, IsTrace
 <2>4. \E place : <<place, w, job>> \in Traces(t)  BY <2>3, TracesAre
 <2> QED  BY <2>2, <2>4
<1>2. \A c, d \in CopiesOf(t) : c = d  BY <1>1
<1>3. CASE CopiesOf(t) = {}  BY <1>3, FS_EmptySet
<1>4. CASE CopiesOf(t) # {}
 <2>1. PICK c : CopiesOf(t) = {c}  BY <1>2, <1>4
 <2>2. Cardinality(CopiesOf(t)) = 1  BY <2>1, FS_Singleton
 <2> QED  BY <2>2
<1> QED  BY <1>3, <1>4

LEMMA QueueInvGives == QueueInv => ClaimsHold
<1> SUFFICES ASSUME QueueInv PROVE ClaimedOnce /\ AttemptsBounded  BY TypesGive DEF QueueInv, ClaimsHold
<1>1. ClaimedOnce
 <2> SUFFICES ASSUME NEW t \in Tasks, lapses[t] = 0, t \notin touched
              PROVE  Cardinality(CopiesOf(t)) <= 1  BY DEF ClaimedOnce, QueueInv, QueueTypes, HistoryOK
 <2>1. \A x, y \in Traces(t) : x = y  BY DEF QueueInv, TaskInv, QuietInv
 <2> QED  BY <2>1, OneCopy
<1>2. AttemptsBounded
 <2> SUFFICES ASSUME NEW t \in Tasks, t \notin touched, rows[t].st # "none"
              PROVE  claims[t] <= rows[t].max + lapses[t]  BY DEF AttemptsBounded
 <2>1. BudgetInv(t) /\ IsFiniteSet(Traces(t))  BY DEF QueueInv, TaskInv
 <2>2. /\ claims[t] \in Nat /\ lapses[t] \in Nat /\ rows[t].max \in Nat
       /\ rows[t].st \in {"none", "pending", "running", "done", "killed"}
   BY DEF QueueInv, QueueTypes, HistoryOK, RowsOK, Row
 <2>3. Unclaimed(t) \in Nat  BY <2>2 DEF Unclaimed
 <2>4. Cardinality(Retrying(t)) \in Nat  BY <2>1, RetryingMoves
 <2> QED  BY <2>1, <2>2, <2>3, <2>4 DEF BudgetInv
<1> QED  BY <1>1, <1>2

\* The queue is one part of the background work; the others leave it alone.
LEMMA QueueRunsAlone == WorkNext => [Next]_vars
BY DEF WorkNext

\* Whatever the number of workers and tasks, however many crash, stall or fail a
\* statement, and in whichever order acks and sweeps reach the table: no row is
\* handed out twice while its lock holds, and a task is claimed no more often
\* than its budget of attempts and the lapses of its lock allow (fetch_next,
\* ack and reenqueue_orphaned, each one statement of its own).
THEOREM ClaimsAreBounded == WorkSpec => []ClaimsHold
<1>1. WorkInit => QueueInv  BY QueueStart DEF WorkInit
<1>2. QueueInv /\ [WorkNext]_WorkVars => QueueInv'
 <2>1. UNCHANGED WorkVars => UNCHANGED vars  BY DEF WorkVars
 <2> QED  BY <2>1, QueueRunsAlone, QueueStep
<1>3. QueueInv => ClaimsHold  BY QueueInvGives
<1> QED  BY <1>1, <1>2, <1>3, PTL DEF WorkSpec

-----------------------------------------------------------------------------
(* The cron server: an atom of a field, and the field.                     *)

\* A set of numbers that has an element has a least one.
LEMMA LeastElement ==
  ASSUME NEW T, T \subseteq Nat, T # {}
  PROVE  \E x \in T : \A y \in T : x <= y
<1> DEFINE Less == {ss \in Nat \X Nat : ss[1] < ss[2]}
<1>1. IsWellFoundedOn(Less, Nat)  BY NatLessThanWellFounded DEF OpToRel
<1>2. PICK x \in T : \A y \in T : ~ (<<y, x>> \in Less)
 <2> HIDE DEF Less
 <2> QED  BY <1>1, WFMin
<1>3. ASSUME NEW y \in T PROVE x <= y
 <2>1. ~(y < x)  BY <1>2
 <2> QED  BY <2>1
<1> QED  BY <1>3

\* A set that holds 0 and, with a number, the next holds every number.
LEMMA Induct ==
  ASSUME NEW T, 0 \in T, \A n \in Nat : n \in T => n + 1 \in T
  PROVE  Nat \subseteq T
<1> SUFFICES ASSUME NEW m \in Nat, m \notin T PROVE FALSE  OBVIOUS
<1>1. PICK x \in Nat \ T : \A y \in Nat \ T : x <= y  BY LeastElement
<1>2. x - 1 \in Nat /\ x - 1 \in T  BY <1>1
<1> QED  BY <1>1, <1>2

\* An atom of a field: after k steps the walk is k steps on, as long as the one
\* before was not beyond the end, and then it stays.
Steps(a, b, step) == ((b - a) \div step) + 1
Walked(a, b, step, k) == a + (IF k <= Steps(a, b, step) THEN k ELSE Steps(a, b, step)) * step

\* The number of values an atom's walk visits is the number it should.
LEMMA StepsReach ==
  ASSUME NEW a \in Nat, NEW b \in Nat, a <= b, NEW step \in Nat \ {0}
  PROVE  /\ Steps(a, b, step) \in 1 .. b - a + 1
         /\ \A k \in Nat : a + k * step <= b <=> k < Steps(a, b, step)
<1> DEFINE q == (b - a) \div step
<1>1. q \in Nat /\ step * q <= b - a /\ b - a < step * q + step  OBVIOUS
<1> HIDE DEF q
<1>2. q <= step * q  BY <1>1
<1>3. ASSUME NEW k \in Nat PROVE a + k * step <= b <=> k < q + 1
 <2>1. CASE k <= q
  <3>1. k * step <= step * q  BY <2>1, <1>1
  <3> QED  BY <3>1, <2>1, <1>1
 <2>2. CASE k > q
  <3>1. (q + 1) * step <= k * step  BY <2>2, <1>1
  <3>2. (q + 1) * step = step * q + step  BY <1>1
  <3> QED  BY <3>1, <3>2, <2>2, <1>1
 <2> QED  BY <2>1, <2>2, <1>1
<1> QED  BY <1>1, <1>2, <1>3 DEF Steps, q

\* One turn of the walk: it stays below the word's end, so it does not wrap.
LEMMA WalkedMoves ==
  ASSUME NEW a \in Nat, NEW b \in Nat, a <= b, b <= MaxValue, NEW n \in 1 .. MaxValue, NEW k \in Nat
  PROVE  /\ Walked(a, b, n, 0) = a
         /\ Walked(a, b, n, k) \in Nat
         /\ Walked(a, b, n, k + 1) = IF Walked(a, b, n, k) > b THEN Walked(a, b, n, k)
                                     ELSE (Walked(a, b, n, k) + n) % Word
         /\ Walked(a, b, n, k) <= b <=> k < Steps(a, b, n)
<1> DEFINE s == Steps(a, b, n)
<1>1. /\ s \in Nat \ {0} /\ \A i \in Nat : a + i * n <= b <=> i < s
      /\ n \in Nat \ {0} /\ MaxValue \in Nat /\ Word \in Nat /\ 2 * MaxValue < Word
 <2>1. n \in Nat \ {0} /\ MaxValue \in Nat /\ Word \in Nat /\ 2 * MaxValue < Word  BY CronAssumption
 <2>2. s \in 1 .. b - a + 1 /\ \A i \in Nat : a + i * n <= b <=> i < s  BY <2>1, StepsReach
 <2> HIDE DEF s
 <2> QED  BY <2>1, <2>2
<1>2. \A i \in Nat : i * n \in Nat /\ (i + 1) * n = i * n + n  BY <1>1
<1>3. Walked(a, b, n, k) = a + (IF k <= s THEN k ELSE s) * n  BY DEF Walked
<1>4. Walked(a, b, n, k + 1) = a + (IF k + 1 <= s THEN k + 1 ELSE s) * n  BY DEF Walked
<1>5. Walked(a, b, n, 0) = a  BY <1>1 DEF Walked
<1> HIDE DEF s
<1>6. Walked(a, b, n, k) <= b <=> k < s
 <2>1. CASE k <= s  BY <2>1, <1>1, <1>3
 <2>2. CASE ~(k <= s)  BY <2>2, <1>1, <1>3
 <2> QED  BY <2>1, <2>2
<1>7. Walked(a, b, n, k) \in Nat  BY <1>1, <1>2, <1>3
<1>8. CASE k < s
 <2>1. Walked(a, b, n, k + 1) = Walked(a, b, n, k) + n  BY <1>8, <1>1, <1>2, <1>3, <1>4
 <2>2. Walked(a, b, n, k) + n \in Nat /\ Walked(a, b, n, k) + n < Word  BY <1>8, <1>1, <1>6, <1>7
 <2>3. (Walked(a, b, n, k) + n) % Word = Walked(a, b, n, k) + n  BY <2>2, <1>1
 <2> QED  BY <2>1, <2>3, <1>5, <1>6, <1>7, <1>8 DEF s
<1>9. CASE ~(k < s)
 <2>1. Walked(a, b, n, k + 1) = Walked(a, b, n, k)  BY <1>9, <1>1, <1>3, <1>4
 <2> QED  BY <2>1, <1>5, <1>6, <1>7, <1>9, <1>1 DEF s
<1> QED  BY <1>8, <1>9

\* parse_field, one atom: the walk in u32 does not wrap, and it allows what cron
\* means by the atom.
LEMMA AtomsAreCron == C!ParseIsCron
<1> SUFFICES ASSUME NEW a \in 0 .. MaxValue, NEW b \in 0 .. MaxValue, NEW n \in 0 .. MaxValue,
                    C!Accepted(a, b, 0, MaxValue)
             PROVE  C!Atom(a, b, n) = C!MeansAtom(a, b, n)  BY DEF C!ParseIsCron
<1>1. MaxValue \in Nat /\ a \in Nat /\ b \in Nat /\ a <= b /\ b <= MaxValue  BY CronAssumption DEF C!Accepted
<1> DEFINE step == IF n = 0 THEN 1 ELSE n
           walk[k \in 0 .. MaxValue + 1] ==
             IF k = 0 THEN a
             ELSE LET v == walk[k - 1]
                  IN IF v > b THEN v ELSE (v + step) % Word
           F(w) == [k \in 0 .. MaxValue + 1 |->
                      IF k = 0 THEN a ELSE IF w[k - 1] > b THEN w[k - 1] ELSE (w[k - 1] + step) % Word]
           walked == [k \in 0 .. MaxValue + 1 |-> Walked(a, b, step, k)]
<1>2. step \in 1 .. MaxValue /\ MaxValue \in Nat  BY CronAssumption
<1> HIDE DEF step
<1>3. walked = F(walked)
 <2>1. ASSUME NEW k \in 0 .. MaxValue + 1
       PROVE  walked[k] = IF k = 0 THEN a
                          ELSE IF walked[k - 1] > b THEN walked[k - 1] ELSE (walked[k - 1] + step) % Word
  <3>1. CASE k = 0
   <4>1. Walked(a, b, step, 0) = a /\ walked[0] = Walked(a, b, step, 0)  BY <1>1, <1>2, WalkedMoves
   <4> QED  BY <4>1, <3>1
  <3>2. CASE k # 0
   <4>1. PICK i \in Nat : i = k - 1 /\ k = i + 1 /\ i \in 0 .. MaxValue + 1  BY <3>2, <1>2
   <4>2. Walked(a, b, step, i + 1) = IF Walked(a, b, step, i) > b THEN Walked(a, b, step, i)
                                     ELSE (Walked(a, b, step, i) + step) % Word  BY <1>1, <1>2, WalkedMoves
   <4>3. walked[i] = Walked(a, b, step, i) /\ walked[k] = Walked(a, b, step, k)  BY <4>1, SMTT(60)
   <4> HIDE DEF walked
   <4> QED  BY <4>1, <4>2, <4>3, <3>2
  <3> QED  BY <3>1, <3>2
 <2> QED  BY <2>1
<1>4. walk = F(walk)  BY <1>3
<1>5. \A k \in 0 .. MaxValue + 1 : walk[k] = Walked(a, b, step, k)
 <2> HIDE DEF walk, walked
 <2> DEFINE T == {k \in Nat : k <= MaxValue + 1 => walk[k] = Walked(a, b, step, k)}
 <2>1. 0 \in T
  <3>1. walk[0] = a  BY <1>4, <1>2
  <3> QED  BY <3>1, <1>1, <1>2, WalkedMoves
 <2>2. ASSUME NEW k \in Nat, k \in T PROVE k + 1 \in T
  <3> SUFFICES ASSUME k + 1 <= MaxValue + 1 PROVE walk[k + 1] = Walked(a, b, step, k + 1)  OBVIOUS
  <3>1. walk[k] = Walked(a, b, step, k) /\ k + 1 \in 0 .. MaxValue + 1 /\ k + 1 # 0 /\ (k + 1) - 1 = k
    BY <2>2, <1>2
  <3>2. walk[k + 1] = IF walk[k] > b THEN walk[k] ELSE (walk[k] + step) % Word  BY <1>4, <3>1
  <3> QED  BY <3>1, <3>2, <1>1, <1>2, WalkedMoves
 <2>3. Nat \subseteq T
  <3> HIDE DEF T
  <3> QED  BY <2>1, <2>2, Induct
 <2> QED  BY <2>3, <1>2
<1>6. C!Atom(a, b, n) = {v \in {walk[k] : k \in 0 .. MaxValue + 1} : v <= b}  BY DEF C!Atom, step
<1>7. C!MeansAtom(a, b, n) = {v \in a .. b : (v - a) % step = 0}  BY DEF C!MeansAtom, step
<1> HIDE DEF walk, walked
<1>8. ASSUME NEW v, v \in C!Atom(a, b, n) PROVE v \in C!MeansAtom(a, b, n)
 <2>1. PICK k \in 0 .. MaxValue + 1 : v = Walked(a, b, step, k) /\ v <= b  BY <1>5, <1>6, <1>8
 <2>2. k \in Nat /\ step \in Nat \ {0} /\ k < Steps(a, b, step)  BY <2>1, <1>1, <1>2, WalkedMoves
 <2>3. v = a + k * step  BY <2>1, <2>2, <1>1, StepsReach, SMTT(60) DEF Walked
 <2>4. k * step \in Nat /\ (k * step) % step = 0  BY <2>2
 <2> QED  BY <1>7, <2>1, <2>3, <2>4, <1>1
<1>9. ASSUME NEW v, v \in C!MeansAtom(a, b, n) PROVE v \in C!Atom(a, b, n)
 <2> DEFINE k == (v - a) \div step
 <2>1. v \in a .. b /\ v - a \in Nat /\ (v - a) % step = 0 /\ step \in Nat \ {0}  BY <1>7, <1>9, <1>1, <1>2
 <2>2. k \in Nat /\ v = a + k * step  BY <2>1, <1>1
 <2> HIDE DEF k
 <2>3. k < Steps(a, b, step)  BY <2>1, <2>2, <1>1, StepsReach
 <2>4. k \in 0 .. MaxValue + 1  BY <2>1, <2>2, <2>3, <1>1, StepsReach
 <2>5. v = Walked(a, b, step, k)  BY <2>2, <2>3, <2>1, <1>1, StepsReach, SMTT(60) DEF Walked
 <2> QED  BY <2>1, <2>4, <2>5, <1>1, <1>5, <1>6
<1> QED  BY <1>8, <1>9

-----------------------------------------------------------------------------
(* The cron server: its clock.                                             *)

\* The clock in half minutes and minutes.
HalfMinute == Half * Second
Begins(m) == 2 * (m * HalfMinute)

\* What the assumption says of half a minute.
LEMMA HalfMinutes ==
  /\ HalfMinute \in Nat \ {0} /\ Second \in Nat \ {0} /\ Second <= HalfMinute
  /\ MaxLate \in Nat /\ MaxLate + Second <= HalfMinute
  /\ Minutes \in Nat \ {0}
  /\ 2 * Half * Second = 2 * HalfMinute
  /\ C!Horizon = Begins(Minutes)
<1>1. /\ Second \in Nat \ {0} /\ Half \in Nat \ {0} /\ Minutes \in Nat \ {0} /\ MaxLate \in Nat
      /\ MaxLate + Second <= HalfMinute  BY CronAssumption DEF HalfMinute
<1>2. HalfMinute \in Nat \ {0}  BY <1>1 DEF HalfMinute
<1>3. 2 * Half * Second = 2 * HalfMinute  BY <1>1 DEF HalfMinute
<1>4. C!Horizon = Begins(Minutes)  BY <1>1 DEF C!Horizon, Begins, HalfMinute
<1> QED  BY <1>1, <1>2, <1>3, <1>4

\* Minutes follow each other, two halves apart.
LEMMA BeginsOrder ==
  ASSUME NEW m \in Nat, NEW n \in Nat
  PROVE  /\ Begins(m) \in Nat /\ Begins(m + 1) = Begins(m) + 2 * HalfMinute
         /\ m < n => Begins(m) + 2 * HalfMinute <= Begins(n)
<1> DEFINE H == HalfMinute
<1>1. H \in Nat \ {0}  BY HalfMinutes
<1> HIDE DEF H
<1>2. m * H \in Nat /\ (m + 1) * H = m * H + H  BY <1>1
<1>3. m < n => m * H + H <= n * H  BY <1>1
<1>4. n * H \in Nat  BY <1>1
<1> QED  BY <1>1, <1>2, <1>3, <1>4 DEF Begins, H

\* The minute of an instant is the one that has begun and not ended.
LEMMA MinuteShape ==
  ASSUME NEW t \in Nat
  PROVE  /\ C!Minute(t) \in Nat
         /\ Begins(C!Minute(t)) <= t /\ t < Begins(C!Minute(t)) + 2 * HalfMinute
         /\ \A m \in Nat : C!Minute(t) < m <=> t < Begins(m)
         /\ \A m \in Nat : Begins(m) <= t /\ t < Begins(m) + 2 * HalfMinute => C!Minute(t) = m
<1> DEFINE H == HalfMinute
           q == t \div (2 * H)
<1>1. H \in Nat \ {0}  BY HalfMinutes
<1>2. C!Minute(t) = q  BY HalfMinutes DEF C!Minute
<1> HIDE DEF H
<1>3. q \in Nat /\ (2 * H) * q <= t /\ t < (2 * H) * q + 2 * H  BY <1>1
<1> HIDE DEF q
<1>4. (2 * H) * q = Begins(q)
 <2>1. Begins(q) = 2 * (q * H)  BY DEF Begins, H
 <2> QED  BY <1>1, <1>3, <2>1
<1>5. ASSUME NEW m \in Nat PROVE q < m <=> t < Begins(m)  BY <1>1, <1>3, <1>4, BeginsOrder DEF H
<1>6. ASSUME NEW m \in Nat, Begins(m) <= t, t < Begins(m) + 2 * H PROVE q = m
 <2>1. ~(m < q)  BY <1>1, <1>3, <1>4, <1>6, BeginsOrder DEF H
 <2>2. ~(q < m)  BY <1>5, <1>6, BeginsOrder
 <2> QED  BY <2>1, <2>2, <1>3
<1> QED  BY <1>1, <1>2, <1>3, <1>4, <1>5, <1>6 DEF H

\* fire_due_jobs looks for second 0: the first second of a minute.
LEMMA SecondShape ==
  ASSUME NEW t \in Nat
  PROVE  C!SecondOf(t) = 0 <=> t < Begins(C!Minute(t)) + Second
<1> DEFINE q == t \div Second
           w == 2 * Half
           s == q % w
           k == q \div w
<1>1. Second \in Nat \ {0} /\ Half \in Nat \ {0} /\ w \in Nat \ {0}  BY CronAssumption
<1>2. q \in Nat /\ Second * q <= t /\ t < Second * q + Second  BY <1>1
<1> HIDE DEF q, w
<1>3. k \in Nat /\ s \in 0 .. w - 1 /\ q = w * k + s  BY <1>1, <1>2
<1> HIDE DEF k, s
<1>4. Begins(k) = Second * (w * k)  BY <1>1, <1>3 DEF Begins, HalfMinute, w
<1>5. Second * q = Begins(k) + Second * s /\ Second * s \in Nat /\ Begins(k) \in Nat  BY <1>1, <1>3, <1>4
<1>6. Second * s + Second <= Second * w  BY <1>1, <1>3
<1>7. Second * w = 2 * HalfMinute  BY <1>1 DEF w, HalfMinute
<1>8. C!Minute(t) = k
 <2>1. Second * w \in Nat /\ HalfMinute \in Nat  BY <1>1, HalfMinutes
 <2>2. Begins(k) <= t  BY <1>2, <1>5
 <2>3. t < Begins(k) + 2 * HalfMinute  BY <1>1, <1>2, <1>5, <1>6, <1>7, <2>1
 <2> QED  BY <1>3, <2>2, <2>3, MinuteShape
<1>9. C!SecondOf(t) = s  BY DEF C!SecondOf, s, q, w
<1>10. s = 0 => Second * s = 0  BY <1>1
<1>11. s # 0 => Second * s >= Second  BY <1>1, <1>3
<1> QED  BY <1>1, <1>2, <1>3, <1>5, <1>8, <1>9, <1>10, <1>11

\* The first sleep ends at a half minute, plus what the start left of a second.
LEMMA FirstWait ==
  ASSUME NEW t \in Nat
  PROVE  /\ t % Second \in 0 .. Second - 1
         /\ \E k \in Nat : /\ t + C!DurationToNextHalfMinute(t) = k * HalfMinute + (t % Second)
                           /\ t + C!DurationToNextHalfMinute(t) <= t + HalfMinute
                           /\ t < t + C!DurationToNextHalfMinute(t)
<1> DEFINE q == t \div Second
           s == q % Half
           k == q \div Half
           r == t % Second
<1>1. Second \in Nat \ {0} /\ Half \in Nat \ {0}  BY CronAssumption
<1>2. q \in Nat /\ t = Second * q + r /\ r \in 0 .. Second - 1  BY <1>1
<1> HIDE DEF q
<1>3. k \in Nat /\ s \in 0 .. Half - 1 /\ q = Half * k + s  BY <1>1, <1>2
<1>4. C!DurationToNextHalfMinute(t) = (Half - s) * Second  BY DEF C!DurationToNextHalfMinute, s, q
<1> HIDE DEF s, k, r
<1>5. (Half - s) * Second <= HalfMinute /\ (Half - s) * Second >= Second  BY <1>1, <1>3 DEF HalfMinute
<1>6. t + (Half - s) * Second = (k + 1) * HalfMinute + r
 <2>1. t = Second * (Half * k + s) + r  BY <1>2, <1>3
 <2>2. r \in Nat /\ k \in Nat /\ s \in Nat  BY <1>1, <1>2, <1>3
 <2> QED  BY <2>1, <2>2, <1>1 DEF HalfMinute
<1>7. k + 1 \in Nat /\ (Half - s) * Second \in Nat  BY <1>1, <1>3
<1>8. HalfMinute \in Nat  BY HalfMinutes
<1> DEFINE d == C!DurationToNextHalfMinute(t)
<1>9. d \in Nat /\ t + d = (k + 1) * HalfMinute + r /\ t + d <= t + HalfMinute /\ t < t + d
  BY <1>1, <1>4, <1>5, <1>6, <1>7, <1>8
<1> HIDE DEF d
<1>10. /\ r \in 0 .. Second - 1
       /\ \E i \in Nat : t + d = i * HalfMinute + r /\ t + d <= t + HalfMinute /\ t < t + d  BY <1>2, <1>7, <1>9
<1> QED  BY <1>10 DEF r, d


NothingFired == flights = {} /\ \A j \in Jobs, m \in 0 .. Minutes : fired[j][m] = 0

\* The lateness of the two timers stays within the second.
Punctual == (began % Second) + 2 * MaxLate < Second

\* The ticks keep the phase the first of them had: what the start left over of a
\* second and the lateness of the first sleep.  Every minute that began since
\* the start and whose tick is behind has fired.
OnCourse(k, phase) ==
  /\ deadline = k * HalfMinute + phase
  /\ began % Second <= phase /\ phase <= (began % Second) + MaxLate
  /\ Punctual => \A j \in Jobs, m \in 0 .. Minutes :
       m \in spec[j] /\ began < Begins(m) /\ Begins(m) + phase < deadline => fired[j][m] > 0

CronWaits ==
  cronPc = "waiting" =>
    /\ NothingFired
    /\ deadline <= began + HalfMinute /\ clock <= deadline + MaxLate
    /\ \E k \in Nat : deadline = k * HalfMinute + (began % Second)

\* The next tick comes after the second in which a minute fired.
CronTicks ==
  cronPc = "ticking" =>
    /\ clock <= deadline + MaxLate
    /\ \A j \in Jobs, m \in 0 .. Minutes : fired[j][m] = 0 \/ Begins(m) + Second <= deadline
    /\ \E k, phase \in Nat : OnCourse(k, phase)

CronInv ==
  /\ C!TypeOK /\ C!OncePerMinute /\ C!OverIsQuiet
  /\ cronPc = "new" => NothingFired
  /\ cronPc = "draining" => cronStop
  /\ CronWaits /\ CronTicks

\* A server that has not started, or is over, has fired nothing.
LEMMA CronStart == C!Init \/ C!Idle => CronInv
<1>1. /\ Second \in Nat \ {0} /\ Half \in Nat \ {0} /\ Minutes \in Nat \ {0}
      /\ C!Horizon = Begins(Minutes) /\ Begins(Minutes) \in Nat
      /\ 2 * HalfMinute <= Begins(Minutes) /\ HalfMinute \in Nat
      /\ 2 * Half * Second = 2 * HalfMinute
 <2>1. Begins(0) \in Nat /\ Begins(Minutes) \in Nat /\ Begins(0) + 2 * HalfMinute <= Begins(Minutes)
   BY HalfMinutes, BeginsOrder
 <2> QED  BY <2>1, HalfMinutes, CronAssumption
<1>2. ASSUME C!Init PROVE CronInv
 <2>1. clock \in 0 .. C!Horizon  BY <1>1, <1>2 DEF C!Init
 <2>2. C!TypeOK
  <3>1. spec \in [Jobs -> SUBSET (0 .. Minutes)]  BY <1>1, <1>2 DEF C!Init
  <3>2. deadline \in 0 .. 2 * C!Horizon /\ began \in 0 .. C!Horizon  BY <1>1, <1>2 DEF C!Init
  <3> QED  BY <1>2, <2>1, <3>1, <3>2 DEF C!Init, C!TypeOK
 <2> QED
   BY <1>1, <1>2, <2>2 DEF C!Init, CronInv, C!OncePerMinute, C!OverIsQuiet, CronWaits, CronTicks, NothingFired
<1>3. ASSUME C!Idle PROVE CronInv
 <2>2. C!TypeOK  BY <1>1, <1>3 DEF C!Idle, C!TypeOK
 <2> QED
   BY <1>1, <1>3, <2>2 DEF C!Idle, CronInv, C!OncePerMinute, C!OverIsQuiet, CronWaits, CronTicks, NothingFired
<1> QED  BY <1>2, <1>3

\* A tick: the minute of the clock fires in its first second, and the next tick
\* is half a minute on.
LEMMA TickIs ==
  ASSUME CronInv, C!Tick
  PROVE  /\ C!Minute(clock) \in 0 .. Minutes
         /\ deadline' = deadline + HalfMinute
         /\ \A j \in Jobs, m \in 0 .. Minutes :
              fired'[j][m] = IF m = C!Minute(clock) /\ m \in spec[j] /\ clock < Begins(m) + Second
                             THEN fired[j][m] + 1 ELSE fired[j][m]
<1>1. /\ clock \in 0 .. C!Horizon /\ clock \in Nat /\ deadline \in Nat
      /\ deadline <= clock /\ clock <= deadline + MaxLate
      /\ fired \in [Jobs -> [0 .. Minutes -> Nat]]
 <2>1. clock \in 0 .. C!Horizon /\ deadline \in 0 .. 2 * C!Horizon /\ C!Horizon \in Nat
   BY HalfMinutes, BeginsOrder DEF CronInv, C!TypeOK
 <2> QED  BY <2>1 DEF CronInv, CronTicks, C!Tick, C!TypeOK
<1>2. C!Minute(clock) \in 0 .. Minutes
 <2>1. C!Minute(clock) \in Nat /\ Begins(C!Minute(clock)) <= clock /\ clock <= Begins(Minutes) /\ Minutes \in Nat
   BY <1>1, MinuteShape, HalfMinutes
 <2>2. Minutes < C!Minute(clock) => Begins(Minutes) + 2 * HalfMinute <= Begins(C!Minute(clock))
   BY <2>1, BeginsOrder
 <2>3. HalfMinute \in Nat \ {0} /\ Begins(Minutes) \in Nat /\ Begins(C!Minute(clock)) \in Nat
   BY <2>1, BeginsOrder, HalfMinutes
 <2> QED  BY <1>1, <2>1, <2>2, <2>3
<1>3. deadline' = deadline + HalfMinute
 <2> DEFINE H == HalfMinute
 <2>1. H \in Nat \ {0} /\ MaxLate < H  BY HalfMinutes
 <2>2. deadline' = clock + (H - ((clock - deadline) % H))  BY DEF C!Tick, C!NextTick, HalfMinute
 <2> HIDE DEF H
 <2>3. clock - deadline \in Nat /\ clock - deadline < H  BY <1>1, <2>1, HalfMinutes
 <2>4. (clock - deadline) % H = clock - deadline  BY <2>1, <2>3
 <2> QED  BY <1>1, <2>1, <2>2, <2>4 DEF H
<1>4. ASSUME NEW j \in Jobs, NEW m \in 0 .. Minutes
      PROVE  fired'[j][m] = IF m = C!Minute(clock) /\ m \in spec[j] /\ clock < Begins(m) + Second
                            THEN fired[j][m] + 1 ELSE fired[j][m]
 <2> DEFINE due == IF C!SecondOf(clock) # 0 THEN {} ELSE {i \in Jobs : C!Minute(clock) \in spec[i]}
 <2>1. fired' = [i \in Jobs |-> IF i \in due THEN [fired[i] EXCEPT ![C!Minute(clock)] = @ + 1] ELSE fired[i]]
   BY DEF C!Tick
 <2>2. j \in due <=> C!Minute(clock) \in spec[j] /\ clock < Begins(C!Minute(clock)) + Second  BY <1>1, SecondShape
 <2> HIDE DEF due
 <2>3. fired'[j] = IF j \in due THEN [fired[j] EXCEPT ![C!Minute(clock)] = @ + 1] ELSE fired[j]  BY <2>1
 <2>4. fired[j] \in [0 .. Minutes -> Nat]  BY <1>1
 <2> QED  BY <2>2, <2>3, <2>4, <1>2
<1> QED  BY <1>2, <1>3, <1>4


\* A tick fires minutes of the model, and the next deadline is on the clock.
LEMMA TypesOfTick == CronInv /\ C!Tick => C!TypeOK'
<1> SUFFICES ASSUME CronInv, C!Tick PROVE C!TypeOK'  OBVIOUS
<1>1. C!TypeOK /\ CronTicks /\ cronPc = "ticking" /\ deadline <= clock  BY DEF CronInv, C!Tick
<1>2. C!Minute(clock) \in 0 .. Minutes /\ deadline' = deadline + HalfMinute  BY TickIs
<1>3. deadline' \in 0 .. 2 * C!Horizon
 <2>1. C!Horizon \in Nat /\ HalfMinute \in Nat /\ HalfMinute <= C!Horizon
  <3>1. Begins(0) \in Nat /\ Begins(Minutes) \in Nat /\ Begins(0) + 2 * HalfMinute <= Begins(Minutes)
    BY HalfMinutes, BeginsOrder
  <3> QED  BY <3>1, HalfMinutes
 <2>2. clock \in 0 .. C!Horizon /\ deadline \in 0 .. 2 * C!Horizon  BY <1>1 DEF C!TypeOK
 <2> QED  BY <1>1, <1>2, <2>1, <2>2
<1>4. fired' \in [Jobs -> [0 .. Minutes -> Nat]] /\ flights' \subseteq Jobs \X (0 .. Minutes)
 <2> DEFINE due == IF C!SecondOf(clock) # 0 THEN {} ELSE {i \in Jobs : C!Minute(clock) \in spec[i]}
            m == C!Minute(clock)
 <2>1. /\ fired' = [i \in Jobs |-> IF i \in due THEN [fired[i] EXCEPT ![m] = @ + 1] ELSE fired[i]]
       /\ flights' = flights \cup {<<i, m>> : i \in due}  BY DEF C!Tick
 <2>2. due \subseteq Jobs /\ m \in 0 .. Minutes  BY <1>2
 <2> HIDE DEF due, m
 <2>3. ASSUME NEW i \in Jobs
       PROVE  fired[i] \in [0 .. Minutes -> Nat] /\ [fired[i] EXCEPT ![m] = @ + 1] \in [0 .. Minutes -> Nat]
  <3>1. fired[i] \in [0 .. Minutes -> Nat]  BY <1>1 DEF C!TypeOK
  <3>2. fired[i][m] \in Nat  BY <2>2, <3>1
  <3> QED  BY <2>2, <3>1, <3>2
 <2> QED  BY <1>1, <2>1, <2>2, <2>3 DEF C!TypeOK
<1> QED  BY <1>1, <1>3, <1>4 DEF C!Tick, C!TypeOK

\* A tick: its minute is fired the first time, and no minute between two ticks
\* is skipped, since the next deadline is half a minute after the last.
LEMMA TickKeeps == CronInv /\ C!Tick => CronInv'
<1> SUFFICES ASSUME CronInv, C!Tick PROVE CronInv'  OBVIOUS
<1> DEFINE H == HalfMinute
<1>1. /\ cronPc = "ticking" /\ cronPc' = "ticking" /\ deadline <= clock /\ clock <= deadline + MaxLate
      /\ deadline \in Nat /\ clock \in Nat /\ clock' = clock /\ spec' = spec /\ began' = began
      /\ began \in Nat /\ fired \in [Jobs -> [0 .. Minutes -> Nat]]
      /\ H \in Nat \ {0} /\ Second \in Nat \ {0} /\ MaxLate \in Nat /\ MaxLate + Second <= H
      /\ 0 .. Minutes \subseteq Nat
 <2>1. C!Horizon \in Nat  BY HalfMinutes, BeginsOrder
 <2> QED  BY <2>1, HalfMinutes, SMTT(60) DEF CronInv, CronTicks, C!Tick, C!TypeOK
<1>2. deadline' = deadline + H  BY TickIs
<1>3. \A j \in Jobs, m \in 0 .. Minutes :
        fired'[j][m] = IF m = C!Minute(clock) /\ m \in spec[j] /\ clock < Begins(m) + Second
                       THEN fired[j][m] + 1 ELSE fired[j][m]  BY TickIs
<1>4. ASSUME NEW j \in Jobs, NEW m \in 0 .. Minutes
      PROVE  /\ fired[j][m] = 0 \/ Begins(m) + Second <= deadline
             /\ fired[j][m] <= (IF m \in spec[j] THEN 1 ELSE 0)
             /\ fired[j][m] \in Nat /\ Begins(m) \in Nat
  BY <1>1, BeginsOrder DEF CronInv, CronTicks, C!OncePerMinute
<1>5. Begins(C!Minute(clock)) <= clock  BY <1>1, MinuteShape
<1> HIDE DEF H
<1>6. C!OncePerMinute'
 <2> SUFFICES ASSUME NEW j \in Jobs, NEW m \in 0 .. Minutes
              PROVE  fired'[j][m] <= (IF m \in spec[j] THEN 1 ELSE 0)  BY <1>1 DEF C!OncePerMinute
 <2>1. CASE m = C!Minute(clock) /\ m \in spec[j] /\ clock < Begins(m) + Second  BY <1>1, <1>3, <1>4, <2>1, SMTT(60)
 <2>2. CASE ~(m = C!Minute(clock) /\ m \in spec[j] /\ clock < Begins(m) + Second)  BY <1>3, <1>4, <2>2
 <2> QED  BY <2>1, <2>2
<1>7. ASSUME NEW j \in Jobs, NEW m \in 0 .. Minutes
      PROVE  fired'[j][m] = 0 \/ Begins(m) + Second <= deadline'
 <2>1. CASE m = C!Minute(clock)  BY <1>1, <1>2, <1>4, <1>5, <2>1
 <2>2. CASE m # C!Minute(clock)  BY <1>1, <1>2, <1>3, <1>4, <2>2
 <2> QED  BY <2>1, <2>2
<1>8. \E k, phase \in Nat : OnCourse(k, phase)'
 <2>1. PICK k \in Nat, phase \in Nat : OnCourse(k, phase)  BY <1>1 DEF CronInv, CronTicks
 <2>2. deadline' = (k + 1) * H + phase  BY <1>1, <1>2, <2>1 DEF OnCourse, H
 <2>3. ASSUME Punctual, NEW j \in Jobs, NEW m \in 0 .. Minutes,
              m \in spec[j], began < Begins(m), Begins(m) + phase < deadline'
       PROVE  fired'[j][m] > 0
  <3>1. CASE Begins(m) + phase < deadline
   <4>1. fired[j][m] > 0  BY <2>1, <2>3, <3>1 DEF OnCourse
   <4> QED  BY <1>3, <1>4, <4>1
  <3>2. CASE ~(Begins(m) + phase < deadline)
   <4>1. m \in Nat /\ Begins(m) = (2 * m) * H  BY <1>1 DEF Begins, H
   <4>2. (2 * m) * H < (k + 1) * H /\ k * H <= (2 * m) * H  BY <1>1, <2>1, <2>2, <2>3, <3>2, <4>1 DEF OnCourse, H
   <4>3. 2 * m < k + 1 /\ k <= 2 * m  BY <1>1, <4>1, <4>2
   <4>4. k = 2 * m  BY <4>1, <4>3
   <4>5. deadline = Begins(m) + phase  BY <2>1, <4>1, <4>4 DEF OnCourse, H
   <4> DEFINE r == began % Second
   <4>6. r \in Nat /\ phase <= r + MaxLate /\ r + 2 * MaxLate < Second
    <5>1. r \in Nat  BY <1>1
    <5> QED  BY <5>1, <2>1, <2>3 DEF OnCourse, Punctual
   <4> HIDE DEF r
   <4>7. Begins(m) <= clock /\ clock < Begins(m) + Second /\ Second <= H  BY <1>1, <1>4, <4>5, <4>6, SMTT(60)
   <4>8. C!Minute(clock) = m
    <5>1. clock < Begins(m) + 2 * H  BY <1>1, <1>4, <4>7, SMTT(60)
    <5> QED  BY <1>1, <4>1, <4>7, <5>1, MinuteShape DEF H
   <4> QED  BY <1>3, <1>4, <2>3, <4>7, <4>8
  <3> QED  BY <3>1, <3>2
 <2>4. OnCourse(k + 1, phase)'
  <3>1. /\ (began % Second)' = began % Second /\ Punctual' = Punctual  BY <1>1 DEF Punctual
  <3>2. began % Second <= phase /\ phase <= (began % Second) + MaxLate  BY <2>1 DEF OnCourse
  <3>3. Punctual => \A j \in Jobs, m \in 0 .. Minutes :
           m \in spec[j] /\ began < Begins(m) /\ Begins(m) + phase < deadline' => fired'[j][m] > 0  BY <2>3
  <3> QED  BY <1>1, <2>2, <3>1, <3>2, <3>3 DEF OnCourse, H
 <2> QED  BY <2>4
<1>9. CronTicks'  BY <1>1, <1>2, <1>7, <1>8 DEF CronTicks
<1> QED  BY <1>1, <1>6, <1>9, TypesOfTick DEF CronInv, CronWaits, C!OverIsQuiet

\* Every step of the cron server keeps its invariant.
LEMMA CronStep == CronInv /\ [C!Next]_cronVars => CronInv'
<1> SUFFICES ASSUME CronInv, [C!Next]_cronVars PROVE CronInv'  OBVIOUS
<1> USE DEF CronInv
<1>1. /\ C!Horizon \in Nat /\ HalfMinute \in Nat \ {0} /\ HalfMinute <= C!Horizon /\ MaxLate \in Nat
      /\ Second \in Nat \ {0}
 <2>1. Begins(0) \in Nat /\ Begins(Minutes) \in Nat /\ Begins(0) + 2 * HalfMinute <= Begins(Minutes)
   BY HalfMinutes, BeginsOrder
 <2> QED  BY <2>1, HalfMinutes
<1>2. CASE C!Start
 <2> DEFINE d == C!DurationToNextHalfMinute(clock)
 <2>1. /\ clock \in Nat /\ clock \in 0 .. C!Horizon /\ NothingFired /\ deadline' = clock + d
       /\ cronPc' = "waiting" /\ began' = clock /\ UNCHANGED <<clock, cronStop, spec, fired, flights>>
   BY <1>1, <1>2 DEF C!Start, C!TypeOK
 <2>2. PICK k \in Nat : /\ clock + d = k * HalfMinute + (clock % Second)
                        /\ clock + d <= clock + HalfMinute /\ clock < clock + d  BY <2>1, FirstWait
 <2> HIDE DEF d
 <2>3. deadline' \in 0 .. 2 * C!Horizon
  <3>1. k * HalfMinute + (clock % Second) \in Nat  BY <1>1, <2>1
  <3> QED  BY <1>1, <2>1, <2>2, <3>1
 <2>4. C!TypeOK'  BY <2>1, <2>3 DEF C!TypeOK
 <2>5. CronWaits'
  <3>1. clock' <= deadline' + MaxLate /\ deadline' <= began' + HalfMinute  BY <1>1, <2>1, <2>2, <2>3
  <3>2. deadline' = k * HalfMinute + (began % Second)'  BY <2>1, <2>2
  <3> QED  BY <2>1, <3>1, <3>2 DEF CronWaits, NothingFired
 <2> QED  BY <2>1, <2>4, <2>5 DEF C!OncePerMinute, C!OverIsQuiet, CronTicks
<1>3. CASE C!Anchor
 <2>1. /\ cronPc = "waiting" /\ cronPc' = "ticking" /\ deadline' = clock /\ deadline <= clock
       /\ clock <= deadline + MaxLate /\ deadline <= began + HalfMinute /\ NothingFired
       /\ UNCHANGED <<clock, cronStop, spec, fired, flights, began>>
       /\ clock \in 0 .. C!Horizon /\ deadline \in Nat /\ began \in Nat /\ clock \in Nat
   BY <1>1, <1>3 DEF C!Anchor, CronWaits, C!TypeOK
 <2>2. C!TypeOK'  BY <1>1, <2>1 DEF C!TypeOK
 <2>3. PICK k \in Nat : deadline = k * HalfMinute + (began % Second)  BY <2>1 DEF CronWaits
 <2> DEFINE late == clock - deadline
            r == began % Second
 <2>4. late \in 0 .. MaxLate /\ r \in Nat /\ r < Second  BY <1>1, <2>1
 <2>5. clock = k * HalfMinute + (r + late) /\ deadline = k * HalfMinute + r /\ k * HalfMinute \in Nat
   BY <1>1, <2>1, <2>3, <2>4
 <2> HIDE DEF late, r
 <2>6. ASSUME NEW m \in 0 .. Minutes, began < Begins(m), Begins(m) + (r + late) < clock PROVE FALSE
  <3>1. m \in Nat /\ Begins(m) = (2 * m) * HalfMinute  BY <1>1, HalfMinutes DEF Begins
  <3>2. (2 * m) * HalfMinute < k * HalfMinute  BY <1>1, <2>4, <2>5, <2>6, <3>1
  <3>3. 2 * m < k  BY <1>1, <3>1, <3>2
  <3>4. (2 * m) * HalfMinute + HalfMinute <= k * HalfMinute  BY <1>1, <3>1, <3>3
  <3> QED  BY <1>1, <2>1, <2>4, <2>5, <2>6, <3>1, <3>4
 <2>8. PICK phase \in Nat : phase = r + late  BY <2>4, <1>1
 <2>7. OnCourse(k, phase)'
  <3>1. deadline' = k * HalfMinute + phase /\ (began % Second)' = r  BY <2>1, <2>5, <2>8 DEF r
  <3>2. r <= phase /\ phase <= r + MaxLate  BY <1>1, <2>4, <2>8
  <3>3. \A m \in 0 .. Minutes : ~(began' < Begins(m) /\ Begins(m) + phase < deadline')  BY <2>1, <2>6, <2>8
  <3> QED  BY <3>1, <3>2, <3>3 DEF OnCourse
 <2>9. CronTicks'
  <3>1. clock' <= deadline' + MaxLate  BY <1>1, <2>1
  <3>2. \A j \in Jobs, m \in 0 .. Minutes : fired'[j][m] = 0  BY <2>1 DEF NothingFired
  <3> QED  BY <2>7, <3>1, <3>2 DEF CronTicks
 <2> QED  BY <2>1, <2>2, <2>9 DEF C!OncePerMinute, C!OverIsQuiet, CronWaits
<1>4. CASE C!Tick  BY <1>4, TickKeeps
<1>5. CASE C!ObserveStop
 <2>1. C!TypeOK'  BY <1>5 DEF C!ObserveStop, C!TypeOK
 <2>2. C!OverIsQuiet'  BY <1>5 DEF C!ObserveStop, C!OverIsQuiet, CronWaits, NothingFired
 <2> QED  BY <1>5, <2>1, <2>2 DEF C!ObserveStop, C!OncePerMinute, CronWaits, CronTicks
<1>6. CASE C!Drained
 <2>1. C!TypeOK'  BY <1>6 DEF C!Drained, C!TypeOK, C!ObserveStop
 <2> QED  BY <1>6, <2>1 DEF C!Drained, C!OncePerMinute, CronWaits, CronTicks, C!OverIsQuiet
<1>7. CASE C!HandlerEnds
 <2>1. C!TypeOK' /\ C!OverIsQuiet' /\ flights # {}  BY <1>7 DEF C!HandlerEnds, C!TypeOK, C!OverIsQuiet
 <2> QED  BY <1>7, <2>1 DEF C!HandlerEnds, C!OncePerMinute, CronWaits, CronTicks, NothingFired, OnCourse, Punctual
<1>8. CASE C!StopSignal
  BY <1>8 DEF C!StopSignal, C!TypeOK, C!OncePerMinute, CronWaits, CronTicks, NothingFired, OnCourse, Punctual, C!OverIsQuiet
<1>9. CASE C!Pass
 <2>1. /\ clock' = clock + 1 /\ clock < C!Horizon /\ cronPc # "new" /\ clock \in Nat /\ deadline \in Nat
       /\ cronPc \in {"waiting", "ticking"} => clock < deadline + MaxLate
       /\ UNCHANGED <<cronPc, deadline, cronStop, spec, fired, flights, began>>  BY <1>1, <1>9 DEF C!Pass, C!TypeOK
 <2>2. C!TypeOK'  BY <1>1, <2>1 DEF C!TypeOK
 <2>3. cronPc \in {"waiting", "ticking"} => clock' <= deadline' + MaxLate  BY <1>1, <2>1
 <2> QED
   BY <2>1, <2>2, <2>3 DEF C!OncePerMinute, CronWaits, CronTicks, NothingFired, OnCourse, Punctual, C!OverIsQuiet
<1>10. CASE UNCHANGED cronVars
  BY <1>10 DEF cronVars, C!TypeOK, C!OncePerMinute, CronWaits, CronTicks, NothingFired, OnCourse, Punctual, C!OverIsQuiet
<1> QED  BY <1>2, <1>3, <1>4, <1>5, <1>6, <1>7, <1>8, <1>9, <1>10 DEF C!Next

\* What the run checks of the cron server.
LEMMA CronInvGives == CronInv => C!TypeOK /\ C!EveryMinuteFires /\ C!OncePerMinute /\ C!OverIsQuiet
<1> SUFFICES ASSUME CronInv, NEW m \in 0 .. Minutes - 1, NEW j \in Jobs,
                    cronPc = "ticking", (began % Second) + 2 * MaxLate < Second,
                    C!Minute(began) < m, C!Minute(clock) > m, m \in spec[j]
             PROVE  fired[j][m] > 0  BY DEF CronInv, C!EveryMinuteFires
<1> DEFINE r == began % Second
<1>1. /\ HalfMinute \in Nat \ {0} /\ MaxLate \in Nat /\ Second \in Nat \ {0} /\ Second <= HalfMinute
      /\ clock \in Nat /\ began \in Nat /\ m \in Nat /\ m \in 0 .. Minutes /\ deadline \in Nat
      /\ clock <= deadline + MaxLate
 <2>1. C!Horizon \in Nat  BY HalfMinutes, BeginsOrder
 <2> QED  BY <2>1, HalfMinutes DEF CronInv, CronTicks, C!TypeOK
<1>2. PICK k \in Nat, phase \in Nat : OnCourse(k, phase)  BY DEF CronInv, CronTicks
<1>3. r \in Nat /\ phase <= r + MaxLate /\ r + 2 * MaxLate < Second
 <2>1. r \in Nat  BY <1>1
 <2> QED  BY <2>1, <1>2 DEF OnCourse
<1> HIDE DEF r
<1>4. began < Begins(m)  BY <1>1, MinuteShape
<1>5. Begins(m) + 2 * HalfMinute <= clock
 <2>1. C!Minute(clock) \in Nat /\ Begins(C!Minute(clock)) <= clock  BY <1>1, MinuteShape
 <2>2. Begins(m) \in Nat /\ Begins(C!Minute(clock)) \in Nat /\ Begins(m) + 2 * HalfMinute <= Begins(C!Minute(clock))
   BY <1>1, <2>1, BeginsOrder
 <2> QED  BY <1>1, <2>1, <2>2
<1>6. Begins(m) + phase < deadline
 <2>1. Begins(m) \in Nat  BY <1>1, BeginsOrder
 <2> QED  BY <1>1, <1>3, <1>5, <2>1
<1> QED  BY <1>1, <1>2, <1>4, <1>6 DEF OnCourse, Punctual

-----------------------------------------------------------------------------
(* The MQTT bridge: the matching loop.                                     *)

\* A filter and a topic are sequences of levels, at least one.
LEMMA LevelsShape ==
  ASSUME NEW f \in Filters \cup Topics
  PROVE  /\ Len(f) \in Nat \ {0} /\ DOMAIN f = 1 .. Len(f) /\ Head(f) = f[1]
         /\ f \in Filters => \A k \in 1 .. Len(f) - 1 : f[k] # "#"
<1> DEFINE Levels == {f[k] : k \in DOMAIN f}
<1>1. f # <<>> /\ f \in Seq(Levels)  BY MqttAssumption
<1> HIDE DEF Levels
<1>2. Len(f) \in Nat /\ DOMAIN f = 1 .. Len(f) /\ Len(f) # 0 /\ Head(f) = f[1]  BY <1>1
<1>3. f \in Filters => \A k \in 1 .. Len(f) - 1 : f[k] # "#"  BY MqttAssumption
<1> QED  BY <1>2, <1>3

\* topic_matches, from one level on: what is left to match, and past the topic's
\* end only a "#" where the loop stands.
LevelsMatch(f, t, k) ==
  LET n == Len(f)
      open == f[n] = "#"
      fixed == IF open THEN n - 1 ELSE n
  IN  IF k > n THEN Len(t) = n
      ELSE IF k > Len(t) + 1 THEN f[k] = "#"
      ELSE /\ IF open THEN Len(t) >= fixed ELSE Len(t) = fixed
           /\ \A i \in k .. fixed : f[i] = "+" \/ f[i] = t[i]

\* One turn of the loop decides as the levels from there on do.
LEMMA LevelStep ==
  ASSUME NEW f \in Filters, NEW t \in Topics, NEW k \in 1 .. Len(f) + 1
  PROVE  LevelsMatch(f, t, k) <=>
           IF k > Len(f) THEN Len(t) = Len(f)
           ELSE \/ f[k] = "#"
                \/ /\ k <= Len(t)
                   /\ f[k] = "+" \/ f[k] = t[k]
                   /\ LevelsMatch(f, t, k + 1)
<1> DEFINE n == Len(f)
           open == f[n] = "#"
           fixed == IF open THEN n - 1 ELSE n
           Rest(i) == \A j \in i .. fixed : f[j] = "+" \/ f[j] = t[j]
           Long == IF open THEN Len(t) >= fixed ELSE Len(t) = fixed
<1>1. /\ n \in Nat \ {0} /\ Len(t) \in Nat \ {0} /\ fixed \in Nat
      /\ \A j \in 1 .. n - 1 : f[j] # "#"  BY LevelsShape
<1>2. ASSUME NEW i \in Nat
      PROVE  LevelsMatch(f, t, i) <=>
               IF i > n THEN Len(t) = n
               ELSE IF i > Len(t) + 1 THEN f[i] = "#" ELSE Long /\ Rest(i)  BY DEF LevelsMatch
<1>3. k \in Nat /\ k + 1 \in Nat /\ k >= 1 /\ k <= n + 1  BY <1>1
<1>4. k <= fixed => (Rest(k) <=> (f[k] = "+" \/ f[k] = t[k]) /\ Rest(k + 1))
 <2>1. k <= fixed => k .. fixed = {k} \cup (k + 1 .. fixed)  BY <1>1, <1>3
 <2> QED  BY <2>1
<1>5. k > fixed => Rest(k)  BY <1>1, <1>3
<1>6. /\ open => fixed = n - 1 /\ (Long <=> Len(t) >= n - 1)
      /\ ~open => fixed = n /\ (Long <=> Len(t) = n)
      /\ k = n => (open <=> f[k] = "#")
      /\ k < n => f[k] # "#"  BY <1>1, <1>3
<1> HIDE DEF n, open, fixed, Rest, Long
<1>7. CASE k > n  BY <1>1, <1>2, <1>3, <1>5, <1>6, <1>7 DEF n
<1>8. CASE k <= n /\ f[k] = "#"
 <2>1. k = n /\ open  BY <1>1, <1>3, <1>6, <1>8
 <2> QED  BY <1>1, <1>2, <1>3, <1>5, <1>6, <1>8, <2>1 DEF n
<1>9. CASE k <= n /\ f[k] # "#"
 <2>1. k <= fixed  BY <1>1, <1>3, <1>6, <1>9
 <2>2. CASE k > Len(t)
  <3>1. ~Long \/ k > Len(t) + 1  BY <1>1, <1>3, <1>6, <2>1, <2>2
  <3> QED  BY <1>1, <1>2, <1>3, <1>9, <2>2, <3>1 DEF n
 <2>3. CASE k <= Len(t)
  <3>1. LevelsMatch(f, t, k) <=> Long /\ Rest(k)  BY <1>1, <1>2, <1>3, <1>9, <2>3
  <3>2. LevelsMatch(f, t, k + 1) <=> Long /\ Rest(k + 1)
   <4>1. k = n => Rest(k + 1) /\ (Long <=> Len(t) = n)  BY <1>1, <1>3, <1>6, <1>9 DEF Rest
   <4> QED  BY <1>1, <1>2, <1>3, <1>9, <2>3, <4>1
  <3> QED  BY <1>1, <1>3, <1>4, <1>9, <2>1, <2>3, <3>1, <3>2 DEF n
 <2> QED  BY <1>1, <1>3, <2>2, <2>3
<1> QED  BY <1>1, <1>3, <1>7, <1>8, <1>9

\* The loop, by induction from its last level back to the first.
LEMMA LoopDecides ==
  ASSUME NEW f \in Filters, NEW t \in Topics
  PROVE  B!MatchFrom(f, t) <=> LevelsMatch(f, t, 1)
<1> DEFINE n == Len(f)
           Turn(g, k) == IF k > n THEN Len(t) = n
                         ELSE \/ f[k] = "#"
                              \/ /\ k <= Len(t)
                                 /\ f[k] = "+" \/ f[k] = t[k]
                                 /\ g[k + 1]
           m[k \in 1 .. n + 1] == IF k > n THEN Len(t) = n
                                  ELSE \/ f[k] = "#"
                                       \/ /\ k <= Len(t)
                                          /\ f[k] = "+" \/ f[k] = t[k]
                                          /\ m[k + 1]
           levels == [k \in 1 .. n + 1 |-> LevelsMatch(f, t, k)]
<1>1. n \in Nat \ {0}  BY LevelsShape
<1>2. levels = [k \in 1 .. n + 1 |-> Turn(levels, k)]
 <2>1. ASSUME NEW k \in 1 .. n + 1 PROVE LevelsMatch(f, t, k) = Turn(levels, k)
  <3>1. LevelsMatch(f, t, k) <=> Turn(levels, k)
   <4>1. CASE k > n  BY <4>1, LevelStep
   <4>2. CASE k <= n
    <5>1. k + 1 \in 1 .. n + 1  BY <1>1, <4>2
    <5>2. levels[k + 1] = LevelsMatch(f, t, k + 1)  BY <5>1
    <5> HIDE DEF levels
    <5> QED  BY <4>2, <5>2, <1>1, LevelStep
   <4> QED  BY <1>1, <4>1, <4>2
  <3> QED  BY <3>1 DEF LevelsMatch
 <2> QED  BY <2>1
<1>3. m = [k \in 1 .. n + 1 |-> Turn(m, k)]  BY <1>2
<1>4. B!MatchFrom(f, t) = m[1]  BY DEF B!MatchFrom
<1> HIDE DEF m, levels
<1>5. ASSUME NEW k \in 1 .. n + 1 PROVE m[k] <=> Turn(m, k)  BY <1>3
<1> DEFINE T == {i \in Nat : i <= n => (m[n + 1 - i] <=> LevelsMatch(f, t, n + 1 - i))}
<1>6. 0 \in T
 <2>1. m[n + 1] <=> LevelsMatch(f, t, n + 1)
  <3>1. PICK k \in 1 .. n + 1 : k = n + 1 /\ k > n  BY <1>1
  <3>2. m[k] <=> Len(t) = n  BY <1>5, <3>1
  <3>3. LevelsMatch(f, t, k) <=> Len(t) = n  BY <3>1, LevelStep
  <3> QED  BY <3>1, <3>2, <3>3
 <2> QED  BY <1>1, <2>1
<1>7. ASSUME NEW i \in Nat, i \in T PROVE i + 1 \in T
 <2> SUFFICES ASSUME i + 1 <= n PROVE m[n + 1 - (i + 1)] <=> LevelsMatch(f, t, n + 1 - (i + 1))  OBVIOUS
 <2>1. PICK k \in 1 .. n : k = n + 1 - (i + 1) /\ k + 1 = n + 1 - i  BY <1>1
 <2>2. m[k + 1] <=> LevelsMatch(f, t, k + 1)  BY <1>7, <2>1, <1>1
 <2>3. k <= n /\ k \in 1 .. n + 1  BY <1>1, <2>1
 <2>4. m[k] <=> Turn(m, k)  BY <1>5, <2>3
 <2> QED  BY <2>1, <2>2, <2>3, <2>4, <1>1, LevelStep
<1>8. Nat \subseteq T
 <2> HIDE DEF T
 <2> QED  BY <1>6, <1>7, Induct
<1>9. m[1] <=> LevelsMatch(f, t, 1)  BY <1>1, <1>8
<1> QED  BY <1>4, <1>9

\* The matching loop decides as the standard does, for every well-formed filter
\* (topic_matches).
LEMMA MatchesStandard == B!MatchesAsStandard
<1> SUFFICES ASSUME NEW f \in Filters, NEW t \in Topics
             PROVE  B!TopicMatches(f, t) = B!StandardMatch(f, t)  BY DEF B!MatchesAsStandard
<1>1. Len(f) \in Nat \ {0} /\ Len(t) \in Nat \ {0} /\ Head(f) = f[1] /\ Head(t) = t[1]  BY LevelsShape
<1>2. LevelsMatch(f, t, 1) <=>
        /\ IF f[Len(f)] = "#" THEN Len(t) >= Len(f) - 1 ELSE Len(t) = Len(f)
        /\ \A i \in 1 .. (IF f[Len(f)] = "#" THEN Len(f) - 1 ELSE Len(f)) : f[i] = "+" \/ f[i] = t[i]
  BY <1>1 DEF LevelsMatch
<1>3. B!TopicMatches(f, t) <=> ~(B!Hidden(t) /\ f[1] \in B!Wild) /\ LevelsMatch(f, t, 1)
  BY <1>1, LoopDecides DEF B!TopicMatches
<1>4. B!StandardMatch(f, t) <=> ~(B!Hidden(t) /\ f[1] \in B!Wild) /\ LevelsMatch(f, t, 1)
  BY <1>1, <1>2 DEF B!StandardMatch
<1>5. B!TopicMatches(f, t) <=> B!StandardMatch(f, t)  BY <1>3, <1>4
<1> QED  BY <1>5 DEF B!TopicMatches, B!StandardMatch

-----------------------------------------------------------------------------
(* The MQTT bridge: the dispatch.                                          *)

\* What the bridge has been delivered belongs to a subscription.
Belongs(t) == \E i \in DOMAIN subs : B!StandardMatch(subs[i].filter, t)

\* Deliveries that wait belong to a subscription; the one in hand is with its own.
MqttInv ==
  /\ subs \in Seq([filter : Filters, bound : BOOLEAN])
  /\ queued \in Nat /\ sent \in Nat
  /\ inbox \in Seq(Topics)
  /\ B!TypeOK
  /\ \A i \in DOMAIN inbox : Belongs(inbox[i])
  /\ B!HandledByItsOwn

\* A bridge that has not started, or is over, has been delivered nothing.
LEMMA MqttStart == B!Init \/ B!Idle => MqttInv
<1>1. Channel \in Nat /\ Base \in Nat /\ Cap \in Nat /\ Base <= Cap  BY MqttAssumption
<1>2. CASE B!Init
 <2>1. PICK f \in Filters, g \in Filters, n \in 1 .. 2, b \in BOOLEAN, c \in BOOLEAN :
            subs = SubSeq(<<[filter |-> f, bound |-> b], [filter |-> g, bound |-> c]>>, 1, n)  BY <1>2 DEF B!Init
 <2>2. subs \in Seq([filter : Filters, bound : BOOLEAN])
  <3>1. <<[filter |-> f, bound |-> b], [filter |-> g, bound |-> c]>> \in Seq([filter : Filters, bound : BOOLEAN])
    OBVIOUS
  <3> QED  BY <2>1, <3>1
 <2>3. \A i \in DOMAIN subs : subs[i].filter \in Filters /\ subs[i].bound \in BOOLEAN
  <3>1. \A i \in DOMAIN subs : subs[i] \in [filter : Filters, bound : BOOLEAN]
   <4> DEFINE S == [filter : Filters, bound : BOOLEAN]
   <4>1. subs \in Seq(S)  BY <2>2
   <4> HIDE DEF S
   <4>2. \A i \in DOMAIN subs : subs[i] \in S  BY <4>1
   <4> QED  BY <4>2 DEF S
  <3>2. ASSUME NEW r \in [filter : Filters, bound : BOOLEAN] PROVE r.filter \in Filters /\ r.bound \in BOOLEAN
    OBVIOUS
  <3> QED  BY <3>1, <3>2
 <2>4. Len(subs) \in Nat  BY <2>2
 <2>5. /\ mqttPc = "subscribing" /\ queued = 0 /\ sent = 0 /\ link = "down"
       /\ connected = FALSE /\ backoff = Base /\ mqttStop = FALSE
       /\ inbox = <<>> /\ handled = B!Nobody  BY <1>2 DEF B!Init
 <2>6. B!TypeOK
  <3>1. /\ sent <= queued /\ queued <= Len(subs) /\ queued - sent <= Channel
        /\ backoff \in Base .. Cap  BY <1>1, <2>4, <2>5
  <3> QED  BY <2>3, <2>5, <3>1, Zenon DEF B!TypeOK
 <2>7. inbox \in Seq(Topics) /\ DOMAIN inbox = {}  BY <2>5
 <2>8. B!HandledByItsOwn  BY <2>5 DEF B!HandledByItsOwn
 <2> QED  BY <2>2, <2>5, <2>6, <2>7, <2>8 DEF MqttInv
<1>3. CASE B!Idle
 <2>1. /\ subs = <<>> /\ mqttPc = "over" /\ queued = 0 /\ sent = 0 /\ link = "down"
       /\ connected = FALSE /\ backoff = Base /\ mqttStop = TRUE
       /\ inbox = <<>> /\ handled = B!Nobody  BY <1>3 DEF B!Idle
 <2>2. B!TypeOK
  <3>1. /\ sent <= queued /\ queued <= Len(subs) /\ queued - sent <= Channel
        /\ backoff \in Base .. Cap  BY <1>1, <2>1
  <3>2. DOMAIN subs = {}  BY <2>1
  <3> QED  BY <2>1, <3>1, <3>2, Zenon DEF B!TypeOK
 <2>3. inbox \in Seq(Topics) /\ DOMAIN inbox = {} /\ subs \in Seq([filter : Filters, bound : BOOLEAN])  BY <2>1
 <2>4. B!HandledByItsOwn  BY <2>1 DEF B!HandledByItsOwn
 <2> QED  BY <2>1, <2>2, <2>3, <2>4 DEF MqttInv
<1> QED  BY <1>2, <1>3

\* The dispatch picks the first subscription the topic matches.
LEMMA DispatchesToFirst ==
  ASSUME NEW t \in Topics, MqttInv, Belongs(t)
  PROVE  \E i \in DOMAIN subs :
           /\ B!StandardMatch(subs[i].filter, t)
           /\ \A k \in DOMAIN subs : B!StandardMatch(subs[k].filter, t) => i <= k
           /\ B!Handler(t) = IF subs[i].bound THEN i ELSE B!DefaultHandler
<1> DEFINE P(i) == B!TopicMatches(subs[i].filter, t)
           First(i) == P(i) /\ \A k \in 1 .. i - 1 : ~P(k)
           mine == {i \in DOMAIN subs : P(i)}
<1>1. DOMAIN subs = 1 .. Len(subs) /\ Len(subs) \in Nat  BY DEF MqttInv
<1>2. \A i \in DOMAIN subs : P(i) <=> B!StandardMatch(subs[i].filter, t)
 <2>1. ASSUME NEW i \in DOMAIN subs PROVE P(i) <=> B!StandardMatch(subs[i].filter, t)
  <3>1. subs[i].filter \in Filters  BY DEF MqttInv, B!TypeOK
  <3> QED  BY <3>1, MatchesStandard DEF B!MatchesAsStandard
 <2> QED  BY <2>1
<1>3. B!Handler(t) = IF \E i \in DOMAIN subs : P(i)
                     THEN LET i == CHOOSE i \in DOMAIN subs : First(i)
                          IN  IF subs[i].bound THEN i ELSE B!DefaultHandler
                     ELSE B!DefaultHandler  BY DEF B!Handler
<1> HIDE DEF P
<1>4. mine \subseteq Nat /\ mine # {}  BY <1>1, <1>2 DEF Belongs
<1>5. PICK x \in mine : \A y \in mine : x <= y
 <2> HIDE DEF mine
 <2> QED  BY <1>4, LeastElement
<1>6. x \in DOMAIN subs /\ First(x)  BY <1>1, <1>5
<1>7. \A i \in DOMAIN subs : First(i) => i = x  BY <1>1, <1>5
<1> HIDE DEF First
<1>8. (CHOOSE i \in DOMAIN subs : First(i)) = x  BY <1>6, <1>7
<1>9. P(x) /\ \E i \in DOMAIN subs : P(i)  BY <1>5
<1>10. B!Handler(t) = IF subs[x].bound THEN x ELSE B!DefaultHandler  BY <1>3, <1>8, <1>9
<1>11. /\ B!StandardMatch(subs[x].filter, t)
       /\ \A k \in DOMAIN subs : B!StandardMatch(subs[k].filter, t) => x <= k  BY <1>2, <1>5
<1> QED  BY <1>6, <1>10, <1>11

\* Every step of the bridge keeps its invariant.
LEMMA MqttStep == MqttInv /\ [B!Next]_mqttVars => MqttInv'
<1> SUFFICES ASSUME MqttInv, [B!Next]_mqttVars PROVE MqttInv'  OBVIOUS
<1>1. /\ subs \in Seq([filter : Filters, bound : BOOLEAN]) /\ Len(subs) \in Nat
      /\ queued \in Nat /\ sent \in Nat /\ sent <= queued /\ queued <= Len(subs)
      /\ inbox \in Seq(Topics) /\ DOMAIN subs = 1 .. Len(subs)
      /\ Channel \in Nat /\ Base \in Nat /\ Cap \in Nat /\ Base <= Cap
      /\ backoff \in Base .. Cap  BY MqttAssumption DEF MqttInv, B!TypeOK
<1>2. CASE B!Subscribe
 <2>1. B!TypeOK'  BY <1>1, <1>2 DEF MqttInv, B!TypeOK, B!Subscribe
 <2> QED  BY <1>1, <1>2, <2>1 DEF MqttInv, B!Subscribe, B!HandledByItsOwn, Belongs
<1>3. CASE B!ConnAck
 <2>1. B!TypeOK'  BY <1>1, <1>3 DEF MqttInv, B!TypeOK, B!ConnAck
 <2> QED  BY <1>1, <1>3, <2>1 DEF MqttInv, B!ConnAck, B!HandledByItsOwn, Belongs
<1>4. CASE B!SendRequest
 <2>1. B!TypeOK'  BY <1>1, <1>4 DEF MqttInv, B!TypeOK, B!SendRequest
 <2> QED  BY <1>1, <1>4, <2>1 DEF MqttInv, B!SendRequest, B!HandledByItsOwn, Belongs
<1>5. CASE B!PollFails
 <2>1. B!TypeOK'  BY <1>1, <1>5 DEF MqttInv, B!TypeOK, B!PollFails
 <2> QED  BY <1>1, <1>5, <2>1 DEF MqttInv, B!PollFails, B!HandledByItsOwn, Belongs
<1>6. CASE B!BackoffOver
 <2>1. B!TypeOK'  BY <1>1, <1>6 DEF MqttInv, B!TypeOK, B!BackoffOver
 <2> QED  BY <1>1, <1>6, <2>1 DEF MqttInv, B!BackoffOver, B!HandledByItsOwn, Belongs
<1>7. CASE B!Publish
 <2>1. PICK t \in Topics : /\ \E i \in 1 .. sent : B!StandardMatch(subs[i].filter, t)
                           /\ inbox' = Append(inbox, t)  BY <1>7 DEF B!Publish
 <2>2. UNCHANGED <<subs, mqttPc, queued, sent, link, connected, backoff, mqttStop, handled>>  BY <1>7 DEF B!Publish
 <2>3. inbox' \in Seq(Topics)  BY <1>1, <2>1
 <2>4. Belongs(t)  BY <1>1, <2>1 DEF Belongs
 <2>5. ASSUME NEW i \in DOMAIN inbox' PROVE \E k \in DOMAIN subs' : B!StandardMatch(subs'[k].filter, inbox'[i])
  <3>1. inbox'[i] = t \/ (i \in DOMAIN inbox /\ inbox'[i] = inbox[i])  BY <1>1, <2>1, <2>5
  <3>2. Belongs(inbox'[i])  BY <2>4, <3>1 DEF MqttInv
  <3> QED  BY <2>2, <3>2 DEF Belongs
 <2>6. B!TypeOK' /\ B!HandledByItsOwn'  BY <2>2, ZenonT(30) DEF MqttInv, B!TypeOK, B!HandledByItsOwn
 <2> QED  BY <1>1, <2>2, <2>3, <2>5, <2>6 DEF MqttInv, Belongs
<1>8. CASE B!Deliver
 <2>1. PICK t \in Topics : t = Head(inbox) /\ Belongs(t)
  <3>1. inbox # <<>> /\ 1 \in DOMAIN inbox  BY <1>1, <1>8 DEF B!Deliver
  <3>2. Head(inbox) = inbox[1] /\ inbox[1] \in Topics  BY <1>1, <3>1
  <3> QED  BY <3>1, <3>2 DEF MqttInv
 <2>2. /\ UNCHANGED <<subs, queued, sent, link, connected, backoff, mqttStop>>
       /\ mqttPc' = "handling" /\ mqttPc = "polling" /\ inbox' = Tail(inbox) /\ inbox # <<>>
       /\ handled' = [by |-> B!Handler(t), topic |-> t]  BY <1>8, <2>1 DEF B!Deliver
 <2>3. handled' # B!Nobody /\ handled'.topic = t /\ handled'.by = B!Handler(t)
  <3>1. t # <<>>  BY MqttAssumption
  <3> QED  BY <2>2, <3>1 DEF B!Nobody
 <2>4. B!TypeOK'  BY <2>2, <2>3 DEF MqttInv, B!TypeOK, B!Nobody
 <2>5. inbox' \in Seq(Topics)  BY <1>1, <2>2
 <2>6. ASSUME NEW i \in DOMAIN inbox' PROVE \E k \in DOMAIN subs' : B!StandardMatch(subs'[k].filter, inbox'[i])
  <3>1. i + 1 \in DOMAIN inbox /\ inbox'[i] = inbox[i + 1]  BY <1>1, <2>2, <2>6
  <3>2. Belongs(inbox'[i])  BY <3>1 DEF MqttInv
  <3> QED  BY <2>2, <3>2 DEF Belongs
 <2>7. PICK x \in DOMAIN subs :
          /\ B!StandardMatch(subs[x].filter, t)
          /\ \A k \in DOMAIN subs : B!StandardMatch(subs[k].filter, t) => x <= k
          /\ B!Handler(t) = IF subs[x].bound THEN x ELSE B!DefaultHandler  BY <2>1, DispatchesToFirst
 <2>8. B!HandledByItsOwn'  BY <2>2, <2>3, <2>7 DEF B!HandledByItsOwn
 <2> QED  BY <1>1, <2>2, <2>4, <2>5, <2>6, <2>8 DEF MqttInv, Belongs
<1>9. CASE B!HandlerReturns
 <2>1. B!TypeOK'  BY <1>1, <1>9 DEF MqttInv, B!TypeOK, B!HandlerReturns
 <2> QED  BY <1>1, <1>9, <2>1 DEF MqttInv, B!HandlerReturns, B!HandledByItsOwn, Belongs
<1>10. CASE B!StopSignal
 <2>1. B!TypeOK'  BY <1>1, <1>10 DEF MqttInv, B!TypeOK, B!StopSignal
 <2> QED  BY <1>1, <1>10, <2>1 DEF MqttInv, B!StopSignal, B!HandledByItsOwn, Belongs
<1>11. CASE B!ObserveStop
 <2>1. B!TypeOK'  BY <1>1, <1>11 DEF MqttInv, B!TypeOK, B!ObserveStop
 <2> QED  BY <1>1, <1>11, <2>1 DEF MqttInv, B!ObserveStop, B!HandledByItsOwn, Belongs
<1>12. CASE UNCHANGED mqttVars  BY <1>12 DEF MqttInv, B!TypeOK, B!HandledByItsOwn, Belongs, mqttVars
<1> QED  BY <1>2, <1>3, <1>4, <1>5, <1>6, <1>7, <1>8, <1>9, <1>10, <1>11, <1>12 DEF B!Next

-----------------------------------------------------------------------------
(* The cron server and the bridge, as parts of the background work.        *)

\* The cron server is one part of the background work; the others leave it alone.
LEMMA CronRunsAlone == WorkNext => [C!Next]_cronVars
BY DEF WorkNext

\* The bridge is one part of the background work; the others leave it alone.
LEMMA BridgeRunsAlone == WorkNext => [B!Next]_mqttVars
BY DEF WorkNext

\* Whatever the jobs, the filters and the topics, for timers less than half a
\* minute late: a cron atom allows what cron means by it, no job fires twice in a
\* minute or in one its spec does not match, every whole minute between two ticks
\* fires each of its jobs if the timers stay within the second, and no handler is
\* left when start has returned (parse_field and start); a delivery reaches the
\* handler of the first subscription it belongs to, and the matching loop
\* decides as the standard does (topic_matches and the dispatch).
THEOREM EverythingHandledOnce == WorkSpec => []HandledOnceByItsOwn
<1> DEFINE Inv == CronInv /\ MqttInv
<1>1. WorkInit => Inv  BY CronStart, MqttStart DEF WorkInit
<1>2. Inv /\ [WorkNext]_WorkVars => Inv'
 <2>1. UNCHANGED WorkVars => UNCHANGED cronVars /\ UNCHANGED mqttVars  BY DEF WorkVars
 <2> QED  BY <2>1, CronRunsAlone, BridgeRunsAlone, CronStep, MqttStep
<1>3. Inv => HandledOnceByItsOwn
 <2>1. CronInv => C!TypeOK /\ C!EveryMinuteFires /\ C!OncePerMinute /\ C!OverIsQuiet  BY CronInvGives
 <2>2. MqttInv => B!TypeOK /\ B!HandledByItsOwn  BY DEF MqttInv
 <2> QED  BY <2>1, <2>2, AtomsAreCron, MatchesStandard DEF HandledOnceByItsOwn
<1> HIDE DEF Inv
<1> QED  BY <1>1, <1>2, <1>3, PTL DEF WorkSpec
=============================================================================
