-------------------------------- MODULE Dtm --------------------------------
(***************************************************************************)
(* The initiator's side of a distributed transaction (crate                *)
(* rushwind-transaction-dtm) against a DTM server and the branches'        *)
(* services. One global transaction of one of the four patterns runs:      *)
(*                                                                         *)
(*   saga  one submit, the server runs the steps and compensates           *)
(*   tcc   prepare, per branch register and try, then submit or abort      *)
(*   xa    prepare, per branch a call, then submit or abort                *)
(*   msg   do_and_submit: prepare, business, then submit or abort; on an   *)
(*         error other than FAILURE, query_prepared decides                *)
(*                                                                         *)
(* Every exchange is a fresh HTTP call, which may be lost on the way, lost *)
(* on the way back, or refused. The server (external) gives up waiting for *)
(* the initiator: it aborts a prepared tcc or xa, and asks query_prepared  *)
(* about a prepared msg. The services (external) keep the barrier the      *)
(* crate leaves to them: a try after its cancel, and a business call after *)
(* a query that found nothing, are refused.                                *)
(***************************************************************************)
EXTENDS Naturals, FiniteSets

CONSTANTS
    MaxBranches,   \* branches the closure calls, steps of a saga
    BranchLimit,   \* BRANCH_LIMIT (99)
    MaxFaults      \* bound: calls lost, unanswered or refused for no reason

Patterns == {"saga", "tcc", "xa", "msg"}

VARIABLES
    pattern,    \* the pattern this transaction follows
    pc,         \* where the initiator is
    next,       \* BranchIdGen: sub-branch ids given so far
    busi,       \* the error of the closure or business call, "none" before
    answer,     \* what the initiator's caller was told, "none" before
    server,     \* the server's record of the transaction
    registered, \* branches the server will confirm or cancel
    effect,     \* branch -> what its service did
    faults

vars == <<pattern, pc, next, busi, answer, server, registered, effect, faults>>

Errors == {"Dtm", "Failure", "Ongoing", "Request", "TooManyBranches", "Own"}
Branches == 1 .. MaxBranches
\* Branch 0 stands for the business call of a msg.
Effects == [0 .. MaxBranches -> {"none", "done", "confirmed", "cancelled"}]

TypeOK ==
    /\ pattern \in Patterns
    /\ pc \in {"start", "closure", "call", "business", "query",
               "submit", "abort", "over", "gone"}
    /\ next \in 0 .. BranchLimit
    /\ busi \in Errors \cup {"none", "ok"}
    /\ answer \in Errors \cup {"none", "ok"}
    /\ server \in {"none", "prepared", "submitted", "aborting", "succeeded", "failed"}
    /\ registered \subseteq Branches /\ effect \in Effects
    /\ faults \in 0 .. MaxFaults
    /\ pc = "over" <=> answer # "none"

Init ==
    /\ pattern \in Patterns
    /\ pc = "start" /\ next = 0 /\ busi = "none" /\ answer = "none"
    /\ server = "none" /\ registered = {} /\ faults = 0
    /\ effect = [b \in 0 .. MaxBranches |-> "none"]

\* A saga its initiator never began.
Idle ==
    /\ pattern = "saga" /\ pc = "gone" /\ next = 0 /\ busi = "none"
    /\ answer = "none" /\ server = "none" /\ registered = {} /\ faults = 0
    /\ effect = [b \in 0 .. MaxBranches |-> "none"]

-----------------------------------------------------------------------------
(* Calls.                                                                  *)

\* The server's side of an operation: whether it takes it, and its new state.
Accepts(op) ==
    CASE op = "prepare" -> server = "none"
      [] op = "submit"  -> server \in {"none", "prepared", "submitted"}
      [] op = "abort"   -> server \in {"prepared", "aborting"}

After(op) == CASE op = "prepare" -> "prepared"
               [] op = "submit" -> "submitted"
               [] op = "abort" -> "aborting"

Lose == faults < MaxFaults /\ faults' = faults + 1

\* call_dtm: a failed exchange is Request, a status or body that reports a
\* failure is Dtm. A lost answer leaves the operation done and the caller told
\* it failed.
CallDtm(op, result) ==
    \/ Accepts(op) /\ server' = After(op) /\ result = "ok" /\ UNCHANGED faults
    \/ ~Accepts(op) /\ UNCHANGED server /\ result = "Dtm" /\ UNCHANGED faults
    \/ UNCHANGED server /\ result \in {"Request", "Dtm"} /\ Lose
    \/ Accepts(op) /\ server' = After(op) /\ result = "Request" /\ Lose

\* register_branch: the server refuses a branch of a transaction it has ended.
RegisterBranch(b, result) ==
    LET takes == server = "prepared"
    IN \/ takes /\ registered' = registered \cup {b} /\ result = "ok"
             /\ UNCHANGED faults
       \/ ~takes /\ UNCHANGED <<registered, faults>> /\ result = "Dtm"
       \/ UNCHANGED registered /\ result \in {"Request", "Dtm"} /\ Lose
       \/ takes /\ registered' = registered \cup {b} /\ result = "Request" /\ Lose

\* resp_to_dtm_error over what a service may answer: FAILURE says it did
\* nothing; ONGOING, another status or no answer at all may hide an effect.
RespToDtmError(did) ==
    IF did THEN {"ok", "Ongoing", "Dtm", "Request"}
    ELSE {"Failure", "Ongoing", "Dtm", "Request"}

\* request_branch: the service does its part, unless the barrier or the service
\* itself refuses.
RequestBranch(b, result) ==
    \E did \in BOOLEAN :
        /\ did => effect[b] = "none"
        /\ effect' = [effect EXCEPT ![b] = IF did THEN "done" ELSE @]
        /\ result \in RespToDtmError(did)
        /\ IF result \in {"Ongoing", "Dtm", "Request"} THEN Lose ELSE UNCHANGED faults

Tell(result) == pc' = "over" /\ answer' = result

-----------------------------------------------------------------------------
(* Global transactions: prepare, closure, submit or abort.                 *)

Prepare ==
    /\ pc = "start" /\ pattern \in {"tcc", "xa", "msg"}
    /\ \E r \in Errors \cup {"ok"} :
         /\ CallDtm("prepare", r)
         /\ IF r = "ok"
            THEN /\ pc' = IF pattern = "msg" THEN "business" ELSE "closure"
                 /\ UNCHANGED answer
            ELSE Tell(r)
    /\ UNCHANGED <<pattern, next, busi, registered, effect>>

\* The closure calls another branch: BranchIdGen, and for tcc the registration,
\* come before the service is asked.
NextBranch ==
    /\ pc = "closure" /\ next < MaxBranches
    /\ IF next >= BranchLimit
       THEN /\ busi' = "TooManyBranches" /\ pc' = "abort"
            /\ UNCHANGED <<next, registered, faults>>
       ELSE /\ next' = next + 1
            /\ IF pattern = "tcc"
               THEN \E r \in Errors \cup {"ok"} :
                      /\ RegisterBranch(next', r)
                      /\ busi' = IF r = "ok" THEN busi ELSE r
                      /\ pc' = IF r = "ok" THEN "call" ELSE "abort"
               ELSE /\ pc' = "call"
                    /\ UNCHANGED <<busi, registered, faults>>
    /\ UNCHANGED <<pattern, answer, server, effect>>

\* The branch itself. An xa service registers the branch with the server before
\* it does its local part (phase2_url tells it how), so a call the server no
\* longer takes is refused.
CallBranch ==
    /\ pc = "call"
    /\ \E r \in Errors \cup {"ok"} :
         /\ RequestBranch(next, r)
         /\ IF pattern = "xa" /\ effect'[next] # effect[next]
            THEN server = "prepared" /\ registered' = registered \cup {next}
            ELSE UNCHANGED registered
         /\ busi' = IF r = "ok" THEN busi ELSE r
         /\ pc' = IF r = "ok" THEN "closure" ELSE "abort"
    /\ UNCHANGED <<pattern, next, answer, server>>

\* The closure returns: Ok submits, its own error aborts.
ClosureEnds ==
    /\ pc = "closure"
    /\ \/ busi' = "ok" /\ pc' = "submit"
       \/ busi' = "Own" /\ pc' = "abort"
    /\ UNCHANGED <<pattern, next, answer, server, registered, effect, faults>>

\* The answer to the caller: the business error comes first, whatever the flow
\* did after it.
Verdict(flow) == IF busi \in {"none", "ok"} THEN flow ELSE busi

Submit ==
    /\ pc = "submit"
    /\ \E r \in Errors \cup {"ok"} : CallDtm("submit", r) /\ Tell(Verdict(r))
    /\ UNCHANGED <<pattern, next, busi, registered, effect>>

\* The abort's own outcome is dropped; the business error is what is told.
Abort ==
    /\ pc = "abort"
    /\ \E r \in Errors \cup {"ok"} : CallDtm("abort", r)
    /\ Tell(busi)
    /\ UNCHANGED <<pattern, next, busi, registered, effect>>

-----------------------------------------------------------------------------
(* The message and the saga.                                               *)

\* Mutant: every business error aborts.
BusinessAborts ==
    /\ pc = "business"
    /\ \E r \in Errors \cup {"ok"} :
         /\ RequestBranch(0, r)
         /\ busi' = r
         /\ pc' = IF r = "ok" THEN "submit" ELSE "abort"
    /\ UNCHANGED <<pattern, next, answer, server, registered>>

Business ==
    /\ pc = "business"
    /\ \E r \in Errors \cup {"ok"} :
         /\ RequestBranch(0, r)
         /\ busi' = r
         /\ pc' = CASE r = "ok" -> "submit"
                    [] r = "Failure" -> "abort"
                    [] OTHER -> "query"
    /\ UNCHANGED <<pattern, next, answer, server, registered>>

\* query_prepared_outcome: the service looks for the business call's effect and,
\* finding none, bars a late one.
QueryAnswer(r) ==
    \/ effect[0] = "done" /\ r = "ok" /\ UNCHANGED <<effect, faults>>
    \/ effect[0] # "done" /\ r = "Failure" /\ UNCHANGED faults
         /\ effect' = [effect EXCEPT ![0] = "cancelled"]
    \/ r \in {"Ongoing", "Dtm", "Request"} /\ Lose /\ UNCHANGED effect

QueryPrepared ==
    /\ pc = "query"
    /\ \E r \in Errors \cup {"ok"} :
         /\ QueryAnswer(r)
         /\ CASE r = "ok" -> pc' = "submit" /\ UNCHANGED answer
              [] r = "Failure" -> pc' = "abort" /\ UNCHANGED answer
              [] OTHER -> Tell(busi)
    /\ UNCHANGED <<pattern, next, busi, server, registered>>

\* Saga::submit: the steps travel with the one call.
SubmitSaga ==
    /\ pc = "start" /\ pattern = "saga"
    /\ \E r \in Errors \cup {"ok"} : CallDtm("submit", r) /\ Tell(r)
    /\ registered' = IF server' = "submitted" THEN Branches ELSE registered
    /\ UNCHANGED <<pattern, next, busi, effect>>

\* The initiator's process ends.
Crash ==
    /\ pc \notin {"over", "gone"}
    /\ pc' = "gone"
    /\ UNCHANGED <<pattern, next, busi, answer, server, registered, effect, faults>>

-----------------------------------------------------------------------------
(* The server and the services, as the initiator counts on them.           *)

\* The initiator was silent for too long.
ServerTimeout ==
    /\ server = "prepared"
    /\ \/ pattern \in {"tcc", "xa"} /\ server' = "aborting" /\ UNCHANGED effect
       \/ /\ pattern = "msg"
          /\ \/ effect[0] = "done" /\ server' = "submitted" /\ UNCHANGED effect
             \/ effect[0] # "done" /\ server' = "aborting"
                  /\ effect' = [effect EXCEPT ![0] = "cancelled"]
    /\ UNCHANGED <<pattern, pc, next, busi, answer, registered, faults>>

\* Phase two, one branch at a time; a cancel before the try bars the try.
ServerBranch ==
    /\ \E b \in registered :
         /\ effect[b] \in {"none", "done"}
         /\ \/ server = "submitted"
                 /\ effect' = [effect EXCEPT ![b] = "confirmed"] /\ UNCHANGED server
            \/ server = "aborting" /\ UNCHANGED server
                 /\ effect' = [effect EXCEPT ![b] = "cancelled"]
    /\ UNCHANGED <<pattern, pc, next, busi, answer, registered, faults>>

\* A saga's step fails: the server compensates every step.
ServerStepFails ==
    /\ pattern = "saga" /\ server = "submitted"
    /\ \E b \in registered : effect[b] = "none"
    /\ server' = "aborting"
    /\ effect' = [b \in 0 .. MaxBranches |->
                    IF effect[b] = "confirmed" THEN "done" ELSE effect[b]]
    /\ UNCHANGED <<pattern, pc, next, busi, answer, registered, faults>>

ServerEnds ==
    /\ \A b \in registered : effect[b] \in {"confirmed", "cancelled"}
    /\ \/ server = "submitted" /\ server' = "succeeded"
       \/ server = "aborting" /\ server' = "failed"
    /\ UNCHANGED <<pattern, pc, next, busi, answer, registered, effect, faults>>

Next == \/ Prepare \/ NextBranch \/ CallBranch \/ ClosureEnds \/ Submit \/ Abort
        \/ Business \/ QueryPrepared \/ SubmitSaga \/ Crash
        \/ ServerTimeout \/ ServerBranch \/ ServerStepFails \/ ServerEnds

Spec == Init /\ [][Next]_vars

-----------------------------------------------------------------------------
\* All or nothing: what an initiator that was lost, refused or timed out half
\* way leaves behind is either confirmed as a whole or undone as a whole; no
\* service keeps a try the server does not know of.
AllOrNothing ==
    /\ server = "succeeded" => \A b \in Branches : effect[b] \in {"none", "confirmed"}
    /\ (server = "failed" /\ pc \in {"over", "gone"})
           => \A b \in Branches : effect[b] \in {"none", "cancelled"}

\* A message goes out exactly when its business call took effect, whoever of
\* initiator and server decides, and whatever the initiator's caller was told.
MessageFollowsBusiness ==
    pattern = "msg" =>
        /\ server \in {"submitted", "succeeded"} => effect[0] = "done"
        /\ server \in {"aborting", "failed"} => effect[0] # "done"

\* A caller told Ok has its transaction: the server confirms it. A caller told
\* the closure's error has it undone, if it was a tcc or xa.
ToldAsDone ==
    /\ (answer = "ok" /\ pattern # "saga") => server \in {"submitted", "succeeded"}
    /\ (answer # "none" /\ pattern \in {"tcc", "xa"} /\ busi \notin {"none", "ok"})
           => server \in {"prepared", "aborting", "failed"}
=============================================================================
