------------------------------ MODULE AnalysisRun ------------------------------
(***************************************************************************)
(* Analysis runs: the rows of analysis_run, analysis_stage and             *)
(* analysis_attempt, and the AnalysisRunner processes that work on them.   *)
(*                                                                         *)
(* A run first acquires its data sections one by one, binds them as its    *)
(* inputs, and then asks the model for five roles in three waves; the      *)
(* roles of a wave run as coroutines side by side.  A role that fails is   *)
(* retried by a child run, which reuses what its parent had.  The task     *)
(* that carries a run may be claimed again when its lease lapses (the      *)
(* worker died, or lives on and does not know) or be put back in the queue *)
(* after a desktop shutdown; the rows then hold all that survives.         *)
(*                                                                         *)
(* Each action is one transaction, or a local step of a runner.  The runner *)
(* looks for a cancellation just before it starts an attempt; the look and *)
(* the start are one action, since a request that falls between the two    *)
(* sets only its flag and could as well have come after both.              *)
(***************************************************************************)
EXTENDS Naturals, Sequences, FiniteSets

CONSTANTS
    KindOrder,      \* the data sections, in the order they are acquired
    Critical,       \* the sections without which no role is asked
    MaxAttempts,    \* retry_policy.max_attempts
    MaxRuns,        \* bound: the first run and its retries
    MaxClaims,      \* bound: claims of a task
    MaxFaults,      \* bound: lapses, shutdowns, failures and cancellations, over all runs
    HandlersBreak   \* a handler may end with an exception of its own

Kinds == {KindOrder[i] : i \in DOMAIN KindOrder}

ASSUME SectionsAssumption == KindOrder \in Seq(STRING) /\ Critical \subseteq Kinds
ASSUME PolicyAssumption == MaxAttempts \in Nat \ {0}
ASSUME BoundsAssumption ==
    /\ {MaxRuns, MaxClaims, MaxFaults} \subseteq Nat
    /\ HandlersBreak \in BOOLEAN

VARIABLES
    status,     \* analysis_run.status; "absent" when there is no row
    parent,     \* analysis_run.parent_run_id; 0 is NULL
    inputs,     \* analysis_run.snapshot_id and evidence graph: "none" is NULL
    stage,      \* analysis_stage.status
    source,     \* analysis_stage.source_run_id; 0 is NULL
    attempts,   \* the statuses of the analysis_attempt rows, by attempt_no
    report,     \* analysis_report: the roles it shows; NoReport
    task,       \* task_run.status; "lapsed" is running with its lease run out,
                \* "failed" ended by run_once without its run
    claim,      \* task_run.attempt_count, which also names the claim token
    cancel,     \* task_run.cancel_requested
    pc,         \* where the runner of a claim is
    wave,       \* the wave it is in, 0 before the first
    co,         \* its coroutine for each role
    calls,      \* requests sent to the model, ever
    faults      \* lapses, shutdowns, failures and cancellations so far

runRows   == <<status, parent, inputs, report>>
stageRows == <<stage, source, attempts>>
taskRow   == <<task, claim, cancel>>
runner    == <<pc, wave, co>>
vars == <<runRows, stageRows, taskRow, runner, calls, faults>>

Runs   == 1..MaxRuns
Claims == 1..MaxClaims

RoleOrder == <<"technical", "fundamental_news", "bull", "bear", "risk_decision">>
Roles  == {RoleOrder[i] : i \in DOMAIN RoleOrder}
Stages == Kinds \cup Roles

ASSUME SectionsAreNotRoles == Kinds \cap Roles = {}

Deps == [x \in Roles |->
    CASE x \in {"technical", "fundamental_news"} -> {}
      [] x \in {"bull", "bear"} -> {"technical", "fundamental_news"}
      [] x = "risk_decision" -> {"bull", "bear"}]

Waves == <<{"technical", "fundamental_news"}, {"bull", "bear"}, {"risk_decision"}>>

(* A failed role takes with it every role built on it. *)
RetryClosure == [x \in Roles |->
    CASE x \in {"technical", "fundamental_news"} -> {x, "bull", "bear", "risk_decision"}
      [] x \in {"bull", "bear"} -> {x, "risk_decision"}
      [] x = "risk_decision" -> {x}]

NoReport == {"none"}
Open     == {"pending", "running"}
Usable   == {"succeeded", "reused"}
RunEnded == {"succeeded", "partial", "insufficient_evidence", "failed", "cancelled"}

StageStatuses   == Open \cup Usable \cup {"failed", "blocked", "cancelled"}
AttemptStatuses == {"running", "succeeded", "failed", "interrupted", "cancelled"}
Places == {"none", "begin", "data", "fetching", "blocking", "wave", "checkpoint",
           "report", "failing", "gone"}
Coroutines == {"idle", "ready", "unprepared", "calling", "backoff", "done", "closed", "raised"}

(* The rows hold what their columns and check constraints allow, and a     *)
(* runner is at one of its awaits or transactions.                         *)
TypeOK ==
    /\ status \in [Runs -> {"absent", "queued", "running"} \cup RunEnded]
    /\ parent \in [Runs -> {0} \cup Runs]
    /\ inputs \in [Runs -> {"none", "eligible", "insufficient"}]
    /\ stage \in [Runs -> [Stages -> StageStatuses]]
    /\ source \in [Runs -> [Stages -> {0} \cup Runs]]
    /\ attempts \in [Runs -> [Stages -> Seq(AttemptStatuses)]]
    /\ report \in [Runs -> {NoReport} \cup SUBSET Roles]
    /\ task \in [Runs -> {"absent", "queued", "running", "lapsed", "ended", "failed"}]
    /\ claim \in [Runs -> 0..MaxClaims]
    /\ cancel \in [Runs -> BOOLEAN]
    /\ pc \in [Runs -> [Claims -> Places]]
    /\ wave \in [Runs -> [Claims -> 0..3]]
    /\ co \in [Runs -> [Claims -> [Roles -> Coroutines]]]
    /\ calls \in [Runs -> [Roles -> Nat]]
    /\ faults \in 0..MaxFaults

Init ==
    /\ status = [r \in Runs |-> IF r = 1 THEN "queued" ELSE "absent"]
    /\ parent = [r \in Runs |-> 0]
    /\ inputs = [r \in Runs |-> "none"]
    /\ stage = [r \in Runs |-> [x \in Stages |-> "pending"]]
    /\ source = [r \in Runs |-> [x \in Stages |-> 0]]
    /\ attempts = [r \in Runs |-> [x \in Stages |-> <<>>]]
    /\ report = [r \in Runs |-> NoReport]
    /\ task = [r \in Runs |-> IF r = 1 THEN "queued" ELSE "absent"]
    /\ claim = [r \in Runs |-> 0]
    /\ cancel = [r \in Runs |-> FALSE]
    /\ pc = [r \in Runs |-> [k \in Claims |-> "none"]]
    /\ wave = [r \in Runs |-> [k \in Claims |-> 0]]
    /\ co = [r \in Runs |-> [k \in Claims |-> [x \in Roles |-> "idle"]]]
    /\ calls = [r \in Runs |-> [x \in Roles |-> 0]]
    /\ faults = 0

--------------------------------------------------------------------------------
(* Transactions *)

(* Every transaction of a runner first shows that its claim is current. *)
Guard(r, k) == task[r] = "running" /\ claim[r] = k

SetStage(r, x, s)    == stage' = [stage EXCEPT ![r][x] = s]
EndAttempt(r, x, s)  == attempts' = [attempts EXCEPT ![r][x][Len(attempts[r][x])] = s]

StartAttempt(r, x) ==
    /\ stage[r][x] = "pending"
    /\ attempts' = [attempts EXCEPT ![r][x] = Append(@, "running")]
    /\ SetStage(r, x, "running")

FinishAttemptSuccess(r, x) ==
    /\ EndAttempt(r, x, "succeeded")
    /\ SetStage(r, x, "succeeded")

FinishAttemptFailure(r, x, exhausted) ==
    /\ EndAttempt(r, x, "failed")
    /\ SetStage(r, x, IF exhausted THEN "failed" ELSE "pending")

\* Fault: an attempt that a crash interrupted is not counted.
FailuresAreSpent(r, x) ==
    Cardinality({i \in DOMAIN attempts[r][x] : attempts[r][x][i] = "failed"}) >= MaxAttempts

BudgetIsSpent(r, x) == Len(attempts[r][x]) >= MaxAttempts

ExhaustStage(r, x) ==
    /\ stage[r][x] = "pending"
    /\ SetStage(r, x, "failed")
    /\ UNCHANGED attempts

(* Running attempts end as a; open stages end as s. *)
CloseAttempts(r, a) ==
    attempts' = [attempts EXCEPT ![r] =
        [x \in Stages |-> [i \in DOMAIN attempts[r][x] |->
            IF attempts[r][x][i] = "running" THEN a ELSE attempts[r][x][i]]]]

CloseStages(r, from, s) ==
    stage' = [stage EXCEPT ![r] =
        [x \in Stages |-> IF stage[r][x] \in from THEN s ELSE stage[r][x]]]

EndTask(r) == task' = [task EXCEPT ![r] = "ended"]

EndRun(r, s) == status' = [status EXCEPT ![r] = s]

CancelRun(r) ==
    /\ status[r] = "running"
    /\ CloseAttempts(r, "cancelled")
    /\ CloseStages(r, Open, "cancelled")
    /\ EndRun(r, "cancelled")
    /\ EndTask(r)

FailRun(r) ==
    /\ status[r] \in {"queued", "running"}
    /\ CloseAttempts(r, "interrupted")
    /\ CloseStages(r, Open, "cancelled")
    /\ EndRun(r, "failed")
    /\ EndTask(r)

\* Fault: the stages are reset, the attempts forgotten.
ResumeStagesOnly(r) == UNCHANGED attempts /\ CloseStages(r, {"running"}, "pending")

ResumeRun(r) ==
    /\ CloseAttempts(r, "interrupted")
    /\ CloseStages(r, {"running"}, "pending")

Fault == faults < MaxFaults /\ faults' = faults + 1

At(r, k, place) == pc[r][k] = place
Go(r, k, place) == pc' = [pc EXCEPT ![r][k] = place]
SetCo(r, k, x, c) == co' = [co EXCEPT ![r][k][x] = c]

(* The runner returns or dies; nothing in its memory is used again. *)
Idle == [x \in Roles |-> "idle"]
Leave(r, k) ==
    /\ Go(r, k, "gone")
    /\ wave' = [wave EXCEPT ![r][k] = 0]
    /\ co' = [co EXCEPT ![r][k] = Idle]

--------------------------------------------------------------------------------
(* The task that carries a run *)

Start(r) ==
    /\ claim[r] < MaxClaims
    /\ claim' = [claim EXCEPT ![r] = @ + 1]
    /\ task' = [task EXCEPT ![r] = "running"]

ClaimTask(r) ==
    /\ task[r] = "queued" /\ ~cancel[r]
    /\ Start(r)
    /\ Go(r, claim[r] + 1, "begin")
    /\ UNCHANGED <<runRows, stageRows, cancel, wave, co, calls, faults>>

(* The lease runs out.  The worker is dead, or stalled and to wake up later. *)
Lapse(r) ==
    /\ task[r] = "running"
    /\ Fault
    /\ task' = [task EXCEPT ![r] = "lapsed"]
    /\ UNCHANGED runner \/ Leave(r, claim[r])
    /\ UNCHANGED <<runRows, stageRows, claim, cancel, calls>>

\* Fault: a task that was claimed twice is left alone.
ReclaimTwiceAtMost(r) ==
    /\ task[r] = "lapsed" /\ ~cancel[r] /\ claim[r] < 2
    /\ Start(r)
    /\ Go(r, claim[r] + 1, "begin")
    /\ UNCHANGED <<runRows, stageRows, cancel, wave, co, calls, faults>>

(* A scan for work takes a lapsed task over, or ends it when its           *)
(* cancellation was requested.                                             *)
Reclaim(r) ==
    /\ task[r] = "lapsed" /\ ~cancel[r]
    /\ Start(r)
    /\ Go(r, claim[r] + 1, "begin")
    /\ UNCHANGED <<runRows, stageRows, cancel, wave, co, calls, faults>>

TerminalizeCancelled(r) ==
    /\ task[r] = "lapsed" /\ cancel[r]
    /\ IF status[r] = "running" THEN CancelRun(r)
       ELSE /\ CloseStages(r, Open, "cancelled")
            /\ EndRun(r, "cancelled") /\ EndTask(r)
            /\ UNCHANGED attempts
    /\ UNCHANGED <<parent, inputs, report, source, claim, cancel, runner, calls, faults>>

(* After a desktop shutdown the user resumes the task. *)
Requeue(r) ==
    /\ task[r] = "lapsed"
    /\ task' = [task EXCEPT ![r] = "queued"]
    /\ UNCHANGED <<runRows, stageRows, claim, cancel, runner, calls, faults>>

RequestCancel(r) ==
    /\ task[r] \in {"queued", "running", "lapsed"} /\ ~cancel[r]
    /\ Fault
    /\ cancel' = [cancel EXCEPT ![r] = TRUE]
    /\ IF task[r] # "queued" THEN UNCHANGED <<status, stage, task>>
       ELSE /\ EndTask(r)
            /\ IF status[r] # "queued" THEN UNCHANGED <<status, stage>>
               ELSE EndRun(r, "cancelled") /\ CloseStages(r, {"pending"}, "cancelled")
    /\ UNCHANGED <<parent, inputs, report, source, attempts, claim, runner, calls>>

--------------------------------------------------------------------------------
(* Retrying a failed stage in a child run *)

FailedRoles(p) == {x \in Roles : stage[p][x] = "failed"}
Rerun(p) == UNION {RetryClosure[x] : x \in FailedRoles(p)}

\* Fault: a reuse of a reuse points to the reuse.
OriginIsParent(p, x) == p

(* The run whose row holds what stage x of p shows. *)
Origin(p, x) == IF stage[p][x] = "reused" THEN source[p][x] ELSE p

Reusable(p, x) ==
    LET s == stage[Origin(p, x)][x]
    IN  IF x \in Kinds THEN s \in {"succeeded", "failed"} ELSE s = "succeeded"

ActiveChild(p) == \E c \in Runs : parent[c] = p /\ status[c] \in {"queued", "running"}

RetryAccepted(p, x) ==
    /\ status[p] = "partial"
    /\ x \in FailedRoles(p)
    /\ inputs[p] # "none"
    /\ \A y \in Stages \ Rerun(p) : Reusable(p, y)
    /\ ~ActiveChild(p)

EnqueueRetry(p, x, c) ==
    /\ RetryAccepted(p, x)
    /\ status[c] = "absent" /\ \A d \in Runs : d < c => status[d] # "absent"
    /\ status' = [status EXCEPT ![c] = "queued"]
    /\ parent' = [parent EXCEPT ![c] = p]
    /\ inputs' = [inputs EXCEPT ![c] = inputs[p]]
    /\ stage' = [stage EXCEPT ![c] =
                   [y \in Stages |-> IF y \in Rerun(p) THEN "pending" ELSE "reused"]]
    /\ source' = [source EXCEPT ![c] =
                   [y \in Stages |-> IF y \in Rerun(p) THEN 0 ELSE Origin(p, y)]]
    /\ task' = [task EXCEPT ![c] = "queued"]
    /\ UNCHANGED <<report, attempts, claim, cancel, runner, calls, faults>>

--------------------------------------------------------------------------------
(* The runner of a claim: start or resume, then the data sections *)

AfterBinding(i) == IF i = "eligible" THEN "wave" ELSE "blocking"

Begin(r, k) ==
    /\ At(r, k, "begin") /\ Guard(r, k)
    /\ \/ /\ status[r] = "queued" /\ status' = [status EXCEPT ![r] = "running"]
          /\ UNCHANGED <<stage, attempts>>
       \/ /\ status[r] = "running" /\ ResumeRun(r) /\ UNCHANGED status
    /\ IF inputs[r] = "none" THEN Go(r, k, "data") /\ UNCHANGED wave
       ELSE /\ Go(r, k, AfterBinding(inputs[r]))
            /\ wave' = [wave EXCEPT ![r][k] = 1]
    /\ UNCHANGED <<parent, inputs, report, source, taskRow, co, calls, faults>>

OpenKinds(r) == {i \in DOMAIN KindOrder : stage[r][KindOrder[i]] \in Open}
CurrentKind(r) == KindOrder[CHOOSE i \in OpenKinds(r) : \A j \in OpenKinds(r) : i <= j]

StartFetch(r, k) ==
    /\ At(r, k, "data") /\ Guard(r, k) /\ ~cancel[r] /\ OpenKinds(r) # {}
    /\ IF BudgetIsSpent(r, CurrentKind(r))
       THEN ExhaustStage(r, CurrentKind(r)) /\ UNCHANGED pc
       ELSE StartAttempt(r, CurrentKind(r)) /\ Go(r, k, "fetching")
    /\ UNCHANGED <<runRows, source, taskRow, wave, co, calls, faults>>

(* The sources answer, or fail in a way that may be tried again or may not. *)
Fetched(r, k) ==
    /\ At(r, k, "fetching") /\ Guard(r, k)
    /\ FinishAttemptSuccess(r, CurrentKind(r))
    /\ Go(r, k, "checkpoint")
    /\ UNCHANGED <<runRows, source, taskRow, wave, co, calls, faults>>

FetchFails(r, k, retryable) ==
    /\ At(r, k, "fetching") /\ Guard(r, k)
    /\ Fault
    /\ FinishAttemptFailure(r, CurrentKind(r), ~retryable \/ BudgetIsSpent(r, CurrentKind(r)))
    /\ Go(r, k, "checkpoint")
    /\ UNCHANGED <<runRows, source, taskRow, wave, co, calls>>

(* The snapshot is frozen.  Present sections may still be stale. *)
BindInputs(r, k) ==
    /\ At(r, k, "data") /\ Guard(r, k) /\ ~cancel[r] /\ OpenKinds(r) = {}
    /\ inputs[r] = "none"
    /\ \E i \in IF \A c \in Critical : stage[r][c] = "succeeded"
                THEN {"eligible", "insufficient"} ELSE {"insufficient"} :
         /\ inputs' = [inputs EXCEPT ![r] = i]
         /\ Go(r, k, AfterBinding(i))
    /\ wave' = [wave EXCEPT ![r][k] = 1]
    /\ UNCHANGED <<status, parent, report, stageRows, taskRow, co, calls, faults>>

PendingRoles(r) == {i \in DOMAIN RoleOrder : stage[r][RoleOrder[i]] = "pending"}

BlockNext(r, k) ==
    /\ At(r, k, "blocking") /\ Guard(r, k)
    /\ \E i \in PendingRoles(r) :
         /\ \A j \in PendingRoles(r) : i <= j
         /\ SetStage(r, RoleOrder[i], "blocked")
    /\ UNCHANGED <<runRows, source, attempts, taskRow, runner, calls, faults>>

--------------------------------------------------------------------------------
(* The runner of a claim: the waves *)

\* Fault: a role that was closed counts as one that has an output.
CompletedOrClosed(r, k) == {x \in Roles : co[r][k][x] \in {"done", "closed"}}

Completed(r, k) == {x \in Roles : co[r][k][x] = "done"}

Wave(r, k) == Waves[wave[r][k]]

RoleIndex(x) == CHOOSE i \in DOMAIN RoleOrder : RoleOrder[i] = x
Unvisited(r, k) == {x \in Wave(r, k) : co[r][k][x] = "idle"}

(* The runner goes through the roles of the wave before any coroutine runs. *)
Visit(r, k, x) ==
    /\ At(r, k, "wave") /\ x \in Unvisited(r, k)
    /\ \A y \in Unvisited(r, k) : RoleIndex(x) <= RoleIndex(y)
    /\ \/ /\ stage[r][x] \in Usable
          /\ SetCo(r, k, x, "done") /\ UNCHANGED <<stage, pc>>
       \/ /\ stage[r][x] \notin Usable /\ Deps[x] \subseteq Completed(r, k)
          /\ SetCo(r, k, x, "ready") /\ UNCHANGED <<stage, pc>>
       \/ /\ stage[r][x] \notin Usable /\ ~(Deps[x] \subseteq Completed(r, k))
          /\ Guard(r, k)
          /\ IF stage[r][x] = "pending"
             THEN SetStage(r, x, "blocked") /\ SetCo(r, k, x, "closed") /\ UNCHANGED pc
             ELSE Go(r, k, "failing") /\ UNCHANGED <<stage, co>>
    /\ UNCHANGED <<runRows, source, attempts, taskRow, wave, calls, faults>>

Running(r, k, x, c) ==
    /\ At(r, k, "wave") /\ Unvisited(r, k) = {} /\ x \in Wave(r, k)
    /\ co[r][k][x] \in c

(* A stage that is not pending refuses the attempt, or its exhaustion, and *)
(* the coroutine ends with the conflict.                                   *)
StartCall(r, k, x) ==
    /\ Running(r, k, x, {"ready", "backoff"}) /\ Guard(r, k) /\ ~cancel[r]
    /\ IF stage[r][x] # "pending"
       THEN SetCo(r, k, x, "raised") /\ UNCHANGED <<stage, attempts, calls>>
       ELSE IF BudgetIsSpent(r, x)
       THEN ExhaustStage(r, x) /\ SetCo(r, k, x, "closed") /\ UNCHANGED calls
       ELSE /\ StartAttempt(r, x) /\ SetCo(r, k, x, "calling")
            /\ calls' = [calls EXCEPT ![r][x] = @ + 1]
    /\ UNCHANGED <<runRows, source, taskRow, pc, wave, faults>>

(* The request cannot be built: an attempt is recorded, but nothing is sent. *)
PrepareFails(r, k, x) ==
    /\ Running(r, k, x, {"ready"}) /\ Guard(r, k) /\ ~cancel[r]
    /\ attempts[r][x] = <<>>
    /\ Fault
    /\ StartAttempt(r, x) /\ SetCo(r, k, x, "unprepared")
    /\ UNCHANGED <<runRows, source, taskRow, pc, wave, calls>>

RecordUnprepared(r, k, x) ==
    /\ Running(r, k, x, {"unprepared"}) /\ Guard(r, k)
    /\ FinishAttemptFailure(r, x, TRUE) /\ SetCo(r, k, x, "closed")
    /\ UNCHANGED <<runRows, source, taskRow, pc, wave, calls, faults>>

Answered(r, k, x) ==
    /\ Running(r, k, x, {"calling"}) /\ Guard(r, k)
    /\ FinishAttemptSuccess(r, x) /\ SetCo(r, k, x, "done")
    /\ UNCHANGED <<runRows, source, taskRow, pc, wave, calls, faults>>

CallFails(r, k, x, retryable) ==
    /\ Running(r, k, x, {"calling"}) /\ Guard(r, k)
    /\ Fault
    /\ LET exhausted == ~retryable \/ BudgetIsSpent(r, x)
       IN  /\ FinishAttemptFailure(r, x, exhausted)
           /\ SetCo(r, k, x, IF exhausted THEN "closed" ELSE "backoff")
    /\ UNCHANGED <<runRows, source, taskRow, pc, wave, calls>>

EndWave(r, k) ==
    /\ At(r, k, "wave")
    /\ \A x \in Wave(r, k) : co[r][k][x] \in {"done", "closed", "raised"}
    /\ Go(r, k, IF \E x \in Wave(r, k) : co[r][k][x] = "raised"
                THEN "failing" ELSE "checkpoint")
    /\ UNCHANGED <<runRows, stageRows, taskRow, wave, co, calls, faults>>

\* Fault: the checkpoint after a data attempt moves the wave on as well.
PassAndAdvance(r, k) ==
    /\ At(r, k, "checkpoint")
    /\ Go(r, k, CASE wave[r][k] = 0 -> "data" [] wave[r][k] = 3 -> "report"
                  [] OTHER -> "wave")
    /\ wave' = [wave EXCEPT ![r][k] = @ + 1]
    /\ UNCHANGED <<runRows, stageRows, taskRow, co, calls, faults>>

(* Where the runner may be stopped: after a data attempt and after a wave. *)
Pass(r, k) ==
    /\ At(r, k, "checkpoint")
    /\ Go(r, k, CASE wave[r][k] = 0 -> "data" [] wave[r][k] = 3 -> "report"
                  [] OTHER -> "wave")
    /\ wave' = [wave EXCEPT ![r][k] = IF @ \in {1, 2} THEN @ + 1 ELSE @]
    /\ UNCHANGED <<runRows, stageRows, taskRow, co, calls, faults>>

Pause(r, k) ==
    /\ At(r, k, "checkpoint") /\ Guard(r, k)
    /\ Fault
    /\ task' = [task EXCEPT ![r] = "lapsed"]
    /\ Leave(r, k)
    /\ UNCHANGED <<runRows, stageRows, claim, cancel, calls>>

--------------------------------------------------------------------------------
(* The runner of a claim: the end *)

Verdicts(r, k) ==
    IF At(r, k, "blocking") THEN {"insufficient_evidence"}
    ELSE IF FailedRoles(r) # {} THEN {"partial"}
    ELSE {"succeeded", "insufficient_evidence"}

FinalizeRun(r, k) ==
    /\ Guard(r, k) /\ status[r] = "running"
    /\ At(r, k, "report") \/ (At(r, k, "blocking") /\ PendingRoles(r) = {})
    /\ IF cancel[r] THEN EndRun(r, "cancelled") /\ UNCHANGED report
       ELSE /\ \E v \in Verdicts(r, k) : EndRun(r, v)
            /\ report' = [report EXCEPT ![r] = Completed(r, k)]
    /\ EndTask(r) /\ Leave(r, k)
    /\ UNCHANGED <<parent, inputs, stageRows, claim, cancel, calls, faults>>

(* While it waits or checks, the runner sees the request. *)
ObserveCancel(r, k) ==
    /\ pc[r][k] \in {"data", "fetching", "wave"} /\ Guard(r, k) /\ cancel[r]
    /\ CancelRun(r) /\ Leave(r, k)
    /\ UNCHANGED <<parent, inputs, report, source, claim, cancel, calls, faults>>

HandlerFails(r, k) ==
    /\ At(r, k, "failing") /\ Guard(r, k)
    /\ FailRun(r) /\ Leave(r, k)
    /\ UNCHANGED <<parent, inputs, report, source, claim, cancel, calls, faults>>

(* The run cannot be looked up, or failing it raises: the exception        *)
(* reaches run_once, which fails the task and knows nothing of the run.    *)
FailureUnrecorded(r, k) ==
    /\ pc[r][k] \in {"begin", "failing"} /\ Guard(r, k)
    /\ HandlersBreak /\ Fault
    /\ task' = [task EXCEPT ![r] = "failed"]
    /\ Leave(r, k)
    /\ UNCHANGED <<runRows, stageRows, claim, cancel, calls>>

(* Storage, a factory, the clock or the report raises what the runner does *)
(* not expect, wherever it is.                                             *)
Unexpected(r, k) ==
    /\ pc[r][k] \notin {"none", "failing", "gone"}
    /\ HandlersBreak /\ Fault
    /\ Go(r, k, "failing")
    /\ UNCHANGED <<runRows, stageRows, taskRow, wave, co, calls>>

(* The same in a coroutine of a wave, while the others go on.              *)
CoroutineBreaks(r, k, x) ==
    /\ Running(r, k, x, {"ready", "unprepared", "calling", "backoff"})
    /\ HandlersBreak /\ Fault
    /\ SetCo(r, k, x, "raised")
    /\ UNCHANGED <<runRows, stageRows, taskRow, pc, wave, calls>>

(* A runner whose claim is no longer current finds out at its next         *)
(* transaction; failing the run is refused as well, and it gives up.       *)
Fenced(r, k) ==
    /\ pc[r][k] \notin {"none", "gone"} /\ ~Guard(r, k)
    /\ Leave(r, k)
    /\ UNCHANGED <<runRows, stageRows, taskRow, calls, faults>>

RunnerStep(r, k) ==
    \/ Begin(r, k) \/ StartFetch(r, k) \/ Fetched(r, k)
    \/ \E b \in BOOLEAN : FetchFails(r, k, b)
    \/ BindInputs(r, k) \/ BlockNext(r, k)
    \/ \E x \in Roles :
         \/ Visit(r, k, x) \/ StartCall(r, k, x)
         \/ PrepareFails(r, k, x) \/ RecordUnprepared(r, k, x)
         \/ Answered(r, k, x) \/ \E b \in BOOLEAN : CallFails(r, k, x, b)
    \/ EndWave(r, k) \/ Pass(r, k)
    \/ FinalizeRun(r, k) \/ ObserveCancel(r, k) \/ HandlerFails(r, k)
    \/ Fenced(r, k)

Breaks(r, k) ==
    \/ Unexpected(r, k) \/ FailureUnrecorded(r, k)
    \/ \E x \in Roles : CoroutineBreaks(r, k, x)

Scan(r) == ClaimTask(r) \/ Reclaim(r) \/ TerminalizeCancelled(r)

Next ==
    \E r \in Runs :
        \/ Scan(r) \/ Lapse(r) \/ Requeue(r) \/ RequestCancel(r)
        \/ \E x \in Roles, c \in Runs : EnqueueRetry(r, x, c)
        \/ \E k \in Claims :
             \/ RunnerStep(r, k) \/ Pause(r, k) \/ Breaks(r, k)

Spec == Init /\ [][Next]_vars

(* A worker that is alive goes on, and workers keep looking for work.  No  *)
(* run can step for ever, so that one of them steps is fair to each.       *)
Progress == \E r \in Runs : Scan(r) \/ \E k \in Claims : RunnerStep(r, k)

Fairness == WF_vars(Progress)

LiveSpec == Spec /\ Fairness

--------------------------------------------------------------------------------
(* Properties *)

(* No work is left open behind a run that has ended, and within one that   *)
(* has not, at most the last attempt of a stage is running, exactly while  *)
(* the stage is: cancel_run, fail_run, resume_run and the scan for expired *)
(* cancellations each close attempts and stages by separate updates.       *)
OpenWorkIsAccountedFor ==
    \A r \in Runs, x \in Stages :
        /\ status[r] \in RunEnded => stage[r][x] \notin Open
        /\ \A i \in DOMAIN attempts[r][x] :
             attempts[r][x][i] = "running" => i = Len(attempts[r][x]) /\ stage[r][x] = "running"
        /\ stage[r][x] = "running" =>
             /\ attempts[r][x] # <<>>
             /\ attempts[r][x][Len(attempts[r][x])] = "running"

(* The retry budget of a role is for its lifetime: however often the run   *)
(* is taken over, no more requests than max_attempts go to the model.      *)
CallsWithinBudget ==
    \A r \in Runs, x \in Roles : calls[r][x] <= MaxAttempts

(* A partial run offers a retry of each failed role, and unless a retry is *)
(* already under way enqueue_retry accepts it: the reuse of the other      *)
(* stages never meets an incomplete dependency or a source that is itself  *)
(* a reuse.  What a run reuses was built on the very outputs it shows.     *)
RetryBuildsOnOriginals ==
    \A r \in Runs :
        /\ status[r] = "partial" /\ ~ActiveChild(r) =>
             FailedRoles(r) # {} /\ \A x \in FailedRoles(r) : RetryAccepted(r, x)
        /\ \A x \in Roles : stage[r][x] = "reused" =>
             /\ stage[source[r][x]][x] = "succeeded"
             /\ \A y \in Deps[x] : Origin(r, y) = Origin(source[r][x], y)

(* Each run decides its roles once and in order, and reports exactly them, *)
(* through every crash, take-over, pause and late runner.                  *)
Decision(s) == IF s \in Usable THEN "done" ELSE IF s \in {"failed", "blocked"} THEN s ELSE "open"
Verdict(s) == IF s \in {"absent", "queued", "running"} THEN "open"
              ELSE IF s \in {"failed", "cancelled"} THEN "abandoned" ELSE s

Plan(r) == INSTANCE ResearchPlan WITH
    decision <- [x \in Roles |-> Decision(stage[r][x])],
    verdict  <- Verdict(status[r]),
    shown    <- IF report[r] = NoReport THEN {} ELSE report[r]

ImplementsPlan ==
    /\ \A r \in Runs : Plan(r)!Init
    /\ [][\A r \in Runs : UNCHANGED Plan(r)!vars \/ Plan(r)!Next]_vars

(* A run that nobody cancels ends, since leases lapse finitely often and   *)
(* every retry uses up an attempt; the one escape is a failure that could  *)
(* not be recorded, after which run_once fails the task and leaves the run *)
(* as it is.                                                               *)
RunEnds ==
    \A r \in Runs :
        status[r] \in {"queued", "running"} ~>
            (status[r] \in RunEnded \/ cancel[r] \/ task[r] = "failed")

(* A stage that fails leaves a partial report to keep and to retry from    *)
(* (docs/troubleshooting.md): where no handler breaks, it does not fail    *)
(* the run.                                                                *)
FailedStageKeepsReport ==
    \A r \in Runs : status[r] = "failed" => FailedRoles(r) = {}
================================================================================
