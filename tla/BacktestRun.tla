----------------------------- MODULE BacktestRun -----------------------------
(***************************************************************************)
(* One pool backtest: its task row, its backtest_run row with one row per  *)
(* symbol, the trades, failures and report stored for it, and the          *)
(* PoolBacktestRunner processes that work on it, one claim after another   *)
(* and sometimes two at a time, when the lease of the first has lapsed.    *)
(*                                                                         *)
(* TaskQueue has the clocks and the order of the queue.  Here a lease has  *)
(* lapsed or has not (a lapsed one is never renewed), and a claim token is *)
(* the number of the claim.  Every action is a transaction, or a read, or  *)
(* a local step of a runner.                                               *)
(***************************************************************************)
EXTENDS Naturals, FiniteSets

CONSTANTS
  Runners,    \* worker processes; the desktop's sidecar uses one at a time
  Symbols,    \* symbols of the snapshot; a number is the row's ordinal
  Gaps,       \* symbols frozen as a FrozenSymbolGap
  MaxClaims   \* bound: claims of the task

ASSUME SymbolsAssumption == Symbols \subseteq Nat /\ IsFiniteSet(Symbols) /\ Gaps \subseteq Symbols
ASSUME ClaimsAssumption == MaxClaims \in Nat

VARIABLES
  desktop,          \* TRUE: one sidecar with startup recovery; FALSE: compose
  recovery,         \* a startup recovery holds back every claim
  status,           \* task_run.status
  cancelRequested,  \* task_run.cancel_requested
  token,            \* task_run.claim_token; 0 is NULL
  lapsed,           \* task_run.lease_expires_at has passed
  progress,         \* task_run.progress, in symbols
  claims,           \* claims so far
  run,              \* backtest_run.status
  processed,        \* backtest_run.processed
  failedCount,      \* backtest_run.failed_count
  symbol,           \* backtest_run_symbol.status
  tradeRows,        \* <<s, c>>: the trade and event rows of s, written under claim c
  failureRows,      \* <<s, c>>: the failure row of s
  reports,          \* aggregate and group metrics: the trade rows they summarise
  stage,            \* where a runner is in __call__
  held,             \* the claim token a runner presents
  todo,             \* symbols still pending in the snapshot a runner read
  samples           \* the trade rows a runner read for its report

taskVars   == <<status, cancelRequested, token, lapsed, progress, claims>>
resultVars == <<processed, failedCount, symbol, tradeRows, failureRows, reports>>
localVars  == <<stage, held, todo, samples>>
vars == <<desktop, recovery, taskVars, run, resultVars, localVars>>

Claims   == 1..MaxClaims
Rows     == Symbols \X Claims
Total    == Cardinality(Symbols)
Active   == {"queued", "running"}
Ended    == {"succeeded", "failed", "cancelled"}
Stages   == {"idle", "claimed", "reading", "loop", "computing", "checkpointed",
             "closing", "finishing", "cancelling", "failing", "raised"}

Pending == {s \in Symbols : symbol[s] = "pending"}

TypeOK ==
  /\ desktop \in BOOLEAN /\ recovery \in BOOLEAN
  /\ status \in Active \union Ended
  /\ cancelRequested \in BOOLEAN
  /\ token \in 0..MaxClaims
  /\ lapsed \in BOOLEAN
  /\ progress \in Nat
  /\ claims \in 0..MaxClaims
  /\ run \in Active \union Ended \union {"partial_failed"}
  /\ processed \in Nat /\ failedCount \in Nat
  /\ symbol \in [Symbols -> {"pending", "succeeded", "failed"}]
  /\ tradeRows \in SUBSET Rows /\ failureRows \in SUBSET Rows
  /\ reports \in SUBSET SUBSET Rows
  /\ stage \in [Runners -> Stages]
  /\ held \in [Runners -> 0..MaxClaims]
  /\ todo \in [Runners -> SUBSET Symbols]
  /\ samples \in [Runners -> SUBSET Rows]

Init ==
  /\ desktop \in BOOLEAN /\ recovery = FALSE
  /\ status = "queued" /\ run = "queued"
  /\ cancelRequested = FALSE /\ lapsed = FALSE
  /\ token = 0 /\ claims = 0 /\ progress = 0
  /\ processed = 0 /\ failedCount = 0
  /\ symbol = [s \in Symbols |-> "pending"]
  /\ tradeRows = {} /\ failureRows = {} /\ reports = {}
  /\ stage = [r \in Runners |-> "idle"]
  /\ held = [r \in Runners |-> 0]
  /\ todo = [r \in Runners |-> {}]
  /\ samples = [r \in Runners |-> {}]

-----------------------------------------------------------------------------
(* Conditions and updates shared by the transactions.                      *)

\* _ownership_condition with the status test of every caller.
Owns(r) == status = "running" /\ token = held[r] /\ ~lapsed

\* A requested cancellation wins over what the runner reports.
Outcome(reported) == IF cancelRequested THEN "cancelled" ELSE reported

\* The task row leaves "running".
EndTask(outcome) ==
  /\ status' = outcome
  /\ token' = 0 /\ lapsed' = FALSE
  /\ UNCHANGED <<cancelRequested, claims>>

\* Statements that cancel a task cancel its run while that is active.
CancelRun == run' = IF run \in Active THEN "cancelled" ELSE run

At(r, from)  == stage[r] = from
GoTo(r, to)  == stage' = [stage EXCEPT ![r] = to] /\ UNCHANGED <<held, todo, samples>>

\* r forgets its claim: run_once returned, or the process is gone.
Forget(R) ==
  /\ stage'   = [r \in Runners |-> IF r \in R THEN "idle" ELSE stage[r]]
  /\ held'    = [r \in Runners |-> IF r \in R THEN 0 ELSE held[r]]
  /\ todo'    = [r \in Runners |-> IF r \in R THEN {} ELSE todo[r]]
  /\ samples' = [r \in Runners |-> IF r \in R THEN {} ELSE samples[r]]

\* An exception leaves _execute_claim; __call__ then tries fail_claim.
Raises(r) == GoTo(r, "failing") /\ UNCHANGED <<desktop, recovery, taskVars, run, resultVars>>

-----------------------------------------------------------------------------
(* The queue, as far as this task sees it.                                 *)

MayClaim(r) ==
  /\ At(r, "idle") /\ ~recovery
  /\ desktop => \A q \in Runners : At(q, "idle")

\* Fault: a lapsed claim is never taken over.
ClaimableIfQueued == status = "queued" /\ ~cancelRequested

\* A queued task, or one whose claim has lapsed.
Claimable == ~cancelRequested /\ (status = "queued" \/ (status = "running" /\ lapsed))

\* claim_next.
Claim(r) ==
  /\ MayClaim(r) /\ Claimable
  /\ claims < MaxClaims
  /\ claims' = claims + 1
  /\ status' = "running" /\ token' = claims' /\ lapsed' = FALSE
  /\ stage' = [stage EXCEPT ![r] = "claimed"]
  /\ held' = [held EXCEPT ![r] = claims']
  /\ UNCHANGED <<desktop, recovery, cancelRequested, progress, run, resultVars, todo, samples>>

\* _terminalize_expired_cancellations, run by the next claim or before a restore.
EndLapsedCancellation ==
  /\ (\E r \in Runners : MayClaim(r)) \/ (\A r \in Runners : At(r, "idle"))
  /\ status = "running" /\ lapsed /\ cancelRequested
  /\ EndTask("cancelled") /\ CancelRun
  /\ UNCHANGED <<desktop, recovery, progress, resultVars, localVars>>

\* request_cancel: a queued task ends at once, its run only if that is queued.
RequestCancel ==
  /\ status \in Active
  /\ cancelRequested' = TRUE
  /\ status' = IF status = "queued" THEN "cancelled" ELSE status
  /\ run' = IF status = "queued" /\ run = "queued" THEN "cancelled" ELSE run
  /\ UNCHANGED <<desktop, recovery, token, lapsed, progress, claims, resultVars, localVars>>

-----------------------------------------------------------------------------
(* PoolBacktestRunner.                                                     *)

\* Fault: a resumed run starts over.
StartRunOver(r) ==
  /\ At(r, "claimed") /\ Owns(r) /\ run \in Active
  /\ run' = "running"
  /\ symbol' = [s \in Symbols |-> "pending"] /\ processed' = 0 /\ failedCount' = 0
  /\ GoTo(r, "reading")
  /\ UNCHANGED <<desktop, recovery, taskVars, tradeRows, failureRows, reports>>

\* start_claim, for a first and for a resumed run.
StartRun(r) ==
  /\ At(r, "claimed") /\ Owns(r) /\ run \in Active
  /\ run' = "running"
  /\ GoTo(r, "reading")
  /\ UNCHANGED <<desktop, recovery, taskVars, resultVars>>

\* Fault: the runner does not skip what an earlier claim has decided.
ReadEveryPending == Symbols

\* start_claim returns get_run, a read after its commit; decided symbols are skipped.
ReadPending == Pending

ReadRun(r) ==
  /\ At(r, "reading")
  /\ stage' = [stage EXCEPT ![r] = "loop"]
  /\ todo' = [todo EXCEPT ![r] = ReadPending]
  /\ UNCHANGED <<desktop, recovery, taskVars, run, resultVars, held, samples>>

Looping(r) == stage[r] \in {"loop", "checkpointed"}

NextTodo(r) == CHOOSE s \in todo[r] : \A u \in todo[r] : s <= u

\* The next symbol: no cancellation seen, and the heartbeat is accepted.
NextSymbol(r) ==
  /\ Looping(r) /\ todo[r] # {} /\ ~cancelRequested
  /\ Owns(r)
  /\ GoTo(r, "computing")
  /\ UNCHANGED <<desktop, recovery, taskVars, run, resultVars>>

\* The loop is over, or it breaks on a requested cancellation.
LeaveLoop(r) ==
  /\ Looping(r) /\ (todo[r] = {} \/ cancelRequested)
  /\ GoTo(r, "closing")
  /\ UNCHANGED <<desktop, recovery, taskVars, run, resultVars>>

\* A symbol frozen as a gap fails; any other may fail too.
Results(s) == IF s \in Gaps THEN {"failed"} ELSE {"succeeded", "failed"}

Skipped(r) == [todo EXCEPT ![r] = @ \ {NextTodo(r)}]

\* Fault: the failed symbols are not counted.
CountsUncounted(result) ==
  /\ processed' = processed + 1
  /\ UNCHANGED failedCount

Counts(result) ==
  /\ processed' = processed + 1
  /\ failedCount' = failedCount + IF result = "failed" THEN 1 ELSE 0

\* checkpoint_symbol: one transaction behind guard_claim_in_transaction.
Checkpoint(r) ==
  /\ At(r, "computing") /\ Owns(r) /\ run = "running"
  /\ LET s == NextTodo(r) IN
     /\ symbol[s] = "pending"
     /\ progress <= processed + 1
     /\ \E result \in Results(s) :
          /\ symbol' = [symbol EXCEPT ![s] = result]
          /\ Counts(result)
          /\ tradeRows' = tradeRows \union (IF result = "succeeded" THEN {<<s, held[r]>>} ELSE {})
          /\ failureRows' = failureRows \union (IF result = "failed" THEN {<<s, held[r]>>} ELSE {})
     /\ progress' = processed + 1
  /\ todo' = Skipped(r)
  /\ stage' = [stage EXCEPT ![r] = "checkpointed"]
  /\ UNCHANGED <<desktop, recovery, status, cancelRequested, token, lapsed, claims, run,
                 reports, held, samples>>

\* checkpoint_symbol returns early for a decided symbol, before it looks at the claim.
CheckpointDecided(r) ==
  /\ At(r, "computing")
  /\ symbol[NextTodo(r)] # "pending"
  /\ todo' = Skipped(r)
  /\ stage' = [stage EXCEPT ![r] = "checkpointed"]
  /\ UNCHANGED <<desktop, recovery, taskVars, run, resultVars, held, samples>>

\* The second look at the cancellation, then the reads the report is made of.
Close(r) ==
  /\ At(r, "closing")
  /\ IF cancelRequested
     THEN GoTo(r, "cancelling")
     ELSE /\ stage' = [stage EXCEPT ![r] = "finishing"]
          /\ samples' = [samples EXCEPT ![r] = tradeRows]
          /\ UNCHANGED <<held, todo>>
  /\ UNCHANGED <<desktop, recovery, taskVars, run, resultVars>>

\* Leaving the keepalive may raise what its thread died of, after the commit.
LeavesKeepalive(r) == Forget({r}) \/ GoTo(r, "failing")

\* Fault: failed symbols do not make the run partial.
FinishedRunAlwaysSucceeded == Outcome("succeeded")

\* The run's status when its task completes.
FinishedRun == Outcome(IF failedCount = 0 THEN "succeeded" ELSE "partial_failed")

\* finish_claim: report, task and run in one transaction.
FinishClaim(r) ==
  /\ At(r, "finishing") /\ Owns(r) /\ run = "running"
  /\ processed = Total /\ progress <= Total
  /\ reports' = reports \union {samples[r]}
  /\ run' = FinishedRun
  /\ EndTask(Outcome("succeeded"))
  /\ progress' = IF cancelRequested THEN progress ELSE Total
  /\ LeavesKeepalive(r)
  /\ UNCHANGED <<desktop, recovery, processed, failedCount, symbol, tradeRows, failureRows>>

\* cancel_claim.
CancelClaim(r) ==
  /\ At(r, "cancelling") /\ Owns(r) /\ run = "running"
  /\ cancelRequested /\ progress <= processed
  /\ run' = "cancelled"
  /\ EndTask("cancelled")
  /\ LeavesKeepalive(r)
  /\ UNCHANGED <<desktop, recovery, progress, resultVars>>

\* A transaction of r is refused, the formula worker fails, or the database does.
RunnerRaises(r) ==
  /\ stage[r] \in Stages \ {"idle", "failing", "raised"}
  /\ Raises(r)

\* __call__: fail_claim ends task and run, if the claim is still current.
FailClaim(r) ==
  /\ At(r, "failing") /\ Owns(r) /\ run \in Active
  /\ EndTask(Outcome("failed")) /\ run' = Outcome("failed")
  /\ GoTo(r, "raised")
  /\ UNCHANGED <<desktop, recovery, progress, resultVars>>

\* What fail_claim raises is swallowed: a stale claim, or a failing database.
FailClaimSwallowed(r) ==
  /\ At(r, "failing")
  /\ GoTo(r, "raised")
  /\ UNCHANGED <<desktop, recovery, taskVars, run, resultVars>>

\* run_once: fail(...) after the handler raised; TaskConflict is ignored.
WorkerFails(r) ==
  /\ At(r, "raised")
  /\ IF Owns(r) THEN EndTask(Outcome("failed"))
     ELSE UNCHANGED <<status, cancelRequested, token, lapsed, claims>>
  /\ Forget({r})
  /\ UNCHANGED <<desktop, recovery, progress, run, resultVars>>

-----------------------------------------------------------------------------
(* What happens to the processes.  A claim can be lost only while another  *)
(* one is left within MaxClaims.                                           *)

ClaimLeft == claims < MaxClaims

\* Compose: a worker process dies.
Crash(r) ==
  /\ ~desktop /\ ~At(r, "idle") /\ ClaimLeft
  /\ Forget({r})
  /\ UNCHANGED <<desktop, recovery, taskVars, run, resultVars>>

\* pause_at_desktop_checkpoint unwinds the runner right after a checkpoint.
\* The next process finds the row running, and starts in recovery; if the shutdown
\* is given up instead, this process goes on claiming.
PauseAtCheckpoint(r) ==
  /\ desktop /\ At(r, "checkpointed") /\ status = "running" /\ ClaimLeft
  /\ Forget({r})
  /\ recovery' \in BOOLEAN
  /\ UNCHANGED <<desktop, taskVars, run, resultVars>>

\* The sidecar ends and is started again: unfinished work waits for the user.
SidecarRestarts ==
  /\ desktop /\ ClaimLeft
  /\ Forget(Runners)
  /\ recovery' = (status \in Active)
  /\ UNCHANGED <<desktop, taskVars, run, resultVars>>

\* resume_desktop_recovery.
RecoveryResume ==
  /\ recovery
  /\ recovery' = FALSE
  /\ IF status = "running" THEN status' = "queued" /\ token' = 0 /\ lapsed' = FALSE
     ELSE UNCHANGED <<status, token, lapsed>>
  /\ UNCHANGED <<desktop, cancelRequested, progress, claims, run, resultVars, localVars>>

\* cancel_desktop_recovery.
RecoveryCancel ==
  /\ recovery
  /\ recovery' = FALSE
  /\ IF status \in Active
     THEN /\ status' = "cancelled" /\ cancelRequested' = TRUE
          /\ token' = 0 /\ lapsed' = FALSE
          /\ CancelRun
     ELSE UNCHANGED <<status, cancelRequested, token, lapsed, run>>
  /\ UNCHANGED <<desktop, progress, claims, resultVars, localVars>>

\* requeue_expired_leases_for_offline_snapshot: no worker is alive.
OfflineRequeue ==
  /\ \A r \in Runners : At(r, "idle")
  /\ status = "running" /\ lapsed /\ ~cancelRequested
  /\ status' = "queued" /\ token' = 0 /\ lapsed' = FALSE
  /\ UNCHANGED <<desktop, recovery, cancelRequested, progress, claims, run, resultVars, localVars>>

\* The lease runs out: its holder is gone, or is too slow to renew it.
LeaseLapses ==
  /\ status = "running" /\ ~lapsed /\ ClaimLeft
  /\ lapsed' = TRUE
  /\ UNCHANGED <<desktop, recovery, status, cancelRequested, token, progress, claims, run,
                 resultVars, localVars>>

-----------------------------------------------------------------------------
Works(r) ==
  \/ StartRun(r) \/ ReadRun(r) \/ NextSymbol(r) \/ LeaveLoop(r)
  \/ Checkpoint(r) \/ CheckpointDecided(r) \/ Close(r)
  \/ FinishClaim(r) \/ CancelClaim(r) \/ RunnerRaises(r)
  \/ FailClaim(r) \/ FailClaimSwallowed(r) \/ WorkerFails(r)

Environment ==
  \/ EndLapsedCancellation \/ RequestCancel \/ SidecarRestarts
  \/ RecoveryResume \/ RecoveryCancel \/ OfflineRequeue \/ LeaseLapses

Next ==
  \/ Environment
  \/ \E r \in Runners : Claim(r) \/ Works(r) \/ Crash(r) \/ PauseAtCheckpoint(r)

Spec == Init /\ [][Next]_vars

\* The queue is polled, a runner goes on until it returns, and a lease that
\* nobody renews runs out.  Nothing is assumed of the user or of a crash.
Unattended == status = "running" /\ \A r \in Runners : held[r] # token

Fairness ==
  /\ \A r \in Runners : WF_vars(Claim(r)) /\ WF_vars(Works(r))
  /\ WF_vars(Unattended /\ LeaseLapses)

LiveSpec == Spec /\ Fairness

-----------------------------------------------------------------------------
(* Properties.                                                             *)

FailedOnes == {s \in Symbols : symbol[s] = "failed"}

\* The counters of the run, the progress of the task and the stored rows agree with
\* the symbols at every moment, across claims, retries and crashes: a symbol has rows
\* exactly when it is decided, of the kind its result says, written under one claim.
CountersAgree ==
  /\ processed = Cardinality(Symbols \ Pending)
  /\ failedCount = Cardinality(FailedOnes)
  /\ progress = processed
  /\ \A s \in Symbols :
       /\ symbol[s] = "succeeded" <=> \E c \in Claims : <<s, c>> \in tradeRows
       /\ symbol[s] = "failed"    <=> \E c \in Claims : <<s, c>> \in failureRows
  /\ \A s \in Symbols : \A c, d \in Claims :
       {<<s, c>>, <<s, d>>} \subseteq tradeRows \union failureRows => c = d

\* A stored report summarises exactly the trades the run has, although they were read
\* before the transaction that stores it; and no finished run lacks a report, leaves a
\* symbol pending, or calls itself succeeded over a failure.
ReportIsComplete ==
  /\ \A report \in reports : report = tradeRows /\ Pending = {}
  /\ run \in {"succeeded", "partial_failed"} =>
       /\ reports # {} /\ Pending = {}
       /\ run = "succeeded" <=> FailedOnes = {}

\* A runner that still owns the claim never computes a symbol an earlier claim decided:
\* the snapshot it read after start_claim committed is still right.
WorkIsNotRepeated ==
  \A r \in Runners :
    Owns(r) /\ stage[r] \in {"loop", "computing", "checkpointed"} => todo[r] = Pending

\* Rows are written by the owner of the claim only, and what is written stays.
OnlyTheOwnerWrites ==
  [][/\ tradeRows \subseteq tradeRows' /\ failureRows \subseteq failureRows'
     /\ reports \subseteq reports'
     /\ \A row \in (tradeRows' \union failureRows') \ (tradeRows \union failureRows) :
          status = "running" /\ ~lapsed /\ row[2] = token]_vars

\* The claim of r was current, yet fail_claim failed and was swallowed: run_once has
\* failed the task, and no claim will ever come to the run again.
LeftBehind == status = "failed" /\ run \in Active

\* The run, not only its task, is decided in the end, unless a cancellation was
\* requested (it may be forgotten in a requeued row), startup recovery waits for the
\* user, or __call__ swallowed the failure of fail_claim and left the run behind.
RunIsDecided == []<>(run \notin Active \/ cancelRequested \/ recovery \/ LeftBehind)

\* The runs, claims and crashes of the code implement the promise of RunPublication.
Publication == INSTANCE RunPublication WITH
  published <- symbol,
  outcome   <- IF run \in Active THEN "open" ELSE run,
  reports   <- {{row[1] : row \in report} : report \in reports}

ImplementsPublication == Publication!PubSpec
=============================================================================
