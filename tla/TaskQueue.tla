------------------------------ MODULE TaskQueue ------------------------------
(***************************************************************************)
(* The durable task queue of stock_desk.tasks: the task_run table, the     *)
(* transactions TaskRepository runs on it, the workers that hold a claim,  *)
(* and the backtest_run / analysis_run row whose status the same           *)
(* transactions move.                                                      *)
(*                                                                         *)
(* Every action is one SQLite transaction (the first statement of each is  *)
(* an UPDATE, which takes the write lock) or one local step of a worker.   *)
(*                                                                         *)
(* Clocks.  An operation samples the wall clock before it waits for the    *)
(* write lock, and the wall clock may step back, so every operation acts   *)
(* on a sample that is `lag` ticks old, for some lag in 0..MaxLag.  Times  *)
(* are kept relative to the present: leaseLeft is lease_expires_at minus   *)
(* now, age is now minus updated_at.  Both are capped where no sample can  *)
(* tell larger values apart, which keeps the state finite with no bound on *)
(* the length of a run.                                                    *)
(***************************************************************************)
EXTENDS Integers

CONSTANTS
  Tasks,       \* task rows; a number is the row's rank by (created_at, id)
  Leased,      \* tasks of a leased kind: backtest.run and analysis.run
  Analyses,    \* the leased tasks of kind analysis.run
  Workers,     \* TaskWorker processes (compose) or the sidecar's worker thread
  Tokens,      \* claim tokens (uuid4)
  NoToken,     \* claim_token IS NULL
  NoTask,      \* the worker holds no claim
  LeaseTicks,  \* lease_duration
  MaxLag,      \* oldest clock sample an operation may act on
  MaxFaults,   \* bound: crashes, restarts and dead heartbeats in one run
  Desktop      \* TRUE: one sidecar with startup recovery; FALSE: compose

ASSUME TasksAssumption == Tasks \subseteq Nat
ASSUME KindsAssumption == Leased \subseteq Tasks /\ Analyses \subseteq Leased
ASSUME TokenAssumption == NoToken \notin Tokens /\ NoTask \notin Tasks
ASSUME ClockAssumption ==
  /\ LeaseTicks \in Nat /\ MaxLag \in Nat /\ MaxFaults \in Nat
  /\ LeaseTicks >= MaxLag + 2
ASSUME DesktopAssumption == Desktop \in BOOLEAN

VARIABLES
  status,           \* task_run.status; "absent" before the row is inserted
  cancelRequested,  \* task_run.cancel_requested
  claimToken,       \* task_run.claim_token
  leaseLeft,        \* task_run.lease_expires_at - now (0 when the row has no lease)
  age,              \* now - task_run.updated_at, capped at MaxLag
  run,              \* status of the backtest_run / analysis_run row of the task
  job,              \* job[w]: the task whose claim w holds
  token,            \* token[w]: the claim token w presents
  stage,            \* where w is in run_once
  beating,          \* w's keepalive still renews the lease
  recovery,         \* startup recovery: "none", "pending", "cancelling"
  selected,         \* rows cancel_desktop_recovery has read but not yet updated
  faults            \* faults so far

rowVars     == <<status, cancelRequested, claimToken, leaseLeft, age>>
workerVars  == <<job, token, stage, beating>>
desktopVars == <<recovery, selected>>
vars == <<rowVars, run, workerVars, desktopVars, faults>>

Terminal == {"succeeded", "failed", "cancelled"}
Active   == {"queued", "running"}
Lags     == 0..MaxLag

\* A sample can tell no value below -MaxLag from -MaxLag.
LeaseRange == (-MaxLag)..LeaseTicks

TypeOK ==
  /\ status \in [Tasks -> {"absent"} \union Active \union Terminal]
  /\ cancelRequested \in [Tasks -> BOOLEAN]
  /\ claimToken \in [Tasks -> Tokens \union {NoToken}]
  /\ leaseLeft \in [Tasks -> LeaseRange]
  /\ age \in [Tasks -> Lags]
  /\ run \in [Tasks -> {"none"} \union Active \union Terminal]
  /\ job \in [Workers -> Tasks \union {NoTask}]
  /\ token \in [Workers -> Tokens \union {NoToken}]
  /\ stage \in [Workers -> {"idle", "handling", "returned", "raised"}]
  /\ beating \in [Workers -> BOOLEAN]
  /\ recovery \in {"none", "pending", "cancelling"}
  /\ selected \in SUBSET Tasks
  /\ faults \in 0..MaxFaults

Init ==
  /\ status = [t \in Tasks |-> "absent"]
  /\ cancelRequested = [t \in Tasks |-> FALSE]
  /\ claimToken = [t \in Tasks |-> NoToken]
  /\ leaseLeft = [t \in Tasks |-> 0]
  /\ age = [t \in Tasks |-> 0]
  /\ run = [t \in Tasks |-> "none"]
  /\ job = [w \in Workers |-> NoTask]
  /\ token = [w \in Workers |-> NoToken]
  /\ stage = [w \in Workers |-> "idle"]
  /\ beating = [w \in Workers |-> FALSE]
  /\ recovery = "none"
  /\ selected = {}
  /\ faults = 0

-----------------------------------------------------------------------------
(* Clock, lease and ownership conditions of the SQL statements.            *)

\* Fault: a lease counts as lapsed one tick early.
ExpiredEarly(t, lag) == leaseLeft[t] + lag <= 1

\* lease_expires_at <= sampled_at, for a row that has a lease.
Expired(t, lag) == leaseLeft[t] + lag <= 0

\* sampled_at + duration, seen from now.
NewLease(lag) == LeaseTicks - lag

\* Fault: the raw sample becomes updated_at.
RawSampleAge(t, lag) == lag

\* _transition_time: the later of updated_at and the sample, so the younger.
TransitionAge(t, lag) == IF lag <= age[t] THEN lag ELSE age[t]

\* _ownership_condition, with the status test every caller adds to it.
Owns(w, lag) ==
  LET t == job[w] IN
  /\ status[t] = "running"
  /\ t \in Leased => claimToken[t] = token[w] /\ ~Expired(t, lag)

\* Fault: a claim may be handed a token somebody still holds.
ReusedTokens == Tokens

\* The uuid4 a claim draws is none that a row stores or a worker still holds.
FreshTokens ==
  Tokens \ ({claimToken[t] : t \in Tasks} \union {token[w] : w \in Workers})

\* The row columns every statement that takes a claim away sets to NULL.
DropClaim(S) ==
  /\ claimToken' = [t \in Tasks |-> IF t \in S THEN NoToken ELSE claimToken[t]]
  /\ leaseLeft'  = [t \in Tasks |-> IF t \in S THEN 0 ELSE leaseLeft[t]]

Touch(S, lag) ==
  age' = [t \in Tasks |-> IF t \in S THEN TransitionAge(t, lag) ELSE age[t]]

\* Cancelling rows cancels their domain runs that are still active.
CancelRuns(S) ==
  run' = [t \in Tasks |-> IF t \in S /\ run[t] \in Active THEN "cancelled" ELSE run[t]]

\* w forgets its claim: run_once returned, or the process is gone.
Release(W) ==
  /\ job'     = [w \in Workers |-> IF w \in W THEN NoTask ELSE job[w]]
  /\ token'   = [w \in Workers |-> IF w \in W THEN NoToken ELSE token[w]]
  /\ stage'   = [w \in Workers |-> IF w \in W THEN "idle" ELSE stage[w]]
  /\ beating' = [w \in Workers |-> IF w \in W THEN FALSE ELSE beating[w]]

-----------------------------------------------------------------------------
(* Requests of the API.                                                    *)

Enqueue(t, lag) ==
  /\ status[t] = "absent"
  /\ status' = [status EXCEPT ![t] = "queued"]
  /\ age' = [age EXCEPT ![t] = lag]
  /\ run' = [run EXCEPT ![t] = IF t \in Leased THEN "queued" ELSE "none"]
  /\ UNCHANGED <<cancelRequested, claimToken, leaseLeft, workerVars, desktopVars, faults>>

\* Fault: the UPDATE forgets its status condition.
CancelWhateverStatus(t, lag) ==
  /\ status[t] # "absent"
  /\ status' = [status EXCEPT ![t] = "cancelled"]
  /\ cancelRequested' = [cancelRequested EXCEPT ![t] = TRUE]
  /\ run' = [run EXCEPT ![t] = IF @ = "queued" THEN "cancelled" ELSE @]
  /\ Touch({t}, lag)
  /\ UNCHANGED <<claimToken, leaseLeft, workerVars, desktopVars, faults>>

\* A queued task is cancelled on the spot, with its run if that is still queued.
RequestCancelQueued(t, lag) ==
  /\ status[t] = "queued"
  /\ status' = [status EXCEPT ![t] = "cancelled"]
  /\ cancelRequested' = [cancelRequested EXCEPT ![t] = TRUE]
  /\ run' = [run EXCEPT ![t] = IF @ = "queued" THEN "cancelled" ELSE @]
  /\ Touch({t}, lag)
  /\ UNCHANGED <<claimToken, leaseLeft, workerVars, desktopVars, faults>>

\* A running task only remembers the request.
RequestCancelRunning(t, lag) ==
  /\ status[t] = "running"
  /\ cancelRequested' = [cancelRequested EXCEPT ![t] = TRUE]
  /\ Touch({t}, lag)
  /\ UNCHANGED <<status, claimToken, leaseLeft, run, workerVars, desktopVars, faults>>

-----------------------------------------------------------------------------
(* Claiming.                                                               *)

\* _terminalize_expired_cancellations: nobody may resume these.
ExpiredCancellations(lag) ==
  {t \in Leased : status[t] = "running" /\ cancelRequested[t] /\ Expired(t, lag)}

\* Fault: expired claims are never taken over.
OnlyQueued(lag) == {t \in Tasks : ~cancelRequested[t] /\ status[t] = "queued"}

\* Fault: the expiry branch forgets the kind, and an unleased row has no lease left.
ClaimableAnyKind(lag) ==
  {t \in Tasks :
     /\ ~cancelRequested[t]
     /\ status[t] = "queued" \/ (status[t] = "running" /\ Expired(t, lag))}

Claimable(lag) ==
  {t \in Tasks :
     /\ ~cancelRequested[t]
     /\ \/ status[t] = "queued"
        \/ t \in Leased /\ status[t] = "running" /\ Expired(t, lag)}

\* claim_next refuses while claim_stop is set, which startup recovery does.
MayClaim(w) == stage[w] = "idle" /\ recovery = "none"

ClaimTask(w, t, tok, lag) ==
  /\ MayClaim(w)
  /\ t \in Claimable(lag) /\ \A u \in Claimable(lag) : t <= u
  /\ tok \in IF t \in Leased THEN FreshTokens ELSE {NoToken}
  /\ LET ended == ExpiredCancellations(lag) IN
     /\ status' = [u \in Tasks |-> IF u = t THEN "running"
                                   ELSE IF u \in ended THEN "cancelled" ELSE status[u]]
     /\ claimToken' = [u \in Tasks |-> IF u = t THEN tok
                                       ELSE IF u \in ended THEN NoToken ELSE claimToken[u]]
     /\ leaseLeft' = [u \in Tasks |->
          IF u = t THEN (IF t \in Leased THEN NewLease(lag) ELSE 0)
          ELSE IF u \in ended THEN 0 ELSE leaseLeft[u]]
     /\ Touch({t} \union ended, lag)
     /\ CancelRuns(ended)
  /\ job' = [job EXCEPT ![w] = t]
  /\ token' = [token EXCEPT ![w] = tok]
  /\ stage' = [stage EXCEPT ![w] = "handling"]
  /\ beating' = [beating EXCEPT ![w] = t \in Leased]
  /\ UNCHANGED <<cancelRequested, desktopVars, faults>>

\* Nothing to claim: the transaction still ends the expired cancelled claims.
ClaimNothing(w, lag) ==
  /\ MayClaim(w)
  /\ Claimable(lag) = {}
  /\ LET ended == ExpiredCancellations(lag) IN
     /\ ended # {}
     /\ status' = [u \in Tasks |-> IF u \in ended THEN "cancelled" ELSE status[u]]
     /\ DropClaim(ended)
     /\ Touch(ended, lag)
     /\ CancelRuns(ended)
  /\ UNCHANGED <<cancelRequested, workerVars, desktopVars, faults>>

-----------------------------------------------------------------------------
(* What a worker does with its claim.                                      *)

\* heartbeat: renewed also for a task whose cancellation was requested.
Heartbeat(w, lag) ==
  /\ stage[w] = "handling" /\ beating[w]
  /\ IF Owns(w, lag)
     THEN /\ leaseLeft' = [leaseLeft EXCEPT ![job[w]] = NewLease(lag)]
          /\ Touch({job[w]}, lag)
          /\ UNCHANGED beating
     ELSE /\ beating' = [beating EXCEPT ![w] = FALSE]   \* TaskConflict stops the loop
          /\ UNCHANGED <<leaseLeft, age>>
  /\ UNCHANGED <<status, cancelRequested, claimToken, run, job, token, stage, desktopVars, faults>>

\* set_progress, or a domain checkpoint behind guard_claim_in_transaction.
Progress(w, lag) ==
  /\ stage[w] = "handling"
  /\ Owns(w, lag)
  /\ job[w] \in Leased => run[job[w]] = "running"
  /\ Touch({job[w]}, lag)
  /\ UNCHANGED <<status, cancelRequested, claimToken, leaseLeft, run, workerVars, desktopVars, faults>>

\* start_claim / start_run / resume_run.
StartRun(w, lag) ==
  /\ stage[w] = "handling" /\ job[w] \in Leased
  /\ Owns(w, lag)
  /\ run[job[w]] \in Active
  /\ run' = [run EXCEPT ![job[w]] = "running"]
  /\ Touch({job[w]}, lag)
  /\ UNCHANGED <<status, cancelRequested, claimToken, leaseLeft, workerVars, desktopVars, faults>>

\* A requested cancellation wins over whatever the handler reports.
Outcome(t, reported) == IF cancelRequested[t] THEN "cancelled" ELSE reported

EndTask(w, reported, lag) ==
  LET t == job[w] IN
  /\ status' = [status EXCEPT ![t] = Outcome(t, reported)]
  /\ DropClaim({t})
  /\ Touch({t}, lag)

\* Leaving the keepalive may raise what its thread died of, after the commit.
LeavesKeepalive(w) ==
  \E ending \in {"returned", "raised"} : stage' = [stage EXCEPT ![w] = ending]

\* Fault: the run is finished as succeeded although its task ended cancelled.
FinishRunIgnoringCancel(w, lag) ==
  /\ stage[w] = "handling" /\ job[w] \in Leased
  /\ Owns(w, lag)
  /\ run[job[w]] = "running"
  /\ EndTask(w, "succeeded", lag)
  /\ run' = [run EXCEPT ![job[w]] = "succeeded"]
  /\ LeavesKeepalive(w)
  /\ UNCHANGED <<cancelRequested, job, token, beating, desktopVars, faults>>

\* finish_claim / finalize_run: task and run end in one transaction.
FinishRun(w, lag) ==
  /\ stage[w] = "handling" /\ job[w] \in Leased
  /\ Owns(w, lag)
  /\ run[job[w]] = "running"
  /\ EndTask(w, "succeeded", lag)
  /\ run' = [run EXCEPT ![job[w]] = Outcome(job[w], "succeeded")]
  /\ LeavesKeepalive(w)
  /\ UNCHANGED <<cancelRequested, job, token, beating, desktopVars, faults>>

\* cancel_claim / cancel_run, at the handler's next safe point.
CancelRun(w, lag) ==
  /\ stage[w] = "handling" /\ job[w] \in Leased
  /\ Owns(w, lag)
  /\ cancelRequested[job[w]]
  /\ run[job[w]] = "running"
  /\ run' = [run EXCEPT ![job[w]] = "cancelled"]
  /\ EndTask(w, "succeeded", lag)
  /\ LeavesKeepalive(w)
  /\ UNCHANGED <<cancelRequested, job, token, beating, desktopVars, faults>>

\* fail_claim / fail_run; analysis.fail_run fails the run even when the task
\* ends cancelled.  The handler then re-raises.
FailRun(w, lag) ==
  /\ stage[w] = "handling" /\ job[w] \in Leased
  /\ Owns(w, lag)
  /\ run[job[w]] \in Active
  /\ EndTask(w, "failed", lag)
  /\ run' = [run EXCEPT ![job[w]] =
               IF job[w] \in Analyses THEN "failed" ELSE Outcome(job[w], "failed")]
  /\ stage' = [stage EXCEPT ![w] = "raised"]
  /\ UNCHANGED <<cancelRequested, job, token, beating, desktopVars, faults>>

\* The handler raises and the domain could not be failed (stale claim, or
\* fail_claim itself failed and was swallowed).
HandlerRaises(w) ==
  /\ stage[w] = "handling"
  /\ stage' = [stage EXCEPT ![w] = "raised"]
  /\ UNCHANGED <<rowVars, run, job, token, beating, desktopVars, faults>>

\* A handler of a kind without a lease returns its result.
HandlerReturns(w) ==
  /\ stage[w] = "handling" /\ job[w] \notin Leased
  /\ stage' = [stage EXCEPT ![w] = "returned"]
  /\ UNCHANGED <<rowVars, run, job, token, beating, desktopVars, faults>>

\* run_once: complete(...) after the handler; TaskConflict is ignored.
WorkerCompletes(w, lag) ==
  /\ stage[w] = "returned"
  /\ IF Owns(w, lag) THEN EndTask(w, "succeeded", lag)
     ELSE UNCHANGED <<status, claimToken, leaseLeft, age>>
  /\ Release({w})
  /\ UNCHANGED <<cancelRequested, run, desktopVars, faults>>

\* run_once: fail(...) after the handler raised; TaskConflict is ignored.
WorkerFails(w, lag) ==
  /\ stage[w] = "raised"
  /\ IF Owns(w, lag) THEN EndTask(w, "failed", lag)
     ELSE UNCHANGED <<status, claimToken, leaseLeft, age>>
  /\ Release({w})
  /\ UNCHANGED <<cancelRequested, run, desktopVars, faults>>

\* DesktopCheckpointPause unwinds the handler; the row stays running.
PauseAtCheckpoint(w) ==
  /\ Desktop
  /\ stage[w] = "handling" /\ status[job[w]] = "running"
  /\ Release({w})
  /\ UNCHANGED <<rowVars, run, desktopVars, faults>>

-----------------------------------------------------------------------------
(* Faults, and the recovery that follows them.                             *)

Fault == faults < MaxFaults /\ faults' = faults + 1

\* Compose: a worker process dies; its rows and leases stay behind.
Crash(w) ==
  /\ ~Desktop /\ stage[w] # "idle"
  /\ Fault
  /\ Release({w})
  /\ UNCHANGED <<rowVars, run, desktopVars>>

\* The keepalive dies or the process is suspended: the handler goes on.
HeartbeatStops(w) ==
  /\ beating[w]
  /\ Fault
  /\ beating' = [beating EXCEPT ![w] = FALSE]
  /\ UNCHANGED <<rowVars, run, job, token, stage, desktopVars>>

\* initialize_startup_recovery: unfinished rows hold back every claim.
StartupRecovery(st) ==
  IF Desktop /\ \E t \in Tasks : st[t] \in Active THEN "pending" ELSE "none"

\* Desktop: the sidecar ends, however it ends, and is started again.
Restart ==
  /\ Desktop
  /\ Fault
  /\ Release(Workers)
  /\ recovery' = StartupRecovery(status)
  /\ selected' = {}
  /\ UNCHANGED <<rowVars, run>>

\* Fault: resuming also forgets the cancellations that were requested.
RecoveryResumeForgetful(lag) ==
  /\ recovery = "pending"
  /\ LET abandoned == {t \in Tasks : status[t] = "running"} IN
     /\ status' = [t \in Tasks |-> IF t \in abandoned THEN "queued" ELSE status[t]]
     /\ cancelRequested' = [t \in Tasks |-> t \notin abandoned /\ cancelRequested[t]]
     /\ DropClaim(abandoned)
     /\ Touch(abandoned, lag)
  /\ recovery' = "none"
  /\ UNCHANGED <<run, workerVars, selected, faults>>

\* resume_desktop_recovery, then complete_startup_recovery.
RecoveryResume(lag) ==
  /\ recovery = "pending"
  /\ LET abandoned == {t \in Tasks : status[t] = "running"} IN
     /\ status' = [t \in Tasks |-> IF t \in abandoned THEN "queued" ELSE status[t]]
     /\ DropClaim(abandoned)
     /\ Touch(abandoned, lag)
  /\ recovery' = "none"
  /\ UNCHANGED <<cancelRequested, run, workerVars, selected, faults>>

\* cancel_desktop_recovery reads the active rows outside a transaction ...
RecoveryCancelSelect ==
  /\ recovery = "pending"
  /\ selected' = {t \in Tasks : status[t] \in Active}
  /\ recovery' = IF selected' = {} THEN "none" ELSE "cancelling"
  /\ UNCHANGED <<rowVars, run, workerVars, faults>>

\* ... and then updates them by id, whatever their status has become, with the
\* raw clock sample as updated_at.
RecoveryCancelApply(lag) ==
  /\ recovery = "cancelling"
  /\ status' = [t \in Tasks |-> IF t \in selected THEN "cancelled" ELSE status[t]]
  /\ cancelRequested' = [t \in Tasks |-> t \in selected \/ cancelRequested[t]]
  /\ DropClaim(selected)
  /\ age' = [t \in Tasks |-> IF t \in selected THEN lag ELSE age[t]]
  /\ CancelRuns(selected)
  /\ recovery' = "none"
  /\ selected' = {}
  /\ UNCHANGED <<workerVars, faults>>

\* requeue_expired_leases_for_offline_snapshot: restore holds the lifecycle
\* gate, so no worker process is alive; the services are started afterwards.
OfflineRequeue(lag) ==
  /\ \A w \in Workers : stage[w] = "idle"
  /\ recovery # "cancelling"
  /\ LET ended     == ExpiredCancellations(lag)
         abandoned == {t \in Leased : /\ status[t] = "running" /\ ~cancelRequested[t]
                                      /\ Expired(t, lag)}
     IN /\ ended \union abandoned # {}
        /\ status' = [t \in Tasks |-> IF t \in ended THEN "cancelled"
                                      ELSE IF t \in abandoned THEN "queued" ELSE status[t]]
        /\ DropClaim(ended \union abandoned)
        /\ Touch(ended \union abandoned, lag)
        /\ CancelRuns(ended)
  /\ recovery' = StartupRecovery(status')
  /\ UNCHANGED <<cancelRequested, workerVars, selected, faults>>

-----------------------------------------------------------------------------
(* Time.                                                                   *)

\* The keepalive renews well before the lease runs out (every 30 s of a 120 s
\* lease, every 10 s of a 30 s lease), so a renewed lease never lapses.
KeptAlive(t) ==
  \E w \in Workers : /\ beating[w] /\ job[w] = t
                     /\ status[t] = "running" /\ claimToken[t] = token[w]

Tick ==
  /\ \A t \in Leased : KeptAlive(t) => leaseLeft[t] > 1
  /\ leaseLeft' = [t \in Tasks |-> IF claimToken[t] = NoToken \/ leaseLeft[t] = -MaxLag
                                   THEN leaseLeft[t] ELSE leaseLeft[t] - 1]
  /\ age' = [t \in Tasks |-> IF age[t] < MaxLag THEN age[t] + 1 ELSE age[t]]
  /\ UNCHANGED <<status, cancelRequested, claimToken, run, workerVars, desktopVars, faults>>

-----------------------------------------------------------------------------
ApiStep ==
  \E t \in Tasks, lag \in Lags :
    Enqueue(t, lag) \/ RequestCancelQueued(t, lag) \/ RequestCancelRunning(t, lag)

ClaimStep(w) ==
  \E lag \in Lags :
    \/ ClaimNothing(w, lag)
    \/ \E t \in Tasks, tok \in Tokens \union {NoToken} : ClaimTask(w, t, tok, lag)

\* The steps with which a handler ends.
HandlerEnds(w) ==
  \/ \E lag \in Lags : FinishRun(w, lag) \/ CancelRun(w, lag) \/ FailRun(w, lag)
  \/ HandlerRaises(w) \/ HandlerReturns(w)

RunOnceEnds(w) == \E lag \in Lags : WorkerCompletes(w, lag) \/ WorkerFails(w, lag)

WorkerStep(w) ==
  \/ ClaimStep(w) \/ HandlerEnds(w) \/ RunOnceEnds(w) \/ PauseAtCheckpoint(w)
  \/ \E lag \in Lags : Heartbeat(w, lag) \/ Progress(w, lag) \/ StartRun(w, lag)

RecoveryStep ==
  \/ RecoveryCancelSelect
  \/ \E lag \in Lags : RecoveryResume(lag) \/ RecoveryCancelApply(lag)

FaultStep ==
  \/ Restart
  \/ \E w \in Workers : Crash(w) \/ HeartbeatStops(w)

Next ==
  \/ ApiStep \/ RecoveryStep \/ FaultStep \/ Tick
  \/ \E w \in Workers : WorkerStep(w)
  \/ \E lag \in Lags : OfflineRequeue(lag)

Spec == Init /\ [][Next]_vars

(***************************************************************************)
(* Fairness: time passes, workers poll the queue, keepalives run, handlers *)
(* are bounded and end, run_once finishes, and a user who sees the         *)
(* recovery dialog answers it.  Users are not obliged to create or cancel  *)
(* anything, and faults never have to happen.                              *)
(***************************************************************************)
Fairness ==
  /\ WF_vars(Tick)
  /\ WF_vars(RecoveryStep)
  /\ \A w \in Workers :
       /\ WF_vars(ClaimStep(w))
       /\ WF_vars(HandlerEnds(w))
       /\ WF_vars(RunOnceEnds(w))
       /\ WF_vars(\E lag \in Lags : Heartbeat(w, lag))

FairSpec == Spec /\ Fairness
-----------------------------------------------------------------------------
(* Safety.                                                                 *)

\* A cancellation accepted while the task was active is never overtaken by the
\* handler's result: cancel, complete and fail race on the same row, and the
\* loser of the race must still leave the row cancelled.
CancelWins ==
  \A t \in Tasks : cancelRequested[t] => status[t] \notin {"succeeded", "failed"}

\* Fencing: of all the workers that still run a handler for a leased task, at
\* most one can write; every other one holds a token the row has outlived.
OneWriter ==
  \A v, w \in Workers : v # w /\ job[v] = job[w] /\ job[v] \in Leased =>
    ~(claimToken[job[v]] = token[v] /\ claimToken[job[w]] = token[w])

\* A kind without a lease has no token to fence with, so two handlers of one
\* such task may never run at the same time.
UnleasedRunsAlone ==
  \A v, w \in Workers : v # w /\ job[v] = job[w] => job[v] \notin Tasks \ Leased

\* A worker that runs an unleased task runs the task's only incarnation: the row
\* is still running, so the result it reports is not dropped.
UnleasedStaysOwned ==
  \A w \in Workers : job[w] \in Tasks \ Leased => status[job[w]] = "running"

\* Only a running leased row carries a lease, and every one of them does, so an
\* abandoned row is always found by the expiry scan of some later claim.
LeaseExactlyWhileRunning ==
  \A t \in Tasks : claimToken[t] # NoToken <=> t \in Leased /\ status[t] = "running"

\* The outcome shown for a backtest or an analysis is the outcome of its task:
\* a run that has ended belongs to a task that ended the same way (an analysis
\* that failed while being cancelled keeps "failed"), and no task of theirs
\* succeeds unless its run did.
RunOutcomeAgrees ==
  \A t \in Leased :
    /\ run[t] \in {"succeeded", "cancelled"} => status[t] = run[t]
    /\ run[t] = "failed" => \/ status[t] = "failed"
                            \/ t \in Analyses /\ status[t] = "cancelled"
    /\ status[t] = "succeeded" => run[t] = "succeeded"

\* While startup recovery waits for the user no handler runs.
RecoveryIsQuiet ==
  recovery # "none" => \A w \in Workers : stage[w] = "idle"

\* Declining recovery never overwrites a success or a failure, although the
\* rows it updates were selected outside the transaction.
SelectedStillOpen ==
  \A t \in selected : status[t] \in Active \union {"cancelled"}

-----------------------------------------------------------------------------
(* What no step may do.                                                    *)

\* updated_at of an existing row never moves back, however old the clock sample
\* of the writer (the docstring of _transition_time).  Time passing is the only
\* thing that makes a row older.
TimestampsMonotone ==
  [][Tick \/ \A t \in Tasks : status[t] = "absent" \/ age'[t] <= age[t]]_vars

\* A lease is taken from a handler whose keepalive still works only by ending
\* the task or, on the desktop, by stopping the process.
NoTheftFromLiveWorker ==
  [][\A w \in Workers :
       beating[w] /\ job[w] \in Leased /\ claimToken[job[w]] = token[w] =>
         \/ claimToken'[job[w]] = token[w]
         \/ status'[job[w]] \in Terminal
         \/ stage'[w] = "idle"]_vars

\* Cancelling a queued task ends its domain run in the same transaction.
\* (tests/integration/analysis/test_analysis_repository.py:207
\* "queued task cancellation terminalizes analysis domain rows".)
QueuedCancelEndsRun ==
  [][\A t \in Leased :
       status[t] = "queued" /\ status'[t] = "cancelled" => run'[t] \in Terminal]_vars

Lifecycle == INSTANCE TaskLifecycle

\* The queue implements the abstract task lifecycle: rows end once, and a
\* cancellation is never forgotten.
ImplementsLifecycle == Lifecycle!Spec

-----------------------------------------------------------------------------
(* Liveness.                                                               *)

\* A submitted backtest or analysis ends, also when it is cancelled and when workers
\* die under it (_claim_next_without_gate, _terminalize_expired_cancellations).
LeasedTaskEnds ==
  \A t \in Leased : (status[t] = "queued") ~> (status[t] \in Terminal)
=============================================================================
