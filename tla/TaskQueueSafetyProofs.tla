------------------------ MODULE TaskQueueSafetyProofs ------------------------
(***************************************************************************)
(* Who may write to a row: claims, tokens, leases, and the run whose       *)
(* outcome follows its task.  Proved on top of the invariants of           *)
(* TaskQueueProofs.                                                        *)
(***************************************************************************)
EXTENDS TaskQueueProofs

-----------------------------------------------------------------------------
(* A row has a claim exactly while it runs under a lease.                  *)

LEMMA LeaseExactlyStep ==
  ASSUME TypeHolding, LeaseExactlyWhileRunning, [Next]_vars
  PROVE  LeaseExactlyWhileRunning'
<1> USE TokenAssumption, KindsAssumption
<1> USE DEF TypeHolding, TypeOK, LeaseExactlyWhileRunning, DropClaim
<1>1. ASSUME NEW t \in Tasks, NEW lag \in Lags,
             Enqueue(t, lag) \/ RequestCancelQueued(t, lag)
      PROVE  LeaseExactlyWhileRunning'
  BY <1>1 DEF Enqueue, RequestCancelQueued
<1>2. ASSUME NEW w \in Workers, NEW lag \in Lags, ClaimNothing(w, lag)
      PROVE  LeaseExactlyWhileRunning'
  BY <1>2 DEF ClaimNothing
<1>3. ASSUME NEW w \in Workers, NEW lag \in Lags, NEW t \in Tasks,
             NEW tok \in Tokens \union {NoToken}, ClaimTask(w, t, tok, lag)
      PROVE  LeaseExactlyWhileRunning'
  BY <1>3 DEF ClaimTask, FreshTokens
<1>4. ASSUME NEW w \in Workers, NEW lag \in Lags, NEW reported \in {"succeeded", "failed"},
             job[w] \in Tasks, EndTask(w, reported, lag)
      PROVE  LeaseExactlyWhileRunning'
  BY <1>4 DEF EndTask, Outcome
<1>5. ASSUME NEW w \in Workers, NEW lag \in Lags,
             \/ FinishRun(w, lag) \/ CancelRun(w, lag) \/ FailRun(w, lag)
             \/ WorkerCompletes(w, lag) \/ WorkerFails(w, lag)
      PROVE  LeaseExactlyWhileRunning'
  <2>1. job[w] \in Tasks
    BY <1>5 DEF FinishRun, CancelRun, FailRun, WorkerCompletes, WorkerFails, Holding
  <2>2. \/ EndTask(w, "succeeded", lag) \/ EndTask(w, "failed", lag)
        \/ UNCHANGED <<status, claimToken>>
    BY <1>5 DEF FinishRun, CancelRun, FailRun, WorkerCompletes, WorkerFails
  <2>3. QED BY <1>4, <2>1, <2>2
<1>6. ASSUME NEW lag \in Lags,
             RecoveryResume(lag) \/ RecoveryCancelApply(lag) \/ OfflineRequeue(lag)
      PROVE  LeaseExactlyWhileRunning'
  BY <1>6 DEF RecoveryResume, RecoveryCancelApply, OfflineRequeue, ExpiredCancellations
<1>7. CASE UNCHANGED <<status, claimToken>>
  BY <1>7
<1>8. QED
  BY StepCases, <1>1, <1>2, <1>3, <1>5, <1>6, <1>7
     DEF RequestCancelRunning, Heartbeat, Progress, StartRun, HandlerRaises, HandlerReturns,
         PauseAtCheckpoint, Crash, HeartbeatStops, Restart, RecoveryCancelSelect, Tick, vars, rowVars

-----------------------------------------------------------------------------
(* Fencing tokens.                                                         *)

\* No two workers hold the same token.
UniqueTokens ==
  \A v, w \in Workers : token[v] = token[w] /\ token[v] # NoToken => v = w

\* What a step may do to the token of a worker, and so to UniqueTokens.
LEMMA TokenSteps ==
  ASSUME TypeHolding, [Next]_vars
  PROVE  \/ \A v \in Workers : token'[v] \in {token[v], NoToken}
         \/ \E w \in Workers, tok \in FreshTokens : token' = [token EXCEPT ![w] = tok]
<1> USE DEF TypeHolding, TypeOK
<1>1. ASSUME NEW w \in Workers, NEW lag \in Lags, NEW t \in Tasks,
             NEW tok \in Tokens \union {NoToken}, ClaimTask(w, t, tok, lag)
      PROVE  \/ \A v \in Workers : token'[v] \in {token[v], NoToken}
             \/ \E v \in Workers, fresh \in FreshTokens : token' = [token EXCEPT ![v] = fresh]
  <2>1. CASE t \in Leased
    BY <1>1, <2>1 DEF ClaimTask
  <2>2. CASE t \notin Leased
    BY <1>1, <2>2 DEF ClaimTask
  <2>3. QED BY <2>1, <2>2
<1>2. ASSUME NEW W, Release(W)
      PROVE  \A v \in Workers : token'[v] \in {token[v], NoToken}
  BY <1>2 DEF Release
<1>3. QED
  BY StepCases, <1>1, <1>2
     DEF Enqueue, RequestCancelQueued, RequestCancelRunning, ClaimNothing, Heartbeat, Progress,
         StartRun, FinishRun, CancelRun, FailRun, WorkerCompletes, WorkerFails, HandlerRaises,
         HandlerReturns, PauseAtCheckpoint, Crash, HeartbeatStops, Restart, RecoveryCancelSelect,
         RecoveryResume, RecoveryCancelApply, OfflineRequeue, Tick, vars, workerVars

LEMMA UniqueTokensStep ==
  ASSUME TypeHolding, UniqueTokens, [Next]_vars
  PROVE  UniqueTokens'
BY TokenSteps, TokenAssumption DEF TypeHolding, TypeOK, UniqueTokens, FreshTokens

\* Distinct tokens leave at most one of them equal to the row's.
LEMMA UniqueTokensFence ==
  ASSUME TypeHolding, UniqueTokens
  PROVE  OneWriter
BY DEF TypeHolding, Holding, UniqueTokens, OneWriter

-----------------------------------------------------------------------------
(* Kinds without a lease.                                                  *)

Unleased == UnleasedRunsAlone /\ UnleasedStaysOwned

LEMMA UnleasedStep ==
  ASSUME TypeHolding, RecoveryIsQuiet, Unleased, [Next]_vars
  PROVE  Unleased'
<1> USE TokenAssumption, KindsAssumption
<1> USE DEF TypeHolding, TypeOK, Unleased, UnleasedRunsAlone, UnleasedStaysOwned
<1>1. ASSUME NEW t \in Tasks, NEW lag \in Lags,
             Enqueue(t, lag) \/ RequestCancelQueued(t, lag)
      PROVE  Unleased'
  BY <1>1 DEF Enqueue, RequestCancelQueued, workerVars
<1>2. ASSUME NEW w \in Workers, NEW lag \in Lags, ClaimNothing(w, lag)
      PROVE  Unleased'
  BY <1>2 DEF ClaimNothing, ExpiredCancellations, workerVars
<1>3. ASSUME NEW w \in Workers, NEW lag \in Lags, NEW t \in Tasks,
             NEW tok \in Tokens \union {NoToken}, ClaimTask(w, t, tok, lag)
      PROVE  Unleased'
  <2>1. t \in Tasks \ Leased => \A v \in Workers : job[v] # t
    BY <1>3 DEF ClaimTask, Claimable
  <2>2. UnleasedRunsAlone'
    BY <1>3, <2>1 DEF ClaimTask
  <2>3. UnleasedStaysOwned'
    BY <1>3 DEF ClaimTask, ExpiredCancellations
  <2>4. QED BY <2>2, <2>3
<1>4. ASSUME NEW w \in Workers, NEW lag \in Lags,
             FinishRun(w, lag) \/ CancelRun(w, lag) \/ FailRun(w, lag)
      PROVE  Unleased'
  BY <1>4 DEF FinishRun, CancelRun, FailRun, EndTask
<1>5. ASSUME NEW w \in Workers, NEW lag \in Lags, WorkerCompletes(w, lag) \/ WorkerFails(w, lag)
      PROVE  Unleased'
  <2>1. /\ \A v \in Workers : job'[v] = (IF v = w THEN NoTask ELSE job[v])
        /\ \A u \in Tasks : u # job[w] => status'[u] = status[u]
    <3>1. \/ EndTask(w, "succeeded", lag) \/ EndTask(w, "failed", lag)
          \/ UNCHANGED status
      BY <1>5 DEF WorkerCompletes, WorkerFails
    <3>2. \A u \in Tasks : u # job[w] => status'[u] = status[u]
      BY <3>1 DEF EndTask
    <3>3. job' = [v \in Workers |-> IF v \in {w} THEN NoTask ELSE job[v]]
      BY <1>5 DEF WorkerCompletes, WorkerFails, Release
    <3>4. QED BY <3>2, <3>3
  <2>2. UnleasedRunsAlone'
    BY <2>1
  <2>3. ASSUME NEW v \in Workers, job'[v] \in Tasks \ Leased
        PROVE  status'[job'[v]] = "running"
    <3>1. v # w /\ job'[v] = job[v]
      BY <2>1, <2>3
    <3>2. job[v] # job[w]
      BY <2>3, <3>1
    <3>3. QED BY <2>1, <2>3, <3>1, <3>2
  <2>4. QED BY <2>2, <2>3
<1>6. ASSUME NEW W, Release(W), UNCHANGED status
      PROVE  Unleased'
  BY <1>6 DEF Release
<1>7. ASSUME NEW lag \in Lags,
             RecoveryResume(lag) \/ RecoveryCancelApply(lag) \/ OfflineRequeue(lag)
      PROVE  Unleased'
  <2>1. \A w \in Workers : job[w] = NoTask
    BY <1>7 DEF RecoveryResume, RecoveryCancelApply, OfflineRequeue, RecoveryIsQuiet, Holding
  <2>2. QED
    BY <1>7, <2>1 DEF RecoveryResume, RecoveryCancelApply, OfflineRequeue, workerVars
<1>8. CASE UNCHANGED <<status, job>>
  BY <1>8
<1>9. QED
  BY StepCases, <1>1, <1>2, <1>3, <1>4, <1>5, <1>6, <1>7, <1>8
     DEF RequestCancelRunning, Heartbeat, Progress, StartRun, HandlerRaises, HandlerReturns,
         PauseAtCheckpoint, Crash, HeartbeatStops, Restart, RecoveryCancelSelect, Tick, vars,
         rowVars, workerVars

-----------------------------------------------------------------------------
(* The invariant behind the claims.                                        *)

ClaimInv ==
  /\ LifecycleInv
  /\ LeaseExactlyWhileRunning /\ UniqueTokens /\ Unleased

LEMMA ClaimInvInit == Init => ClaimInv
BY LifecycleInvInit, TokenAssumption
   DEF Init, ClaimInv, LeaseExactlyWhileRunning, UniqueTokens, Unleased, UnleasedRunsAlone,
       UnleasedStaysOwned

LEMMA ClaimInvStep == ClaimInv /\ [Next]_vars => ClaimInv'
BY LifecycleInvStep, LeaseExactlyStep, UniqueTokensStep, UnleasedStep DEF ClaimInv, LifecycleInv

\* Exactly the running rows of a leased kind carry a claim token, so every
\* abandoned one is visible to the expiry scan of _claim_next_without_gate.
THEOREM ClaimsMatchRows == Spec => []LeaseExactlyWhileRunning
<1>1. ClaimInv => LeaseExactlyWhileRunning
  BY DEF ClaimInv
<1>2. QED
  BY <1>1, ClaimInvInit, ClaimInvStep, PTL DEF Spec

\* Of all the handlers that still run one leased task, the ownership condition
\* of _ownership_condition lets at most one write.
THEOREM Fencing == Spec => []OneWriter
<1>1. ClaimInv => OneWriter
  BY UniqueTokensFence DEF ClaimInv, LifecycleInv
<1>2. QED
  BY <1>1, ClaimInvInit, ClaimInvStep, PTL DEF Spec

\* A task of a kind without a lease runs in one worker at a time, and that
\* worker's result is not dropped.
THEOREM UnleasedExclusive == Spec => [](UnleasedRunsAlone /\ UnleasedStaysOwned)
<1>1. ClaimInv => UnleasedRunsAlone /\ UnleasedStaysOwned
  BY DEF ClaimInv, Unleased
<1>2. QED
  BY <1>1, ClaimInvInit, ClaimInvStep, PTL DEF Spec

-----------------------------------------------------------------------------
(* The run of a leased task ends as its task does.                         *)

\* A handler that returned after its domain transaction ended the task presents
\* a token the row has outlived, so the worker's own complete() changes nothing.
ReturnedIsFenced ==
  \A w \in Workers :
    stage[w] = "returned" /\ job[w] \in Leased => claimToken[job[w]] # token[w]

\* A row only ever drops its token or draws one that nobody holds.
LEMMA RowTokenSteps ==
  ASSUME TypeHolding, [Next]_vars, NEW t \in Tasks
  PROVE  claimToken'[t] \in {claimToken[t], NoToken} \union FreshTokens
<1> USE DEF TypeHolding, TypeOK
<1>1. ASSUME NEW w \in Workers, NEW lag \in Lags, NEW u \in Tasks,
             NEW tok \in Tokens \union {NoToken}, ClaimTask(w, u, tok, lag)
      PROVE  claimToken'[t] \in {claimToken[t], NoToken} \union FreshTokens
  <2>1. tok \in {NoToken} \union FreshTokens
    BY <1>1 DEF ClaimTask
  <2>2. claimToken'[t] \in {claimToken[t], NoToken, tok}
    BY <1>1 DEF ClaimTask
  <2>3. QED BY <2>1, <2>2
<1>2. ASSUME NEW S, DropClaim(S)
      PROVE  claimToken'[t] \in {claimToken[t], NoToken}
  BY <1>2 DEF DropClaim
<1>3. QED
  BY StepCases, <1>1, <1>2
     DEF Enqueue, RequestCancelQueued, RequestCancelRunning, ClaimNothing, Heartbeat, Progress,
         StartRun, FinishRun, CancelRun, FailRun, WorkerCompletes, WorkerFails, EndTask,
         HandlerRaises, HandlerReturns, PauseAtCheckpoint, Crash, HeartbeatStops, Restart,
         RecoveryCancelSelect, RecoveryResume, RecoveryCancelApply, OfflineRequeue, Tick, vars,
         rowVars

\* A worker that lost its claim never gets it back.
LEMMA StaysFenced ==
  ASSUME TypeHolding, [Next]_vars, NEW w \in Workers, NEW t \in Tasks,
         token[w] # NoToken, claimToken[t] # token[w]
  PROVE  claimToken'[t] # token[w]
BY RowTokenSteps DEF FreshTokens

LEMMA ReturnedIsFencedStep ==
  ASSUME TypeHolding, ReturnedIsFenced, [Next]_vars
  PROVE  ReturnedIsFenced'
<1> USE KindsAssumption, TokenAssumption
<1> USE DEF TypeHolding, TypeOK
<1>1. ASSUME NEW w \in Workers, stage'[w] = "returned", job'[w] \in Leased,
             stage[w] = "returned", job'[w] = job[w], token'[w] = token[w]
      PROVE  claimToken'[job'[w]] # token'[w]
  BY <1>1, StaysFenced DEF ReturnedIsFenced, Holding
<1>2. ASSUME NEW v \in Workers, NEW lag \in Lags, FinishRun(v, lag) \/ CancelRun(v, lag),
             NEW w \in Workers, stage'[w] = "returned", job'[w] \in Leased
      PROVE  claimToken'[job'[w]] # token'[w]
  <2>1. CASE w = v
    BY <1>2, <2>1 DEF LeavesKeepalive, FinishRun, CancelRun, EndTask, DropClaim, Holding
  <2>2. CASE w # v
    BY <1>1, <1>2, <2>2 DEF LeavesKeepalive, FinishRun, CancelRun
  <2>3. QED BY <2>1, <2>2
<1>3. ASSUME NEW v \in Workers, HandlerReturns(v),
             NEW w \in Workers, stage'[w] = "returned", job'[w] \in Leased
      PROVE  claimToken'[job'[w]] # token'[w]
  BY <1>1, <1>3 DEF HandlerReturns
<1>4. ASSUME NEW W, Release(W),
             NEW w \in Workers, stage'[w] = "returned", job'[w] \in Leased
      PROVE  claimToken'[job'[w]] # token'[w]
  <2>1. stage[w] = "returned" /\ job'[w] = job[w] /\ token'[w] = token[w]
    BY <1>4 DEF Release
  <2>2. QED BY <1>1, <1>4, <2>1
<1>5. ASSUME NEW v \in Workers, NEW lag \in Lags,
             \/ FailRun(v, lag)
             \/ \E t \in Tasks, tok \in Tokens \union {NoToken} : ClaimTask(v, t, tok, lag),
             NEW w \in Workers, stage'[w] = "returned", job'[w] \in Leased
      PROVE  claimToken'[job'[w]] # token'[w]
  BY <1>1, <1>5 DEF FailRun, ClaimTask
<1>6. ASSUME NEW v \in Workers, HandlerRaises(v),
             NEW w \in Workers, stage'[w] = "returned", job'[w] \in Leased
      PROVE  claimToken'[job'[w]] # token'[w]
  BY <1>1, <1>6 DEF HandlerRaises
<1>7. ASSUME UNCHANGED <<stage, job, token>>,
             NEW w \in Workers, stage'[w] = "returned", job'[w] \in Leased
      PROVE  claimToken'[job'[w]] # token'[w]
  BY <1>1, <1>7
<1>8. ASSUME NEW w \in Workers, stage'[w] = "returned", job'[w] \in Leased
      PROVE  claimToken'[job'[w]] # token'[w]
  BY StepCases, <1>2, <1>3, <1>4, <1>5, <1>6, <1>7, <1>8
     DEF Enqueue, RequestCancelQueued, RequestCancelRunning, ClaimNothing, Heartbeat, Progress,
         StartRun, WorkerCompletes, WorkerFails, PauseAtCheckpoint, Crash, HeartbeatStops, Restart,
         RecoveryCancelSelect, RecoveryResume, RecoveryCancelApply, OfflineRequeue, Tick, vars,
         workerVars
<1>9. QED BY <1>8 DEF ReturnedIsFenced

LEMMA RunOutcomeStep ==
  ASSUME LifecycleInv, ReturnedIsFenced, RunOutcomeAgrees, [Next]_vars
  PROVE  RunOutcomeAgrees'
<1> USE KindsAssumption, TokenAssumption
<1> USE DEF LifecycleInv, TypeHolding, TypeOK, RunOutcomeAgrees, Active, Terminal
<1>1. ASSUME NEW t \in Tasks, NEW lag \in Lags, Enqueue(t, lag)
      PROVE  RunOutcomeAgrees'
  BY <1>1 DEF Enqueue
<1>2. ASSUME NEW t \in Tasks, NEW lag \in Lags, RequestCancelQueued(t, lag)
      PROVE  RunOutcomeAgrees'
  BY <1>2 DEF RequestCancelQueued
<1>3. ASSUME NEW w \in Workers, NEW lag \in Lags, ClaimNothing(w, lag)
      PROVE  RunOutcomeAgrees'
  BY <1>3 DEF ClaimNothing, ExpiredCancellations, CancelRuns
<1>4. ASSUME NEW w \in Workers, NEW lag \in Lags, NEW t \in Tasks,
             NEW tok \in Tokens \union {NoToken}, ClaimTask(w, t, tok, lag)
      PROVE  RunOutcomeAgrees'
  BY <1>4 DEF ClaimTask, Claimable, ExpiredCancellations, CancelRuns
<1>5. ASSUME NEW w \in Workers, NEW lag \in Lags, StartRun(w, lag)
      PROVE  RunOutcomeAgrees'
  BY <1>5 DEF StartRun, Owns, rowVars
<1>6. ASSUME NEW w \in Workers, NEW lag \in Lags, FinishRun(w, lag)
      PROVE  RunOutcomeAgrees'
  BY <1>6 DEF FinishRun, EndTask, Outcome
<1>7. ASSUME NEW w \in Workers, NEW lag \in Lags, CancelRun(w, lag)
      PROVE  RunOutcomeAgrees'
  BY <1>7 DEF CancelRun, EndTask, Outcome
<1>8. ASSUME NEW w \in Workers, NEW lag \in Lags, FailRun(w, lag)
      PROVE  RunOutcomeAgrees'
  BY <1>8 DEF FailRun, EndTask, Outcome
<1>9. ASSUME NEW w \in Workers, NEW lag \in Lags, WorkerCompletes(w, lag)
      PROVE  RunOutcomeAgrees'
  <2>1. Owns(w, lag) => job[w] \notin Leased
    BY <1>9 DEF WorkerCompletes, Owns, ReturnedIsFenced
  <2>2. \A t \in Leased : status'[t] = status[t]
    <3>1. CASE Owns(w, lag)
      BY <1>9, <2>1, <3>1 DEF WorkerCompletes, EndTask
    <3>2. CASE ~Owns(w, lag)
      BY <1>9, <3>2 DEF WorkerCompletes
    <3>3. QED BY <3>1, <3>2
  <2>3. UNCHANGED run
    BY <1>9 DEF WorkerCompletes
  <2>4. QED BY <2>2, <2>3
<1>10. ASSUME NEW w \in Workers, NEW lag \in Lags, WorkerFails(w, lag)
      PROVE  RunOutcomeAgrees'
  <2>1. UNCHANGED run
    BY <1>10 DEF WorkerFails
  <2>2. CASE Owns(w, lag)
    <3>1. status[job[w]] = "running" /\ EndTask(w, "failed", lag)
      BY <1>10, <2>2 DEF WorkerFails, Owns
    <3>2. QED BY <2>1, <3>1 DEF EndTask, Outcome
  <2>3. CASE ~Owns(w, lag)
    BY <1>10, <2>1, <2>3 DEF WorkerFails
  <2>4. QED BY <2>2, <2>3
<1>11. ASSUME NEW lag \in Lags, RecoveryResume(lag) \/ OfflineRequeue(lag)
      PROVE  RunOutcomeAgrees'
  BY <1>11 DEF RecoveryResume, OfflineRequeue, ExpiredCancellations, CancelRuns
<1>12. ASSUME NEW lag \in Lags, RecoveryCancelApply(lag)
      PROVE  RunOutcomeAgrees'
  BY <1>12 DEF RecoveryCancelApply, CancelRuns, SelectedStillOpen
<1>13. CASE UNCHANGED <<status, run>>
  BY <1>13
<1>14. QED
  BY StepCases, <1>1, <1>2, <1>3, <1>4, <1>5, <1>6, <1>7, <1>8, <1>9, <1>10, <1>11, <1>12, <1>13
     DEF RequestCancelRunning, Heartbeat, Progress, HandlerRaises, HandlerReturns,
         PauseAtCheckpoint, Crash, HeartbeatStops, Restart, RecoveryCancelSelect, Tick, vars, rowVars

OutcomeInv == LifecycleInv /\ ReturnedIsFenced /\ RunOutcomeAgrees

\* finish, cancel and fail of a backtest or an analysis move the task and the
\* run in one transaction, and no later write of a stale handler, of recovery or
\* of the API tears the two outcomes apart.
THEOREM OutcomesAgree == Spec => []RunOutcomeAgrees
<1>1. Init => OutcomeInv
  BY LifecycleInvInit, KindsAssumption DEF Init, OutcomeInv, ReturnedIsFenced, RunOutcomeAgrees
<1>2. OutcomeInv /\ [Next]_vars => OutcomeInv'
  BY LifecycleInvStep, ReturnedIsFencedStep, RunOutcomeStep DEF OutcomeInv, LifecycleInv
<1>3. OutcomeInv => RunOutcomeAgrees
  BY DEF OutcomeInv
<1>4. QED
  BY <1>1, <1>2, <1>3, PTL DEF Spec

-----------------------------------------------------------------------------
(* A working keepalive keeps the claim.                                    *)

\* The lease of a claim whose keepalive works has not run out.
RenewedInTime == \A t \in Leased : KeptAlive(t) => leaseLeft[t] >= 1

LEMMA RenewedInTimeStep ==
  ASSUME TypeHolding, RenewedInTime, [Next]_vars
  PROVE  RenewedInTime'
<1> USE KindsAssumption, TokenAssumption
<1> USE DEF TypeHolding, TypeOK
\* Most steps leave a kept claim and its lease alone, or end it.
<1>1. ASSUME \A w \in Workers : /\ beating'[w] => beating[w]
                                /\ beating'[w] => job'[w] = job[w] /\ token'[w] = token[w],
             \A t \in Leased :
               \/ claimToken'[t] = NoToken
               \/ /\ claimToken'[t] = claimToken[t] /\ leaseLeft'[t] = leaseLeft[t]
                  /\ status'[t] = "running" => status[t] = "running"
      PROVE  RenewedInTime'
  <2>1. \A t \in Leased : KeptAlive(t)' => KeptAlive(t) /\ leaseLeft'[t] = leaseLeft[t]
    BY <1>1 DEF KeptAlive, Holding
  <2>2. QED BY <2>1 DEF RenewedInTime
<1>2. ASSUME UNCHANGED workerVars,
             \A t \in Leased :
               \/ claimToken'[t] = NoToken
               \/ /\ claimToken'[t] = claimToken[t] /\ leaseLeft'[t] = leaseLeft[t]
                  /\ status'[t] = "running" => status[t] = "running"
      PROVE  RenewedInTime'
  BY <1>1, <1>2 DEF workerVars
<1>3. ASSUME NEW t \in Tasks, NEW lag \in Lags,
             \/ Enqueue(t, lag) \/ RequestCancelQueued(t, lag) \/ RequestCancelRunning(t, lag)
      PROVE  RenewedInTime'
  BY <1>2, <1>3 DEF Enqueue, RequestCancelQueued, RequestCancelRunning
<1>4. ASSUME NEW w \in Workers, NEW lag \in Lags, ClaimNothing(w, lag)
      PROVE  RenewedInTime'
  BY <1>2, <1>4 DEF ClaimNothing, DropClaim
<1>5. ASSUME NEW w \in Workers, NEW lag \in Lags, NEW t \in Tasks,
             NEW tok \in Tokens \union {NoToken}, ClaimTask(w, t, tok, lag)
      PROVE  RenewedInTime'
  <2>1. ASSUME NEW u \in Leased, u # t, KeptAlive(u)'
        PROVE  leaseLeft'[u] >= 1
    <3>1. PICK v \in Workers : /\ beating'[v] /\ job'[v] = u
                               /\ status'[u] = "running" /\ claimToken'[u] = token'[v]
      BY <2>1 DEF KeptAlive
    <3>2. v # w
      BY <1>5, <2>1, <3>1 DEF ClaimTask
    <3>3. beating'[v] = beating[v] /\ job'[v] = job[v] /\ token'[v] = token[v]
      BY <1>5, <3>2 DEF ClaimTask
    <3>4. u \notin ExpiredCancellations(lag)
      BY <1>5, <2>1, <3>1 DEF ClaimTask
    <3>5. /\ status'[u] = status[u] /\ claimToken'[u] = claimToken[u]
          /\ leaseLeft'[u] = leaseLeft[u]
      BY <1>5, <2>1, <3>4 DEF ClaimTask
    <3>6. QED BY <3>1, <3>3, <3>5 DEF KeptAlive, RenewedInTime
  <2>2. t \in Leased => leaseLeft'[t] >= 1
    BY <1>5, ClockAssumption DEF ClaimTask, NewLease, Lags
  <2>3. QED BY <2>1, <2>2 DEF RenewedInTime
<1>6. ASSUME NEW w \in Workers, NEW lag \in Lags, Heartbeat(w, lag)
      PROVE  RenewedInTime'
  <2>1. job[w] \in Tasks
    BY <1>6 DEF Heartbeat, Holding
  <2>2. CASE Owns(w, lag)
    <3>1. /\ leaseLeft' = [leaseLeft EXCEPT ![job[w]] = NewLease(lag)]
          /\ UNCHANGED <<status, claimToken, job, token, beating>>
      BY <1>6, <2>2 DEF Heartbeat
    <3>2. NewLease(lag) >= 1
      BY ClockAssumption DEF NewLease, Lags
    <3>3. QED BY <2>1, <3>1, <3>2 DEF RenewedInTime, KeptAlive
  <2>3. CASE ~Owns(w, lag)
    <3>1. /\ beating' = [beating EXCEPT ![w] = FALSE]
          /\ UNCHANGED <<status, claimToken, leaseLeft, job, token>>
      BY <1>6, <2>3 DEF Heartbeat
    <3>2. \A v \in Workers : beating'[v] => beating[v]
      BY <3>1, Zenon
    <3>3. QED BY <1>1, <3>1, <3>2
  <2>4. QED BY <2>2, <2>3
<1>7. ASSUME NEW w \in Workers, NEW lag \in Lags, Progress(w, lag) \/ StartRun(w, lag)
      PROVE  RenewedInTime'
  BY <1>2, <1>7 DEF Progress, StartRun
<1>8. ASSUME NEW w \in Workers, NEW lag \in Lags,
             FinishRun(w, lag) \/ CancelRun(w, lag) \/ FailRun(w, lag)
      PROVE  RenewedInTime'
  <2>1. UNCHANGED <<job, token, beating>>
    BY <1>8 DEF FinishRun, CancelRun, FailRun
  <2>2. EndTask(w, "succeeded", lag) \/ EndTask(w, "failed", lag)
    BY <1>8 DEF FinishRun, CancelRun, FailRun
  <2>3. QED BY <1>1, <2>1, <2>2 DEF EndTask, DropClaim
<1>9. ASSUME NEW W, Release(W)
      PROVE  \A w \in Workers : /\ beating'[w] => beating[w]
                                /\ beating'[w] => job'[w] = job[w] /\ token'[w] = token[w]
  <2>1. \A w \in Workers : w \in W => ~beating'[w]
    BY <1>9, Zenon DEF Release
  <2>2. \A w \in Workers : w \notin W => beating'[w] = beating[w]
    BY <1>9, Zenon DEF Release
  <2>3. \A w \in Workers : w \notin W => job'[w] = job[w] /\ token'[w] = token[w]
    BY <1>9 DEF Release
  <2>4. QED BY <2>1, <2>2, <2>3
<1>10. ASSUME NEW w \in Workers, NEW lag \in Lags, WorkerCompletes(w, lag) \/ WorkerFails(w, lag)
      PROVE  RenewedInTime'
  <2>1. Release({w})
    BY <1>10 DEF WorkerCompletes, WorkerFails
  <2>2. \/ EndTask(w, "succeeded", lag) \/ EndTask(w, "failed", lag)
        \/ UNCHANGED <<status, claimToken, leaseLeft>>
    BY <1>10 DEF WorkerCompletes, WorkerFails
  <2>3. QED BY <1>1, <1>9, <2>1, <2>2 DEF EndTask, DropClaim
<1>11. ASSUME NEW W, Release(W), UNCHANGED rowVars
       PROVE  RenewedInTime'
  BY <1>1, <1>9, <1>11 DEF rowVars
<1>12. ASSUME NEW w \in Workers, HandlerRaises(w) \/ HandlerReturns(w)
       PROVE  RenewedInTime'
  BY <1>1, <1>12 DEF HandlerRaises, HandlerReturns, rowVars
<1>13. ASSUME NEW w \in Workers, HeartbeatStops(w)
       PROVE  RenewedInTime'
  <2>1. \A v \in Workers : beating'[v] => beating[v]
    BY <1>13, Zenon DEF HeartbeatStops
  <2>2. QED BY <1>1, <1>13, <2>1 DEF HeartbeatStops, rowVars
<1>14. ASSUME NEW lag \in Lags,
              RecoveryResume(lag) \/ RecoveryCancelApply(lag) \/ OfflineRequeue(lag)
       PROVE  RenewedInTime'
  BY <1>2, <1>14 DEF RecoveryResume, RecoveryCancelApply, OfflineRequeue, DropClaim
<1>15. ASSUME Tick PROVE RenewedInTime'
  <2>1. \A t \in Leased : KeptAlive(t)' => KeptAlive(t)
    BY <1>15 DEF Tick, KeptAlive, workerVars
  <2>2. \A t \in Leased : leaseLeft[t] > 1 => leaseLeft'[t] >= 1
    BY <1>15 DEF Tick, LeaseRange
  <2>3. QED BY <1>15, <2>1, <2>2 DEF Tick, RenewedInTime
<1>16. CASE UNCHANGED <<rowVars, workerVars>>
  BY <1>2, <1>16 DEF rowVars
<1>17. QED
  BY StepCases, <1>3, <1>4, <1>5, <1>6, <1>7, <1>8, <1>10, <1>11, <1>12, <1>13, <1>14, <1>15, <1>16
     DEF PauseAtCheckpoint, Crash, Restart, RecoveryCancelSelect, vars

\* No transaction of another actor takes a claim whose keepalive works.
NoTheft ==
  \A w \in Workers :
    beating[w] /\ job[w] \in Leased /\ claimToken[job[w]] = token[w] =>
      \/ claimToken'[job[w]] = token[w]
      \/ status'[job[w]] \in Terminal
      \/ stage'[w] = "idle"

LEMMA NoTheftStep ==
  ASSUME ClaimInv, RenewedInTime, [Next]_vars
  PROVE  NoTheft
<1> USE KindsAssumption, TokenAssumption
<1> USE DEF ClaimInv, LifecycleInv, TypeHolding, TypeOK
<1> SUFFICES ASSUME NEW v \in Workers, beating[v], job[v] \in Leased,
                    claimToken[job[v]] = token[v]
             PROVE  \/ claimToken'[job[v]] = token[v]
                    \/ status'[job[v]] \in Terminal
                    \/ stage'[v] = "idle"
  BY DEF NoTheft
<1>1. status[job[v]] = "running" /\ KeptAlive(job[v])
  BY DEF LeaseExactlyWhileRunning, Holding, KeptAlive
<1>2. \A lag \in Lags : ~Expired(job[v], lag)
  BY <1>1 DEF RenewedInTime, Expired, LeaseRange, Lags
<1>3. ASSUME NEW w \in Workers, NEW lag \in Lags, NEW t \in Tasks,
             NEW tok \in Tokens \union {NoToken}, ClaimTask(w, t, tok, lag)
      PROVE  claimToken'[job[v]] = token[v] \/ status'[job[v]] \in Terminal
  BY <1>1, <1>2, <1>3 DEF ClaimTask, Claimable, Terminal
<1>4. ASSUME NEW w \in Workers, NEW lag \in Lags, ClaimNothing(w, lag)
      PROVE  claimToken'[job[v]] = token[v] \/ status'[job[v]] \in Terminal
  BY <1>4 DEF ClaimNothing, DropClaim, Terminal
<1>5. ASSUME NEW w \in Workers, NEW lag \in Lags, NEW reported \in {"succeeded", "failed"},
             EndTask(w, reported, lag)
      PROVE  claimToken'[job[v]] = token[v] \/ status'[job[v]] \in Terminal
  BY <1>5 DEF EndTask, Outcome, DropClaim, Terminal
<1>6. ASSUME NEW w \in Workers, NEW lag \in Lags,
             \/ FinishRun(w, lag) \/ CancelRun(w, lag) \/ FailRun(w, lag)
             \/ WorkerCompletes(w, lag) \/ WorkerFails(w, lag)
      PROVE  claimToken'[job[v]] = token[v] \/ status'[job[v]] \in Terminal
  <2>1. \/ EndTask(w, "succeeded", lag) \/ EndTask(w, "failed", lag)
        \/ UNCHANGED claimToken
    BY <1>6 DEF FinishRun, CancelRun, FailRun, WorkerCompletes, WorkerFails
  <2>2. QED BY <1>5, <2>1
<1>7. ASSUME NEW lag \in Lags,
             RecoveryResume(lag) \/ RecoveryCancelApply(lag) \/ OfflineRequeue(lag)
      PROVE  FALSE
  <2>1. stage[v] = "idle"
    BY <1>7 DEF RecoveryResume, RecoveryCancelApply, OfflineRequeue, RecoveryIsQuiet
  <2>2. QED BY <2>1 DEF Holding
<1>8. CASE UNCHANGED claimToken
  BY <1>8
<1>9. QED
  BY StepCases, <1>3, <1>4, <1>6, <1>7, <1>8
     DEF Enqueue, RequestCancelQueued, RequestCancelRunning, Heartbeat, Progress, StartRun,
         HandlerRaises, HandlerReturns, PauseAtCheckpoint, Crash, HeartbeatStops, Restart,
         RecoveryCancelSelect, Tick, vars, rowVars

\* A claim is taken from a handler whose keepalive works only by ending the task
\* or by ending the handler's process: expiry never races a timely heartbeat.
THEOREM LiveWorkersKeepTheirClaim == Spec => NoTheftFromLiveWorker
<1>1. Init => RenewedInTime
  BY DEF Init, RenewedInTime, KeptAlive
<1>2. ClaimInv /\ RenewedInTime /\ [Next]_vars => RenewedInTime'
  BY RenewedInTimeStep DEF ClaimInv, LifecycleInv
<1>3. ClaimInv /\ RenewedInTime /\ [Next]_vars => [NoTheft]_vars
  BY NoTheftStep
<1>4. QED
  BY <1>1, <1>2, <1>3, ClaimInvInit, ClaimInvStep, PTL DEF Spec, NoTheftFromLiveWorker, NoTheft

-----------------------------------------------------------------------------
(* Timestamps.                                                             *)

\* Compose has no startup recovery to decline.
NoRecovery == recovery = "none"

LEMMA NoRecoveryStep ==
  ASSUME ~Desktop, NoRecovery, [Next]_vars
  PROVE  NoRecovery'
BY StepCases
   DEF NoRecovery, StartupRecovery, Enqueue, RequestCancelQueued, RequestCancelRunning,
       ClaimNothing, ClaimTask, Heartbeat, Progress, StartRun, FinishRun, CancelRun, FailRun,
       WorkerCompletes, WorkerFails, HandlerRaises, HandlerReturns, PauseAtCheckpoint, Crash,
       HeartbeatStops, Restart, RecoveryCancelSelect, RecoveryResume, RecoveryCancelApply,
       OfflineRequeue, Tick, vars, desktopVars

AgesOnlyShrink == \A t \in Tasks : status[t] = "absent" \/ age'[t] <= age[t]

\* _transition_time never makes a row older.
LEMMA TouchShrinks ==
  ASSUME TypeHolding, NEW S, NEW lag \in Lags, Touch(S, lag)
  PROVE  AgesOnlyShrink
BY DEF TypeHolding, TypeOK, Touch, TransitionAge, AgesOnlyShrink, Lags

LEMMA AgesStep ==
  ASSUME TypeHolding, NoRecovery, [Next]_vars
  PROVE  Tick \/ AgesOnlyShrink
<1> USE TouchShrinks
<1>1. ASSUME NEW t \in Tasks, NEW lag \in Lags, Enqueue(t, lag)
      PROVE  AgesOnlyShrink
  BY <1>1 DEF Enqueue, AgesOnlyShrink, TypeHolding, TypeOK, Lags
<1>2. ASSUME NEW w \in Workers, NEW lag \in Lags,
             \/ FinishRun(w, lag) \/ CancelRun(w, lag) \/ FailRun(w, lag)
             \/ WorkerCompletes(w, lag) \/ WorkerFails(w, lag)
      PROVE  Touch({job[w]}, lag) \/ UNCHANGED age
  BY <1>2 DEF FinishRun, CancelRun, FailRun, WorkerCompletes, WorkerFails, EndTask
<1>3. CASE UNCHANGED age
  BY <1>3 DEF AgesOnlyShrink, TypeHolding, TypeOK, Lags
<1>4. QED
  BY StepCases, <1>1, <1>2, <1>3
     DEF NoRecovery, RequestCancelQueued, RequestCancelRunning, ClaimNothing, ClaimTask, Heartbeat,
         Progress, StartRun, HandlerRaises, HandlerReturns, PauseAtCheckpoint, Crash,
         HeartbeatStops, Restart, RecoveryCancelSelect, RecoveryResume, RecoveryCancelApply,
         OfflineRequeue, vars, rowVars

\* In the compose deployment updated_at of a row never moves back, however old
\* the clock sample of the writer.
THEOREM ServerTimestamps ==
  ASSUME ~Desktop
  PROVE  Spec => TimestampsMonotone
<1>1. Init => NoRecovery
  BY DEF Init, NoRecovery
<1>2. NoRecovery /\ [Next]_vars => NoRecovery'
  BY NoRecoveryStep
<1>3. TypeHolding /\ NoRecovery /\ [Next]_vars => [Tick \/ AgesOnlyShrink]_vars
  BY AgesStep
<1>4. QED
  BY <1>1, <1>2, <1>3, TypeHoldingInit, TypeHoldingStep, PTL
     DEF Spec, TimestampsMonotone, AgesOnlyShrink
=============================================================================
