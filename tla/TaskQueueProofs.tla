--------------------------- MODULE TaskQueueProofs ---------------------------
(***************************************************************************)
(* Theorems about TaskQueue, for every set of tasks, workers and tokens,   *)
(* every lease length, clock lag and number of faults.                     *)
(***************************************************************************)
EXTENDS TaskQueue, TLAPS

(***************************************************************************)
(* A step is one of these actions with one of these arguments.  Every      *)
(* proof below that a step preserves an invariant goes through this list.  *)
(***************************************************************************)
LEMMA StepCases ==
  ASSUME Next
  PROVE  \/ \E t \in Tasks, lag \in Lags :
              \/ Enqueue(t, lag) \/ RequestCancelQueued(t, lag)
              \/ RequestCancelRunning(t, lag)
         \/ \E w \in Workers, lag \in Lags :
              \/ ClaimNothing(w, lag)
              \/ \E t \in Tasks, tok \in Tokens \union {NoToken} : ClaimTask(w, t, tok, lag)
         \/ \E w \in Workers, lag \in Lags :
              \/ Heartbeat(w, lag) \/ Progress(w, lag) \/ StartRun(w, lag)
              \/ FinishRun(w, lag) \/ CancelRun(w, lag) \/ FailRun(w, lag)
              \/ WorkerCompletes(w, lag) \/ WorkerFails(w, lag)
         \/ \E w \in Workers :
              \/ HandlerRaises(w) \/ HandlerReturns(w) \/ PauseAtCheckpoint(w)
              \/ Crash(w) \/ HeartbeatStops(w)
         \/ Restart
         \/ RecoveryCancelSelect
         \/ \E lag \in Lags :
              RecoveryResume(lag) \/ RecoveryCancelApply(lag) \/ OfflineRequeue(lag)
         \/ Tick
BY DEF Next, ApiStep, RecoveryStep, FaultStep, WorkerStep, ClaimStep, HandlerEnds, RunOnceEnds

\* A worker outside run_once holds nothing; inside it holds a task, and a token
\* exactly when the task's kind is leased.
Holding ==
  \A w \in Workers :
    /\ stage[w] = "idle" <=> job[w] = NoTask
    /\ token[w] # NoToken <=> job[w] \in Leased
    /\ beating[w] => job[w] \in Leased

\* A renewed lease, no lease, and a lease one tick older are all in range.
LEMMA LeaseFacts ==
  /\ \A lag \in Lags : NewLease(lag) \in LeaseRange
  /\ 0 \in LeaseRange
  /\ \A l \in LeaseRange : l # -MaxLag => l - 1 \in LeaseRange
  /\ \A a \in Lags : a < MaxLag => a + 1 \in Lags
BY ClockAssumption DEF NewLease, LeaseRange, Lags

\* Touching rows keeps every age a lag some sample may have.
LEMMA TouchType ==
  ASSUME NEW S, NEW lag \in Lags, age \in [Tasks -> Lags], Touch(S, lag)
  PROVE  age' \in [Tasks -> Lags]
BY DEF Touch, TransitionAge

\* Taking claims away keeps the claim columns well typed.
LEMMA DropClaimType ==
  ASSUME NEW S, DropClaim(S),
         claimToken \in [Tasks -> Tokens \union {NoToken}], leaseLeft \in [Tasks -> LeaseRange]
  PROVE  /\ claimToken' \in [Tasks -> Tokens \union {NoToken}]
         /\ leaseLeft' \in [Tasks -> LeaseRange]
BY LeaseFacts DEF DropClaim

TypeHolding == TypeOK /\ Holding

WorkerTypeOK ==
  /\ job \in [Workers -> Tasks \union {NoTask}]
  /\ token \in [Workers -> Tokens \union {NoToken}]
  /\ stage \in [Workers -> {"idle", "handling", "returned", "raised"}]
  /\ beating \in [Workers -> BOOLEAN]

\* A released worker holds nothing, the others are left alone.
LEMMA ReleaseType ==
  ASSUME NEW W, WorkerTypeOK, Holding, Release(W)
  PROVE  WorkerTypeOK' /\ Holding'
<1> USE DEF WorkerTypeOK, Release
<1>1. job' \in [Workers -> Tasks \union {NoTask}] /\ token' \in [Workers -> Tokens \union {NoToken}]
  OBVIOUS
<1>2. stage' \in [Workers -> {"idle", "handling", "returned", "raised"}]
  OBVIOUS
<1>3. beating' \in [Workers -> BOOLEAN]
  BY Zenon
<1>4. ASSUME NEW w \in Workers
      PROVE  /\ stage'[w] = "idle" <=> job'[w] = NoTask
             /\ token'[w] # NoToken <=> job'[w] \in Leased
             /\ beating'[w] => job'[w] \in Leased
  <2>1. CASE w \in W
    BY <2>1, TokenAssumption, KindsAssumption
  <2>2. CASE w \notin W
    <3>1. /\ job'[w] = job[w] /\ token'[w] = token[w]
          /\ stage'[w] = stage[w] /\ beating'[w] = beating[w]
      BY <2>2
    <3>2. QED BY <3>1 DEF Holding
  <2>3. QED BY <2>1, <2>2
<1>5. QED BY <1>1, <1>2, <1>3, <1>4 DEF Holding

LEMMA TypeHoldingInit == Init => TypeHolding
BY ClockAssumption, KindsAssumption, TokenAssumption
   DEF Init, TypeHolding, TypeOK, Holding, Lags, LeaseRange

LEMMA TypeHoldingStep ==
  ASSUME TypeHolding, [Next]_vars
  PROVE  TypeHolding'
<1> USE KindsAssumption, TokenAssumption, LeaseFacts, TouchType, DropClaimType
<1> USE DEF TypeHolding, Active, Terminal
<1>1. ASSUME NEW t \in Tasks, NEW lag \in Lags, Enqueue(t, lag)
      PROVE  TypeHolding'
  BY <1>1 DEF Enqueue, TypeOK, Holding, workerVars, desktopVars
<1>2. ASSUME NEW t \in Tasks, NEW lag \in Lags, RequestCancelQueued(t, lag)
      PROVE  TypeHolding'
  BY <1>2 DEF RequestCancelQueued, TypeOK, Holding, workerVars, desktopVars
<1>3. ASSUME NEW t \in Tasks, NEW lag \in Lags, RequestCancelRunning(t, lag)
      PROVE  TypeHolding'
  BY <1>3 DEF RequestCancelRunning, TypeOK, Holding, workerVars, desktopVars
<1>4. ASSUME NEW w \in Workers, NEW lag \in Lags, ClaimNothing(w, lag)
      PROVE  TypeHolding'
  BY <1>4 DEF ClaimNothing, TypeOK, Holding, workerVars, desktopVars, CancelRuns
<1>5. ASSUME NEW w \in Workers, NEW lag \in Lags, NEW t \in Tasks,
             NEW tok \in Tokens \union {NoToken}, ClaimTask(w, t, tok, lag)
      PROVE  TypeHolding'
  <2>1. TypeOK'
    BY <1>5 DEF ClaimTask, TypeOK, desktopVars, CancelRuns
  <2>2. Holding'
    BY <1>5 DEF ClaimTask, TypeOK, Holding, FreshTokens
  <2>3. QED BY <2>1, <2>2
<1>6. ASSUME NEW w \in Workers, NEW lag \in Lags, Heartbeat(w, lag)
      PROVE  TypeHolding'
  <2>1. job[w] \in Tasks
    BY <1>6 DEF Heartbeat, Holding, TypeOK
  <2>2. CASE Owns(w, lag)
    BY <1>6, <2>1, <2>2 DEF Heartbeat, TypeOK, Holding, desktopVars
  <2>3. CASE ~Owns(w, lag)
    <3>1. /\ beating' = [beating EXCEPT ![w] = FALSE]
          /\ UNCHANGED <<rowVars, run, job, token, stage, desktopVars, faults>>
      BY <1>6, <2>3 DEF Heartbeat, rowVars
    <3>2. beating' \in [Workers -> BOOLEAN] /\ \A v \in Workers : beating'[v] => beating[v]
      BY <3>1, Zenon DEF TypeOK
    <3>3. QED BY <3>1, <3>2 DEF TypeOK, Holding, rowVars, desktopVars
  <2>4. QED BY <2>2, <2>3
<1>7. ASSUME NEW w \in Workers, NEW lag \in Lags, Progress(w, lag) \/ StartRun(w, lag)
      PROVE  TypeHolding'
  BY <1>7 DEF Progress, StartRun, TypeOK, Holding, workerVars, desktopVars
<1>8. ASSUME NEW w \in Workers, NEW lag \in Lags,
             FinishRun(w, lag) \/ CancelRun(w, lag) \/ FailRun(w, lag)
      PROVE  TypeHolding'
  BY <1>8 DEF LeavesKeepalive, FinishRun, CancelRun, FailRun, EndTask, Outcome, TypeOK, Holding,
              desktopVars
<1>9. ASSUME NEW w \in Workers, NEW lag \in Lags, WorkerCompletes(w, lag) \/ WorkerFails(w, lag)
      PROVE  TypeHolding'
  <2>1. Release({w}) /\ UNCHANGED <<cancelRequested, run, desktopVars, faults>>
    BY <1>9 DEF WorkerCompletes, WorkerFails
  <2>2. WorkerTypeOK' /\ Holding'
    BY <2>1, ReleaseType DEF WorkerTypeOK, TypeOK
  <2>3. job[w] \in Tasks
    BY <1>9 DEF WorkerCompletes, WorkerFails, Holding, TypeOK
  <2>4. ASSUME NEW reported \in {"succeeded", "failed"}, EndTask(w, reported, lag)
        PROVE  TypeOK'
    BY <2>1, <2>2, <2>3, <2>4 DEF EndTask, Outcome, TypeOK, WorkerTypeOK, desktopVars
  <2>5. ASSUME UNCHANGED <<status, claimToken, leaseLeft, age>>
        PROVE  TypeOK'
    BY <2>1, <2>2, <2>5 DEF TypeOK, WorkerTypeOK, desktopVars
  <2>6. QED BY <1>9, <2>2, <2>4, <2>5 DEF WorkerCompletes, WorkerFails
<1>10. ASSUME NEW w \in Workers,
              \/ HandlerRaises(w) \/ HandlerReturns(w) \/ PauseAtCheckpoint(w)
              \/ Crash(w) \/ HeartbeatStops(w)
       PROVE  TypeHolding'
  <2>1. CASE HandlerRaises(w) \/ HandlerReturns(w)
    BY <2>1 DEF HandlerRaises, HandlerReturns, TypeOK, Holding, rowVars, desktopVars
  <2>2. CASE PauseAtCheckpoint(w) \/ Crash(w)
    <3>1. Release({w}) /\ UNCHANGED <<rowVars, run, desktopVars>>
      BY <2>2 DEF PauseAtCheckpoint, Crash
    <3>2. WorkerTypeOK' /\ Holding'
      BY <3>1, ReleaseType DEF WorkerTypeOK, TypeOK
    <3>3. faults' \in 0..MaxFaults
      BY <2>2, ClockAssumption DEF PauseAtCheckpoint, Crash, Fault, TypeOK
    <3>4. QED BY <3>1, <3>2, <3>3 DEF TypeOK, WorkerTypeOK, rowVars, desktopVars
  <2>3. CASE HeartbeatStops(w)
    <3>1. /\ beating' = [beating EXCEPT ![w] = FALSE]
          /\ UNCHANGED <<rowVars, run, job, token, stage, desktopVars>>
      BY <2>3 DEF HeartbeatStops
    <3>2. beating' \in [Workers -> BOOLEAN] /\ \A v \in Workers : beating'[v] => beating[v]
      BY <3>1, Zenon DEF TypeOK
    <3>3. faults' \in 0..MaxFaults
      BY <2>3, ClockAssumption DEF HeartbeatStops, Fault, TypeOK
    <3>4. QED BY <3>1, <3>2, <3>3 DEF TypeOK, Holding, rowVars, desktopVars
  <2>4. QED BY <1>10, <2>1, <2>2, <2>3
<1>11. ASSUME Restart PROVE TypeHolding'
  <2>1. WorkerTypeOK' /\ Holding'
    BY <1>11, ReleaseType DEF Restart, WorkerTypeOK, TypeOK
  <2>2. recovery' \in {"none", "pending", "cancelling"} /\ selected' \in SUBSET Tasks
    BY <1>11 DEF Restart, StartupRecovery
  <2>3. faults' \in 0..MaxFaults
    BY <1>11, ClockAssumption DEF Restart, Fault, TypeOK
  <2>4. QED BY <1>11, <2>1, <2>2, <2>3 DEF Restart, TypeOK, WorkerTypeOK, rowVars
<1>12. ASSUME RecoveryCancelSelect PROVE TypeHolding'
  BY <1>12 DEF RecoveryCancelSelect, TypeOK, Holding, rowVars, workerVars
<1>13. ASSUME NEW lag \in Lags, RecoveryResume(lag) \/ RecoveryCancelApply(lag) \/ OfflineRequeue(lag)
       PROVE  TypeHolding'
  <2>1. CASE RecoveryResume(lag)
    BY <2>1 DEF RecoveryResume, TypeOK, Holding, workerVars
  <2>2. CASE RecoveryCancelApply(lag)
    <3>1. cancelRequested' \in [Tasks -> BOOLEAN]
      BY <2>2, Zenon DEF RecoveryCancelApply
    <3>2. QED
      BY <2>2, <3>1 DEF RecoveryCancelApply, CancelRuns, TypeOK, Holding, workerVars
  <2>3. CASE OfflineRequeue(lag)
    BY <2>3 DEF OfflineRequeue, StartupRecovery, CancelRuns, TypeOK, Holding, workerVars
  <2>4. QED BY <1>13, <2>1, <2>2, <2>3
<1>14. ASSUME Tick PROVE TypeHolding'
  <2>1. leaseLeft' \in [Tasks -> LeaseRange]
    BY <1>14 DEF Tick, TypeOK
  <2>2. age' \in [Tasks -> Lags]
    BY <1>14, ClockAssumption DEF Tick, TypeOK
  <2>3. QED
    BY <1>14, <2>1, <2>2 DEF Tick, TypeOK, Holding, workerVars, desktopVars
<1>15. ASSUME UNCHANGED vars PROVE TypeHolding'
  BY <1>15 DEF vars, rowVars, workerVars, desktopVars, TypeOK, Holding
<1>16. QED
  BY StepCases, <1>1, <1>2, <1>3, <1>4, <1>5, <1>6, <1>7, <1>8, <1>9, <1>10, <1>11, <1>12, <1>13,
     <1>14, <1>15

\* Every reachable row and worker is well formed.
THEOREM TypeCorrect == Spec => [](TypeOK /\ Holding)
<1>1. Init => TypeHolding
  BY TypeHoldingInit
<1>2. TypeHolding /\ [Next]_vars => TypeHolding'
  BY TypeHoldingStep
<1>3. QED
  BY <1>1, <1>2, PTL DEF Spec, TypeHolding

-----------------------------------------------------------------------------
(* Startup recovery.                                                       *)

\* Rows are selected only for the decline that is going on.
SelectedForDecline == selected # {} => recovery = "cancelling"

LEMMA RecoveryIsQuietStep ==
  ASSUME TypeHolding, RecoveryIsQuiet, [Next]_vars
  PROVE  RecoveryIsQuiet'
<1> USE DEF TypeHolding, TypeOK, RecoveryIsQuiet
<1>1. ASSUME NEW t \in Tasks, NEW lag \in Lags,
             Enqueue(t, lag) \/ RequestCancelQueued(t, lag) \/ RequestCancelRunning(t, lag)
      PROVE  RecoveryIsQuiet'
  BY <1>1 DEF Enqueue, RequestCancelQueued, RequestCancelRunning, workerVars, desktopVars
<1>2. ASSUME NEW w \in Workers, NEW lag \in Lags, ClaimNothing(w, lag)
      PROVE  RecoveryIsQuiet'
  BY <1>2 DEF ClaimNothing, workerVars, desktopVars
<1>3. ASSUME NEW w \in Workers, NEW lag \in Lags, NEW t \in Tasks,
             NEW tok \in Tokens \union {NoToken}, ClaimTask(w, t, tok, lag)
      PROVE  RecoveryIsQuiet'
  BY <1>3 DEF ClaimTask, MayClaim, desktopVars
<1>4. ASSUME NEW w \in Workers, NEW lag \in Lags,
             Heartbeat(w, lag) \/ Progress(w, lag) \/ StartRun(w, lag)
      PROVE  RecoveryIsQuiet'
  BY <1>4 DEF Heartbeat, Progress, StartRun, workerVars, desktopVars
<1>5. ASSUME NEW w \in Workers, NEW lag \in Lags,
             \/ FinishRun(w, lag) \/ CancelRun(w, lag) \/ FailRun(w, lag)
             \/ WorkerCompletes(w, lag) \/ WorkerFails(w, lag)
      PROVE  RecoveryIsQuiet'
  BY <1>5 DEF LeavesKeepalive, FinishRun, CancelRun, FailRun, WorkerCompletes, WorkerFails, Release,
              desktopVars
<1>6. ASSUME NEW w \in Workers,
             \/ HandlerRaises(w) \/ HandlerReturns(w) \/ PauseAtCheckpoint(w)
             \/ Crash(w) \/ HeartbeatStops(w)
      PROVE  RecoveryIsQuiet'
  BY <1>6 DEF HandlerRaises, HandlerReturns, PauseAtCheckpoint, Crash, HeartbeatStops, Release,
              desktopVars
<1>7. ASSUME Restart \/ RecoveryCancelSelect \/ Tick
      PROVE  RecoveryIsQuiet'
  BY <1>7 DEF Restart, RecoveryCancelSelect, Tick, Release, workerVars, desktopVars
<1>8. ASSUME NEW lag \in Lags, RecoveryResume(lag) \/ RecoveryCancelApply(lag) \/ OfflineRequeue(lag)
      PROVE  RecoveryIsQuiet'
  BY <1>8 DEF RecoveryResume, RecoveryCancelApply, OfflineRequeue, workerVars
<1>9. ASSUME UNCHANGED vars PROVE RecoveryIsQuiet'
  BY <1>9 DEF vars, workerVars, desktopVars
<1>10. QED
  BY StepCases, <1>1, <1>2, <1>3, <1>4, <1>5, <1>6, <1>7, <1>8, <1>9

LEMMA SelectedForDeclineStep ==
  ASSUME TypeHolding, SelectedForDecline, [Next]_vars
  PROVE  SelectedForDecline'
<1> USE DEF SelectedForDecline
<1>1. CASE RecoveryCancelSelect \/ Restart
  BY <1>1 DEF RecoveryCancelSelect, Restart
<1>2. ASSUME NEW lag \in Lags, RecoveryResume(lag) \/ RecoveryCancelApply(lag) \/ OfflineRequeue(lag)
      PROVE  SelectedForDecline'
  BY <1>2 DEF RecoveryResume, RecoveryCancelApply, OfflineRequeue
<1>3. CASE UNCHANGED desktopVars
  BY <1>3 DEF desktopVars
<1>4. QED
  BY StepCases, <1>1, <1>2, <1>3
     DEF Enqueue, RequestCancelQueued, RequestCancelRunning, ClaimNothing, ClaimTask, Heartbeat,
         Progress, StartRun, FinishRun, CancelRun, FailRun, WorkerCompletes, WorkerFails,
         HandlerRaises, HandlerReturns, PauseAtCheckpoint, Crash, HeartbeatStops, Tick, vars

-----------------------------------------------------------------------------
(* The queue implements the abstract lifecycle.                            *)

\* A row that does not exist was not cancelled, and a cancelled row was.
RequestMatches ==
  \A t \in Tasks : /\ status[t] = "absent" => ~cancelRequested[t]
                   /\ status[t] = "cancelled" => cancelRequested[t]

\* What the lifecycle proof needs to know about the state before a step.
LifecycleInv ==
  TypeHolding /\ RecoveryIsQuiet /\ SelectedForDecline /\ SelectedStillOpen /\ RequestMatches

\* Ending a task the worker owns is a lifecycle step of that task alone.
LEMMA EndTaskRefines ==
  ASSUME TypeHolding, NEW w \in Workers, NEW lag \in Lags, NEW reported \in {"succeeded", "failed"},
         job[w] \in Tasks, Owns(w, lag), EndTask(w, reported, lag), UNCHANGED cancelRequested
  PROVE  \A t \in Tasks : Lifecycle!RowStep(t)
BY DEF TypeHolding, TypeOK, Owns, EndTask, Outcome, Active, Lifecycle!RowStep, Lifecycle!EndNormally,
       Lifecycle!EndCancelled, Lifecycle!Keep, Lifecycle!Active

\* A step that touches neither column keeps every row.
LEMMA KeepRefines ==
  ASSUME UNCHANGED <<status, cancelRequested>>
  PROVE  \A t \in Tasks : Lifecycle!RowStep(t)
BY DEF Lifecycle!RowStep, Lifecycle!Keep

LEMMA EveryRowSteps ==
  ASSUME LifecycleInv, [Next]_vars
  PROVE  \A u \in Tasks : Lifecycle!RowStep(u)
<1> USE DEF LifecycleInv, TypeHolding, TypeOK
<1>1. ASSUME NEW t \in Tasks, NEW lag \in Lags, Enqueue(t, lag)
      PROVE  \A u \in Tasks : Lifecycle!RowStep(u)
  BY <1>1 DEF Enqueue, RequestMatches, Lifecycle!RowStep, Lifecycle!Create, Lifecycle!Keep
<1>2. ASSUME NEW t \in Tasks, NEW lag \in Lags, RequestCancelQueued(t, lag)
      PROVE  \A u \in Tasks : Lifecycle!RowStep(u)
  BY <1>2 DEF RequestCancelQueued, Lifecycle!RowStep, Lifecycle!EndCancelled, Lifecycle!Keep,
              Lifecycle!Active
<1>3. ASSUME NEW t \in Tasks, NEW lag \in Lags, RequestCancelRunning(t, lag)
      PROVE  \A u \in Tasks : Lifecycle!RowStep(u)
  BY <1>3 DEF RequestCancelRunning, Lifecycle!RowStep, Lifecycle!AskCancel, Lifecycle!Keep
<1>4. ASSUME NEW w \in Workers, NEW lag \in Lags, ClaimNothing(w, lag)
      PROVE  \A u \in Tasks : Lifecycle!RowStep(u)
  BY <1>4 DEF ClaimNothing, ExpiredCancellations, Lifecycle!RowStep, Lifecycle!EndCancelled,
              Lifecycle!Keep, Lifecycle!Active
<1>5. ASSUME NEW w \in Workers, NEW lag \in Lags, NEW t \in Tasks,
             NEW tok \in Tokens \union {NoToken}, ClaimTask(w, t, tok, lag)
      PROVE  \A u \in Tasks : Lifecycle!RowStep(u)
  BY <1>5 DEF ClaimTask, Claimable, ExpiredCancellations, Lifecycle!RowStep, Lifecycle!PickUp,
              Lifecycle!EndCancelled, Lifecycle!Keep, Lifecycle!Active
<1>6. ASSUME NEW w \in Workers, NEW lag \in Lags,
             FinishRun(w, lag) \/ CancelRun(w, lag) \/ FailRun(w, lag)
      PROVE  \A u \in Tasks : Lifecycle!RowStep(u)
  <2>1. job[w] \in Tasks /\ Owns(w, lag) /\ UNCHANGED cancelRequested
    BY <1>6, KindsAssumption DEF FinishRun, CancelRun, FailRun
  <2>2. EndTask(w, "succeeded", lag) \/ EndTask(w, "failed", lag)
    BY <1>6 DEF FinishRun, CancelRun, FailRun
  <2>3. QED BY <2>1, <2>2, EndTaskRefines
<1>7. ASSUME NEW w \in Workers, NEW lag \in Lags, WorkerCompletes(w, lag) \/ WorkerFails(w, lag)
      PROVE  \A u \in Tasks : Lifecycle!RowStep(u)
  <2>1. job[w] \in Tasks /\ UNCHANGED cancelRequested
    BY <1>7 DEF WorkerCompletes, WorkerFails, Holding
  <2>2. CASE Owns(w, lag)
    <3>1. EndTask(w, "succeeded", lag) \/ EndTask(w, "failed", lag)
      BY <1>7, <2>2 DEF WorkerCompletes, WorkerFails
    <3>2. QED BY <2>1, <2>2, <3>1, EndTaskRefines
  <2>3. CASE ~Owns(w, lag)
    BY <1>7, <2>1, <2>3, KeepRefines DEF WorkerCompletes, WorkerFails
  <2>4. QED BY <2>2, <2>3
<1>8. ASSUME NEW lag \in Lags, RecoveryResume(lag)
      PROVE  \A u \in Tasks : Lifecycle!RowStep(u)
  BY <1>8 DEF RecoveryResume, Lifecycle!RowStep, Lifecycle!PutBack, Lifecycle!Keep
<1>9. ASSUME NEW lag \in Lags, RecoveryCancelApply(lag)
      PROVE  \A u \in Tasks : Lifecycle!RowStep(u)
  <2>1. ASSUME NEW u \in Tasks, u \in selected
        PROVE  Lifecycle!RowStep(u)
    <3>1. status'[u] = "cancelled" /\ cancelRequested'[u] = TRUE
      BY <1>9, <2>1 DEF RecoveryCancelApply
    <3>2. status[u] \in Active \union {"cancelled"}
      BY <2>1 DEF SelectedStillOpen
    <3>3. CASE status[u] \in Active
      BY <3>1, <3>3 DEF Active, Lifecycle!RowStep, Lifecycle!EndCancelled, Lifecycle!Active
    <3>4. CASE status[u] = "cancelled"
      BY <3>1, <3>4 DEF RequestMatches, Lifecycle!RowStep, Lifecycle!Keep
    <3>5. QED BY <3>2, <3>3, <3>4
  <2>2. ASSUME NEW u \in Tasks, u \notin selected
        PROVE  Lifecycle!RowStep(u)
    <3>1. status'[u] = status[u]
      BY <1>9, <2>2 DEF RecoveryCancelApply
    <3>2. cancelRequested'[u] = cancelRequested[u]
      BY <1>9, <2>2, Zenon DEF RecoveryCancelApply
    <3>3. QED BY <3>1, <3>2 DEF Lifecycle!RowStep, Lifecycle!Keep
  <2>3. QED BY <2>1, <2>2
<1>10. ASSUME NEW lag \in Lags, OfflineRequeue(lag)
       PROVE  \A u \in Tasks : Lifecycle!RowStep(u)
  BY <1>10 DEF OfflineRequeue, ExpiredCancellations, Lifecycle!RowStep, Lifecycle!PutBack,
               Lifecycle!EndCancelled, Lifecycle!Keep, Lifecycle!Active
<1>11. CASE UNCHANGED <<status, cancelRequested>>
  BY <1>11, KeepRefines
<1>12. QED
  BY StepCases, <1>1, <1>2, <1>3, <1>4, <1>5, <1>6, <1>7, <1>8, <1>9, <1>10, <1>11
     DEF Heartbeat, Progress, StartRun, HandlerRaises, HandlerReturns, PauseAtCheckpoint, Crash,
         HeartbeatStops, Restart, RecoveryCancelSelect, Tick, vars, rowVars

\* The lifecycle's own bookkeeping follows from what a row may do.
LEMMA RequestMatchesStep ==
  ASSUME LifecycleInv, [Next]_vars
  PROVE  RequestMatches'
BY EveryRowSteps
   DEF LifecycleInv, RequestMatches, Lifecycle!RowStep, Lifecycle!Create, Lifecycle!PickUp,
       Lifecycle!PutBack, Lifecycle!AskCancel, Lifecycle!EndNormally, Lifecycle!EndCancelled,
       Lifecycle!Keep, Lifecycle!Active

\* Nothing ends a selected row but a cancellation: no handler runs.
LEMMA SelectedStillOpenStep ==
  ASSUME LifecycleInv, [Next]_vars
  PROVE  SelectedStillOpen'
<1> USE DEF LifecycleInv, TypeHolding, TypeOK, SelectedStillOpen, Active
<1>1. CASE RecoveryCancelSelect \/ Restart
  BY <1>1 DEF RecoveryCancelSelect, Restart, rowVars
<1>2. CASE \E lag \in Lags : RecoveryResume(lag) \/ RecoveryCancelApply(lag) \/ OfflineRequeue(lag)
  BY <1>2 DEF RecoveryResume, RecoveryCancelApply, OfflineRequeue, SelectedForDecline
<1>3. CASE UNCHANGED <<status, desktopVars>>
  BY <1>3 DEF desktopVars
<1>4. CASE \E t \in Tasks, lag \in Lags : Enqueue(t, lag) \/ RequestCancelQueued(t, lag)
  BY <1>4 DEF Enqueue, RequestCancelQueued, desktopVars
<1>5. ASSUME UNCHANGED desktopVars, \E w \in Workers : stage[w] # "idle" \/ MayClaim(w)
      PROVE  SelectedStillOpen'
  <2>1. selected = {}
    BY <1>5 DEF RecoveryIsQuiet, SelectedForDecline, MayClaim
  <2>2. QED BY <1>5, <2>1 DEF desktopVars
<1>6. QED
  BY StepCases, <1>1, <1>2, <1>3, <1>4, <1>5
     DEF RequestCancelRunning, ClaimNothing, ClaimTask, Heartbeat,
         Progress, StartRun, FinishRun, CancelRun, FailRun, WorkerCompletes, WorkerFails,
         HandlerRaises, HandlerReturns, PauseAtCheckpoint, Crash, HeartbeatStops, Tick, vars, rowVars

LEMMA LifecycleInvInit == Init => LifecycleInv
BY TypeHoldingInit
   DEF Init, LifecycleInv, RecoveryIsQuiet, SelectedForDecline, SelectedStillOpen, RequestMatches

LEMMA LifecycleInvStep == LifecycleInv /\ [Next]_vars => LifecycleInv'
BY TypeHoldingStep, RecoveryIsQuietStep, SelectedForDeclineStep, SelectedStillOpenStep,
   RequestMatchesStep DEF LifecycleInv

\* Recovery waits for the user with every handler stopped.
THEOREM RecoveryQuiet == Spec => []RecoveryIsQuiet
<1>1. LifecycleInv => RecoveryIsQuiet
  BY DEF LifecycleInv
<1>2. QED
  BY <1>1, LifecycleInvInit, LifecycleInvStep, PTL DEF Spec

\* Declining recovery touches only rows that are active or already cancelled,
\* although cancel_desktop_recovery updates by id.
THEOREM DeclineIsSafe == Spec => []SelectedStillOpen
<1>1. LifecycleInv => SelectedStillOpen
  BY DEF LifecycleInv
<1>2. QED
  BY <1>1, LifecycleInvInit, LifecycleInvStep, PTL DEF Spec

\* The durable queue with its leases, clocks and recoveries does nothing the
\* abstract lifecycle of a task does not allow.
THEOREM QueueImplementsLifecycle == Spec => ImplementsLifecycle
<1>1. Init => Lifecycle!Init
  BY DEF Init, Lifecycle!Init
<1>2. LifecycleInv /\ [Next]_vars => [Lifecycle!Next]_(Lifecycle!vars)
  <2> SUFFICES ASSUME LifecycleInv, [Next]_vars
               PROVE  Lifecycle!Next
    OBVIOUS
  <2>1. status' \in [Tasks -> {"absent"} \union Active \union Terminal]
        /\ cancelRequested' \in [Tasks -> BOOLEAN]
    BY LifecycleInvStep DEF LifecycleInv, TypeHolding, TypeOK
  <2>2. QED
    BY <2>1, EveryRowSteps DEF Lifecycle!Next, Active, Terminal, Lifecycle!Active, Lifecycle!Terminal
<1>3. QED
  BY <1>1, <1>2, LifecycleInvInit, LifecycleInvStep, PTL
     DEF Spec, ImplementsLifecycle, Lifecycle!Spec

\* A requested cancellation is never overtaken by the handler's result,
\* whatever cancel, complete and fail do to the row and in which order.
THEOREM CancellationWins == Spec => []CancelWins
<1>1. Init => CancelWins
  BY DEF Init, CancelWins
<1>2. LifecycleInv /\ CancelWins /\ [Next]_vars => CancelWins'
  <2> SUFFICES ASSUME LifecycleInv, CancelWins, [Next]_vars
               PROVE  CancelWins'
    OBVIOUS
  <2>1. QED
    BY EveryRowSteps
       DEF CancelWins, Lifecycle!RowStep, Lifecycle!Create, Lifecycle!PickUp, Lifecycle!PutBack,
           Lifecycle!AskCancel, Lifecycle!EndNormally, Lifecycle!EndCancelled, Lifecycle!Keep
<1>3. QED
  BY <1>1, <1>2, LifecycleInvInit, LifecycleInvStep, PTL DEF Spec
=============================================================================
