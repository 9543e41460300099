-------------------------- MODULE BacktestRunProofs --------------------------
(***************************************************************************)
(* Theorems of BacktestRun, for any runners, symbols and number of claims: *)
(* results are consistent and final, a report is complete, work is never   *)
(* repeated, and the whole implements RunPublication.                      *)
(*                                                                         *)
(* The argument.  Tokens are numbered, so a runner that owns the claim is  *)
(* alone in owning it (Tokens), and only an owner writes a result.  What   *)
(* an owner has read it has read as the owner, so nobody has written since *)
(* (Snapshots): its todo list is still the pending symbols, the trades it  *)
(* summarised are still all trades.  A checkpoint moves symbol, counters   *)
(* and rows together (CountersAgree), so a run whose counter is full has   *)
(* no pending symbol, after which nothing can be written at all.           *)
(***************************************************************************)
EXTENDS BacktestRun, FiniteSetTheorems, WellFoundedInduction, TLAPS

\* Every live claim has a number of its own, and only a running row has one.
Tokens ==
    /\ token <= claims /\ \A r \in Runners : held[r] <= claims
    /\ status = "running" <=> token # 0
    /\ \A r \in Runners : stage[r] = "idle" <=> held[r] = 0
    /\ \A q, r \in Runners : q # r /\ held[q] = held[r] => held[r] = 0

\* What an owner has read is what is stored.
Snapshots ==
    /\ WorkIsNotRepeated
    /\ \A r \in Runners : stage[r] = "computing" => todo[r] # {}
    /\ \A r \in Runners : Owns(r) /\ stage[r] = "finishing" => samples[r] = tradeRows

RunInv == TypeOK /\ Tokens /\ CountersAgree /\ Snapshots /\ ReportIsComplete

(***************************************************************************)
(* A runner's next symbol is one of its list: a set of numbers that is not *)
(* empty has a least member.                                               *)
(***************************************************************************)
LEMMA LeastExists ==
    ASSUME NEW S \in SUBSET Nat, S # {}
    PROVE  \E s \in S : \A u \in S : s <= u
<1> DEFINE UpTo(m) == {k \in S : k <= m}
           Family  == {UpTo(m) : m \in S}
<1>1. ASSUME NEW m \in S PROVE UpTo(m) \in FiniteSubsetsOf(S)
  <2>1. UpTo(m) \in SUBSET Nat /\ m \in Nat /\ \A k \in UpTo(m) : k <= m
    OBVIOUS
  <2>2. IsFiniteSet(UpTo(m))
    BY <2>1, FS_BoundedSetOfNaturals
  <2> QED
    BY <2>2 DEF FiniteSubsetsOf
<1>2. Family \subseteq FiniteSubsetsOf(S) /\ Family # {}
  BY <1>1
<1>3. IsWellFoundedOn(StrictSubsetOrdering(S), FiniteSubsetsOf(S))
  BY FS_StrictSubsetOrderingWellFounded
<1>4. PICK X \in Family : \A Y \in Family : <<Y, X>> \notin StrictSubsetOrdering(S)
  BY <1>2, <1>3, WFMin
<1>5. PICK m \in S : X = UpTo(m)
  BY <1>4
<1>6. ASSUME NEW u \in S PROVE m <= u
  <2> SUFFICES ASSUME u < m PROVE FALSE
    OBVIOUS
  <2>0. u \in Nat /\ m \in Nat
    OBVIOUS
  <2>1. UpTo(u) \subseteq UpTo(m) /\ m \in UpTo(m) /\ m \notin UpTo(u)
    <3>1. m \in UpTo(m)
      BY <2>0
    <3>2. m \notin UpTo(u)
      BY <2>0
    <3>3. ASSUME NEW k \in UpTo(u) PROVE k \in UpTo(m)
      <4>1. k \in Nat /\ k \in S /\ k <= u
        OBVIOUS
      <4>2. k <= m
        BY <2>0, <4>1
      <4> QED
        BY <4>1, <4>2
    <3> QED
      BY <3>1, <3>2, <3>3
  <2>2. UpTo(u) \in SUBSET S /\ UpTo(m) \in SUBSET S /\ UpTo(u) # UpTo(m)
    BY <2>1
  <2>3. <<UpTo(u), X>> \in StrictSubsetOrdering(S)
    BY <1>5, <2>1, <2>2 DEF StrictSubsetOrdering
  <2> QED
    BY <1>4, <2>3
<1> QED
  BY <1>6

LEMMA NextIsListed ==
    ASSUME TypeOK, NEW r \in Runners, todo[r] # {}
    PROVE  NextTodo(r) \in todo[r] /\ NextTodo(r) \in Symbols
<1>1. todo[r] \in SUBSET Symbols /\ todo[r] \in SUBSET Nat
  BY SymbolsAssumption DEF TypeOK
<1>2. \E s \in todo[r] : \A u \in todo[r] : s <= u
  BY <1>1, LeastExists
<1> QED
  BY <1>1, <1>2 DEF NextTodo

(***************************************************************************)
(* What the moves of a runner do to the locals.                            *)
(***************************************************************************)
LEMMA GoToFacts ==
    ASSUME TypeOK, NEW r \in Runners, NEW s \in Stages, GoTo(r, s)
    PROVE  /\ stage' \in [Runners -> Stages]
           /\ held' = held /\ todo' = todo /\ samples' = samples
           /\ \A q \in Runners : stage'[q] = IF q = r THEN s ELSE stage[q]
BY DEF TypeOK, GoTo

LEMMA ForgetFacts ==
    ASSUME TypeOK, NEW R \in SUBSET Runners, Forget(R)
    PROVE  /\ stage' \in [Runners -> Stages] /\ held' \in [Runners -> 0..MaxClaims]
           /\ todo' \in [Runners -> SUBSET Symbols] /\ samples' \in [Runners -> SUBSET Rows]
           /\ \A q \in Runners :
                IF q \in R THEN stage'[q] = "idle" /\ held'[q] = 0 /\ todo'[q] = {}
                ELSE /\ stage'[q] = stage[q] /\ held'[q] = held[q]
                     /\ todo'[q] = todo[q] /\ samples'[q] = samples[q]
<1>1. "idle" \in Stages /\ 0 \in 0..MaxClaims /\ {} \in SUBSET Symbols /\ {} \in SUBSET Rows
  BY ClaimsAssumption DEF Stages
<1> QED
  BY <1>1 DEF TypeOK, Forget

LEMMA LeavesFacts ==
    ASSUME TypeOK, NEW r \in Runners, LeavesKeepalive(r)
    PROVE  /\ stage' \in [Runners -> Stages] /\ held' \in [Runners -> 0..MaxClaims]
           /\ todo' \in [Runners -> SUBSET Symbols] /\ samples' \in [Runners -> SUBSET Rows]
           /\ (stage'[r] = "idle" /\ held'[r] = 0) \/ (stage'[r] = "failing" /\ held'[r] = held[r])
           /\ \A q \in Runners \ {r} :
                /\ stage'[q] = stage[q] /\ held'[q] = held[q]
                /\ todo'[q] = todo[q] /\ samples'[q] = samples[q]
<1>1. CASE Forget({r})
  BY <1>1, ForgetFacts
<1>2. CASE GoTo(r, "failing")
  <2>1. "failing" \in Stages
    BY DEF Stages
  <2> QED
    BY <1>2, <2>1, GoToFacts DEF TypeOK
<1> QED
  BY <1>1, <1>2 DEF LeavesKeepalive

(***************************************************************************)
(* Type correctness and tokens: one step per action.                       *)
(***************************************************************************)
LEMMA InitHolds == Init => RunInv
<1> SUFFICES ASSUME Init PROVE RunInv
  OBVIOUS
<1>1. TypeOK
  <2>1. /\ desktop \in BOOLEAN /\ recovery \in BOOLEAN /\ cancelRequested \in BOOLEAN
        /\ lapsed \in BOOLEAN
    BY DEF Init
  <2>2. /\ status \in Active \union Ended /\ run \in Active \union Ended \union {"partial_failed"}
        /\ token \in 0..MaxClaims /\ claims \in 0..MaxClaims
        /\ progress \in Nat /\ processed \in Nat /\ failedCount \in Nat
        /\ symbol \in [Symbols -> {"pending", "succeeded", "failed"}]
        /\ tradeRows \in SUBSET Rows /\ failureRows \in SUBSET Rows
        /\ reports \in SUBSET SUBSET Rows
    BY ClaimsAssumption DEF Init, Active
  <2>3. /\ stage \in [Runners -> Stages] /\ held \in [Runners -> 0..MaxClaims]
        /\ todo \in [Runners -> SUBSET Symbols] /\ samples \in [Runners -> SUBSET Rows]
    BY ClaimsAssumption DEF Init, Stages
  <2> QED
    BY <2>1, <2>2, <2>3 DEF TypeOK
<1>2. Tokens
  BY ClaimsAssumption DEF Init, Tokens
<1>3. Symbols \ Pending = {} /\ FailedOnes = {}
  BY DEF Init, Pending, FailedOnes
<1>4. CountersAgree
  <2>1. Cardinality({}) = 0
    BY FS_EmptySet
  <2> QED
    BY <1>3, <2>1 DEF Init, CountersAgree
<1>5. Snapshots /\ ReportIsComplete
  BY DEF Init, Snapshots, WorkIsNotRepeated, ReportIsComplete
<1> QED
  BY <1>1, <1>2, <1>4, <1>5 DEF RunInv

LEMMA TypeStep ==
    ASSUME RunInv, [Next]_vars
    PROVE  TypeOK'
<1> USE ClaimsAssumption
<1> TypeOK
  BY DEF RunInv
<1> DEFINE LocalsOK == /\ stage' \in [Runners -> Stages]
                       /\ held' \in [Runners -> 0..MaxClaims]
                       /\ todo' \in [Runners -> SUBSET Symbols]
                       /\ samples' \in [Runners -> SUBSET Rows]
           ClaimOK  == /\ status' \in Active \union Ended
                       /\ token' \in 0..MaxClaims /\ claims' \in 0..MaxClaims
                       /\ lapsed' \in BOOLEAN /\ cancelRequested' \in BOOLEAN
           RunOK    == run' \in Active \union Ended \union {"partial_failed"}
<1>a. ASSUME NEW r \in Runners, NEW s \in Stages, GoTo(r, s)
      PROVE  LocalsOK
  BY <1>a, GoToFacts DEF TypeOK
<1>b. Outcome("failed") \in Ended /\ Outcome("succeeded") \in Ended /\ "cancelled" \in Ended
  BY DEF Outcome, Ended
<1>c. FinishedRun \in Ended \union {"partial_failed"}
  BY DEF FinishedRun, Outcome, Ended
<1>d. ASSUME NEW o \in Ended, EndTask(o)
      PROVE  ClaimOK
  <2>1. status' = o /\ token' = 0 /\ claims' = claims /\ cancelRequested' = cancelRequested
    BY <1>d DEF EndTask
  <2>2. lapsed' \in BOOLEAN
    BY <1>d DEF EndTask
  <2>3. status' \in Active \union Ended /\ token' \in 0..MaxClaims /\ claims' \in 0..MaxClaims
    BY <2>1 DEF TypeOK
  <2>4. cancelRequested' \in BOOLEAN
    BY <2>1 DEF TypeOK
  <2> QED
    BY <2>2, <2>3, <2>4
<1>0. CASE UNCHANGED vars
  <2>1. /\ UNCHANGED <<desktop, recovery, status, cancelRequested, token, lapsed, progress, claims>>
        /\ UNCHANGED <<run, processed, failedCount, symbol, tradeRows, failureRows, reports>>
        /\ UNCHANGED <<stage, held, todo, samples>>
    BY <1>0 DEF vars, taskVars, resultVars, localVars
  <2> QED
    BY <2>1 DEF TypeOK
<1>1. CASE EndLapsedCancellation
  <2>1. ClaimOK
    BY <1>1, <1>b, <1>d DEF EndLapsedCancellation
  <2>2. RunOK
    BY <1>1 DEF EndLapsedCancellation, CancelRun, TypeOK, Ended
  <2>3. UNCHANGED <<desktop, recovery, progress, resultVars, localVars>>
    BY <1>1 DEF EndLapsedCancellation
  <2> QED
    BY <2>1, <2>2, <2>3 DEF TypeOK, resultVars, localVars
<1>2. CASE RequestCancel
  BY <1>2 DEF RequestCancel, TypeOK, resultVars, localVars, Active, Ended
<1>3. CASE SidecarRestarts
  <2>1. LocalsOK
    BY <1>3, ForgetFacts DEF SidecarRestarts
  <2> QED
    BY <1>3, <2>1 DEF SidecarRestarts, TypeOK, taskVars, resultVars
<1>4. CASE RecoveryResume
  <2>1. UNCHANGED <<desktop, cancelRequested, progress, claims, run, resultVars, localVars>>
    BY <1>4 DEF RecoveryResume
  <2>2. recovery' \in BOOLEAN /\ lapsed' \in BOOLEAN
    BY <1>4 DEF RecoveryResume, TypeOK
  <2>3. status' \in Active \union Ended /\ token' \in 0..MaxClaims
    BY <1>4 DEF RecoveryResume, TypeOK, Active
  <2> QED
    BY <2>1, <2>2, <2>3 DEF TypeOK, resultVars, localVars
<1>5. CASE RecoveryCancel
  <2>1. UNCHANGED <<desktop, progress, claims, resultVars, localVars>>
    BY <1>5 DEF RecoveryCancel
  <2>2. recovery' \in BOOLEAN /\ lapsed' \in BOOLEAN /\ cancelRequested' \in BOOLEAN
    BY <1>5 DEF RecoveryCancel, TypeOK
  <2>3. status' \in Active \union Ended /\ token' \in 0..MaxClaims
    BY <1>5 DEF RecoveryCancel, TypeOK, Ended
  <2>4. run' \in Active \union Ended \union {"partial_failed"}
    BY <1>5 DEF RecoveryCancel, CancelRun, TypeOK, Ended
  <2> QED
    BY <2>1, <2>2, <2>3, <2>4 DEF TypeOK, resultVars, localVars
<1>6. CASE OfflineRequeue
  <2>1. UNCHANGED <<desktop, recovery, cancelRequested, progress, claims, run, resultVars, localVars>>
    BY <1>6 DEF OfflineRequeue
  <2>2. status' \in Active \union Ended /\ token' \in 0..MaxClaims
    BY <1>6 DEF OfflineRequeue, Active
  <2>3. lapsed' \in BOOLEAN
    BY <1>6 DEF OfflineRequeue
  <2> QED
    BY <2>1, <2>2, <2>3 DEF TypeOK, resultVars, localVars
<1>7. CASE LeaseLapses
  BY <1>7 DEF LeaseLapses, TypeOK, resultVars, localVars
<1>8. ASSUME NEW r \in Runners, Claim(r)
      PROVE  TypeOK'
  <2>1. claims' \in 0..MaxClaims /\ token' \in 0..MaxClaims
    BY <1>8 DEF Claim, TypeOK
  <2>2. LocalsOK
    BY <1>8, <2>1 DEF Claim, TypeOK, Stages
  <2>3. ClaimOK
    BY <1>8, <2>1 DEF Claim, TypeOK, Active
  <2>4. /\ UNCHANGED <<desktop, recovery, progress, run, processed, failedCount>>
        /\ UNCHANGED <<symbol, tradeRows, failureRows, reports>>
    BY <1>8 DEF Claim, resultVars
  <2> QED
    BY <2>2, <2>3, <2>4 DEF TypeOK
<1>9. ASSUME NEW r \in Runners, Works(r)
      PROVE  TypeOK'
  <2>1. CASE StartRun(r)
    <3>1. LocalsOK
      BY <1>a, <2>1 DEF StartRun, Stages
    <3> QED
      BY <2>1, <3>1 DEF StartRun, TypeOK, taskVars, resultVars, Active
  <2>2. CASE ReadRun(r)
    <3>1. LocalsOK
      BY <2>2 DEF ReadRun, ReadPending, Pending, TypeOK, Stages
    <3> QED
      BY <2>2, <3>1 DEF ReadRun, TypeOK, taskVars, resultVars
  <2>3. CASE NextSymbol(r)
    <3>1. LocalsOK
      BY <1>a, <2>3 DEF NextSymbol, Stages
    <3> QED
      BY <2>3, <3>1 DEF NextSymbol, TypeOK, taskVars, resultVars
  <2>4. CASE LeaveLoop(r)
    <3>1. LocalsOK
      BY <1>a, <2>4 DEF LeaveLoop, Stages
    <3> QED
      BY <2>4, <3>1 DEF LeaveLoop, TypeOK, taskVars, resultVars
  <2>5. CASE Checkpoint(r)
    <3> DEFINE s == NextTodo(r)
    <3>1. PICK result \in Results(s) :
            /\ symbol' = [symbol EXCEPT ![s] = result]
            /\ Counts(result)
            /\ tradeRows' = tradeRows \union (IF result = "succeeded" THEN {<<s, held[r]>>} ELSE {})
            /\ failureRows' = failureRows \union (IF result = "failed" THEN {<<s, held[r]>>} ELSE {})
      BY <2>5 DEF Checkpoint
    <3>2. result \in {"succeeded", "failed"}
      BY DEF Results
    <3>3. symbol' \in [Symbols -> {"pending", "succeeded", "failed"}]
      BY <3>1, <3>2 DEF TypeOK
    <3>4. processed' \in Nat /\ failedCount' \in Nat /\ progress' \in Nat
      BY <2>5, <3>1 DEF Checkpoint, Counts, TypeOK
    <3>5. todo' \in [Runners -> SUBSET Symbols] /\ stage' \in [Runners -> Stages]
      BY <2>5 DEF Checkpoint, Skipped, TypeOK, Stages
    <3>6. <<s, held[r]>> \in Rows
      <4>1. s \in Symbols
        BY <2>5, NextIsListed DEF Checkpoint, RunInv, Snapshots, At
      <4>2. held[r] \in 0..MaxClaims /\ held[r] # 0
        BY <2>5 DEF Checkpoint, RunInv, TypeOK, Tokens, At
      <4> QED
        BY <4>1, <4>2 DEF Rows, Claims
    <3>7. tradeRows' \in SUBSET Rows /\ failureRows' \in SUBSET Rows
      BY <3>1, <3>6 DEF TypeOK
    <3>8. UNCHANGED <<desktop, recovery, status, cancelRequested, token, lapsed, claims, run,
                      reports, held, samples>>
      BY <2>5 DEF Checkpoint
    <3> QED
      BY <3>3, <3>4, <3>5, <3>7, <3>8 DEF TypeOK
  <2>6. CASE CheckpointDecided(r)
    <3>1. LocalsOK
      BY <2>6 DEF CheckpointDecided, Skipped, TypeOK, Stages
    <3> QED
      BY <2>6, <3>1 DEF CheckpointDecided, TypeOK, taskVars, resultVars
  <2>7. CASE Close(r)
    <3>1. LocalsOK
      <4>1. CASE cancelRequested
        BY <1>a, <2>7, <4>1 DEF Close, Stages
      <4>2. CASE ~cancelRequested
        BY <2>7, <4>2 DEF Close, TypeOK, Stages
      <4> QED
        BY <4>1, <4>2
    <3> QED
      BY <2>7, <3>1 DEF Close, TypeOK, taskVars, resultVars
  <2>8. CASE FinishClaim(r)
    <3>1. LocalsOK
      BY <2>8, LeavesFacts DEF FinishClaim
    <3>2. ClaimOK
      BY <1>b, <1>d, <2>8 DEF FinishClaim
    <3>3. progress' \in Nat /\ reports' \in SUBSET SUBSET Rows
      BY <2>8 DEF FinishClaim, TypeOK
    <3>4. run' \in Ended \union {"partial_failed"}
      BY <1>c, <2>8 DEF FinishClaim
    <3>5. UNCHANGED <<desktop, recovery, processed, failedCount, symbol, tradeRows, failureRows>>
      BY <2>8 DEF FinishClaim
    <3> QED
      BY <3>1, <3>2, <3>3, <3>4, <3>5 DEF TypeOK
  <2>9. CASE CancelClaim(r)
    <3>1. LocalsOK
      BY <2>9, LeavesFacts DEF CancelClaim
    <3>2. ClaimOK
      BY <1>b, <1>d, <2>9 DEF CancelClaim
    <3>3. RunOK /\ UNCHANGED <<desktop, recovery, progress, resultVars>>
      BY <1>b, <2>9 DEF CancelClaim
    <3> QED
      BY <3>1, <3>2, <3>3 DEF TypeOK, resultVars
  <2>10. CASE RunnerRaises(r) \/ FailClaimSwallowed(r)
    <3>1. LocalsOK
      BY <1>a, <2>10 DEF RunnerRaises, Raises, FailClaimSwallowed, Stages
    <3> QED
      BY <2>10, <3>1 DEF RunnerRaises, Raises, FailClaimSwallowed, TypeOK, taskVars, resultVars
  <2>11. CASE FailClaim(r)
    <3>1. LocalsOK
      BY <1>a, <2>11 DEF FailClaim, Stages
    <3>2. ClaimOK
      BY <1>b, <1>d, <2>11 DEF FailClaim
    <3>3. RunOK /\ UNCHANGED <<desktop, recovery, progress, resultVars>>
      BY <1>b, <2>11 DEF FailClaim
    <3> QED
      BY <3>1, <3>2, <3>3 DEF TypeOK, resultVars
  <2>12. CASE WorkerFails(r)
    <3>1. LocalsOK
      BY <2>12, ForgetFacts DEF WorkerFails
    <3>2. ClaimOK
      <4>1. CASE Owns(r)
        BY <1>b, <1>d, <2>12, <4>1 DEF WorkerFails
      <4>2. CASE ~Owns(r)
        BY <2>12, <4>2 DEF WorkerFails, TypeOK
      <4> QED
        BY <4>1, <4>2
    <3>3. UNCHANGED <<desktop, recovery, progress, run, resultVars>>
      BY <2>12 DEF WorkerFails
    <3> QED
      BY <3>1, <3>2, <3>3 DEF TypeOK, resultVars
  <2> QED
    BY <1>9, <2>1, <2>2, <2>3, <2>4, <2>5, <2>6, <2>7, <2>8, <2>9, <2>10, <2>11, <2>12 DEF Works
<1>10. ASSUME NEW r \in Runners, Crash(r) \/ PauseAtCheckpoint(r)
       PROVE  TypeOK'
  <2>1. LocalsOK
    BY <1>10, ForgetFacts DEF Crash, PauseAtCheckpoint
  <2> QED
    BY <1>10, <2>1 DEF Crash, PauseAtCheckpoint, TypeOK, taskVars, resultVars
<1> QED
  BY <1>0, <1>1, <1>2, <1>3, <1>4, <1>5, <1>6, <1>7, <1>8, <1>9, <1>10 DEF Next, Environment

(***************************************************************************)
(* Ownership.  No step but a claim makes an owner.                         *)
(***************************************************************************)
KeepsClaim ==
    \/ token' = token /\ (status' = "running" <=> status = "running") /\ (lapsed => lapsed')
    \/ token' = 0 /\ status' # "running"
KeepsRunner(r) ==
    \/ held'[r] = held[r] /\ (stage'[r] = "idle" <=> stage[r] = "idle")
    \/ held'[r] = 0 /\ stage'[r] = "idle"

LEMMA StepKeeps ==
    ASSUME RunInv, Environment \/ (\E r \in Runners : Works(r) \/ Crash(r) \/ PauseAtCheckpoint(r))
    PROVE  claims' = claims /\ KeepsClaim /\ \A r \in Runners : KeepsRunner(r)
<1> TypeOK /\ Tokens
  BY DEF RunInv
<1>a. ASSUME NEW o \in Ended, EndTask(o)
      PROVE  claims' = claims /\ KeepsClaim
  BY <1>a DEF EndTask, KeepsClaim, Ended
<1>b. ASSUME UNCHANGED taskVars
      PROVE  claims' = claims /\ KeepsClaim
  BY <1>b DEF taskVars, KeepsClaim
<1>c. ASSUME UNCHANGED localVars, NEW r \in Runners
      PROVE  KeepsRunner(r)
  BY <1>c DEF localVars, KeepsRunner
<1>d. ASSUME NEW r \in Runners, NEW s \in Stages, GoTo(r, s), s # "idle", stage[r] # "idle",
             NEW q \in Runners
      PROVE  KeepsRunner(q)
  BY <1>d, GoToFacts DEF KeepsRunner
<1>e. ASSUME NEW R \in SUBSET Runners, Forget(R), NEW q \in Runners
      PROVE  KeepsRunner(q)
  BY <1>e, ForgetFacts DEF KeepsRunner
<1>f. ASSUME NEW r \in Runners, LeavesKeepalive(r), stage[r] # "idle", NEW q \in Runners
      PROVE  KeepsRunner(q)
  BY <1>f, LeavesFacts DEF KeepsRunner
<1>g. Outcome("failed") \in Ended /\ Outcome("succeeded") \in Ended /\ "cancelled" \in Ended
  BY DEF Outcome, Ended
<1>1. CASE EndLapsedCancellation
  BY <1>1, <1>a, <1>c, <1>g DEF EndLapsedCancellation
<1>2. CASE RequestCancel
  <2>1. /\ claims' = claims /\ token' = token /\ lapsed' = lapsed
        /\ status' = "running" <=> status = "running"
        /\ UNCHANGED localVars
    BY <1>2 DEF RequestCancel, Active
  <2> QED
    BY <2>1, <1>c DEF KeepsClaim
<1>3. CASE SidecarRestarts
  BY <1>3, <1>b, <1>e DEF SidecarRestarts
<1>4. CASE RecoveryResume
  <2>1. UNCHANGED localVars /\ claims' = claims
    BY <1>4 DEF RecoveryResume
  <2>2. KeepsClaim
    BY <1>4 DEF RecoveryResume, KeepsClaim
  <2> QED
    BY <2>1, <2>2, <1>c
<1>5. CASE RecoveryCancel
  <2>1. UNCHANGED localVars /\ claims' = claims
    BY <1>5 DEF RecoveryCancel
  <2>2. KeepsClaim
    BY <1>5 DEF RecoveryCancel, KeepsClaim
  <2> QED
    BY <2>1, <2>2, <1>c
<1>6. CASE OfflineRequeue
  <2>1. UNCHANGED localVars /\ claims' = claims /\ token' = 0 /\ status' # "running"
    BY <1>6 DEF OfflineRequeue
  <2> QED
    BY <2>1, <1>c DEF KeepsClaim
<1>7. CASE LeaseLapses
  <2>1. UNCHANGED localVars /\ claims' = claims /\ token' = token /\ status' = status /\ lapsed'
    BY <1>7 DEF LeaseLapses
  <2> QED
    BY <2>1, <1>c DEF KeepsClaim
<1>8. ASSUME NEW r \in Runners, Works(r), NEW q \in Runners
      PROVE  claims' = claims /\ KeepsClaim /\ KeepsRunner(q)
  <2>1. CASE StartRun(r)
    BY <1>b, <1>d, <2>1 DEF StartRun, Stages, At
  <2>2. CASE ReadRun(r)
    <3>1. UNCHANGED <<taskVars, held>> /\ stage' = [stage EXCEPT ![r] = "loop"] /\ stage[r] # "idle"
      BY <2>2 DEF ReadRun, At
    <3> QED
      BY <1>b, <3>1 DEF KeepsRunner, TypeOK
  <2>3. CASE NextSymbol(r)
    BY <1>b, <1>d, <2>3 DEF NextSymbol, Stages, Looping
  <2>4. CASE LeaveLoop(r)
    BY <1>b, <1>d, <2>4 DEF LeaveLoop, Stages, Looping
  <2>5. CASE Checkpoint(r) \/ CheckpointDecided(r)
    <3>1. /\ UNCHANGED <<status, token, lapsed, claims, held>>
          /\ stage' = [stage EXCEPT ![r] = "checkpointed"] /\ stage[r] # "idle"
      BY <2>5 DEF Checkpoint, CheckpointDecided, At, taskVars
    <3> QED
      BY <3>1 DEF KeepsClaim, KeepsRunner, TypeOK
  <2>6. CASE Close(r)
    <3>1. UNCHANGED <<taskVars, held>> /\ stage[r] # "idle"
      BY <2>6 DEF Close, GoTo, At
    <3>2. \E s \in {"cancelling", "finishing"} : stage' = [stage EXCEPT ![r] = s]
      BY <2>6 DEF Close, GoTo
    <3> QED
      BY <1>b, <3>1, <3>2 DEF KeepsRunner, TypeOK
  <2>7. CASE FinishClaim(r)
    BY <1>a, <1>f, <1>g, <2>7 DEF FinishClaim, At
  <2>8. CASE CancelClaim(r)
    BY <1>a, <1>f, <1>g, <2>8 DEF CancelClaim, At
  <2>9. CASE RunnerRaises(r) \/ FailClaimSwallowed(r)
    BY <1>b, <1>d, <2>9 DEF RunnerRaises, Raises, FailClaimSwallowed, Stages, At
  <2>10. CASE FailClaim(r)
    BY <1>a, <1>d, <1>g, <2>10 DEF FailClaim, Stages, At
  <2>11. CASE WorkerFails(r)
    <3>1. KeepsRunner(q)
      BY <1>e, <2>11 DEF WorkerFails
    <3>2. CASE Owns(r)
      BY <1>a, <1>g, <2>11, <3>1, <3>2 DEF WorkerFails
    <3>3. CASE ~Owns(r)
      <4>1. UNCHANGED <<status, token, lapsed, claims>>
        BY <2>11, <3>3 DEF WorkerFails
      <4> QED
        BY <3>1, <4>1 DEF KeepsClaim
    <3> QED
      BY <3>2, <3>3
  <2> QED
    BY <1>8, <2>1, <2>2, <2>3, <2>4, <2>5, <2>6, <2>7, <2>8, <2>9, <2>10, <2>11 DEF Works
<1>9. ASSUME NEW r \in Runners, Crash(r) \/ PauseAtCheckpoint(r), NEW q \in Runners
      PROVE  claims' = claims /\ KeepsClaim /\ KeepsRunner(q)
  BY <1>9, <1>b, <1>e DEF Crash, PauseAtCheckpoint
<1>10. CASE Environment
  BY <1>1, <1>2, <1>3, <1>4, <1>5, <1>6, <1>7, <1>10 DEF Environment
<1>11. CASE \E r \in Runners : Works(r) \/ Crash(r) \/ PauseAtCheckpoint(r)
  <2>1. PICK r \in Runners : Works(r) \/ Crash(r) \/ PauseAtCheckpoint(r)
    BY <1>11
  <2>2. ASSUME NEW q \in Runners PROVE claims' = claims /\ KeepsClaim /\ KeepsRunner(q)
    BY <1>8, <1>9, <2>1
  <2> QED
    BY <2>2
<1> QED
  BY <1>10, <1>11

LEMMA ClaimFacts ==
    ASSUME RunInv, NEW r \in Runners, Claim(r)
    PROVE  /\ claims' = claims + 1 /\ token' = claims + 1 /\ status' = "running"
           /\ \A q \in Runners : held'[q] = IF q = r THEN claims + 1 ELSE held[q]
           /\ \A q \in Runners : stage'[q] = IF q = r THEN "claimed" ELSE stage[q]
           /\ stage[r] = "idle"
           /\ UNCHANGED <<desktop, recovery, cancelRequested, progress, run, resultVars, todo, samples>>
BY DEF Claim, RunInv, TypeOK, MayClaim, At

LEMMA TokensStep ==
    ASSUME RunInv, [Next]_vars
    PROVE  Tokens'
<1> TypeOK /\ Tokens
  BY DEF RunInv
<1>0. claims \in Nat /\ token \in Nat /\ \A r \in Runners : held[r] \in Nat
  BY ClaimsAssumption DEF TypeOK
<1>1. CASE UNCHANGED vars
  <2>1. UNCHANGED <<token, claims, status, held, stage>>
    BY <1>1 DEF vars, taskVars, localVars
  <2> QED
    BY <2>1 DEF Tokens
<1>2. ASSUME NEW r \in Runners, Claim(r)
      PROVE  Tokens'
  <2>1. \A q \in Runners : held[q] <= claims /\ held[q] # claims + 1
    BY <1>0 DEF Tokens
  <2> QED
    BY <1>0, <1>2, <2>1, ClaimFacts DEF Tokens
<1>3. CASE Environment \/ (\E r \in Runners : Works(r) \/ Crash(r) \/ PauseAtCheckpoint(r))
  <2>1. claims' = claims /\ KeepsClaim /\ \A r \in Runners : KeepsRunner(r)
    BY <1>3, StepKeeps
  <2>2. token' <= claims' /\ (status' = "running" <=> token' # 0)
    BY <1>0, <2>1 DEF KeepsClaim, Tokens
  <2>3. \A r \in Runners : held'[r] \in {held[r], 0} /\ held'[r] <= claims'
    BY <1>0, <2>1 DEF KeepsRunner, Tokens
  <2>4. \A r \in Runners : stage'[r] = "idle" <=> held'[r] = 0
    BY <2>1 DEF KeepsRunner, Tokens
  <2>5. \A q, r \in Runners : q # r /\ held'[q] = held'[r] => held'[r] = 0
    BY <2>3 DEF Tokens
  <2> QED
    BY <2>2, <2>3, <2>4, <2>5 DEF Tokens
<1> QED
  BY <1>1, <1>2, <1>3 DEF Next

\* An owner was the owner before, or has just claimed.
LEMMA OwnersWereOwners ==
    ASSUME RunInv, [Next]_vars, NEW r \in Runners, Owns(r)'
    PROVE  \/ Owns(r) /\ held'[r] = held[r]
           \/ Claim(r) /\ stage'[r] = "claimed"
<1> TypeOK /\ Tokens /\ Tokens'
  BY TokensStep DEF RunInv
<1>0. status' = "running" /\ token' = held'[r] /\ ~lapsed'
  BY DEF Owns
<1>1. CASE UNCHANGED vars
  <2>1. UNCHANGED <<status, token, held, lapsed>>
    BY <1>1 DEF vars, taskVars, localVars
  <2> QED
    BY <1>0, <2>1 DEF Owns
<1>2. ASSUME NEW q \in Runners, Claim(q)
      PROVE  Claim(r) /\ stage'[r] = "claimed"
  <2>1. held[r] <= claims /\ held[r] \in Nat /\ claims \in Nat
    BY ClaimsAssumption DEF Tokens, TypeOK
  <2>2. r = q
    BY <1>0, <1>2, <2>1, ClaimFacts
  <2> QED
    BY <1>2, <2>2, ClaimFacts
<1>3. CASE Environment \/ (\E q \in Runners : Works(q) \/ Crash(q) \/ PauseAtCheckpoint(q))
  <2>1. KeepsClaim /\ KeepsRunner(r)
    BY <1>3, StepKeeps
  <2>2. held'[r] # 0
    BY <1>0 DEF Tokens
  <2>3. token' = token /\ status = "running" /\ ~lapsed
    BY <1>0, <2>1 DEF KeepsClaim
  <2>4. held'[r] = held[r]
    BY <2>1, <2>2 DEF KeepsRunner
  <2> QED
    BY <1>0, <2>3, <2>4 DEF Owns
<1> QED
  BY <1>1, <1>2, <1>3 DEF Next

LEMMA OneOwner ==
    ASSUME RunInv, NEW q \in Runners, NEW r \in Runners, Owns(q), Owns(r)
    PROVE  q = r
BY DEF RunInv, Tokens, Owns

(***************************************************************************)
(* Results.  Only a checkpoint and the end of the run write any.           *)
(***************************************************************************)
LEMMA ResultSteps ==
    ASSUME RunInv, [Next]_vars
    PROVE  \/ UNCHANGED <<progress, processed, failedCount, symbol, tradeRows, failureRows, reports>>
           \/ \E r \in Runners : Checkpoint(r)
           \/ \E r \in Runners : FinishClaim(r)
<1> DEFINE Unchanged ==
      UNCHANGED <<progress, processed, failedCount, symbol, tradeRows, failureRows, reports>>
<1>1. CASE UNCHANGED vars
  BY <1>1 DEF vars, taskVars, resultVars
<1>2. CASE Environment
  <2>1. CASE EndLapsedCancellation \/ RequestCancel
    BY <2>1 DEF EndLapsedCancellation, RequestCancel, resultVars
  <2>2. CASE SidecarRestarts \/ RecoveryResume
    BY <2>2 DEF SidecarRestarts, RecoveryResume, resultVars, taskVars
  <2>3. CASE RecoveryCancel \/ OfflineRequeue \/ LeaseLapses
    BY <2>3 DEF RecoveryCancel, OfflineRequeue, LeaseLapses, resultVars
  <2> QED
    BY <1>2, <2>1, <2>2, <2>3 DEF Environment
<1>3. ASSUME NEW r \in Runners, Claim(r) \/ Works(r) \/ Crash(r) \/ PauseAtCheckpoint(r)
      PROVE  Unchanged \/ Checkpoint(r) \/ FinishClaim(r)
  <2>1. CASE Claim(r) \/ Crash(r) \/ PauseAtCheckpoint(r)
    BY <2>1 DEF Claim, Crash, PauseAtCheckpoint, taskVars, resultVars
  <2>2. CASE StartRun(r) \/ ReadRun(r) \/ NextSymbol(r)
    BY <2>2 DEF StartRun, ReadRun, NextSymbol, taskVars, resultVars
  <2>3. CASE LeaveLoop(r) \/ CheckpointDecided(r) \/ Close(r)
    BY <2>3 DEF LeaveLoop, CheckpointDecided, Close, taskVars, resultVars
  <2>4. CASE CancelClaim(r) \/ RunnerRaises(r)
    BY <2>4 DEF CancelClaim, RunnerRaises, Raises, taskVars, resultVars
  <2>5. CASE FailClaim(r) \/ FailClaimSwallowed(r) \/ WorkerFails(r)
    BY <2>5 DEF FailClaim, FailClaimSwallowed, WorkerFails, taskVars, resultVars
  <2> QED
    BY <1>3, <2>1, <2>2, <2>3, <2>4, <2>5 DEF Works
<1> QED
  BY <1>1, <1>2, <1>3 DEF Next

\* What one checkpoint writes: the result of a pending symbol, under the owner's claim.
Wrote(r, s, result) ==
    /\ s \in todo[r] /\ s \in Symbols /\ symbol[s] = "pending" /\ result \in {"succeeded", "failed"}
    /\ held[r] \in Claims
    /\ symbol' = [symbol EXCEPT ![s] = result]
    /\ processed' = processed + 1 /\ progress' = processed + 1
    /\ failedCount' = failedCount + IF result = "failed" THEN 1 ELSE 0
    /\ tradeRows' = tradeRows \union (IF result = "succeeded" THEN {<<s, held[r]>>} ELSE {})
    /\ failureRows' = failureRows \union (IF result = "failed" THEN {<<s, held[r]>>} ELSE {})

LEMMA CheckpointWrites ==
    ASSUME RunInv, NEW r \in Runners, Checkpoint(r)
    PROVE  /\ \E s \in Symbols, result \in {"succeeded", "failed"} :
                Wrote(r, s, result) /\ todo' = [todo EXCEPT ![r] = @ \ {s}]
           /\ stage' = [stage EXCEPT ![r] = "checkpointed"]
           /\ Owns(r) /\ stage[r] = "computing" /\ run = "running"
           /\ UNCHANGED <<status, token, lapsed, run, reports, held, samples>>
<1> DEFINE s == NextTodo(r)
<1>1. PICK result \in Results(s) :
        /\ symbol' = [symbol EXCEPT ![s] = result]
        /\ Counts(result)
        /\ tradeRows' = tradeRows \union (IF result = "succeeded" THEN {<<s, held[r]>>} ELSE {})
        /\ failureRows' = failureRows \union (IF result = "failed" THEN {<<s, held[r]>>} ELSE {})
  BY DEF Checkpoint
<1>2. result \in {"succeeded", "failed"}
  BY DEF Results
<1>3. stage[r] = "computing" /\ Owns(r) /\ run = "running" /\ symbol[s] = "pending"
  BY DEF Checkpoint, At
<1>4. s \in todo[r] /\ s \in Symbols
  BY <1>3, NextIsListed DEF RunInv, Snapshots
<1>5. held[r] \in Claims
  BY <1>3 DEF RunInv, TypeOK, Tokens, Claims
<1>6. progress' = processed + 1 /\ todo' = [todo EXCEPT ![r] = @ \ {s}]
  BY DEF Checkpoint, Skipped
<1>7. Wrote(r, s, result)
  BY <1>1, <1>2, <1>3, <1>4, <1>5, <1>6 DEF Wrote, Counts
<1>8. /\ stage' = [stage EXCEPT ![r] = "checkpointed"]
      /\ UNCHANGED <<status, token, lapsed, run, reports, held, samples>>
  BY DEF Checkpoint
<1> QED
  BY <1>2, <1>3, <1>4, <1>6, <1>7, <1>8

LEMMA WroteSets ==
    ASSUME RunInv, NEW r \in Runners, NEW s \in Symbols, NEW result \in {"succeeded", "failed"},
           Wrote(r, s, result)
    PROVE  /\ Pending' = Pending \ {s} /\ s \in Pending
           /\ FailedOnes' = IF result = "failed" THEN FailedOnes \union {s} ELSE FailedOnes
           /\ s \notin FailedOnes
           /\ symbol'[s] = result /\ \A u \in Symbols \ {s} : symbol'[u] = symbol[u]
<1>1. symbol \in [Symbols -> {"pending", "succeeded", "failed"}]
  BY DEF RunInv, TypeOK
<1>2. symbol'[s] = result /\ symbol[s] = "pending" /\ \A u \in Symbols \ {s} : symbol'[u] = symbol[u]
  BY <1>1 DEF Wrote
<1> QED
  BY <1>2 DEF Pending, FailedOnes

\* A full counter means that no symbol is pending, and none failed when none is counted.
LEMMA FullMeansDecided ==
    ASSUME RunInv
    PROVE  /\ processed = Total => Pending = {}
           /\ failedCount = 0 <=> FailedOnes = {}
           /\ IsFiniteSet(Symbols \ Pending) /\ IsFiniteSet(FailedOnes)
<1>1. Symbols \ Pending \in SUBSET Symbols /\ FailedOnes \in SUBSET Symbols /\ Pending \in SUBSET Symbols
  BY DEF FailedOnes, Pending
<1>2. IsFiniteSet(Symbols \ Pending) /\ IsFiniteSet(FailedOnes)
  BY <1>1, FS_Subset, SymbolsAssumption
<1>3. processed = Cardinality(Symbols \ Pending) /\ failedCount = Cardinality(FailedOnes)
  BY DEF RunInv, CountersAgree
<1>4. Cardinality(Symbols) = Cardinality(Symbols \ Pending) => Symbols = Symbols \ Pending
  BY <1>1, FS_Subset, SymbolsAssumption
<1>5. processed = Total => Pending = {}
  BY <1>1, <1>3, <1>4 DEF Total
<1>6. failedCount = 0 <=> FailedOnes = {}
  BY <1>2, <1>3, FS_EmptySet
<1> QED
  BY <1>2, <1>5, <1>6

LEMMA CountersStep ==
    ASSUME RunInv, [Next]_vars
    PROVE  CountersAgree'
<1> CountersAgree
  BY DEF RunInv
<1>1. CASE UNCHANGED <<progress, processed, failedCount, symbol, tradeRows, failureRows, reports>>
  BY <1>1 DEF CountersAgree, Pending, FailedOnes
<1>2. ASSUME NEW r \in Runners, Checkpoint(r)
      PROVE  CountersAgree'
  <2>1. PICK s \in Symbols, result \in {"succeeded", "failed"} : Wrote(r, s, result)
    BY <1>2, CheckpointWrites
  <2>2. /\ Pending' = Pending \ {s} /\ s \in Pending /\ s \notin FailedOnes
        /\ FailedOnes' = IF result = "failed" THEN FailedOnes \union {s} ELSE FailedOnes
        /\ symbol'[s] = result /\ symbol[s] = "pending"
        /\ \A u \in Symbols \ {s} : symbol'[u] = symbol[u]
    BY <2>1, WroteSets DEF Wrote
  <2>3. Symbols \ Pending' = (Symbols \ Pending) \union {s} /\ s \notin Symbols \ Pending
    BY <2>2
  <2>4. processed' = Cardinality(Symbols \ Pending') /\ progress' = processed'
    <3>1. Cardinality((Symbols \ Pending) \union {s}) = Cardinality(Symbols \ Pending) + 1
      BY <2>3, FullMeansDecided, FS_AddElement
    <3> QED
      BY <2>1, <2>3, <3>1 DEF Wrote, CountersAgree
  <2>5. failedCount' = Cardinality(FailedOnes')
    <3>1. Cardinality(FailedOnes \union {s}) = Cardinality(FailedOnes) + 1
      BY <2>2, FullMeansDecided, FS_AddElement
    <3>2. failedCount \in Nat
      BY DEF RunInv, TypeOK
    <3> QED
      BY <2>1, <2>2, <3>1, <3>2 DEF Wrote, CountersAgree
  <2> DEFINE c == held[r]
  <2>6. /\ tradeRows' = IF result = "succeeded" THEN tradeRows \union {<<s, c>>} ELSE tradeRows
        /\ failureRows' = IF result = "failed" THEN failureRows \union {<<s, c>>} ELSE failureRows
        /\ c \in Claims
    BY <2>1 DEF Wrote
  <2>7. \A d \in Claims : <<s, d>> \notin tradeRows /\ <<s, d>> \notin failureRows
    BY <2>2 DEF CountersAgree
  <2> HIDE DEF c
  <2>8. ASSUME NEW u \in Symbols
        PROVE  /\ symbol'[u] = "succeeded" <=> \E d \in Claims : <<u, d>> \in tradeRows'
               /\ symbol'[u] = "failed"    <=> \E d \in Claims : <<u, d>> \in failureRows'
    <3>1. CASE u = s
      BY <2>2, <2>6, <2>7, <3>1
    <3>2. CASE u # s
      <4>1. \A d \in Claims : /\ <<u, d>> \in tradeRows' <=> <<u, d>> \in tradeRows
                              /\ <<u, d>> \in failureRows' <=> <<u, d>> \in failureRows
        BY <2>6, <3>2
      <4> QED
        BY <2>2, <3>2, <4>1 DEF CountersAgree
    <3> QED
      BY <3>1, <3>2
  <2>9. ASSUME NEW u \in Symbols, NEW d \in Claims, NEW e \in Claims,
               {<<u, d>>, <<u, e>>} \subseteq tradeRows' \union failureRows'
        PROVE  d = e
    <3>1. CASE u = s
      BY <2>6, <2>7, <2>9, <3>1
    <3>2. CASE u # s
      <4>1. {<<u, d>>, <<u, e>>} \subseteq tradeRows \union failureRows
        BY <2>6, <2>9, <3>2
      <4> QED
        BY <4>1 DEF CountersAgree
    <3> QED
      BY <3>1, <3>2
  <2> QED
    BY <2>4, <2>5, <2>8, <2>9 DEF CountersAgree
<1>3. ASSUME NEW r \in Runners, FinishClaim(r)
      PROVE  CountersAgree'
  <2>1. /\ UNCHANGED <<processed, failedCount, symbol, tradeRows, failureRows>>
        /\ processed = Total /\ progress' \in {progress, Total}
    BY <1>3 DEF FinishClaim
  <2> QED
    BY <2>1 DEF CountersAgree, Pending, FailedOnes
<1> QED
  BY <1>1, <1>2, <1>3, ResultSteps

(***************************************************************************)
(* What a runner has read.                                                 *)
(***************************************************************************)
SameLocals(r) == stage'[r] = stage[r] /\ todo'[r] = todo[r] /\ samples'[r] = samples[r]

LEMMA OthersKeepLocals ==
    ASSUME RunInv, [Next]_vars, NEW r \in Runners, ~Works(r)
    PROVE  SameLocals(r) \/ stage'[r] \in {"idle", "claimed"}
<1> TypeOK
  BY DEF RunInv
<1>a. ASSUME UNCHANGED localVars PROVE SameLocals(r)
  BY <1>a DEF localVars, SameLocals
<1>b. ASSUME NEW q \in Runners \ {r}, NEW s \in Stages, GoTo(q, s) PROVE SameLocals(r)
  BY <1>b, GoToFacts DEF SameLocals
<1>c. ASSUME NEW R \in SUBSET Runners, Forget(R) PROVE SameLocals(r) \/ stage'[r] = "idle"
  BY <1>c, ForgetFacts DEF SameLocals
<1>d. ASSUME NEW q \in Runners \ {r}, LeavesKeepalive(q) PROVE SameLocals(r)
  BY <1>d, LeavesFacts DEF SameLocals
<1>1. CASE UNCHANGED vars
  BY <1>1, <1>a DEF vars
<1>2. CASE Environment
  <2>1. CASE SidecarRestarts
    BY <1>c, <2>1 DEF SidecarRestarts
  <2>2. CASE ~SidecarRestarts
    BY <1>2, <1>a, <2>2 DEF Environment, EndLapsedCancellation, RequestCancel, RecoveryResume,
       RecoveryCancel, OfflineRequeue, LeaseLapses
  <2> QED
    BY <2>1, <2>2
<1>3. ASSUME NEW q \in Runners, Claim(q) \/ Crash(q) \/ PauseAtCheckpoint(q)
      PROVE  SameLocals(r) \/ stage'[r] \in {"idle", "claimed"}
  <2>1. CASE Claim(q)
    BY <2>1, ClaimFacts DEF SameLocals
  <2>2. CASE Crash(q) \/ PauseAtCheckpoint(q)
    BY <1>c, <2>2 DEF Crash, PauseAtCheckpoint
  <2> QED
    BY <1>3, <2>1, <2>2
<1>4. ASSUME NEW q \in Runners \ {r}, Works(q)
      PROVE  SameLocals(r) \/ stage'[r] = "idle"
  <2>1. CASE StartRun(q) \/ NextSymbol(q) \/ LeaveLoop(q)
    BY <1>b, <2>1 DEF StartRun, NextSymbol, LeaveLoop, Stages
  <2>2. CASE ReadRun(q)
    BY <2>2 DEF ReadRun, SameLocals, TypeOK
  <2>3. CASE Checkpoint(q) \/ CheckpointDecided(q)
    BY <2>3 DEF Checkpoint, CheckpointDecided, Skipped, SameLocals, TypeOK
  <2>4. CASE Close(q)
    BY <2>4 DEF Close, GoTo, SameLocals, TypeOK
  <2>5. CASE FinishClaim(q) \/ CancelClaim(q)
    BY <1>d, <2>5 DEF FinishClaim, CancelClaim
  <2>6. CASE RunnerRaises(q) \/ FailClaim(q) \/ FailClaimSwallowed(q)
    BY <1>b, <2>6 DEF RunnerRaises, Raises, FailClaim, FailClaimSwallowed, Stages
  <2>7. CASE WorkerFails(q)
    BY <1>c, <2>7 DEF WorkerFails
  <2> QED
    BY <1>4, <2>1, <2>2, <2>3, <2>4, <2>5, <2>6, <2>7 DEF Works
<1> QED
  BY <1>1, <1>2, <1>3, <1>4 DEF Next

\* The steps of r itself that lead to a stage where its reading matters.
LEMMA OwnSteps ==
    ASSUME RunInv, NEW r \in Runners, Works(r),
           stage'[r] \in {"loop", "computing", "checkpointed", "finishing"}
    PROVE  \/ ReadRun(r) /\ stage'[r] = "loop" /\ todo'[r] = Pending
           \/ /\ NextSymbol(r) /\ stage'[r] = "computing" /\ todo'[r] = todo[r] /\ todo[r] # {}
              /\ stage[r] \in {"loop", "checkpointed"}
           \/ Checkpoint(r) /\ stage'[r] = "checkpointed"
           \/ CheckpointDecided(r) /\ stage'[r] = "checkpointed" /\ stage[r] = "computing"
           \/ Close(r) /\ stage'[r] = "finishing" /\ samples'[r] = tradeRows
<1> TypeOK
  BY DEF RunInv
<1>a. ASSUME NEW s \in Stages, GoTo(r, s) PROVE stage'[r] = s /\ todo'[r] = todo[r]
  BY <1>a, GoToFacts
<1>1. ~StartRun(r) /\ ~LeaveLoop(r)
  BY <1>a DEF StartRun, LeaveLoop, Stages
<1>2. ~RunnerRaises(r) /\ ~FailClaim(r) /\ ~FailClaimSwallowed(r)
  BY <1>a DEF RunnerRaises, Raises, FailClaim, FailClaimSwallowed, Stages
<1>3. ~FinishClaim(r) /\ ~CancelClaim(r)
  BY LeavesFacts DEF FinishClaim, CancelClaim
<1>4. ~WorkerFails(r)
  BY ForgetFacts DEF WorkerFails
<1>5. CASE ReadRun(r)
  BY <1>5 DEF ReadRun, ReadPending, TypeOK
<1>6. CASE NextSymbol(r)
  BY <1>a, <1>6 DEF NextSymbol, Looping, Stages
<1>7. CASE Checkpoint(r)
  BY <1>7 DEF Checkpoint, TypeOK
<1>8. CASE CheckpointDecided(r)
  BY <1>8 DEF CheckpointDecided, At, TypeOK
<1>9. CASE Close(r)
  <2>1. ~cancelRequested
    BY <1>a, <1>9 DEF Close, Stages
  <2> QED
    BY <1>9, <2>1 DEF Close, TypeOK
<1> QED
  BY <1>1, <1>2, <1>3, <1>4, <1>5, <1>6, <1>7, <1>8, <1>9 DEF Works

\* As long as r owns the claim and does not write itself, nobody does.
LEMMA NobodyElseWrites ==
    ASSUME RunInv, [Next]_vars, NEW r \in Runners, Owns(r), ~Checkpoint(r)
    PROVE  Pending' = Pending /\ tradeRows' = tradeRows
<1>1. CASE UNCHANGED <<progress, processed, failedCount, symbol, tradeRows, failureRows, reports>>
  BY <1>1 DEF Pending
<1>2. ASSUME NEW q \in Runners, Checkpoint(q) PROVE FALSE
  BY <1>2, CheckpointWrites, OneOwner
<1>3. ASSUME NEW q \in Runners, FinishClaim(q) PROVE Pending' = Pending /\ tradeRows' = tradeRows
  BY <1>3 DEF FinishClaim, Pending
<1> QED
  BY <1>1, <1>2, <1>3, ResultSteps

LEMMA SnapshotsStep ==
    ASSUME RunInv, [Next]_vars
    PROVE  Snapshots'
<1> TypeOK /\ Snapshots
  BY DEF RunInv
<1>1. ASSUME NEW r \in Runners, Owns(r)', stage'[r] \in {"loop", "computing", "checkpointed"}
      PROVE  todo'[r] = Pending'
  <2>1. Owns(r)
    BY <1>1, OwnersWereOwners
  <2>2. CASE ~Works(r)
    <3>1. SameLocals(r)
      BY <1>1, <2>2, OthersKeepLocals
    <3>2. ~Checkpoint(r)
      BY <2>2 DEF Works
    <3> QED
      BY <1>1, <2>1, <3>1, <3>2, NobodyElseWrites DEF SameLocals, Snapshots, WorkIsNotRepeated
  <2>3. CASE Checkpoint(r)
    <3>1. PICK s \in Symbols, result \in {"succeeded", "failed"} :
            Wrote(r, s, result) /\ todo' = [todo EXCEPT ![r] = @ \ {s}]
      BY <2>3, CheckpointWrites
    <3>2. todo[r] = Pending
      BY <2>1, <2>3, CheckpointWrites DEF Snapshots, WorkIsNotRepeated
    <3>3. Pending' = Pending \ {s}
      BY <3>1, WroteSets
    <3> QED
      BY <3>1, <3>2, <3>3 DEF TypeOK
  <2>4. CASE Works(r) /\ ~Checkpoint(r)
    <3>1. Pending' = Pending
      BY <2>1, <2>4, NobodyElseWrites
    <3>2. ~CheckpointDecided(r)
      <4> SUFFICES ASSUME CheckpointDecided(r) PROVE FALSE
        OBVIOUS
      <4>1. stage[r] = "computing" /\ symbol[NextTodo(r)] # "pending"
        BY DEF CheckpointDecided, At
      <4>2. NextTodo(r) \in todo[r] /\ todo[r] = Pending
        BY <2>1, <4>1, NextIsListed DEF Snapshots, WorkIsNotRepeated
      <4> QED
        BY <4>1, <4>2 DEF Pending
    <3>3. CASE ReadRun(r) /\ todo'[r] = Pending
      BY <3>1, <3>3
    <3>4. CASE todo'[r] = todo[r] /\ stage[r] \in {"loop", "checkpointed"}
      BY <2>1, <3>1, <3>4 DEF Snapshots, WorkIsNotRepeated
    <3> QED
      BY <1>1, <2>4, <3>2, <3>3, <3>4, OwnSteps
  <2> QED
    BY <2>2, <2>3, <2>4
<1>2. ASSUME NEW r \in Runners, stage'[r] = "computing"
      PROVE  todo'[r] # {}
  <2>1. CASE ~Works(r)
    BY <1>2, <2>1, OthersKeepLocals DEF SameLocals, Snapshots
  <2>2. CASE Works(r)
    BY <1>2, <2>2, OwnSteps
  <2> QED
    BY <2>1, <2>2
<1>3. ASSUME NEW r \in Runners, Owns(r)', stage'[r] = "finishing"
      PROVE  samples'[r] = tradeRows'
  <2>1. Owns(r)
    BY <1>3, OwnersWereOwners
  <2>2. CASE ~Works(r)
    <3>1. SameLocals(r) /\ ~Checkpoint(r)
      BY <1>3, <2>2, OthersKeepLocals DEF Works
    <3> QED
      BY <1>3, <2>1, <3>1, NobodyElseWrites DEF SameLocals, Snapshots
  <2>3. CASE Works(r)
    <3>1. samples'[r] = tradeRows /\ Close(r)
      BY <1>3, <2>3, OwnSteps
    <3>2. ~Checkpoint(r)
      BY <3>1 DEF Close, Checkpoint, At
    <3> QED
      BY <2>1, <3>1, <3>2, NobodyElseWrites
  <2> QED
    BY <2>2, <2>3
<1> QED
  BY <1>1, <1>2, <1>3 DEF Snapshots, WorkIsNotRepeated

(***************************************************************************)
(* The end of the run.                                                     *)
(***************************************************************************)
LEMMA RunSteps ==
    ASSUME RunInv, [Next]_vars
    PROVE  \/ run' = run
           \/ run \in Active /\ run' \in Active \union {"failed", "cancelled"}
           \/ \E r \in Runners : FinishClaim(r)
<1>1. CASE UNCHANGED vars
  BY <1>1 DEF vars
<1>2. CASE Environment
  <2>1. CASE EndLapsedCancellation \/ RecoveryCancel
    BY <2>1 DEF EndLapsedCancellation, RecoveryCancel, CancelRun
  <2>2. CASE RequestCancel
    BY <2>2 DEF RequestCancel, Active
  <2>3. CASE SidecarRestarts \/ RecoveryResume \/ OfflineRequeue \/ LeaseLapses
    BY <2>3 DEF SidecarRestarts, RecoveryResume, OfflineRequeue, LeaseLapses
  <2> QED
    BY <1>2, <2>1, <2>2, <2>3 DEF Environment
<1>3. ASSUME NEW r \in Runners, Claim(r) \/ Works(r) \/ Crash(r) \/ PauseAtCheckpoint(r)
      PROVE  \/ run' = run
             \/ run \in Active /\ run' \in Active \union {"failed", "cancelled"}
             \/ FinishClaim(r)
  <2>1. CASE Claim(r) \/ Crash(r) \/ PauseAtCheckpoint(r) \/ ReadRun(r) \/ NextSymbol(r)
    BY <2>1 DEF Claim, Crash, PauseAtCheckpoint, ReadRun, NextSymbol
  <2>2. CASE LeaveLoop(r) \/ Checkpoint(r) \/ CheckpointDecided(r) \/ Close(r)
    BY <2>2 DEF LeaveLoop, Checkpoint, CheckpointDecided, Close
  <2>3. CASE RunnerRaises(r) \/ FailClaimSwallowed(r) \/ WorkerFails(r)
    BY <2>3 DEF RunnerRaises, Raises, FailClaimSwallowed, WorkerFails
  <2>4. CASE StartRun(r) \/ CancelClaim(r)
    BY <2>4 DEF StartRun, CancelClaim, Active
  <2>5. CASE FailClaim(r)
    BY <2>5 DEF FailClaim, Outcome
  <2> QED
    BY <1>3, <2>1, <2>2, <2>3, <2>4, <2>5 DEF Works
<1> QED
  BY <1>1, <1>2, <1>3 DEF Next

\* The transaction that ends the run stores a report of all trades.
LEMMA FinishFacts ==
    ASSUME RunInv, NEW r \in Runners, FinishClaim(r)
    PROVE  /\ run = "running" /\ Pending = {}
           /\ reports' = {tradeRows}
           /\ UNCHANGED <<symbol, tradeRows>>
           /\ run' \in {IF FailedOnes = {} THEN "succeeded" ELSE "partial_failed", "cancelled"}
<1>1. run = "running" /\ Owns(r) /\ stage[r] = "finishing" /\ processed = Total
  BY DEF FinishClaim, At
<1>2. samples[r] = tradeRows
  BY <1>1 DEF RunInv, Snapshots
<1>3. reports \subseteq {tradeRows}
  BY DEF RunInv, ReportIsComplete
<1>4. reports' = reports \union {samples[r]}
  BY DEF FinishClaim
<1>5. run' \in {IF failedCount = 0 THEN "succeeded" ELSE "partial_failed", "cancelled"}
  BY DEF FinishClaim, FinishedRun, Outcome
<1>6. UNCHANGED <<symbol, tradeRows>>
  BY DEF FinishClaim
<1> QED
  BY <1>1, <1>2, <1>3, <1>4, <1>5, <1>6, FullMeansDecided

LEMMA ReportStep ==
    ASSUME RunInv, [Next]_vars
    PROVE  ReportIsComplete'
<1> ReportIsComplete
  BY DEF RunInv
<1>1. ASSUME NEW r \in Runners, FinishClaim(r) PROVE ReportIsComplete'
  <2>1. Pending' = {} /\ FailedOnes' = FailedOnes
    BY <1>1, FinishFacts DEF Pending, FailedOnes
  <2> QED
    BY <1>1, <2>1, FinishFacts DEF ReportIsComplete
<1>2. ASSUME NEW r \in Runners, Checkpoint(r) PROVE ReportIsComplete'
  <2>1. run' = "running" /\ reports' = reports
    BY <1>2, CheckpointWrites
  <2>2. Pending # {}
    BY <1>2, CheckpointWrites, WroteSets
  <2>3. reports = {}
    BY <2>2 DEF ReportIsComplete
  <2> QED
    BY <2>1, <2>3 DEF ReportIsComplete
<1>3. CASE /\ UNCHANGED <<progress, processed, failedCount, symbol, tradeRows, failureRows, reports>>
           /\ ~\E r \in Runners : FinishClaim(r)
  <2>1. Pending' = Pending /\ FailedOnes' = FailedOnes
    BY <1>3 DEF Pending, FailedOnes
  <2>2. run' \in {"succeeded", "partial_failed"} => run' = run
    BY <1>3, RunSteps DEF Active
  <2> QED
    BY <1>3, <2>1, <2>2 DEF ReportIsComplete
<1> QED
  BY <1>1, <1>2, <1>3, ResultSteps

\* The transactions of the run store, of the task queue and of the runner loop keep RunInv.
THEOREM Invariance == Spec => []RunInv
<1>1. RunInv /\ [Next]_vars => RunInv'
  BY TypeStep, TokensStep, CountersStep, SnapshotsStep, ReportStep DEF RunInv
<1> QED
  BY <1>1, InitHolds, PTL DEF Spec

(***************************************************************************)
(* The theorems.                                                           *)
(***************************************************************************)

\* Every reachable state of the run, its task and its runners is well typed.
THEOREM TypeCorrect == Spec => []TypeOK
BY Invariance, PTL DEF RunInv

\* checkpoint_symbol and finish_claim keep counters, progress, symbols and rows in step.
THEOREM ResultsAgree == Spec => []CountersAgree
BY Invariance, PTL DEF RunInv

\* finish_claim stores a report of exactly the trades there are, of a decided pool.
THEOREM ReportsComplete == Spec => []ReportIsComplete
BY Invariance, PTL DEF RunInv

\* _prepare_claim never computes a symbol again while its runner owns the claim.
THEOREM NothingIsRepeated == Spec => []WorkIsNotRepeated
BY Invariance, PTL DEF RunInv, Snapshots

\* guard_claim_in_transaction keeps every runner but the owner from writing a result.
THEOREM WritesAreFenced == Spec => OnlyTheOwnerWrites
<1> DEFINE Fenced ==
      /\ tradeRows \subseteq tradeRows' /\ failureRows \subseteq failureRows'
      /\ reports \subseteq reports'
      /\ \A row \in (tradeRows' \union failureRows') \ (tradeRows \union failureRows) :
           status = "running" /\ ~lapsed /\ row[2] = token
<1>1. RunInv /\ [Next]_vars => [Fenced]_vars
  <2> SUFFICES ASSUME RunInv, [Next]_vars PROVE Fenced
    OBVIOUS
  <2>1. CASE UNCHANGED <<progress, processed, failedCount, symbol, tradeRows, failureRows, reports>>
    BY <2>1
  <2>2. ASSUME NEW r \in Runners, Checkpoint(r) PROVE Fenced
    <3>1. PICK s \in Symbols, result \in {"succeeded", "failed"} : Wrote(r, s, result)
      BY <2>2, CheckpointWrites
    <3>2. /\ tradeRows' \union failureRows' = (tradeRows \union failureRows) \union {<<s, held[r]>>}
          /\ tradeRows \subseteq tradeRows' /\ failureRows \subseteq failureRows'
      BY <3>1 DEF Wrote
    <3>3. Owns(r) /\ reports' = reports
      BY <2>2, CheckpointWrites
    <3> QED
      BY <3>2, <3>3 DEF Owns
  <2>3. ASSUME NEW r \in Runners, FinishClaim(r) PROVE Fenced
    BY <2>3 DEF FinishClaim
  <2> QED
    BY <2>1, <2>2, <2>3, ResultSteps
<1> QED
  BY <1>1, Invariance, PTL DEF Spec, OnlyTheOwnerWrites

(***************************************************************************)
(* Refinement: a checkpoint is Publish, the end of the run is Report, a    *)
(* failure or a cancellation is Abandon, and all else is a stutter.        *)
(***************************************************************************)
ShownOutcome == IF run \in Active THEN "open" ELSE run
ShownReports == {{row[1] : row \in report} : report \in reports}

LEMMA ReportedSymbols ==
    ASSUME RunInv
    PROVE  {row[1] : row \in tradeRows} = {s \in Symbols : symbol[s] = "succeeded"}
<1>1. tradeRows \in SUBSET Rows
  BY DEF RunInv, TypeOK
<1>2. ASSUME NEW row \in tradeRows
      PROVE  row[1] \in Symbols /\ symbol[row[1]] = "succeeded"
  <2>1. PICK s \in Symbols, c \in Claims : row = <<s, c>>
    BY <1>1 DEF Rows
  <2> QED
    BY <2>1 DEF RunInv, CountersAgree
<1>3. ASSUME NEW s \in Symbols, symbol[s] = "succeeded"
      PROVE  \E row \in tradeRows : s = row[1]
  <2>1. PICK c \in Claims : <<s, c>> \in tradeRows
    BY <1>3 DEF RunInv, CountersAgree
  <2> QED
    BY <2>1
<1> QED
  BY <1>2, <1>3

LEMMA StepImplements ==
    ASSUME RunInv, [Next]_vars
    PROVE  [Publication!PubNext]_(Publication!pubVars)
<1>0. /\ Publication!pubVars = <<symbol, ShownOutcome, ShownReports>>
      /\ Publication!pubVars' = <<symbol', ShownOutcome', ShownReports'>>
  BY DEF Publication!pubVars, ShownOutcome, ShownReports
<1>1. ASSUME NEW r \in Runners, FinishClaim(r) PROVE Publication!Report
  <2>1. ShownOutcome = "open" /\ ShownOutcome' = run'
    BY <1>1, FinishFacts DEF ShownOutcome, Active
  <2>2. \A s \in Symbols : symbol[s] # "pending"
    BY <1>1, FinishFacts DEF Pending
  <2>3. ShownReports' = {{s \in Symbols : symbol[s] = "succeeded"}}
    <3>1. ShownReports' = {{row[1] : row \in tradeRows}}
      BY <1>1, FinishFacts DEF ShownReports
    <3> QED
      BY <3>1, ReportedSymbols
  <2>4. {s \in Symbols : symbol[s] = "succeeded"} = Symbols <=> FailedOnes = {}
    <3>1. \A s \in Symbols : symbol[s] \in {"succeeded", "failed"}
      BY <2>2 DEF RunInv, TypeOK
    <3> QED
      BY <3>1 DEF FailedOnes
  <2> QED
    BY <1>1, <2>1, <2>2, <2>3, <2>4, FinishFacts
    DEF Publication!Report, Publication!Succeeded, Publication!Decided, ShownOutcome, ShownReports
<1>2. ASSUME NEW r \in Runners, Checkpoint(r)
      PROVE  \E s \in Symbols : Publication!Publish(s)
  <2>1. PICK s \in Symbols, result \in {"succeeded", "failed"} : Wrote(r, s, result)
    BY <1>2, CheckpointWrites
  <2>2. run = "running" /\ run' = run /\ reports' = reports
    BY <1>2, CheckpointWrites
  <2>3. Publication!Publish(s)
    BY <2>1, <2>2 DEF Publication!Publish, Wrote, Active
  <2> QED
    BY <2>3
<1>3. CASE /\ UNCHANGED <<progress, processed, failedCount, symbol, tradeRows, failureRows, reports>>
           /\ ~\E r \in Runners : FinishClaim(r)
  <2>1. CASE ShownOutcome' = ShownOutcome
    BY <1>0, <1>3, <2>1 DEF ShownReports
  <2>2. CASE ShownOutcome' # ShownOutcome
    <3>1. run \in Active /\ run' \in {"failed", "cancelled"}
      BY <1>3, <2>2, RunSteps DEF ShownOutcome
    <3>2. Publication!Abandon
      BY <1>3, <3>1 DEF Publication!Abandon, Active
    <3> QED
      BY <3>2 DEF Publication!PubNext
  <2> QED
    BY <2>1, <2>2
<1> QED
  BY <1>1, <1>2, <1>3, ResultSteps DEF Publication!PubNext

\* Claims, crashes, retries and cancellations are invisible to who reads the results.
THEOREM RunImplementsPublication == Spec => ImplementsPublication
<1>1. Init => Publication!PubInit
  BY DEF Init, Active, Publication!PubInit
<1> QED
  BY <1>1, Invariance, StepImplements, PTL DEF Spec, ImplementsPublication, Publication!PubSpec
=============================================================================
