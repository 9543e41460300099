-------------------------- MODULE AnalysisRunProofs --------------------------
(***************************************************************************)
(* Theorems of AnalysisRun, for any sections, runs, claims and limits.     *)
(*                                                                         *)
(* None of its properties is inductive: a lease may lapse anywhere, so     *)
(* that runners of several claims act on the same rows.  What carries them *)
(* is what the runner of the current claim knows of the rows (ClaimFits),  *)
(* what any runner knows of itself from the order of its waves             *)
(* (RunnerFits), and that only the former writes.  The budget follows from *)
(* counting requests by attempt rows (AttemptsFit), and the reuse of       *)
(* results from how the rows of a retry are filled (OriginsFit).           *)
(***************************************************************************)
EXTENDS AnalysisRun, FiniteSetTheorems, SequenceTheorems, WellFoundedInduction, TLAPS

WaveOf == [x \in Roles |->
    CASE x \in {"technical", "fundamental_news"} -> 1
      [] x \in {"bull", "bear"} -> 2
      [] x = "risk_decision" -> 3]

\* A run, its task and its stages.
RowsAgree(r) ==
    /\ status[r] = "absent" <=> task[r] = "absent"
    /\ status[r] = "absent" => \A x \in Stages : stage[r][x] = "pending" /\ attempts[r][x] = <<>>
    /\ status[r] = "queued" => \A x \in Stages : stage[r][x] # "running"
    /\ status[r] \in RunEnded => task[r] = "ended" /\ \A x \in Stages : stage[r][x] \notin Open
    /\ status[r] \notin RunEnded => report[r] = NoReport /\ \A x \in Stages : stage[r][x] # "cancelled"
    /\ task[r] = "running" => claim[r] \in Claims

\* The attempts of a stage, and the requests they sent.
AttemptsFit(r, x) ==
    /\ \A i \in DOMAIN attempts[r][x] :
         attempts[r][x][i] = "running" => i = Len(attempts[r][x]) /\ stage[r][x] = "running"
    /\ stage[r][x] = "running" =>
         /\ attempts[r][x] # <<>>
         /\ attempts[r][x][Len(attempts[r][x])] = "running"
    /\ Len(attempts[r][x]) <= MaxAttempts
    /\ x \in Roles => calls[r][x] <= Len(attempts[r][x])

\* What the bound inputs say of the stages.
InputsFit(r) ==
    /\ \A x \in Kinds : stage[r][x] # "blocked" /\ (inputs[r] # "none" => stage[r][x] \notin Open)
    /\ \A x \in Roles :
         /\ inputs[r] = "none" => stage[r][x] \in {"pending", "cancelled"}
         /\ inputs[r] = "insufficient" => stage[r][x] \in {"pending", "cancelled", "blocked"}
         /\ inputs[r] = "eligible" /\ stage[r][x] = "blocked" =>
              \E y \in Deps[x] : stage[r][y] \in {"failed", "blocked"}
    /\ status[r] = "partial" =>
         /\ inputs[r] = "eligible" /\ FailedRoles(r) # {}
         /\ \A x \in Stages : stage[r][x] # "cancelled"

\* A runner by itself, whether or not its claim is current.
RunnerFits(r, k) ==
    /\ k > claim[r] => pc[r][k] = "none"
    /\ pc[r][k] \in {"none", "begin", "data", "fetching"} => wave[r][k] = 0
    /\ pc[r][k] = "blocking" => wave[r][k] = 1 /\ co[r][k] = Idle
    /\ pc[r][k] = "wave" => wave[r][k] # 0
    /\ pc[r][k] = "report" => wave[r][k] = 3
    /\ pc[r][k] \notin {"failing", "gone"} => \A x \in Roles :
         /\ WaveOf[x] < wave[r][k] => co[r][k][x] \in {"done", "closed"}
         /\ WaveOf[x] = wave[r][k] /\ pc[r][k] \in {"checkpoint", "report"} =>
              co[r][k][x] \in {"done", "closed"}
         /\ WaveOf[x] > wave[r][k] => co[r][k][x] = "idle"
         /\ co[r][k][x] \in {"ready", "unprepared", "calling", "backoff"} =>
              Deps[x] \subseteq Completed(r, k)

Working == {"data", "fetching", "blocking", "wave", "checkpoint", "report"}

\* The runner whose claim is current, and the rows it works on.
ClaimFits(r) ==
    task[r] = "running" /\ pc[r][claim[r]] \in Working =>
        LET k == claim[r] IN
        /\ status[r] = "running"
        /\ inputs[r] = CASE pc[r][k] = "blocking" -> "insufficient"
                         [] wave[r][k] = 0 -> "none"
                         [] OTHER -> "eligible"
        /\ \A x \in Kinds : stage[r][x] = "running" => pc[r][k] = "fetching" /\ x = CurrentKind(r)
        /\ pc[r][k] = "fetching" =>
             OpenKinds(r) # {} /\ stage[r][CurrentKind(r)] = "running"
        /\ \A x \in Roles :
             CASE co[r][k][x] \in {"unprepared", "calling"} -> stage[r][x] = "running"
               [] co[r][k][x] = "backoff" -> stage[r][x] = "pending"
               [] co[r][k][x] = "done" -> stage[r][x] \in Usable
               [] co[r][k][x] = "closed" -> stage[r][x] \in {"failed", "blocked"}
               [] co[r][k][x] = "raised" -> TRUE
               [] OTHER -> stage[r][x] # "running"

\* What a run reuses, and where it comes from.
OriginsFit(r) ==
    /\ \A x \in Stages : stage[r][x] = "reused" =>
         /\ source[r][x] \in Runs
         /\ status[source[r][x]] \in RunEnded
         /\ stage[source[r][x]][x] \in IF x \in Roles THEN {"succeeded"} ELSE {"succeeded", "failed"}
    /\ \A x \in Roles : stage[r][x] = "reused" =>
         \A y \in Deps[x] : Origin(r, y) = Origin(source[r][x], y)

RunInv(r) ==
    /\ RowsAgree(r) /\ InputsFit(r) /\ ClaimFits(r)
    /\ \A x \in Stages : AttemptsFit(r, x)
    /\ \A k \in Claims : RunnerFits(r, k)

AnalysisInv == TypeOK /\ \A r \in Runs : RunInv(r) /\ OriginsFit(r)

--------------------------------------------------------------------------------
(* The roles, the waves and the sections.                                  *)

LEMMA RolesAre == Roles = {"technical", "fundamental_news", "bull", "bear", "risk_decision"}
BY DEF Roles, RoleOrder

LEMMA WavesAre ==
    ASSUME NEW r \in Runs, NEW k \in Claims, wave[r][k] \in 1..3
    PROVE  /\ Wave(r, k) = {x \in Roles : WaveOf[x] = wave[r][k]}
           /\ \A x \in Roles : WaveOf[x] \in 1..3
<1>1. Waves[1] = {"technical", "fundamental_news"} /\ Waves[2] = {"bull", "bear"}
      /\ Waves[3] = {"risk_decision"}
  BY DEF Waves
<1> QED
  BY <1>1, RolesAre DEF Wave, WaveOf

LEMMA DepsAreEarlier ==
    ASSUME NEW x \in Roles, NEW y \in Deps[x]
    PROVE  y \in Roles /\ WaveOf[y] < WaveOf[x]
BY RolesAre DEF Deps, WaveOf

LEMMA SectionsAndRoles ==
    /\ \A x \in Kinds : x \in Stages /\ x \notin Roles
    /\ \A x \in Roles : x \in Stages /\ x \notin Kinds
    /\ \A x \in Stages : x \in Kinds \/ x \in Roles
BY SectionsAreNotRoles DEF Stages

LEMMA SmallestIndex ==
    ASSUME NEW S \in SUBSET Nat, IsFiniteSet(S), S # {}
    PROVE  \E i \in S : \A j \in S : i <= j
<1> DEFINE Below == [i \in S |-> {j \in S : j <= i}]
           T == {Below[i] : i \in S}
<1>1. \E B \in T : \A C \in T : ~ (<<C, B>> \in StrictSubsetOrdering(S))
  <2>1. T \subseteq SUBSET S /\ T # {}
    OBVIOUS
  <2>2. IsWellFoundedOn(StrictSubsetOrdering(S), SUBSET S)
    BY FS_StrictSubsetOrderingWellFounded, FS_FiniteSubsetsOfFinite
  <2> HIDE DEF T
  <2> QED
    BY <2>1, <2>2, WFMin
<1>2. PICK i \in S : \A j \in S : ~ (<<Below[j], Below[i]>> \in StrictSubsetOrdering(S))
  BY <1>1
<1>3. ASSUME NEW j \in S, j < i
      PROVE  FALSE
  <2>1. \A n \in S : n \in Below[j] <=> n <= j
    OBVIOUS
  <2>2. \A n \in S : n \in Below[i] <=> n <= i
    OBVIOUS
  <2>3. Below[j] \in SUBSET S /\ Below[i] \in SUBSET S
    OBVIOUS
  <2>4. Below[j] \subseteq Below[i] /\ Below[j] # Below[i]
    <3> HIDE DEF Below
    <3>1. i \in Below[i] /\ i \notin Below[j]
      BY <1>3, <2>1, <2>2
    <3>2. Below[j] \subseteq Below[i]
      <4> SUFFICES ASSUME NEW n \in S, n <= j
                   PROVE  n <= i
        BY <2>1, <2>2, <2>3
      <4>1. n \in Nat /\ i \in Nat /\ j \in Nat
        OBVIOUS
      <4> QED
        BY <1>3, <4>1
    <3> QED
      BY <3>1, <3>2
  <2>5. <<Below[j], Below[i]>> \in StrictSubsetOrdering(S)
    BY <2>3, <2>4, Zenon DEF StrictSubsetOrdering
  <2> QED
    BY <1>2, <2>5
<1> QED
  BY <1>3

LEMMA CurrentKindIsOpen ==
    ASSUME NEW r \in Runs, OpenKinds(r) # {}
    PROVE  CurrentKind(r) \in Kinds /\ stage[r][CurrentKind(r)] \in Open
<1>1. OpenKinds(r) \subseteq Nat /\ IsFiniteSet(OpenKinds(r))
  <2>1. OpenKinds(r) \in SUBSET (1..Len(KindOrder)) /\ Len(KindOrder) \in Nat
    BY SectionsAssumption DEF OpenKinds
  <2>2. IsFiniteSet(1..Len(KindOrder))
    BY <2>1, FS_Interval
  <2>3. IsFiniteSet(OpenKinds(r))
    BY <2>1, <2>2, FS_Subset
  <2> QED
    BY <2>1, <2>3
<1>2. PICK i \in OpenKinds(r) : \A j \in OpenKinds(r) : i <= j
  BY <1>1, SmallestIndex
<1> DEFINE m == CHOOSE n \in OpenKinds(r) : \A j \in OpenKinds(r) : n <= j
<1>3. m \in OpenKinds(r)
  BY <1>2
<1> QED
  BY <1>3 DEF CurrentKind, OpenKinds, Kinds

LEMMA OpenKindsAre ==
    ASSUME NEW r \in Runs
    PROVE  OpenKinds(r) = {} <=> \A x \in Kinds : stage[r][x] \notin Open
BY DEF OpenKinds, Kinds

LEMMA CurrentKindStays ==
    ASSUME NEW r \in Runs, \A x \in Kinds : stage'[r][x] \in Open <=> stage[r][x] \in Open
    PROVE  OpenKinds(r)' = OpenKinds(r) /\ CurrentKind(r)' = CurrentKind(r)
<1>1. OpenKinds(r)' = OpenKinds(r)
  BY DEF OpenKinds, Kinds
<1> QED
  BY <1>1 DEF CurrentKind

--------------------------------------------------------------------------------
(* Attempts.                                                               *)

LEMMA LastReplaced ==
    ASSUME NEW S, NEW s \in Seq(S), NEW a \in S
    PROVE  /\ [s EXCEPT ![Len(s)] = a] \in Seq(S)
           /\ Len([s EXCEPT ![Len(s)] = a]) = Len(s)
           /\ \A i \in DOMAIN s : [s EXCEPT ![Len(s)] = a][i] = IF i = Len(s) THEN a ELSE s[i]
<1>1. CASE s = <<>>
  <2>1. [s EXCEPT ![Len(s)] = a] = s
    BY <1>1
  <2> QED
    BY <1>1, <2>1
<1>2. CASE s # <<>>
  BY <1>2, ExceptSeq, LenProperties, EmptySeq
<1> QED
  BY <1>1, <1>2

LEMMA AllReplaced ==
    ASSUME NEW S, NEW s \in Seq(S), NEW a \in S
    PROVE  LET t == [i \in DOMAIN s |-> IF s[i] = "running" THEN a ELSE s[i]]
           IN  t \in Seq(S) /\ Len(t) = Len(s) /\ DOMAIN t = DOMAIN s
OBVIOUS

--------------------------------------------------------------------------------
(* What a step leaves alone keeps what is said of it.                      *)

SameRows(q) ==
    /\ status'[q] = status[q] /\ inputs'[q] = inputs[q] /\ report'[q] = report[q]
    /\ stage'[q] = stage[q] /\ source'[q] = source[q] /\ attempts'[q] = attempts[q]
    /\ calls'[q] = calls[q]

SameRunner(q, k) == pc'[q][k] = pc[q][k] /\ wave'[q][k] = wave[q][k] /\ co'[q][k] = co[q][k]

SameRun(q) ==
    /\ SameRows(q) /\ task'[q] = task[q] /\ claim'[q] = claim[q]
    /\ \A k \in Claims : SameRunner(q, k)

LEMMA RowsFrame ==
    ASSUME NEW q \in Runs, SameRows(q)
    PROVE  /\ InputsFit(q) => InputsFit(q)'
           /\ \A x \in Stages : AttemptsFit(q, x) => AttemptsFit(q, x)'
           /\ task'[q] = task[q] /\ claim'[q] = claim[q] /\ RowsAgree(q) => RowsAgree(q)'
           /\ OpenKinds(q)' = OpenKinds(q) /\ CurrentKind(q)' = CurrentKind(q)
<1>1. OpenKinds(q)' = OpenKinds(q) /\ CurrentKind(q)' = CurrentKind(q)
  BY CurrentKindStays DEF SameRows
<1>2. InputsFit(q) => InputsFit(q)'
  BY DEF SameRows, InputsFit, FailedRoles
<1>3. \A x \in Stages : AttemptsFit(q, x) => AttemptsFit(q, x)'
  BY DEF SameRows, AttemptsFit
<1>4. task'[q] = task[q] /\ claim'[q] = claim[q] /\ RowsAgree(q) => RowsAgree(q)'
  BY DEF SameRows, RowsAgree
<1> QED
  BY <1>1, <1>2, <1>3, <1>4

LEMMA RunnerFrame ==
    ASSUME NEW q \in Runs, NEW k \in Claims, SameRunner(q, k), RunnerFits(q, k),
           k > claim'[q] => k > claim[q]
    PROVE  RunnerFits(q, k)'
BY DEF SameRunner, RunnerFits, Completed

LEMMA RunFrame ==
    ASSUME NEW q \in Runs, RunInv(q), SameRun(q)
    PROVE  RunInv(q)'
<1>1. RowsAgree(q)' /\ InputsFit(q)' /\ \A x \in Stages : AttemptsFit(q, x)'
  BY RowsFrame DEF SameRun, RunInv
<1>2. \A k \in Claims : RunnerFits(q, k)'
  BY RunnerFrame DEF SameRun, RunInv
<1>3. ClaimFits(q)'
  BY RowsFrame DEF SameRun, SameRows, SameRunner, RunInv, ClaimFits, RowsAgree
<1> QED
  BY <1>1, <1>2, <1>3 DEF RunInv

--------------------------------------------------------------------------------
(* Types.                                                                  *)

LEMMA EndAttemptTypes ==
    ASSUME TypeOK, NEW r \in Runs, NEW x \in Stages, NEW a \in AttemptStatuses,
           EndAttempt(r, x, a)
    PROVE  attempts' \in [Runs -> [Stages -> Seq(AttemptStatuses)]]
<1>1. [attempts[r][x] EXCEPT ![Len(attempts[r][x])] = a] \in Seq(AttemptStatuses)
  BY LastReplaced DEF TypeOK
<1> DEFINE t == [attempts[r][x] EXCEPT ![Len(attempts[r][x])] = a]
<1>2. attempts' = [attempts EXCEPT ![r] = [attempts[r] EXCEPT ![x] = t]]
  BY DEF EndAttempt
<1> HIDE DEF t
<1> QED
  BY <1>1, <1>2 DEF TypeOK, t

LEMMA StartAttemptTypes ==
    ASSUME TypeOK, NEW r \in Runs, NEW x \in Stages, StartAttempt(r, x)
    PROVE  /\ attempts' \in [Runs -> [Stages -> Seq(AttemptStatuses)]]
           /\ stage' \in [Runs -> [Stages -> StageStatuses]]
<1>1. Append(attempts[r][x], "running") \in Seq(AttemptStatuses)
  BY DEF TypeOK, AttemptStatuses
<1> QED
  BY <1>1 DEF StartAttempt, SetStage, TypeOK, StageStatuses, Open

LEMMA CloseAttemptsTypes ==
    ASSUME TypeOK, NEW r \in Runs, NEW a \in AttemptStatuses, CloseAttempts(r, a)
    PROVE  attempts' \in [Runs -> [Stages -> Seq(AttemptStatuses)]]
<1> DEFINE t(x) == [i \in DOMAIN attempts[r][x] |->
                     IF attempts[r][x][i] = "running" THEN a ELSE attempts[r][x][i]]
<1>1. ASSUME NEW x \in Stages
      PROVE  t(x) \in Seq(AttemptStatuses)
  BY AllReplaced DEF TypeOK
<1>2. attempts' = [attempts EXCEPT ![r] = [x \in Stages |-> t(x)]]
  BY DEF CloseAttempts
<1> HIDE DEF t
<1> QED
  BY <1>1, <1>2 DEF TypeOK

LEMMA CloseStagesTypes ==
    ASSUME TypeOK, NEW r \in Runs, NEW from, NEW s \in StageStatuses, CloseStages(r, from, s)
    PROVE  stage' \in [Runs -> [Stages -> StageStatuses]]
BY DEF CloseStages, TypeOK

LEMMA SetStageTypes ==
    ASSUME TypeOK, NEW r \in Runs, NEW x \in Stages, NEW s \in StageStatuses, SetStage(r, x, s)
    PROVE  stage' \in [Runs -> [Stages -> StageStatuses]]
BY DEF SetStage, TypeOK

LEMMA StatusesAre ==
    /\ {"pending", "running", "succeeded", "reused", "failed", "blocked", "cancelled"}
         = StageStatuses
    /\ {"running", "succeeded", "failed", "interrupted", "cancelled"} = AttemptStatuses
BY DEF StageStatuses, AttemptStatuses, Open, Usable

LEMMA EndingTypes ==
    ASSUME TypeOK, NEW r \in Runs, CancelRun(r) \/ FailRun(r)
    PROVE  /\ attempts' \in [Runs -> [Stages -> Seq(AttemptStatuses)]]
           /\ stage' \in [Runs -> [Stages -> StageStatuses]]
           /\ status' \in [Runs -> {"absent", "queued", "running"} \cup RunEnded]
           /\ task' \in [Runs -> {"absent", "queued", "running", "lapsed", "ended", "failed"}]
<1>1. attempts' \in [Runs -> [Stages -> Seq(AttemptStatuses)]]
  BY CloseAttemptsTypes, StatusesAre DEF CancelRun, FailRun
<1>2. stage' \in [Runs -> [Stages -> StageStatuses]]
  BY CloseStagesTypes, StatusesAre DEF CancelRun, FailRun
<1>3. /\ status' \in [Runs -> {"absent", "queued", "running"} \cup RunEnded]
      /\ task' \in [Runs -> {"absent", "queued", "running", "lapsed", "ended", "failed"}]
  <2>1. \E s \in RunEnded : EndRun(r, s) /\ EndTask(r)
    BY DEF CancelRun, FailRun, RunEnded
  <2> QED
    BY <2>1 DEF EndRun, EndTask, TypeOK
<1> QED
  BY <1>1, <1>2, <1>3

LEMMA FaultTypes ==
    ASSUME TypeOK, Fault
    PROVE  faults' \in 0..MaxFaults
BY BoundsAssumption DEF TypeOK, Fault

LEMMA RunnerTypes ==
    ASSUME TypeOK, NEW r \in Runs, NEW k \in Claims
    PROVE  /\ \A p \in Places : Go(r, k, p) => pc' \in [Runs -> [Claims -> Places]]
           /\ \A x \in Roles, c \in Coroutines :
                SetCo(r, k, x, c) => co' \in [Runs -> [Claims -> [Roles -> Coroutines]]]
           /\ Leave(r, k) =>
                /\ pc' \in [Runs -> [Claims -> Places]]
                /\ wave' \in [Runs -> [Claims -> 0..3]]
                /\ co' \in [Runs -> [Claims -> [Roles -> Coroutines]]]
<1>1. \A p \in Places : Go(r, k, p) => pc' \in [Runs -> [Claims -> Places]]
  BY DEF Go, TypeOK
<1>2. "gone" \in Places /\ Idle \in [Roles -> Coroutines]
  BY DEF Places, Coroutines, Idle
<1>3. Leave(r, k) => co' \in [Runs -> [Claims -> [Roles -> Coroutines]]]
  BY <1>2 DEF Leave, TypeOK
<1>4. Leave(r, k) => wave' \in [Runs -> [Claims -> 0..3]]
  BY DEF Leave, TypeOK
<1>5. Leave(r, k) => Go(r, k, "gone")
  BY DEF Leave
<1>6. \A x \in Roles, c \in Coroutines :
        SetCo(r, k, x, c) => co' \in [Runs -> [Claims -> [Roles -> Coroutines]]]
  BY DEF SetCo, TypeOK
<1> QED
  BY <1>1, <1>2, <1>3, <1>4, <1>5, <1>6

LEMMA TaskTypes ==
    ASSUME TypeOK, \A q \in Runs : task[q] = "running" => claim[q] \in Claims,
           NEW r \in Runs,
           \/ ClaimTask(r) \/ Lapse(r) \/ Reclaim(r) \/ TerminalizeCancelled(r)
           \/ Requeue(r) \/ RequestCancel(r)
    PROVE  TypeOK'
<1> USE DEF runRows, stageRows, taskRow, runner
<1>0. ASSUME Start(r), Go(r, claim[r] + 1, "begin")
      PROVE  /\ claim' \in [Runs -> 0..MaxClaims]
             /\ task' \in [Runs -> {"absent", "queued", "running", "lapsed", "ended", "failed"}]
             /\ pc' \in [Runs -> [Claims -> Places]]
  <2>1. claim[r] \in 0..MaxClaims /\ MaxClaims \in Nat
    BY BoundsAssumption DEF TypeOK
  <2>2. claim[r] + 1 \in 0..MaxClaims
    BY <1>0, <2>1 DEF Start
  <2> QED
    BY <1>0, <2>2 DEF Start, Go, TypeOK, Places
<1>1. CASE ClaimTask(r)
  BY <1>0, <1>1 DEF ClaimTask, TypeOK
<1>2. CASE Lapse(r)
  <2>1. faults' \in 0..MaxFaults
    BY <1>2, FaultTypes DEF Lapse
  <2>2. CASE UNCHANGED runner
    BY <1>2, <2>1, <2>2 DEF Lapse, TypeOK
  <2>3. CASE Leave(r, claim[r])
    BY <1>2, <2>1, <2>3, RunnerTypes DEF Lapse, TypeOK
  <2> QED
    BY <1>2, <2>2, <2>3 DEF Lapse
<1>3. CASE Reclaim(r)
  BY <1>0, <1>3 DEF Reclaim, TypeOK
<1>4. CASE TerminalizeCancelled(r)
  <2>1. CASE status[r] = "running"
    BY <1>4, <2>1, EndingTypes DEF TerminalizeCancelled, TypeOK
  <2>2. CASE status[r] # "running"
    <3>1. stage' \in [Runs -> [Stages -> StageStatuses]]
      BY <1>4, <2>2, CloseStagesTypes, StatusesAre DEF TerminalizeCancelled
    <3> QED
      BY <1>4, <2>2, <3>1 DEF TerminalizeCancelled, TypeOK, EndRun, EndTask, RunEnded
  <2> QED
    BY <2>1, <2>2
<1>5. CASE Requeue(r)
  BY <1>5 DEF Requeue, TypeOK
<1>6. CASE RequestCancel(r)
  <2>1. stage' \in [Runs -> [Stages -> StageStatuses]]
    BY <1>6, CloseStagesTypes, StatusesAre DEF RequestCancel, TypeOK
  <2>2. faults' \in 0..MaxFaults
    BY <1>6, FaultTypes DEF RequestCancel
  <2>3. /\ task' \in [Runs -> {"absent", "queued", "running", "lapsed", "ended", "failed"}]
        /\ status' \in [Runs -> {"absent", "queued", "running"} \cup RunEnded]
        /\ cancel' \in [Runs -> BOOLEAN]
    BY <1>6 DEF RequestCancel, EndTask, EndRun, TypeOK, RunEnded
  <2> QED
    BY <1>6, <2>1, <2>2, <2>3 DEF RequestCancel, TypeOK
<1> QED
  BY <1>1, <1>2, <1>3, <1>4, <1>5, <1>6

LEMMA RetryTypes ==
    ASSUME TypeOK, NEW p \in Runs, NEW x \in Roles, NEW c \in Runs, EnqueueRetry(p, x, c)
    PROVE  TypeOK'
<1>1. stage' \in [Runs -> [Stages -> StageStatuses]]
  BY StatusesAre DEF EnqueueRetry, TypeOK
<1>2. \A y \in Stages : Origin(p, y) \in {0} \cup Runs
  BY DEF Origin, TypeOK
<1>3. source' \in [Runs -> [Stages -> {0} \cup Runs]]
  BY <1>2 DEF EnqueueRetry, TypeOK
<1>4. /\ status' \in [Runs -> {"absent", "queued", "running"} \cup RunEnded]
      /\ parent' \in [Runs -> {0} \cup Runs]
      /\ inputs' \in [Runs -> {"none", "eligible", "insufficient"}]
      /\ task' \in [Runs -> {"absent", "queued", "running", "lapsed", "ended", "failed"}]
  BY DEF EnqueueRetry, TypeOK
<1> QED
  BY <1>1, <1>3, <1>4 DEF EnqueueRetry, TypeOK, runner

LEMMA RunnerStepTypes ==
    ASSUME TypeOK, NEW r \in Runs, NEW k \in Claims,
           RunnerStep(r, k) \/ Pause(r, k) \/ Breaks(r, k),
           At(r, k, "fetching") /\ Guard(r, k) => OpenKinds(r) # {}
    PROVE  TypeOK'
<1> USE StatusesAre DEF runRows, stageRows, taskRow, runner
<1>a. \A x \in Kinds : x \in Stages
  BY SectionsAndRoles
<1>b. \A x \in Roles : x \in Stages
  BY SectionsAndRoles
<1>c. \A p \in {"begin", "data", "fetching", "blocking", "wave", "checkpoint",
                "report", "failing", "gone"} : p \in Places
  BY DEF Places
<1>d. \A p \in {"data", "fetching", "blocking", "wave", "checkpoint", "report",
                "failing"} : Go(r, k, p) => pc' \in [Runs -> [Claims -> Places]]
  BY <1>c, RunnerTypes
<1>e. \A c \in Coroutines, x \in Roles :
        SetCo(r, k, x, c) => co' \in [Runs -> [Claims -> [Roles -> Coroutines]]]
  BY RunnerTypes
<1>1. ASSUME Begin(r, k) PROVE TypeOK'
  <2>1. attempts' \in [Runs -> [Stages -> Seq(AttemptStatuses)]]
    BY <1>1, CloseAttemptsTypes DEF Begin, ResumeRun, TypeOK
  <2>2. stage' \in [Runs -> [Stages -> StageStatuses]]
    BY <1>1, CloseStagesTypes DEF Begin, ResumeRun, TypeOK
  <2>3. status' \in [Runs -> {"absent", "queued", "running"} \cup RunEnded]
    BY <1>1 DEF Begin, TypeOK
  <2>4. wave' \in [Runs -> [Claims -> 0..3]]
    <3>1. UNCHANGED wave \/ wave' = [wave EXCEPT ![r][k] = 1]
      BY <1>1 DEF Begin
    <3>2. [wave EXCEPT ![r][k] = 1] \in [Runs -> [Claims -> 0..3]]
      BY DEF TypeOK
    <3> QED
      BY <3>1, <3>2 DEF TypeOK
  <2>5. \E p \in {"data", "wave", "blocking"} : Go(r, k, p)
    BY <1>1 DEF Begin, AfterBinding
  <2>6. pc' \in [Runs -> [Claims -> Places]]
    BY <2>5, <1>d
  <2> QED
    BY <1>1, <2>1, <2>2, <2>3, <2>4, <2>6 DEF Begin, TypeOK
<1>2. ASSUME StartFetch(r, k) PROVE TypeOK'
  <2>1. CurrentKind(r) \in Stages
    BY <1>2, <1>a, CurrentKindIsOpen DEF StartFetch
  <2>2. CASE BudgetIsSpent(r, CurrentKind(r))
    <3>1. stage' \in [Runs -> [Stages -> StageStatuses]]
      BY <1>2, <2>1, <2>2, SetStageTypes DEF StartFetch, ExhaustStage
    <3> QED
      BY <1>2, <2>2, <3>1 DEF StartFetch, ExhaustStage, TypeOK
  <2>3. CASE ~BudgetIsSpent(r, CurrentKind(r))
    <3>1. /\ attempts' \in [Runs -> [Stages -> Seq(AttemptStatuses)]]
          /\ stage' \in [Runs -> [Stages -> StageStatuses]]
      BY <1>2, <2>1, <2>3, StartAttemptTypes DEF StartFetch
    <3>2. pc' \in [Runs -> [Claims -> Places]]
      BY <1>2, <2>3, <1>d DEF StartFetch
    <3> QED
      BY <1>2, <3>1, <3>2 DEF StartFetch, TypeOK
  <2> QED
    BY <2>2, <2>3
<1>3. ASSUME Fetched(r, k) PROVE TypeOK'
  <2>1. CurrentKind(r) \in Stages
    BY <1>3, <1>a, CurrentKindIsOpen DEF Fetched
  <2>2. attempts' \in [Runs -> [Stages -> Seq(AttemptStatuses)]]
    BY <1>3, <2>1, EndAttemptTypes DEF Fetched, FinishAttemptSuccess
  <2>3. stage' \in [Runs -> [Stages -> StageStatuses]]
    BY <1>3, <2>1, SetStageTypes DEF Fetched, FinishAttemptSuccess
  <2>4. pc' \in [Runs -> [Claims -> Places]]
    BY <1>3, <1>d DEF Fetched
  <2> QED
    BY <1>3, <2>2, <2>3, <2>4 DEF Fetched, TypeOK
<1>4. ASSUME NEW b \in BOOLEAN, FetchFails(r, k, b) PROVE TypeOK'
  <2>1. CurrentKind(r) \in Stages
    BY <1>4, <1>a, CurrentKindIsOpen DEF FetchFails
  <2>2. attempts' \in [Runs -> [Stages -> Seq(AttemptStatuses)]]
    BY <1>4, <2>1, EndAttemptTypes DEF FetchFails, FinishAttemptFailure
  <2>3. stage' \in [Runs -> [Stages -> StageStatuses]]
    BY <1>4, <2>1, SetStageTypes DEF FetchFails, FinishAttemptFailure
  <2>4. pc' \in [Runs -> [Claims -> Places]] /\ faults' \in 0..MaxFaults
    BY <1>4, <1>d, FaultTypes DEF FetchFails
  <2> QED
    BY <1>4, <2>2, <2>3, <2>4 DEF FetchFails, TypeOK
<1>5. ASSUME BindInputs(r, k) PROVE TypeOK'
  <2>1. PICK i \in {"eligible", "insufficient"} :
          inputs' = [inputs EXCEPT ![r] = i] /\ Go(r, k, AfterBinding(i))
    BY <1>5 DEF BindInputs
  <2>2. pc' \in [Runs -> [Claims -> Places]]
    BY <2>1, <1>d DEF AfterBinding
  <2>3. inputs' \in [Runs -> {"none", "eligible", "insufficient"}]
    BY <2>1 DEF TypeOK
  <2>4. wave' \in [Runs -> [Claims -> 0..3]]
    BY <1>5 DEF BindInputs, TypeOK
  <2> QED
    BY <1>5, <2>2, <2>3, <2>4 DEF BindInputs, TypeOK
<1>6. ASSUME BlockNext(r, k) PROVE TypeOK'
  <2>1. PICK i \in PendingRoles(r) : SetStage(r, RoleOrder[i], "blocked")
    BY <1>6 DEF BlockNext
  <2>2. RoleOrder[i] \in Stages
    BY <1>b DEF PendingRoles, Roles
  <2>3. stage' \in [Runs -> [Stages -> StageStatuses]]
    BY <2>1, <2>2, SetStageTypes
  <2> QED
    BY <1>6, <2>3 DEF BlockNext, TypeOK
<1>7. ASSUME NEW x \in Roles, Visit(r, k, x) PROVE TypeOK'
  <2>1. stage' \in [Runs -> [Stages -> StageStatuses]]
    BY <1>7, <1>b, SetStageTypes DEF Visit, TypeOK
  <2>2. co' \in [Runs -> [Claims -> [Roles -> Coroutines]]]
    <3>1. {"done", "ready", "closed"} \subseteq Coroutines
      BY DEF Coroutines
    <3>2. UNCHANGED co \/ \E c \in {"done", "ready", "closed"} : SetCo(r, k, x, c)
      BY <1>7 DEF Visit
    <3> QED
      BY <1>e, <3>1, <3>2 DEF TypeOK
  <2>3. pc' \in [Runs -> [Claims -> Places]]
    BY <1>7, <1>d DEF Visit, TypeOK
  <2> QED
    BY <1>7, <2>1, <2>2, <2>3 DEF Visit, TypeOK
<1>8. ASSUME NEW x \in Roles, StartCall(r, k, x) PROVE TypeOK'
  <2>1. {"raised", "closed", "calling"} \subseteq Coroutines
    BY DEF Coroutines
  <2>2. co' \in [Runs -> [Claims -> [Roles -> Coroutines]]]
    BY <1>8, <1>e, <2>1 DEF StartCall
  <2>3. /\ attempts' \in [Runs -> [Stages -> Seq(AttemptStatuses)]]
        /\ stage' \in [Runs -> [Stages -> StageStatuses]]
    <3>1. CASE stage[r][x] # "pending"
      BY <1>8, <3>1 DEF StartCall, TypeOK
    <3>2. CASE stage[r][x] = "pending" /\ BudgetIsSpent(r, x)
      BY <1>8, <3>2, <1>b, SetStageTypes DEF StartCall, ExhaustStage, TypeOK
    <3>3. CASE stage[r][x] = "pending" /\ ~BudgetIsSpent(r, x)
      BY <1>8, <3>3, <1>b, StartAttemptTypes DEF StartCall
    <3> QED
      BY <3>1, <3>2, <3>3
  <2>4. calls' \in [Runs -> [Roles -> Nat]]
    <3>1. UNCHANGED calls \/ calls' = [calls EXCEPT ![r][x] = calls[r][x] + 1]
      BY <1>8 DEF StartCall
    <3>2. calls[r][x] + 1 \in Nat
      BY DEF TypeOK
    <3>3. [calls EXCEPT ![r][x] = calls[r][x] + 1] \in [Runs -> [Roles -> Nat]]
      BY <3>2 DEF TypeOK
    <3> QED
      BY <3>1, <3>3 DEF TypeOK
  <2> QED
    BY <1>8, <2>2, <2>3, <2>4 DEF StartCall, TypeOK
<1>9. ASSUME NEW x \in Roles, PrepareFails(r, k, x) PROVE TypeOK'
  <2>1. co' \in [Runs -> [Claims -> [Roles -> Coroutines]]]
    BY <1>9, <1>e DEF PrepareFails, Coroutines
  <2>2. /\ attempts' \in [Runs -> [Stages -> Seq(AttemptStatuses)]]
        /\ stage' \in [Runs -> [Stages -> StageStatuses]]
    BY <1>9, <1>b, StartAttemptTypes DEF PrepareFails
  <2>3. faults' \in 0..MaxFaults
    BY <1>9, FaultTypes DEF PrepareFails
  <2> QED
    BY <1>9, <2>1, <2>2, <2>3 DEF PrepareFails, TypeOK
<1>10. ASSUME NEW x \in Roles, RecordUnprepared(r, k, x) PROVE TypeOK'
  <2>1. co' \in [Runs -> [Claims -> [Roles -> Coroutines]]]
    BY <1>10, <1>e DEF RecordUnprepared, Coroutines
  <2>2. attempts' \in [Runs -> [Stages -> Seq(AttemptStatuses)]]
    BY <1>10, <1>b, EndAttemptTypes DEF RecordUnprepared, FinishAttemptFailure
  <2>3. stage' \in [Runs -> [Stages -> StageStatuses]]
    BY <1>10, <1>b, SetStageTypes DEF RecordUnprepared, FinishAttemptFailure
  <2> QED
    BY <1>10, <2>1, <2>2, <2>3 DEF RecordUnprepared, TypeOK
<1>11. ASSUME NEW x \in Roles, Answered(r, k, x) PROVE TypeOK'
  <2>1. co' \in [Runs -> [Claims -> [Roles -> Coroutines]]]
    BY <1>11, <1>e DEF Answered, Coroutines
  <2>2. attempts' \in [Runs -> [Stages -> Seq(AttemptStatuses)]]
    BY <1>11, <1>b, EndAttemptTypes DEF Answered, FinishAttemptSuccess
  <2>3. stage' \in [Runs -> [Stages -> StageStatuses]]
    BY <1>11, <1>b, SetStageTypes DEF Answered, FinishAttemptSuccess
  <2> QED
    BY <1>11, <2>1, <2>2, <2>3 DEF Answered, TypeOK
<1>12. ASSUME NEW x \in Roles, NEW b \in BOOLEAN, CallFails(r, k, x, b) PROVE TypeOK'
  <2>1. {"closed", "backoff"} \subseteq Coroutines
    BY DEF Coroutines
  <2>2. \E c \in {"closed", "backoff"} : SetCo(r, k, x, c)
    BY <1>12 DEF CallFails
  <2>3. co' \in [Runs -> [Claims -> [Roles -> Coroutines]]]
    BY <1>e, <2>1, <2>2
  <2>4. attempts' \in [Runs -> [Stages -> Seq(AttemptStatuses)]]
    BY <1>12, <1>b, EndAttemptTypes DEF CallFails, FinishAttemptFailure
  <2>5. stage' \in [Runs -> [Stages -> StageStatuses]]
    BY <1>12, <1>b, SetStageTypes DEF CallFails, FinishAttemptFailure
  <2>6. faults' \in 0..MaxFaults
    BY <1>12, FaultTypes DEF CallFails
  <2> QED
    BY <1>12, <2>3, <2>4, <2>5, <2>6 DEF CallFails, TypeOK
<1>13. ASSUME EndWave(r, k) PROVE TypeOK'
  <2>1. pc' \in [Runs -> [Claims -> Places]]
    BY <1>13, <1>d DEF EndWave
  <2> QED
    BY <1>13, <2>1 DEF EndWave, TypeOK
<1>14. ASSUME Pass(r, k) PROVE TypeOK'
  <2>1. \E p \in {"data", "report", "wave"} : Go(r, k, p)
    BY <1>14 DEF Pass
  <2>2. pc' \in [Runs -> [Claims -> Places]]
    BY <1>d, <2>1
  <2>3. (IF wave[r][k] \in {1, 2} THEN wave[r][k] + 1 ELSE wave[r][k]) \in 0..3
    BY DEF TypeOK
  <2>4. wave' \in [Runs -> [Claims -> 0..3]]
    BY <1>14, <2>3 DEF Pass, TypeOK
  <2> QED
    BY <1>14, <2>2, <2>4 DEF Pass, TypeOK
<1>15. ASSUME FinalizeRun(r, k) PROVE TypeOK'
  <2>1. status' \in [Runs -> {"absent", "queued", "running"} \cup RunEnded]
    <3>1. \E v \in RunEnded : EndRun(r, v)
      BY <1>15 DEF FinalizeRun, Verdicts, RunEnded
    <3> QED
      BY <3>1 DEF EndRun, TypeOK
  <2>2. report' \in [Runs -> {NoReport} \cup SUBSET Roles]
    <3>1. Completed(r, k) \in SUBSET Roles
      BY DEF Completed
    <3>2. UNCHANGED report \/ report' = [report EXCEPT ![r] = Completed(r, k)]
      BY <1>15 DEF FinalizeRun
    <3> QED
      BY <3>1, <3>2 DEF TypeOK
  <2>3. task' \in [Runs -> {"absent", "queued", "running", "lapsed", "ended", "failed"}]
    BY <1>15 DEF FinalizeRun, EndTask, TypeOK
  <2> QED
    BY <1>15, <2>1, <2>2, <2>3, RunnerTypes DEF FinalizeRun, TypeOK
<1>16. ASSUME ObserveCancel(r, k) PROVE TypeOK'
  BY <1>16, EndingTypes, RunnerTypes DEF ObserveCancel, TypeOK
<1>17. ASSUME HandlerFails(r, k) PROVE TypeOK'
  BY <1>17, EndingTypes, RunnerTypes DEF HandlerFails, TypeOK
<1>18. ASSUME Fenced(r, k) PROVE TypeOK'
  BY <1>18, RunnerTypes DEF Fenced, TypeOK
<1>19. ASSUME Pause(r, k) PROVE TypeOK'
  BY <1>19, RunnerTypes, FaultTypes DEF Pause, TypeOK
<1>20. ASSUME Unexpected(r, k) PROVE TypeOK'
  BY <1>20, <1>d, FaultTypes DEF Unexpected, TypeOK
<1>21. ASSUME FailureUnrecorded(r, k) PROVE TypeOK'
  BY <1>21, RunnerTypes, FaultTypes DEF FailureUnrecorded, TypeOK
<1>22. ASSUME NEW x \in Roles, CoroutineBreaks(r, k, x) PROVE TypeOK'
  <2>1. "raised" \in Coroutines
    BY DEF Coroutines
  <2> QED
    BY <1>22, <1>e, <2>1, FaultTypes DEF CoroutineBreaks, TypeOK
<1> QED
  BY <1>1, <1>2, <1>3, <1>4, <1>5, <1>6, <1>7, <1>8, <1>9, <1>10, <1>11, <1>12, <1>13,
     <1>14, <1>15, <1>16, <1>17, <1>18, <1>19, <1>20, <1>21, <1>22
     DEF RunnerStep, Breaks

--------------------------------------------------------------------------------
(* What a step does to the stages of a run, and what that keeps.           *)

\* Everything about stage x of run r but what it reuses.
SameStage(r, x) ==
    /\ stage'[r][x] = stage[r][x] /\ attempts'[r][x] = attempts[r][x]
    /\ x \in Roles => calls'[r][x] = calls[r][x]

LEMMA StageFrame ==
    ASSUME NEW r \in Runs, NEW x \in Stages, AttemptsFit(r, x), SameStage(r, x)
    PROVE  AttemptsFit(r, x)'
BY DEF AttemptsFit, SameStage

LEMMA AttemptStarts ==
    ASSUME TypeOK, NEW r \in Runs, NEW x \in Stages, AttemptsFit(r, x),
           StartAttempt(r, x), ~BudgetIsSpent(r, x),
           UNCHANGED calls \/ (x \in Roles /\ calls' = [calls EXCEPT ![r][x] = @ + 1])
    PROVE  /\ AttemptsFit(r, x)'
           /\ stage[r][x] = "pending" /\ stage'[r][x] = "running"
           /\ \A y \in Stages \ {x} : SameStage(r, y)
           /\ \A q \in Runs \ {r} :
                /\ stage'[q] = stage[q] /\ attempts'[q] = attempts[q] /\ calls'[q] = calls[q]
<1> DEFINE s == attempts[r][x]
<1>1. s \in Seq(AttemptStatuses) /\ Len(s) \in Nat /\ MaxAttempts \in Nat
  BY PolicyAssumption DEF TypeOK
<1>2. /\ attempts'[r][x] = Append(s, "running")
      /\ stage[r][x] = "pending" /\ stage'[r][x] = "running"
  BY DEF StartAttempt, SetStage, TypeOK
<1>3. \A i \in DOMAIN s : s[i] # "running"
  BY <1>2 DEF AttemptsFit
<1>4. /\ Append(s, "running") # <<>>
      /\ Len(Append(s, "running")) = Len(s) + 1
      /\ \A i \in DOMAIN Append(s, "running") :
           i = Len(s) + 1 \/ (i \in DOMAIN s /\ Append(s, "running")[i] = s[i])
      /\ Append(s, "running")[Len(s) + 1] = "running"
  BY <1>1
<1>5. Len(s) < MaxAttempts
  BY <1>1 DEF BudgetIsSpent
<1>6. x \in Roles => calls'[r][x] <= calls[r][x] + 1 /\ calls[r][x] \in Nat /\ calls'[r][x] \in Nat
  BY DEF TypeOK
<1>7. x \in Roles => calls[r][x] <= Len(s)
  BY DEF AttemptsFit
<1>8. AttemptsFit(r, x)'
  <2> HIDE DEF s
  <2>1. x \in Roles => calls'[r][x] <= Len(s) + 1
    BY <1>1, <1>6, <1>7
  <2>2. \A i \in DOMAIN Append(s, "running") :
          Append(s, "running")[i] = "running" => i = Len(s) + 1
    BY <1>3, <1>4
  <2> QED
    BY <1>1, <1>2, <1>4, <1>5, <2>1, <2>2 DEF AttemptsFit
<1>9. \A y \in Stages \ {x} : SameStage(r, y)
  BY DEF StartAttempt, SetStage, SameStage, TypeOK
<1>10. \A q \in Runs \ {r} :
         stage'[q] = stage[q] /\ attempts'[q] = attempts[q] /\ calls'[q] = calls[q]
  BY DEF StartAttempt, SetStage, TypeOK
<1> QED
  BY <1>2, <1>8, <1>9, <1>10

LEMMA AttemptEnds ==
    ASSUME TypeOK, NEW r \in Runs, NEW x \in Stages, AttemptsFit(r, x),
           NEW a \in AttemptStatuses \ {"running"}, NEW s \in StageStatuses \ {"running"},
           EndAttempt(r, x, a), SetStage(r, x, s), UNCHANGED calls
    PROVE  /\ AttemptsFit(r, x)' /\ stage'[r][x] = s
           /\ \A y \in Stages \ {x} : SameStage(r, y)
           /\ \A q \in Runs \ {r} :
                /\ stage'[q] = stage[q] /\ attempts'[q] = attempts[q] /\ calls'[q] = calls[q]
<1> DEFINE old == attempts[r][x]
           new == [old EXCEPT ![Len(old)] = a]
<1>1. old \in Seq(AttemptStatuses)
  BY DEF TypeOK
<1>2. Len(new) = Len(old) /\ DOMAIN new = DOMAIN old
      /\ \A i \in DOMAIN old : new[i] = IF i = Len(old) THEN a ELSE old[i]
  BY <1>1, LastReplaced
<1>3. attempts'[r][x] = new /\ stage'[r][x] = s
  BY DEF EndAttempt, SetStage, TypeOK
<1>4. AttemptsFit(r, x)'
  <2>1. \A i \in DOMAIN old : old[i] = "running" => i = Len(old)
    BY DEF AttemptsFit
  <2>2. \A i \in DOMAIN new : new[i] # "running"
    <3> HIDE DEF old, new
    <3> QED
      BY <1>2, <2>1
  <2>3. Len(old) <= MaxAttempts /\ (x \in Roles => calls[r][x] <= Len(old))
    BY DEF AttemptsFit
  <2> HIDE DEF old, new
  <2> QED
    BY <1>2, <1>3, <2>2, <2>3 DEF AttemptsFit
<1>5. \A y \in Stages \ {x} : SameStage(r, y)
  BY DEF EndAttempt, SetStage, SameStage, TypeOK
<1>6. \A q \in Runs \ {r} :
         stage'[q] = stage[q] /\ attempts'[q] = attempts[q] /\ calls'[q] = calls[q]
  BY DEF EndAttempt, SetStage, TypeOK
<1> QED
  BY <1>3, <1>4, <1>5, <1>6

LEMMA AttemptsClose ==
    ASSUME TypeOK, NEW r \in Runs, NEW x \in Stages, AttemptsFit(r, x),
           NEW a \in AttemptStatuses \ {"running"}, CloseAttempts(r, a),
           stage'[r][x] # "running", UNCHANGED calls
    PROVE  AttemptsFit(r, x)'
<1> DEFINE old == attempts[r][x]
           new == [i \in DOMAIN old |-> IF old[i] = "running" THEN a ELSE old[i]]
<1>1. old \in Seq(AttemptStatuses)
  BY DEF TypeOK
<1>2. Len(new) = Len(old) /\ DOMAIN new = DOMAIN old
  BY <1>1, AllReplaced
<1>3. attempts'[r][x] = new
  BY DEF CloseAttempts, TypeOK
<1>4. \A i \in DOMAIN new : new[i] # "running"
  OBVIOUS
<1>5. Len(old) <= MaxAttempts /\ (x \in Roles => calls[r][x] <= Len(old))
  BY DEF AttemptsFit
<1> HIDE DEF old, new
<1> QED
  BY <1>2, <1>3, <1>4, <1>5 DEF AttemptsFit

\* What no step but a retry does: change what a run reuses, or a run that has ended.
ReuseStays(r) ==
    /\ source'[r] = source[r]
    /\ \A x \in Stages : stage'[r][x] = "reused" <=> stage[r][x] = "reused"
    /\ status[r] \in RunEnded => status'[r] = status[r] /\ stage'[r] = stage[r]

LEMMA Combine ==
    ASSUME AnalysisInv, TypeOK', NEW r \in Runs, RunInv(r)', ReuseStays(r),
           \A q \in Runs \ {r} : SameRun(q)
    PROVE  AnalysisInv'
<1>1. ASSUME NEW q \in Runs PROVE RunInv(q)'
  BY <1>1, RunFrame DEF AnalysisInv
<1>2. ASSUME NEW q \in Runs PROVE ReuseStays(q)
  BY <1>2 DEF ReuseStays, SameRun, SameRows
<1>3. ASSUME NEW q \in Runs, NEW x \in Stages
      PROVE  Origin(q, x)' = Origin(q, x)
  BY <1>2 DEF Origin, ReuseStays
<1>4. ASSUME NEW q \in Runs PROVE OriginsFit(q)'
  <2>1. OriginsFit(q) /\ ReuseStays(q)
    BY <1>2 DEF AnalysisInv
  <2>2. ASSUME NEW x \in Stages, stage'[q][x] = "reused"
        PROVE  /\ source'[q][x] \in Runs
               /\ status'[source'[q][x]] \in RunEnded
               /\ stage'[source'[q][x]][x]
                    \in IF x \in Roles THEN {"succeeded"} ELSE {"succeeded", "failed"}
    <3>1. /\ source'[q][x] = source[q][x] /\ source[q][x] \in Runs
          /\ status[source[q][x]] \in RunEnded
          /\ stage[source[q][x]][x]
               \in IF x \in Roles THEN {"succeeded"} ELSE {"succeeded", "failed"}
      BY <2>1, <2>2 DEF OriginsFit, ReuseStays
    <3>2. ReuseStays(source[q][x])
      BY <1>2, <3>1
    <3> QED
      BY <3>1, <3>2 DEF ReuseStays
  <2>3. ASSUME NEW x \in Roles, stage'[q][x] = "reused", NEW y \in Deps[x]
        PROVE  Origin(q, y)' = Origin(source[q][x], y)'
    <3>1. x \in Stages /\ y \in Stages
      BY SectionsAndRoles, DepsAreEarlier
    <3>2. source'[q][x] = source[q][x] /\ source[q][x] \in Runs
          /\ Origin(q, y) = Origin(source[q][x], y)
      BY <2>1, <2>3, <3>1 DEF OriginsFit, ReuseStays
    <3>3. Origin(q, y)' = Origin(q, y)
      BY <1>3, <3>1
    <3>4. ReuseStays(source[q][x])
      BY <1>2, <3>2
    <3>5. Origin(source[q][x], y)' = Origin(source[q][x], y)
      BY <3>1, <3>2, <3>4 DEF Origin, ReuseStays
    <3> QED
      BY <3>2, <3>3, <3>5
  <2> QED
    BY <2>2, <2>3 DEF OriginsFit
<1> QED
  BY <1>1, <1>4 DEF AnalysisInv

\* A run that ends closes what was open.
LEMMA Closing ==
    ASSUME TypeOK, NEW r \in Runs, RunInv(r), status[r] \in {"queued", "running"},
           NEW s \in {"cancelled", "failed"}, EndRun(r, s), EndTask(r),
           CloseStages(r, Open, "cancelled"),
           \/ \E a \in AttemptStatuses \ {"running"} : CloseAttempts(r, a)
           \/ UNCHANGED attempts /\ \A x \in Stages : stage[r][x] # "running",
           UNCHANGED <<inputs, report, source, claim, calls>>
    PROVE  /\ RowsAgree(r)' /\ InputsFit(r)' /\ ClaimFits(r)'
           /\ \A x \in Stages : AttemptsFit(r, x)'
           /\ ReuseStays(r)
<1>1. \A x \in Stages :
        stage'[r][x] = IF stage[r][x] \in Open THEN "cancelled" ELSE stage[r][x]
  BY DEF CloseStages, TypeOK
<1>2. status'[r] = s /\ task'[r] = "ended"
  BY DEF EndRun, EndTask, TypeOK
<1>3. RowsAgree(r)'
  BY <1>1, <1>2 DEF RowsAgree, RunEnded, Open
<1>4. InputsFit(r)'
  <2>1. InputsFit(r) /\ status'[r] # "partial"
    BY <1>2 DEF RunInv
  <2>2. \A x \in Kinds : stage'[r][x] # "blocked" /\ (inputs'[r] # "none" => stage'[r][x] \notin Open)
    BY <1>1, <2>1, SectionsAndRoles DEF InputsFit, Open
  <2>3. ASSUME NEW x \in Roles
        PROVE  /\ inputs'[r] = "none" => stage'[r][x] \in {"pending", "cancelled"}
               /\ inputs'[r] = "insufficient" => stage'[r][x] \in {"pending", "cancelled", "blocked"}
               /\ inputs'[r] = "eligible" /\ stage'[r][x] = "blocked" =>
                    \E y \in Deps[x] : stage'[r][y] \in {"failed", "blocked"}
    <3>1. \A y \in Deps[x] : y \in Stages
      BY DepsAreEarlier, SectionsAndRoles
    <3> QED
      BY <1>1, <2>1, <3>1, SectionsAndRoles DEF InputsFit, Open
  <2> QED
    BY <2>1, <2>2, <2>3 DEF InputsFit
<1>5. ClaimFits(r)'
  BY <1>2 DEF ClaimFits
<1>6. ASSUME NEW x \in Stages PROVE AttemptsFit(r, x)'
  <2>1. stage'[r][x] # "running"
    BY <1>1 DEF Open
  <2>2. AttemptsFit(r, x)
    BY DEF RunInv
  <2>3. CASE \E a \in AttemptStatuses \ {"running"} : CloseAttempts(r, a)
    BY <2>1, <2>2, <2>3, AttemptsClose
  <2>4. CASE UNCHANGED attempts /\ \A y \in Stages : stage[r][y] # "running"
    BY <2>1, <2>2, <2>4 DEF AttemptsFit
  <2> QED
    BY <2>3, <2>4
<1>7. ReuseStays(r)
  BY <1>1 DEF ReuseStays, Open, RunEnded
<1> QED
  BY <1>3, <1>4, <1>5, <1>6, <1>7

--------------------------------------------------------------------------------
(* The task that carries a run.                                            *)

LEMMA RowsUntouched ==
    ASSUME AnalysisInv, NEW r \in Runs, SameRows(r)
    PROVE  /\ InputsFit(r)' /\ ReuseStays(r)
           /\ \A x \in Stages : AttemptsFit(r, x)'
<1>1. RunInv(r)
  BY DEF AnalysisInv
<1> QED
  BY <1>1, RowsFrame DEF RunInv, ReuseStays, SameRows

LEMMA ClaimStarts ==
    ASSUME AnalysisInv, TypeOK', NEW r \in Runs, task[r] \in {"queued", "lapsed"},
           Start(r), Go(r, claim[r] + 1, "begin"),
           UNCHANGED <<runRows, stageRows, cancel, wave, co, calls, faults>>
    PROVE  AnalysisInv'
<1> USE DEF runRows, stageRows
<1>0. TypeOK /\ RunInv(r)
  BY DEF AnalysisInv
<1> DEFINE n == claim[r] + 1
<1>1. n \in Claims /\ claim[r] \in Nat /\ n > claim[r]
  BY <1>0, BoundsAssumption DEF Start, TypeOK, Claims
<1>2. /\ claim'[r] = n /\ task'[r] = "running" /\ pc'[r][n] = "begin"
      /\ \A k \in Claims \ {n} : pc'[r][k] = pc[r][k]
  BY <1>0, <1>1 DEF Start, Go, TypeOK
<1>3. \A q \in Runs \ {r} : SameRun(q)
  BY <1>0, <1>1 DEF SameRun, SameRows, SameRunner, Start, Go, TypeOK
<1>4. SameRows(r)
  BY DEF SameRows
<1>5. RowsAgree(r)'
  <2>1. RowsAgree(r)
    BY <1>0 DEF RunInv
  <2> QED
    BY <1>1, <1>2, <2>1 DEF RowsAgree
<1>6. ClaimFits(r)'
  BY <1>2 DEF ClaimFits, Working
<1>7. ASSUME NEW k \in Claims PROVE RunnerFits(r, k)'
  <2>1. RunnerFits(r, k)
    BY <1>0 DEF RunInv
  <2>2. CASE k = n
    <3>1. pc[r][k] = "none" /\ pc'[r][k] = "begin" /\ ~(k > claim'[r])
      BY <1>1, <1>2, <2>1, <2>2 DEF RunnerFits
    <3>2. wave'[r][k] = wave[r][k] /\ co'[r][k] = co[r][k] /\ wave[r][k] = 0
      BY <2>1, <3>1 DEF RunnerFits
    <3> HIDE DEF n
    <3> QED
      BY <2>1, <3>1, <3>2 DEF RunnerFits, Completed
  <2>3. CASE k # n
    <3>1. k > claim'[r] => k > claim[r]
      BY <1>1, <1>2 DEF Claims
    <3> QED
      BY <1>2, <2>1, <2>3, <3>1, RunnerFrame DEF SameRunner
  <2> QED
    BY <2>2, <2>3
<1>8. RunInv(r)'
  BY <1>4, <1>5, <1>6, <1>7, RowsUntouched DEF RunInv
<1> QED
  BY <1>3, <1>4, <1>8, Combine, RowsUntouched

\* A runner that leaves satisfies whatever is said of runners.
LEMMA Leaving ==
    ASSUME TypeOK, NEW r \in Runs, NEW k \in Claims, k <= claim[r], UNCHANGED claim,
           Leave(r, k), \A j \in Claims : RunnerFits(r, j)
    PROVE  /\ \A j \in Claims : RunnerFits(r, j)'
           /\ \A j \in Claims \ {k} : SameRunner(r, j)
           /\ \A q \in Runs \ {r} : \A j \in Claims : SameRunner(q, j)
<1>1. pc'[r][k] = "gone" /\ \A j \in Claims \ {k} : SameRunner(r, j)
  BY DEF Leave, Go, SameRunner, TypeOK
<1>2. \A j \in Claims \ {k} : RunnerFits(r, j)'
  BY <1>1, RunnerFrame
<1>3. RunnerFits(r, k)'
  BY <1>1 DEF RunnerFits, TypeOK, Claims
<1>4. \A q \in Runs \ {r} : \A j \in Claims : SameRunner(q, j)
  BY DEF Leave, Go, SameRunner, TypeOK
<1> QED
  BY <1>1, <1>2, <1>3, <1>4

LEMMA TaskStepKeeps ==
    ASSUME AnalysisInv, NEW r \in Runs,
           \/ ClaimTask(r) \/ Lapse(r) \/ Reclaim(r) \/ TerminalizeCancelled(r)
           \/ Requeue(r) \/ RequestCancel(r)
    PROVE  AnalysisInv'
<1> USE DEF runRows, stageRows, runner
<1>0. TypeOK /\ RunInv(r)
  BY DEF AnalysisInv
<1>t. TypeOK'
  BY TaskTypes DEF AnalysisInv, RunInv, RowsAgree
<1>r. RowsAgree(r) /\ \A k \in Claims : RunnerFits(r, k)
  BY <1>0 DEF RunInv
<1>1. CASE ClaimTask(r)
  BY <1>1, <1>t, ClaimStarts DEF ClaimTask
<1>2. CASE Reclaim(r)
  BY <1>2, <1>t, ClaimStarts DEF Reclaim
<1>3. CASE Lapse(r)
  <2>1. SameRows(r) /\ claim' = claim /\ task'[r] = "lapsed" /\ task[r] = "running"
    BY <1>0, <1>3 DEF Lapse, SameRows, TypeOK
  <2>2. claim[r] \in Claims /\ claim[r] <= claim[r]
    BY <1>r, <2>1 DEF RowsAgree, Claims
  <2>3. /\ \A k \in Claims : RunnerFits(r, k)'
        /\ \A q \in Runs \ {r}, k \in Claims : SameRunner(q, k)
    <3>1. CASE UNCHANGED runner
      BY <1>r, <2>1, <3>1, RunnerFrame DEF SameRunner
    <3>2. CASE Leave(r, claim[r])
      BY <1>0, <1>r, <2>1, <2>2, <3>2, Leaving
    <3> QED
      BY <1>3, <3>1, <3>2 DEF Lapse
  <2>4. \A q \in Runs \ {r} : SameRun(q)
    BY <1>0, <1>3, <2>3 DEF Lapse, SameRun, SameRows, TypeOK
  <2>5. RowsAgree(r)' /\ ClaimFits(r)'
    BY <1>r, <2>1 DEF RowsAgree, ClaimFits, SameRows, RunEnded
  <2>6. RunInv(r)'
    BY <2>1, <2>3, <2>5, RowsUntouched DEF RunInv
  <2> QED
    BY <1>t, <2>1, <2>4, <2>6, Combine, RowsUntouched
<1>4. CASE Requeue(r)
  <2>1. SameRows(r) /\ claim' = claim /\ task'[r] = "queued" /\ task[r] = "lapsed"
    BY <1>0, <1>4 DEF Requeue, SameRows, TypeOK
  <2>2. \A k \in Claims : RunnerFits(r, k)'
    BY <1>r, <1>4, RunnerFrame DEF Requeue, SameRunner
  <2>3. \A q \in Runs \ {r} : SameRun(q)
    BY <1>0, <1>4 DEF Requeue, SameRun, SameRows, SameRunner, TypeOK
  <2>4. RowsAgree(r)' /\ ClaimFits(r)'
    BY <1>r, <2>1 DEF RowsAgree, ClaimFits, SameRows, RunEnded
  <2>5. RunInv(r)'
    BY <2>1, <2>2, <2>4, RowsUntouched DEF RunInv
  <2> QED
    BY <1>t, <2>1, <2>3, <2>5, Combine, RowsUntouched
<1>5. CASE TerminalizeCancelled(r)
  <2>1. status[r] \in {"queued", "running"}
    BY <1>0, <1>r, <1>5 DEF TerminalizeCancelled, RowsAgree, TypeOK
  <2>2. /\ EndRun(r, "cancelled") /\ EndTask(r) /\ CloseStages(r, Open, "cancelled")
        /\ \/ \E a \in AttemptStatuses \ {"running"} : CloseAttempts(r, a)
           \/ UNCHANGED attempts /\ \A x \in Stages : stage[r][x] # "running"
    BY <1>r, <1>5, <2>1 DEF TerminalizeCancelled, CancelRun, AttemptStatuses, RowsAgree
  <2>3. /\ RowsAgree(r)' /\ InputsFit(r)' /\ ClaimFits(r)'
        /\ \A x \in Stages : AttemptsFit(r, x)'
        /\ ReuseStays(r)
    BY <1>0, <1>5, <2>1, <2>2, Closing DEF TerminalizeCancelled
  <2>4. \A k \in Claims : RunnerFits(r, k)'
    BY <1>r, <1>5, RunnerFrame DEF TerminalizeCancelled, SameRunner
  <2>5. \A q \in Runs \ {r} : SameRun(q)
    BY <1>0, <1>5, <2>2
       DEF TerminalizeCancelled, SameRun, SameRows, SameRunner, EndRun, EndTask, CloseStages,
           CloseAttempts, TypeOK
  <2> QED
    BY <1>t, <2>3, <2>4, <2>5, Combine DEF RunInv
<1>6. CASE RequestCancel(r)
  <2>1. \A k \in Claims : RunnerFits(r, k)'
    BY <1>r, <1>6, RunnerFrame DEF RequestCancel, SameRunner
  <2>2. \A q \in Runs \ {r} : SameRun(q)
    BY <1>0, <1>6
       DEF RequestCancel, SameRun, SameRows, SameRunner, EndRun, EndTask, CloseStages, TypeOK
  <2>3. CASE task[r] = "queued" /\ status[r] = "queued"
    <3>1. \A x \in Stages : stage[r][x] # "running"
      BY <1>r, <2>3 DEF RowsAgree
    <3>2. CloseStages(r, Open, "cancelled")
      BY <1>6, <2>3, <3>1 DEF RequestCancel, CloseStages, Open
    <3>3. EndRun(r, "cancelled") /\ EndTask(r)
      BY <1>6, <2>3 DEF RequestCancel
    <3>4. /\ RowsAgree(r)' /\ InputsFit(r)' /\ ClaimFits(r)'
          /\ \A x \in Stages : AttemptsFit(r, x)'
          /\ ReuseStays(r)
      BY <1>0, <1>6, <2>3, <3>1, <3>2, <3>3, Closing DEF RequestCancel
    <3> QED
      BY <1>t, <2>1, <2>2, <3>4, Combine DEF RunInv
  <2>4. CASE ~(task[r] = "queued" /\ status[r] = "queued")
    <3>1. SameRows(r) /\ claim' = claim
      BY <1>6, <2>4 DEF RequestCancel, SameRows
    <3>2. task'[r] = task[r] \/ (task[r] = "queued" /\ task'[r] = "ended")
      BY <1>0, <1>6 DEF RequestCancel, EndTask, TypeOK
    <3>3. RowsAgree(r)'
      BY <1>r, <3>1, <3>2 DEF RowsAgree, SameRows, RunEnded
    <3>4. ClaimFits(r)'
      BY <1>0, <1>6, <3>1, <3>2, RowsFrame DEF RequestCancel, RunInv, ClaimFits, SameRows
    <3>5. RunInv(r)'
      BY <2>1, <3>1, <3>3, <3>4, RowsUntouched DEF RunInv
    <3> QED
      BY <1>t, <2>2, <3>1, <3>5, Combine, RowsUntouched
  <2> QED
    BY <2>3, <2>4
<1> QED
  BY <1>1, <1>2, <1>3, <1>4, <1>5, <1>6

--------------------------------------------------------------------------------
(* Steps of a runner.                                                      *)

OtherRunners(r, k) ==
    /\ \A j \in Claims \ {k} : SameRunner(r, j)
    /\ \A q \in Runs \ {r}, j \in Claims : SameRunner(q, j)

LEMMA RunnersElsewhere ==
    ASSUME AnalysisInv, NEW r \in Runs, NEW k \in Claims, OtherRunners(r, k),
           UNCHANGED claim, RunnerFits(r, k)'
    PROVE  \A j \in Claims : RunnerFits(r, j)'
<1>1. \A j \in Claims : RunnerFits(r, j)
  BY DEF AnalysisInv, RunInv
<1>2. \A j \in Claims \ {k} : RunnerFits(r, j)'
  BY <1>1, RunnerFrame DEF OtherRunners
<1> QED
  BY <1>2

\* A step that touches nothing but the runner's own memory.
LEMMA LocalStep ==
    ASSUME AnalysisInv, TypeOK', NEW r \in Runs, NEW k \in Claims,
           UNCHANGED <<runRows, stageRows, taskRow, calls>>,
           OtherRunners(r, k), RunnerFits(r, k)', Guard(r, k) => ClaimFits(r)'
    PROVE  AnalysisInv'
<1> USE DEF runRows, stageRows, taskRow
<1>1. SameRows(r) /\ RowsAgree(r) /\ ClaimFits(r)
  BY DEF AnalysisInv, RunInv, SameRows
<1>2. RowsAgree(r)'
  BY <1>1 DEF RowsAgree
<1>3. ClaimFits(r)'
  <2>1. CASE ~Guard(r, k)
    <3>1. task'[r] = "running" => claim[r] \in Claims \ {k}
      BY <1>1, <2>1 DEF RowsAgree, Guard
    <3>2. OpenKinds(r)' = OpenKinds(r) /\ CurrentKind(r)' = CurrentKind(r)
      BY <1>1, RowsFrame
    <3> QED
      BY <1>1, <3>1, <3>2 DEF ClaimFits, OtherRunners, SameRunner
  <2> QED
    BY <2>1
<1>4. \A j \in Claims : RunnerFits(r, j)'
  BY RunnersElsewhere
<1>5. \A q \in Runs \ {r} : SameRun(q)
  BY DEF SameRun, SameRows, OtherRunners
<1>6. RunInv(r)'
  BY <1>1, <1>2, <1>3, <1>4, RowsUntouched DEF RunInv
<1> QED
  BY <1>1, <1>5, <1>6, Combine, RowsUntouched

\* A step of one coroutine of the wave.
LEMMA CoroutineStep ==
    ASSUME TypeOK, NEW r \in Runs, NEW k \in Claims, RunnerFits(r, k), At(r, k, "wave"),
           NEW x \in Wave(r, k), NEW c \in Coroutines, SetCo(r, k, x, c),
           co[r][k][x] # "done", UNCHANGED <<pc, wave, claim>>,
           c \in {"ready", "unprepared", "calling", "backoff"} => Deps[x] \subseteq Completed(r, k)
    PROVE  /\ x \in Roles /\ RunnerFits(r, k)' /\ OtherRunners(r, k)
           /\ co'[r][k][x] = c /\ \A y \in Roles \ {x} : co'[r][k][y] = co[r][k][y]
<1>1. wave[r][k] \in 1..3 /\ pc[r][k] = "wave"
  BY DEF RunnerFits, At, TypeOK
<1>2. x \in Roles /\ WaveOf[x] = wave[r][k]
  BY <1>1, WavesAre
<1>3. /\ co'[r][k][x] = c /\ \A y \in Roles \ {x} : co'[r][k][y] = co[r][k][y]
      /\ OtherRunners(r, k)
  BY <1>2 DEF SetCo, OtherRunners, SameRunner, TypeOK
<1>4. Completed(r, k) \subseteq Completed(r, k)'
  BY <1>2, <1>3 DEF Completed
<1>5. RunnerFits(r, k)'
  <2>1. ASSUME NEW y \in Roles
        PROVE  /\ WaveOf[y] < wave[r][k] => co'[r][k][y] \in {"done", "closed"}
               /\ WaveOf[y] > wave[r][k] => co'[r][k][y] = "idle"
               /\ co'[r][k][y] \in {"ready", "unprepared", "calling", "backoff"} =>
                    Deps[y] \subseteq Completed(r, k)'
    <3>1. CASE y = x
      BY <1>1, <1>2, <1>3, <1>4, <3>1
    <3>2. CASE y # x
      BY <1>1, <1>3, <1>4, <3>2 DEF RunnerFits
    <3> QED
      BY <3>1, <3>2
  <2> QED
    BY <1>1, <2>1 DEF RunnerFits
<1> QED
  BY <1>2, <1>3, <1>5

\* How the coroutine of a role and the row of its stage agree.
Agrees(c, s) ==
    CASE c \in {"unprepared", "calling"} -> s = "running"
      [] c = "backoff" -> s = "pending"
      [] c = "done" -> s \in Usable
      [] c = "closed" -> s \in {"failed", "blocked"}
      [] c = "raised" -> TRUE
      [] OTHER -> s # "running"

\* A step of a coroutine that records something in the row of its stage.
LEMMA RoleStep ==
    ASSUME AnalysisInv, TypeOK', NEW r \in Runs, NEW k \in Claims, At(r, k, "wave"), Guard(r, k),
           NEW x \in Wave(r, k), NEW c \in Coroutines, SetCo(r, k, x, c),
           co[r][k][x] # "done", UNCHANGED <<runRows, source, taskRow, pc, wave>>,
           c \in {"ready", "unprepared", "calling", "backoff"} => Deps[x] \subseteq Completed(r, k),
           stage[r][x] \in Open, Agrees(c, stage'[r][x]), stage'[r][x] \notin {"reused", "cancelled"},
           stage'[r][x] = "blocked" => \E y \in Deps[x] : stage[r][y] \in {"failed", "blocked"},
           AttemptsFit(r, x)', \A y \in Stages \ {x} : SameStage(r, y),
           \A q \in Runs \ {r} :
             stage'[q] = stage[q] /\ attempts'[q] = attempts[q] /\ calls'[q] = calls[q]
    PROVE  AnalysisInv'
<1> USE DEF runRows, taskRow
<1>0. /\ TypeOK /\ RunInv(r) /\ RowsAgree(r) /\ InputsFit(r) /\ ClaimFits(r) /\ RunnerFits(r, k)
      /\ pc[r][k] = "wave" /\ k = claim[r] /\ task[r] = "running" /\ wave[r][k] # 0
  BY DEF AnalysisInv, RunInv, At, Guard, RunnerFits
<1>1. /\ x \in Roles /\ RunnerFits(r, k)' /\ OtherRunners(r, k)
      /\ co'[r][k][x] = c /\ \A y \in Roles \ {x} : co'[r][k][y] = co[r][k][y]
  BY <1>0, CoroutineStep
<1>2. x \in Stages /\ x \notin Kinds /\ \A y \in Deps[x] : y \in Stages
  BY <1>1, SectionsAndRoles, DepsAreEarlier
<1>3. \A y \in Kinds : stage'[r][y] = stage[r][y]
  BY <1>2, SectionsAndRoles DEF SameStage
<1>4. \A y \in Roles \ {x} : stage'[r][y] = stage[r][y]
  BY SectionsAndRoles DEF SameStage
<1>5. status[r] = "running" /\ inputs[r] = "eligible"
  BY <1>0 DEF ClaimFits, Working
<1>6. RowsAgree(r)'
  <2>1. ASSUME NEW y \in Stages PROVE stage'[r][y] # "cancelled"
    BY <1>0, <1>5, <2>1 DEF RowsAgree, RunEnded, SameStage
  <2> QED
    BY <1>0, <1>5, <2>1 DEF RowsAgree, RunEnded
<1>7. InputsFit(r)'
  <2>1. \A y \in Kinds :
          stage'[r][y] # "blocked" /\ (inputs'[r] # "none" => stage'[r][y] \notin Open)
    BY <1>0, <1>3 DEF InputsFit
  <2>2. ASSUME NEW y \in Roles, stage'[r][y] = "blocked"
        PROVE  \E z \in Deps[y] : stage'[r][z] \in {"failed", "blocked"}
    <3>1. PICK z \in Deps[y] : stage[r][z] \in {"failed", "blocked"}
      BY <1>0, <1>4, <1>5, <2>2 DEF InputsFit
    <3>2. z \in Stages \ {x}
      BY <2>2, <3>1, DepsAreEarlier, SectionsAndRoles DEF Open
    <3> QED
      BY <3>1, <3>2 DEF SameStage
  <2> QED
    BY <1>5, <2>1, <2>2 DEF InputsFit
<1>8. ClaimFits(r)'
  <2>1. OpenKinds(r)' = OpenKinds(r) /\ CurrentKind(r)' = CurrentKind(r)
    BY <1>3, CurrentKindStays
  <2>2. ASSUME NEW y \in Roles PROVE Agrees(co'[r][k][y], stage'[r][y])
    <3>1. CASE y = x
      BY <1>1, <3>1
    <3>2. CASE y # x
      BY <1>0, <1>1, <1>4, <3>2 DEF ClaimFits, Agrees, Working
    <3> QED
      BY <3>1, <3>2
  <2> QED
    BY <1>0, <1>3, <1>5, <2>1, <2>2 DEF ClaimFits, Agrees, Working
<1>9. \A y \in Stages : AttemptsFit(r, y)'
  BY <1>0, StageFrame DEF RunInv
<1>10. RunInv(r)'
  BY <1>1, <1>6, <1>7, <1>8, <1>9, RunnersElsewhere DEF RunInv
<1>11. ReuseStays(r)
  BY <1>2, <1>5 DEF ReuseStays, SameStage, Open, RunEnded
<1>12. \A q \in Runs \ {r} : SameRun(q)
  BY <1>1 DEF SameRun, SameRows, OtherRunners
<1> QED
  BY <1>10, <1>11, <1>12, Combine

\* A dependency without an output has failed or was blocked: its wave is over.
LEMMA MissingDependency ==
    ASSUME AnalysisInv, NEW r \in Runs, NEW k \in Claims, At(r, k, "wave"), Guard(r, k),
           NEW x \in Wave(r, k), x \in Roles, ~(Deps[x] \subseteq Completed(r, k))
    PROVE  \E y \in Deps[x] : stage[r][y] \in {"failed", "blocked"}
<1>0. /\ TypeOK /\ RunnerFits(r, k) /\ ClaimFits(r)
      /\ pc[r][k] = "wave" /\ task[r] = "running" /\ claim[r] = k
  BY DEF AnalysisInv, RunInv, At, Guard
<1>1. PICK y \in Deps[x] : y \notin Completed(r, k)
  OBVIOUS
<1>2. y \in Roles /\ WaveOf[y] < WaveOf[x] /\ WaveOf[x] = wave[r][k]
  <2>1. wave[r][k] \in 1..3
    BY <1>0 DEF RunnerFits, TypeOK
  <2> QED
    BY <2>1, DepsAreEarlier, WavesAre
<1>3. co[r][k][y] = "closed"
  BY <1>0, <1>1, <1>2 DEF RunnerFits, Completed
<1> QED
  BY <1>0, <1>2, <1>3 DEF ClaimFits, Working

LEMMA WaveStepKeeps ==
    ASSUME AnalysisInv, TypeOK', NEW r \in Runs, NEW k \in Claims, NEW x \in Roles,
           \/ Visit(r, k, x) \/ StartCall(r, k, x) \/ PrepareFails(r, k, x)
           \/ RecordUnprepared(r, k, x) \/ Answered(r, k, x)
           \/ \E b \in BOOLEAN : CallFails(r, k, x, b)
           \/ CoroutineBreaks(r, k, x)
    PROVE  AnalysisInv'
<1> USE DEF runRows, stageRows, taskRow
<1>0. /\ TypeOK /\ RowsAgree(r) /\ RunnerFits(r, k) /\ ClaimFits(r)
      /\ x \in Stages /\ AttemptsFit(r, x)
  BY SectionsAndRoles DEF AnalysisInv, RunInv
<1>1. At(r, k, "wave") /\ pc[r][k] = "wave"
  BY DEF Visit, StartCall, PrepareFails, RecordUnprepared, Answered, CallFails,
         CoroutineBreaks, Running, At
<1>2. k <= claim[r]
  BY <1>0, <1>1 DEF RunnerFits, TypeOK, Claims
<1>3. Guard(r, k) =>
        /\ Agrees(co[r][k][x], stage[r][x])
        /\ \A y \in Roles : Agrees(co[r][k][y], stage[r][y])
  BY <1>0, <1>1 DEF ClaimFits, Guard, Agrees, Working
<1>4. {"idle", "ready", "unprepared", "calling", "backoff", "done", "closed", "raised"}
        = Coroutines
  BY DEF Coroutines
<1>5. UNCHANGED runRows
  BY DEF Visit, StartCall, PrepareFails, RecordUnprepared, Answered, CallFails,
         CoroutineBreaks
\* A step that only moves the coroutine.
<1>6. ASSUME NEW c \in Coroutines, SetCo(r, k, x, c), x \in Wave(r, k), co[r][k][x] # "done",
             c = "ready" => Deps[x] \subseteq Completed(r, k),
             c \notin {"unprepared", "calling", "backoff"},
             Guard(r, k) => Agrees(c, stage[r][x]),
             UNCHANGED <<runRows, stageRows, taskRow, pc, wave, calls>>
      PROVE  AnalysisInv'
  <2>1. /\ RunnerFits(r, k)' /\ OtherRunners(r, k)
        /\ co'[r][k][x] = c /\ \A y \in Roles \ {x} : co'[r][k][y] = co[r][k][y]
    BY <1>0, <1>1, <1>6, CoroutineStep
  <2>2. OpenKinds(r)' = OpenKinds(r) /\ CurrentKind(r)' = CurrentKind(r)
    BY <1>6, CurrentKindStays
  <2>3. ASSUME Guard(r, k), NEW y \in Roles PROVE Agrees(co'[r][k][y], stage'[r][y])
    BY <1>3, <1>6, <2>1, <2>3
  <2>4. Guard(r, k) => ClaimFits(r)'
    BY <1>0, <1>1, <1>6, <2>2, <2>3 DEF ClaimFits, Agrees, Working, Guard
  <2> QED
    BY <1>6, <2>1, <2>4, LocalStep
<1>7. CASE Visit(r, k, x)
  <2>0. x \in Wave(r, k) /\ co[r][k][x] = "idle"
    BY <1>7 DEF Visit, Unvisited
  <2>1. CASE stage[r][x] \in Usable
    BY <1>4, <1>6, <1>7, <2>0, <2>1 DEF Visit, Agrees
  <2>2. CASE stage[r][x] \notin Usable /\ Deps[x] \subseteq Completed(r, k)
    BY <1>3, <1>4, <1>6, <1>7, <2>0, <2>2 DEF Visit, Agrees
  <2>3. CASE stage[r][x] \notin Usable /\ ~(Deps[x] \subseteq Completed(r, k))
    <3>0. Guard(r, k)
      BY <1>7, <2>3 DEF Visit
    <3>1. CASE stage[r][x] = "pending"
      <4>1. /\ SetStage(r, x, "blocked") /\ SetCo(r, k, x, "closed")
            /\ UNCHANGED <<attempts, calls, source, taskRow, pc, wave>>
        BY <1>7, <2>3, <3>1 DEF Visit
      <4>2. stage'[r][x] = "blocked" /\ \A y \in Stages \ {x} : SameStage(r, y)
        BY <1>0, <4>1 DEF SetStage, SameStage, TypeOK
      <4>3. AttemptsFit(r, x)'
        BY <1>0, <3>1, <4>1, <4>2 DEF AttemptsFit
      <4>4. \E y \in Deps[x] : stage[r][y] \in {"failed", "blocked"}
        BY <1>1, <2>0, <2>3, <3>0, MissingDependency
      <4>5. \A q \in Runs \ {r} :
              stage'[q] = stage[q] /\ attempts'[q] = attempts[q] /\ calls'[q] = calls[q]
        BY <1>0, <4>1 DEF SetStage, TypeOK
      <4>6. "closed" \in Coroutines /\ stage[r][x] \in Open /\ Agrees("closed", stage'[r][x])
        BY <1>4, <3>1, <4>2 DEF Agrees, Open
      <4> QED
        BY <1>1, <1>5, <2>0, <3>0, <4>1, <4>2, <4>3, <4>4, <4>5, <4>6, RoleStep
    <3>2. CASE stage[r][x] # "pending"
      <4>1. Go(r, k, "failing") /\ UNCHANGED <<runRows, stageRows, taskRow, calls, wave, co>>
        BY <1>7, <2>1, <2>3, <3>2 DEF Visit
      <4>2. OtherRunners(r, k) /\ pc'[r][k] = "failing"
        BY <1>0, <4>1 DEF Go, OtherRunners, SameRunner, TypeOK
      <4>3. RunnerFits(r, k)'
        BY <1>0, <1>2, <4>1, <4>2 DEF RunnerFits, TypeOK, Claims
      <4>4. Guard(r, k) => ClaimFits(r)'
        BY <4>1, <4>2 DEF Guard, ClaimFits, Working
      <4> QED
        BY <4>1, <4>2, <4>3, <4>4, LocalStep
    <3> QED
      BY <3>1, <3>2
  <2> QED
    BY <2>1, <2>2, <2>3
<1>8. CASE StartCall(r, k, x)
  <2>0. /\ x \in Wave(r, k) /\ co[r][k][x] \in {"ready", "backoff"} /\ Guard(r, k)
        /\ Deps[x] \subseteq Completed(r, k)
    BY <1>0, <1>1, <1>8 DEF StartCall, Running, RunnerFits
  <2>1. CASE stage[r][x] # "pending"
    <3>1. Agrees("raised", stage[r][x])
      BY <1>3, <2>0 DEF Agrees
    <3> QED
      BY <1>4, <1>6, <1>8, <2>0, <2>1, <3>1 DEF StartCall
  <2>2. CASE stage[r][x] = "pending" /\ BudgetIsSpent(r, x)
    <3>1. /\ SetStage(r, x, "failed") /\ SetCo(r, k, x, "closed")
          /\ UNCHANGED <<attempts, calls, source, taskRow, pc, wave>>
      BY <1>8, <2>2 DEF StartCall, ExhaustStage
    <3>2. stage'[r][x] = "failed" /\ \A y \in Stages \ {x} : SameStage(r, y)
      BY <1>0, <3>1 DEF SetStage, SameStage, TypeOK
    <3>3. AttemptsFit(r, x)'
      BY <1>0, <2>2, <3>1, <3>2 DEF AttemptsFit
    <3>4. \A q \in Runs \ {r} :
            stage'[q] = stage[q] /\ attempts'[q] = attempts[q] /\ calls'[q] = calls[q]
      BY <1>0, <3>1 DEF SetStage, TypeOK
    <3>5. "closed" \in Coroutines /\ stage[r][x] \in Open /\ Agrees("closed", stage'[r][x])
      BY <1>4, <2>2, <3>2 DEF Agrees, Open
    <3> QED
      BY <1>1, <1>5, <2>0, <3>1, <3>2, <3>3, <3>4, <3>5, RoleStep
  <2>3. CASE stage[r][x] = "pending" /\ ~BudgetIsSpent(r, x)
    <3>1. /\ StartAttempt(r, x) /\ SetCo(r, k, x, "calling")
          /\ calls' = [calls EXCEPT ![r][x] = @ + 1]
          /\ UNCHANGED <<source, taskRow, pc, wave>>
      BY <1>8, <2>3 DEF StartCall
    <3>2. /\ AttemptsFit(r, x)' /\ stage'[r][x] = "running"
          /\ \A y \in Stages \ {x} : SameStage(r, y)
          /\ \A q \in Runs \ {r} :
               stage'[q] = stage[q] /\ attempts'[q] = attempts[q] /\ calls'[q] = calls[q]
      BY <1>0, <2>3, <3>1, AttemptStarts
    <3>3. "calling" \in Coroutines /\ stage[r][x] \in Open /\ Agrees("calling", stage'[r][x])
      BY <1>4, <2>3, <3>2 DEF Agrees, Open
    <3> QED
      BY <1>1, <1>5, <2>0, <3>1, <3>2, <3>3, RoleStep
  <2> QED
    BY <2>1, <2>2, <2>3
<1>9. CASE PrepareFails(r, k, x)
  <2>1. /\ x \in Wave(r, k) /\ co[r][k][x] = "ready" /\ Guard(r, k)
        /\ Deps[x] \subseteq Completed(r, k)
    BY <1>0, <1>1, <1>9 DEF PrepareFails, Running, RunnerFits
  <2>2. ~BudgetIsSpent(r, x)
    BY <1>9, PolicyAssumption DEF PrepareFails, BudgetIsSpent
  <2>3. /\ StartAttempt(r, x) /\ SetCo(r, k, x, "unprepared")
        /\ UNCHANGED <<calls, source, taskRow, pc, wave>>
    BY <1>9 DEF PrepareFails
  <2>4. /\ AttemptsFit(r, x)' /\ stage[r][x] = "pending" /\ stage'[r][x] = "running"
        /\ \A y \in Stages \ {x} : SameStage(r, y)
        /\ \A q \in Runs \ {r} :
             stage'[q] = stage[q] /\ attempts'[q] = attempts[q] /\ calls'[q] = calls[q]
    BY <1>0, <2>2, <2>3, AttemptStarts
  <2>5. "unprepared" \in Coroutines /\ stage[r][x] \in Open /\ Agrees("unprepared", stage'[r][x])
    BY <1>4, <2>4 DEF Agrees, Open
  <2> QED
    BY <1>1, <1>5, <2>1, <2>3, <2>4, <2>5, RoleStep
\* An attempt that ends, with whatever outcome.
<1>10. ASSUME NEW a \in AttemptStatuses \ {"running"},
              NEW s \in {"succeeded", "failed", "pending"}, NEW c \in {"done", "closed", "backoff"},
              EndAttempt(r, x, a), SetStage(r, x, s), SetCo(r, k, x, c), Agrees(c, s),
              Running(r, k, x, {"unprepared", "calling"}), Guard(r, k),
              UNCHANGED <<source, taskRow, pc, wave, calls>>
       PROVE  AnalysisInv'
  <2>1. /\ x \in Wave(r, k) /\ co[r][k][x] \in {"unprepared", "calling"}
        /\ Deps[x] \subseteq Completed(r, k)
    BY <1>0, <1>1, <1>10 DEF Running, RunnerFits
  <2>2. stage[r][x] = "running"
    BY <1>3, <1>10, <2>1 DEF Agrees
  <2>3. s \in StageStatuses \ {"running"} /\ c \in Coroutines
    BY <1>4, StatusesAre
  <2>4. /\ AttemptsFit(r, x)' /\ stage'[r][x] = s
        /\ \A y \in Stages \ {x} : SameStage(r, y)
        /\ \A q \in Runs \ {r} :
             stage'[q] = stage[q] /\ attempts'[q] = attempts[q] /\ calls'[q] = calls[q]
    BY <1>0, <1>10, <2>3, AttemptEnds
  <2>5. stage[r][x] \in Open /\ Agrees(c, stage'[r][x])
        /\ stage'[r][x] \notin {"reused", "cancelled", "blocked"}
    BY <1>10, <2>2, <2>4 DEF Open
  <2> QED
    BY <1>1, <1>5, <1>10, <2>1, <2>3, <2>4, <2>5, RoleStep
<1>11. CASE RecordUnprepared(r, k, x)
  <2>1. "failed" \in AttemptStatuses \ {"running"} /\ Agrees("closed", "failed")
    BY DEF AttemptStatuses, Agrees
  <2> QED
    BY <1>10, <1>11, <2>1 DEF RecordUnprepared, FinishAttemptFailure, Running
<1>12. CASE Answered(r, k, x)
  <2>1. "succeeded" \in AttemptStatuses \ {"running"} /\ Agrees("done", "succeeded")
    BY DEF AttemptStatuses, Agrees, Usable
  <2> QED
    BY <1>10, <1>12, <2>1 DEF Answered, FinishAttemptSuccess, Running
<1>13. ASSUME NEW b \in BOOLEAN, CallFails(r, k, x, b) PROVE AnalysisInv'
  <2>1. /\ "failed" \in AttemptStatuses \ {"running"}
        /\ Agrees("closed", "failed") /\ Agrees("backoff", "pending")
    BY DEF AttemptStatuses, Agrees
  <2> QED
    BY <1>10, <1>13, <2>1 DEF CallFails, FinishAttemptFailure, Running
<1>14. CASE CoroutineBreaks(r, k, x)
  <2>1. /\ x \in Wave(r, k) /\ co[r][k][x] # "done" /\ SetCo(r, k, x, "raised")
        /\ UNCHANGED <<runRows, stageRows, taskRow, pc, wave, calls>>
    BY <1>14 DEF CoroutineBreaks, Running
  <2>2. "raised" \in Coroutines /\ Agrees("raised", stage[r][x])
    BY <1>4 DEF Agrees
  <2> QED
    BY <1>6, <2>1, <2>2
<1> QED
  BY <1>7, <1>8, <1>9, <1>11, <1>12, <1>13, <1>14

LEMMA PassingKeeps ==
    ASSUME AnalysisInv, TypeOK', NEW r \in Runs, NEW k \in Claims,
           EndWave(r, k) \/ Pass(r, k) \/ Unexpected(r, k) \/ Fenced(r, k)
    PROVE  AnalysisInv'
<1> USE DEF runRows, stageRows, taskRow
<1>0. TypeOK /\ RowsAgree(r) /\ RunnerFits(r, k) /\ ClaimFits(r)
      /\ \A j \in Claims : RunnerFits(r, j)
  BY DEF AnalysisInv, RunInv
<1>1. UNCHANGED <<runRows, stageRows, taskRow, calls>>
  BY DEF EndWave, Pass, Unexpected, Fenced
<1>2. k <= claim[r]
  BY <1>0 DEF RunnerFits, TypeOK, Claims, EndWave, Pass, Unexpected, Fenced, At
<1>3. OpenKinds(r)' = OpenKinds(r) /\ CurrentKind(r)' = CurrentKind(r)
  BY <1>1, CurrentKindStays
<1>4. CASE EndWave(r, k)
  <2>1. OtherRunners(r, k) /\ pc[r][k] = "wave" /\ pc'[r][k] \in {"checkpoint", "failing"}
    BY <1>0, <1>4 DEF EndWave, Go, At, OtherRunners, SameRunner, TypeOK
  <2>2. wave[r][k] \in 1..3
    BY <1>0, <2>1 DEF RunnerFits, TypeOK
  <2>3. pc'[r][k] = "checkpoint" =>
          \A x \in Roles : WaveOf[x] = wave[r][k] => co[r][k][x] \in {"done", "closed"}
    <3>1. pc'[r][k] = "checkpoint" => \A x \in Wave(r, k) : co[r][k][x] # "raised"
      BY <1>0, <1>4 DEF EndWave, Go, TypeOK
    <3> QED
      BY <1>4, <2>2, <3>1, WavesAre DEF EndWave
  <2>4. RunnerFits(r, k)'
    BY <1>0, <1>1, <1>2, <1>4, <2>1, <2>2, <2>3
       DEF EndWave, RunnerFits, Completed, TypeOK, Claims
  <2>5. Guard(r, k) => ClaimFits(r)'
    BY <1>0, <1>1, <1>3, <1>4, <2>1, <2>2 DEF EndWave, ClaimFits, Guard, Working
  <2> QED
    BY <1>1, <2>1, <2>4, <2>5, LocalStep
<1>5. CASE Pass(r, k)
  <2>0. OtherRunners(r, k) /\ pc[r][k] = "checkpoint" /\ co' = co /\ wave[r][k] \in 0..3
    BY <1>0, <1>5 DEF Pass, Go, At, OtherRunners, SameRunner, TypeOK
  <2>1. /\ wave[r][k] = 0 => pc'[r][k] = "data" /\ wave'[r][k] = 0
        /\ wave[r][k] = 3 => pc'[r][k] = "report" /\ wave'[r][k] = 3
        /\ wave[r][k] \in {1, 2} => pc'[r][k] = "wave" /\ wave'[r][k] = wave[r][k] + 1
    BY <1>0, <1>5 DEF Pass, Go, TypeOK
  <2>2. \A x \in Roles : WaveOf[x] \in 1..3
    BY RolesAre DEF WaveOf
  <2>3. \A x \in Roles :
          /\ WaveOf[x] <= wave[r][k] => co[r][k][x] \in {"done", "closed"}
          /\ WaveOf[x] > wave[r][k] => co[r][k][x] = "idle"
          /\ co[r][k][x] \in {"ready", "unprepared", "calling", "backoff"} =>
               Deps[x] \subseteq Completed(r, k)
    BY <1>0, <2>0, <2>2 DEF RunnerFits
  <2>4. RunnerFits(r, k)'
    <3>1. CASE wave[r][k] = 0
      BY <1>0, <1>1, <1>2, <2>0, <2>1, <2>2, <2>3, <3>1 DEF RunnerFits, Completed, Claims, TypeOK
    <3>2. CASE wave[r][k] = 3
      BY <1>0, <1>1, <1>2, <2>0, <2>1, <2>2, <2>3, <3>2 DEF RunnerFits, Completed, Claims, TypeOK
    <3>3. CASE wave[r][k] \in {1, 2}
      BY <1>0, <1>1, <1>2, <2>0, <2>1, <2>2, <2>3, <3>3 DEF RunnerFits, Completed, Claims, TypeOK
    <3> QED
      BY <2>0, <3>1, <3>2, <3>3
  <2>5. Guard(r, k) => ClaimFits(r)'
    BY <1>0, <1>1, <1>3, <2>0, <2>1 DEF ClaimFits, Guard, Working
  <2> QED
    BY <1>1, <2>0, <2>4, <2>5, LocalStep
<1>6. CASE Unexpected(r, k)
  <2>1. OtherRunners(r, k) /\ pc'[r][k] = "failing"
    BY <1>0, <1>6 DEF Unexpected, Go, OtherRunners, SameRunner, TypeOK
  <2>2. RunnerFits(r, k)'
    BY <1>0, <1>1, <1>2, <2>1 DEF RunnerFits, TypeOK, Claims
  <2>3. Guard(r, k) => ClaimFits(r)'
    BY <1>1, <2>1 DEF Guard, ClaimFits, Working
  <2> QED
    BY <1>1, <2>1, <2>2, <2>3, LocalStep
<1>7. CASE Fenced(r, k)
  <2>1. OtherRunners(r, k) /\ RunnerFits(r, k)' /\ ~Guard(r, k)
    BY <1>0, <1>1, <1>2, <1>7, Leaving DEF Fenced, OtherRunners
  <2> QED
    BY <1>1, <2>1, LocalStep
<1> QED
  BY <1>4, <1>5, <1>6, <1>7

\* A step that records something in the row of the section under way.
LEMMA SectionStep ==
    ASSUME AnalysisInv, TypeOK', NEW r \in Runs, NEW k \in Claims, Guard(r, k),
           pc[r][k] \in {"data", "fetching"}, OpenKinds(r) # {}, NEW x, x = CurrentKind(r),
           NEW p \in {"data", "fetching", "checkpoint"}, Go(r, k, p),
           p = "fetching" <=> stage'[r][x] = "running",
           UNCHANGED <<runRows, source, taskRow, wave, co>>,
           stage'[r][x] \in {"pending", "running", "succeeded", "failed"},
           AttemptsFit(r, x)', \A y \in Stages \ {x} : SameStage(r, y),
           \A q \in Runs \ {r} :
             stage'[q] = stage[q] /\ attempts'[q] = attempts[q] /\ calls'[q] = calls[q]
    PROVE  AnalysisInv'
<1> USE DEF runRows, taskRow
<1>0. /\ TypeOK /\ RunInv(r) /\ RowsAgree(r) /\ InputsFit(r) /\ ClaimFits(r) /\ RunnerFits(r, k)
      /\ k = claim[r] /\ task[r] = "running" /\ pc[r][k] \in Working
  BY DEF AnalysisInv, RunInv, Guard, Working
<1>1. x \in Kinds /\ x \in Stages /\ x \notin Roles /\ stage[r][x] \in Open
  BY CurrentKindIsOpen, SectionsAndRoles
<1>2. wave[r][k] = 0 /\ status[r] = "running" /\ inputs[r] = "none"
  BY <1>0 DEF RunnerFits, ClaimFits
<1>3. \A y \in Roles : stage'[r][y] = stage[r][y]
  BY <1>1, SectionsAndRoles DEF SameStage
<1>4. OtherRunners(r, k) /\ pc'[r][k] = p
  BY <1>0 DEF Go, OtherRunners, SameRunner, TypeOK
<1>5. RowsAgree(r)'
  <2>1. ASSUME NEW y \in Stages PROVE stage'[r][y] # "cancelled"
    BY <1>0, <1>2, <2>1 DEF RowsAgree, RunEnded, SameStage
  <2> QED
    BY <1>0, <1>2, <2>1 DEF RowsAgree, RunEnded
<1>6. InputsFit(r)'
  <2>1. \A y \in Kinds : stage'[r][y] # "blocked"
    BY <1>0, SectionsAndRoles DEF InputsFit, SameStage
  <2>2. \A y \in Roles : stage'[r][y] \in {"pending", "cancelled"}
    BY <1>0, <1>2, <1>3 DEF InputsFit
  <2> QED
    BY <1>2, <2>1, <2>2 DEF InputsFit
<1>i. \A y \in Roles : WaveOf[y] \in 1..3 /\ co'[r][k][y] = "idle" /\ stage'[r][y] # "running"
  <2>1. \A y \in Roles : WaveOf[y] \in 1..3
    BY RolesAre DEF WaveOf
  <2>2. \A y \in Roles : co[r][k][y] = "idle"
    BY <1>0, <1>2, <2>1 DEF RunnerFits, Working
  <2> QED
    BY <1>0, <1>3, <2>1, <2>2 DEF ClaimFits
<1>7. ClaimFits(r)'
  <2>1. ASSUME NEW y \in Kinds, stage'[r][y] = "running" PROVE y = x
    <3>1. CASE y # x
      <4>1. stage[r][y] = "running"
        BY <2>1, <3>1, SectionsAndRoles DEF SameStage
      <4> QED
        BY <1>0, <4>1 DEF ClaimFits
    <3> QED
      BY <3>1
  <2>2. ASSUME stage'[r][x] = "running"
        PROVE  OpenKinds(r)' # {} /\ CurrentKind(r)' = x
    <3>1. \A y \in Kinds : stage'[r][y] \in Open <=> stage[r][y] \in Open
      BY <1>1, <2>2, SectionsAndRoles DEF SameStage, Open
    <3> QED
      BY <3>1, CurrentKindStays
  <2> QED
    BY <1>0, <1>2, <1>4, <1>i, <2>1, <2>2 DEF ClaimFits
<1>8. RunnerFits(r, k)'
  <2>1. ~(k > claim'[r]) /\ wave'[r][k] = 0
    BY <1>0, <1>2 DEF TypeOK, Claims
  <2> QED
    BY <1>4, <1>i, <2>1 DEF RunnerFits
<1>9. \A y \in Stages : AttemptsFit(r, y)'
  BY <1>0, StageFrame DEF RunInv
<1>10. RunInv(r)'
  BY <1>4, <1>5, <1>6, <1>7, <1>8, <1>9, RunnersElsewhere DEF RunInv
<1>11. ReuseStays(r)
  BY <1>1, <1>2 DEF ReuseStays, SameStage, Open, RunEnded
<1>12. \A q \in Runs \ {r} : SameRun(q)
  BY <1>4 DEF SameRun, SameRows, OtherRunners
<1> QED
  BY <1>10, <1>11, <1>12, Combine

LEMMA FetchKeeps ==
    ASSUME AnalysisInv, TypeOK', NEW r \in Runs, NEW k \in Claims,
           \/ StartFetch(r, k) \/ Fetched(r, k)
           \/ \E b \in BOOLEAN : FetchFails(r, k, b)
    PROVE  AnalysisInv'
<1> USE DEF runRows, stageRows, taskRow
<1>x. PICK x : x = CurrentKind(r)
  OBVIOUS
<1>0. /\ TypeOK /\ ClaimFits(r) /\ Guard(r, k) /\ pc[r][k] \in {"data", "fetching"}
      /\ \A y \in Stages : AttemptsFit(r, y)
  BY DEF AnalysisInv, RunInv, StartFetch, Fetched, FetchFails, At
<1>1. OpenKinds(r) # {} /\ (pc[r][k] = "fetching" => stage[r][x] = "running")
  BY <1>0, <1>x DEF ClaimFits, Guard, Working, StartFetch, Fetched, FetchFails, At
<1>2. x \in Kinds /\ x \in Stages /\ x \notin Roles /\ stage[r][x] \in Open
  BY <1>1, <1>x, CurrentKindIsOpen, SectionsAndRoles
<1>3. AttemptsFit(r, x)
  BY <1>0, <1>2
<1>4. UNCHANGED <<runRows, source, taskRow, wave, co, calls>>
  BY DEF StartFetch, Fetched, FetchFails
<1>5. CASE StartFetch(r, k)
  <2>0. pc[r][k] = "data" /\ stage[r][x] = "pending"
    BY <1>5, <1>x DEF StartFetch, At, ExhaustStage, StartAttempt
  <2>1. CASE BudgetIsSpent(r, x)
    <3>1. SetStage(r, x, "failed") /\ UNCHANGED <<attempts, pc>>
      BY <1>5, <1>x, <2>1 DEF StartFetch, ExhaustStage
    <3>2. stage'[r][x] = "failed" /\ \A y \in Stages \ {x} : SameStage(r, y)
      BY <1>0, <1>2, <1>4, <3>1 DEF SetStage, SameStage, TypeOK
    <3>3. AttemptsFit(r, x)'
      BY <1>3, <1>4, <2>0, <3>1, <3>2 DEF AttemptsFit
    <3>4. \A q \in Runs \ {r} :
            stage'[q] = stage[q] /\ attempts'[q] = attempts[q] /\ calls'[q] = calls[q]
      BY <1>0, <1>4, <3>1 DEF SetStage, TypeOK
    <3>5. Go(r, k, "data")
      BY <1>0, <2>0, <3>1 DEF Go, TypeOK
    <3> QED
      BY <1>0, <1>1, <1>x, <1>4, <3>2, <3>3, <3>4, <3>5, SectionStep
  <2>2. CASE ~BudgetIsSpent(r, x)
    <3>1. StartAttempt(r, x) /\ Go(r, k, "fetching")
      BY <1>5, <1>x, <2>2 DEF StartFetch
    <3>2. /\ AttemptsFit(r, x)' /\ stage'[r][x] = "running"
          /\ \A y \in Stages \ {x} : SameStage(r, y)
          /\ \A q \in Runs \ {r} :
               stage'[q] = stage[q] /\ attempts'[q] = attempts[q] /\ calls'[q] = calls[q]
      BY <1>0, <1>2, <1>3, <1>4, <2>2, <3>1, AttemptStarts
    <3> QED
      BY <1>0, <1>1, <1>x, <1>4, <3>1, <3>2, SectionStep
  <2> QED
    BY <2>1, <2>2
<1>6. ASSUME NEW a \in AttemptStatuses \ {"running"},
             NEW s \in {"succeeded", "failed", "pending"},
             EndAttempt(r, x, a), SetStage(r, x, s), Go(r, k, "checkpoint")
      PROVE  AnalysisInv'
  <2>0. s \in StageStatuses \ {"running"}
    BY StatusesAre
  <2>1. /\ AttemptsFit(r, x)' /\ stage'[r][x] = s
        /\ \A y \in Stages \ {x} : SameStage(r, y)
        /\ \A q \in Runs \ {r} :
             stage'[q] = stage[q] /\ attempts'[q] = attempts[q] /\ calls'[q] = calls[q]
    BY <1>0, <1>2, <1>3, <1>4, <1>6, <2>0, AttemptEnds
  <2> QED
    BY <1>0, <1>1, <1>x, <1>4, <1>6, <2>1, SectionStep
<1>7. CASE Fetched(r, k)
  BY <1>6, <1>7, <1>x DEF Fetched, FinishAttemptSuccess, AttemptStatuses
<1>8. ASSUME NEW b \in BOOLEAN, FetchFails(r, k, b) PROVE AnalysisInv'
  BY <1>6, <1>8, <1>x DEF FetchFails, FinishAttemptFailure, AttemptStatuses
<1> QED
  BY <1>5, <1>7, <1>8

\* A step of one runner, from what it does to its own run.
LEMMA OwnRun ==
    ASSUME AnalysisInv, TypeOK', NEW r \in Runs, NEW k \in Claims, UNCHANGED claim,
           RowsAgree(r)', InputsFit(r)', ClaimFits(r)', \A x \in Stages : AttemptsFit(r, x)',
           RunnerFits(r, k)', OtherRunners(r, k), ReuseStays(r),
           \A q \in Runs \ {r} : SameRows(q) /\ task'[q] = task[q]
    PROVE  AnalysisInv'
<1>1. RunInv(r)'
  BY RunnersElsewhere DEF RunInv
<1>2. \A q \in Runs \ {r} : SameRun(q)
  BY DEF SameRun, OtherRunners
<1> QED
  BY <1>1, <1>2, Combine

LEMMA BeginKeeps ==
    ASSUME AnalysisInv, TypeOK', NEW r \in Runs, NEW k \in Claims, Begin(r, k)
    PROVE  AnalysisInv'
<1> USE DEF runRows, stageRows, taskRow
<1>0. /\ TypeOK /\ RunInv(r) /\ RowsAgree(r) /\ InputsFit(r) /\ RunnerFits(r, k)
      /\ pc[r][k] = "begin" /\ task[r] = "running" /\ claim[r] = k
  BY DEF AnalysisInv, RunInv, Begin, At, Guard
<1>1. \A x \in Roles : WaveOf[x] \in 1..3 /\ co[r][k][x] = "idle"
  <2>1. \A x \in Roles : WaveOf[x] \in 1..3
    BY RolesAre DEF WaveOf
  <2> QED
    BY <1>0, <2>1 DEF RunnerFits
<1>2. co[r][k] = Idle /\ co' = co /\ wave[r][k] = 0 /\ ~(k > claim'[r])
  <2>1. co[r][k] = Idle
    <3>1. co[r][k] \in [Roles -> Coroutines]
      BY <1>0 DEF TypeOK
    <3> QED
      BY <1>1, <3>1 DEF Idle
  <2>2. wave[r][k] = 0
    BY <1>0 DEF RunnerFits
  <2>3. co' = co /\ claim' = claim /\ claim[r] \in Nat
    BY <1>0 DEF Begin, TypeOK
  <2> QED
    BY <1>0, <2>1, <2>2, <2>3 DEF Claims
<1>3. /\ OtherRunners(r, k)
      /\ inputs[r] = "none" => pc'[r][k] = "data" /\ wave'[r][k] = 0
      /\ inputs[r] = "eligible" => pc'[r][k] = "wave" /\ wave'[r][k] = 1
      /\ inputs[r] = "insufficient" => pc'[r][k] = "blocking" /\ wave'[r][k] = 1
  <2>1. CASE inputs[r] = "none"
    <3>1. Go(r, k, "data") /\ wave' = wave
      BY <2>1 DEF Begin
    <3> QED
      BY <1>0, <1>2, <2>1, <3>1 DEF Go, OtherRunners, SameRunner, TypeOK
  <2>2. CASE inputs[r] # "none"
    <3>1. Go(r, k, AfterBinding(inputs[r])) /\ wave' = [wave EXCEPT ![r][k] = 1]
      BY <2>2 DEF Begin
    <3> QED
      BY <1>0, <1>2, <2>2, <3>1 DEF Go, AfterBinding, OtherRunners, SameRunner, TypeOK
  <2> QED
    BY <2>1, <2>2
<1>4. /\ status'[r] = "running" /\ status[r] \in {"queued", "running"}
      /\ \A q \in Runs \ {r} : SameRows(q) /\ task'[q] = task[q]
  BY <1>0 DEF Begin, ResumeRun, CloseStages, CloseAttempts, SameRows, TypeOK
<1>5. \A x \in Stages :
        /\ stage'[r][x] = IF stage[r][x] = "running" THEN "pending" ELSE stage[r][x]
        /\ AttemptsFit(r, x)'
  <2>1. CASE UNCHANGED <<stage, attempts>> /\ status[r] = "queued"
    BY <1>0, <2>1, StageFrame DEF RowsAgree, RunInv, Begin, SameStage
  <2>2. CASE ResumeRun(r)
    <3>1. \A x \in Stages :
            stage'[r][x] = IF stage[r][x] = "running" THEN "pending" ELSE stage[r][x]
      BY <1>0, <2>2 DEF ResumeRun, CloseStages, TypeOK
    <3>2. "interrupted" \in AttemptStatuses \ {"running"} /\ UNCHANGED calls
      BY DEF AttemptStatuses, Begin
    <3>3. ASSUME NEW x \in Stages PROVE AttemptsFit(r, x)'
      <4>1. stage'[r][x] # "running" /\ AttemptsFit(r, x)
        BY <1>0, <3>1 DEF RunInv
      <4> QED
        BY <1>0, <2>2, <3>2, <4>1, AttemptsClose DEF ResumeRun
    <3> QED
      BY <3>1, <3>3
  <2> QED
    BY <2>1, <2>2 DEF Begin
<1>6. RowsAgree(r)'
  BY <1>0, <1>4, <1>5 DEF RowsAgree, Begin, RunEnded
<1>7. InputsFit(r)'
  <2>1. \A x \in Kinds : stage'[r][x] # "blocked" /\ (inputs'[r] # "none" => stage'[r][x] \notin Open)
    BY <1>0, <1>5, SectionsAndRoles DEF InputsFit, Begin, Open
  <2>2. \A x \in Roles :
          /\ inputs[r] = "none" => stage'[r][x] \in {"pending", "cancelled"}
          /\ inputs[r] = "insufficient" => stage'[r][x] \in {"pending", "cancelled", "blocked"}
    BY <1>0, <1>5, SectionsAndRoles DEF InputsFit
  <2>3. ASSUME NEW x \in Roles, inputs[r] = "eligible", stage'[r][x] = "blocked"
        PROVE  \E y \in Deps[x] : stage'[r][y] \in {"failed", "blocked"}
    <3>1. PICK y \in Deps[x] : stage[r][y] \in {"failed", "blocked"}
      BY <1>0, <1>5, <2>3, SectionsAndRoles DEF InputsFit
    <3> QED
      BY <1>5, <3>1, DepsAreEarlier, SectionsAndRoles
  <2> QED
    BY <1>4, <2>1, <2>2, <2>3 DEF InputsFit, Begin
<1>8. ClaimFits(r)'
  <2>1. inputs[r] \in {"none", "eligible", "insufficient"} /\ UNCHANGED <<inputs, task, claim>>
    BY <1>0 DEF TypeOK, Begin
  <2>2. \A x \in Stages : stage'[r][x] # "running"
    BY <1>5
  <2>3. \A x \in Roles : co'[r][k][x] = "idle"
    BY <1>1, <1>2
  <2> QED
    BY <1>0, <1>3, <1>4, <2>1, <2>2, <2>3, SectionsAndRoles DEF ClaimFits
<1>9. RunnerFits(r, k)'
  <2>1. inputs[r] \in {"none", "eligible", "insufficient"}
    BY <1>0 DEF TypeOK
  <2>2. (wave'[r][k] = 0 /\ pc'[r][k] = "data") \/ (wave'[r][k] = 1 /\ pc'[r][k] \in {"wave", "blocking"})
    BY <1>3, <2>1
  <2>3. \A x \in Roles : co'[r][k][x] = "idle" /\ co'[r][k] = Idle
    BY <1>1, <1>2
  <2> QED
    BY <1>1, <1>2, <2>2, <2>3 DEF RunnerFits
<1>10. ReuseStays(r)
  BY <1>4, <1>5 DEF ReuseStays, Begin, RunEnded
<1> QED
  BY <1>3, <1>4, <1>5, <1>6, <1>7, <1>8, <1>9, <1>10, OwnRun DEF Begin

LEMMA BindKeeps ==
    ASSUME AnalysisInv, TypeOK', NEW r \in Runs, NEW k \in Claims, BindInputs(r, k)
    PROVE  AnalysisInv'
<1> USE DEF runRows, stageRows, taskRow
<1>0. /\ TypeOK /\ RunInv(r) /\ RowsAgree(r) /\ InputsFit(r) /\ ClaimFits(r) /\ RunnerFits(r, k)
      /\ pc[r][k] = "data" /\ task[r] = "running" /\ claim[r] = k
  BY DEF AnalysisInv, RunInv, BindInputs, At, Guard
<1>1. inputs[r] = "none" /\ status[r] = "running" /\ wave[r][k] = 0
  BY <1>0 DEF ClaimFits, Working, RunnerFits, BindInputs
<1>2. \A x \in Roles : WaveOf[x] \in 1..3 /\ co[r][k][x] = "idle" /\ stage[r][x] # "running"
  <2>1. \A x \in Roles : WaveOf[x] \in 1..3
    BY RolesAre DEF WaveOf
  <2>2. \A x \in Roles : co[r][k][x] = "idle"
    BY <1>0, <1>1, <2>1 DEF RunnerFits
  <2> QED
    BY <1>0, <2>1, <2>2 DEF ClaimFits, Working
<1>3. co[r][k] = Idle /\ UNCHANGED co
  <2>1. co[r][k] \in [Roles -> Coroutines]
    BY <1>0 DEF TypeOK
  <2> QED
    BY <1>2, <2>1 DEF Idle, BindInputs
<1>4. \A x \in Kinds : stage[r][x] \notin Open
  BY OpenKindsAre DEF BindInputs
<1>5. PICK i \in {"eligible", "insufficient"} :
        inputs' = [inputs EXCEPT ![r] = i] /\ Go(r, k, AfterBinding(i))
  BY DEF BindInputs
<1>6. inputs'[r] = i /\ \A q \in Runs \ {r} : SameRows(q) /\ task'[q] = task[q]
  BY <1>0, <1>5 DEF BindInputs, SameRows, TypeOK
<1>7. /\ OtherRunners(r, k) /\ wave'[r][k] = 1
      /\ pc'[r][k] = IF i = "eligible" THEN "wave" ELSE "blocking"
  BY <1>0, <1>5 DEF BindInputs, Go, AfterBinding, OtherRunners, SameRunner, TypeOK
<1>8. RowsAgree(r)'
  BY <1>0 DEF RowsAgree, BindInputs
<1>9. InputsFit(r)'
  BY <1>0, <1>1, <1>4, <1>5, <1>6 DEF InputsFit, BindInputs
<1>10. ClaimFits(r)'
  <2>1. \A x \in Kinds : stage'[r][x] # "running"
    BY <1>4 DEF BindInputs, Open
  <2>2. \A x \in Roles : co'[r][k][x] = "idle" /\ stage'[r][x] # "running"
    BY <1>2, <1>3 DEF BindInputs
  <2>3. status'[r] = "running" /\ claim'[r] = k
    BY <1>0, <1>1 DEF BindInputs
  <2> QED
    BY <1>5, <1>6, <1>7, <2>1, <2>2, <2>3 DEF ClaimFits
<1>11. RunnerFits(r, k)'
  <2>1. ~(k > claim'[r])
    BY <1>0 DEF BindInputs, TypeOK, Claims
  <2> QED
    BY <1>2, <1>3, <1>7, <2>1 DEF RunnerFits
<1>12. ReuseStays(r) /\ \A x \in Stages : AttemptsFit(r, x)'
  BY <1>0, StageFrame DEF ReuseStays, RunInv, SameStage, BindInputs
<1> QED
  BY <1>6, <1>7, <1>8, <1>9, <1>10, <1>11, <1>12, OwnRun DEF BindInputs

LEMMA BlockKeeps ==
    ASSUME AnalysisInv, TypeOK', NEW r \in Runs, NEW k \in Claims, BlockNext(r, k)
    PROVE  AnalysisInv'
<1> USE DEF runRows, stageRows, taskRow, runner
<1>0. /\ TypeOK /\ RunInv(r) /\ RowsAgree(r) /\ InputsFit(r) /\ ClaimFits(r) /\ RunnerFits(r, k)
      /\ pc[r][k] = "blocking" /\ task[r] = "running" /\ claim[r] = k
  BY DEF AnalysisInv, RunInv, BlockNext, At, Guard
<1>1. inputs[r] = "insufficient" /\ status[r] = "running" /\ co[r][k] = Idle
  BY <1>0 DEF ClaimFits, Working, RunnerFits
<1>2. PICK x \in Roles : stage[r][x] = "pending" /\ SetStage(r, x, "blocked")
  BY DEF BlockNext, PendingRoles, Roles
<1>3. x \in Stages /\ x \notin Kinds
  BY SectionsAndRoles
<1>4. stage'[r][x] = "blocked" /\ \A y \in Stages \ {x} : SameStage(r, y)
  BY <1>0, <1>2, <1>3 DEF SetStage, SameStage, BlockNext, TypeOK
<1>5. OtherRunners(r, k) /\ \A q \in Runs \ {r} : SameRows(q) /\ task'[q] = task[q]
  BY <1>0, <1>2 DEF BlockNext, SetStage, OtherRunners, SameRunner, SameRows, TypeOK
<1>6. AttemptsFit(r, x)'
  <2>1. AttemptsFit(r, x)
    BY <1>0, <1>3 DEF RunInv
  <2> QED
    BY <1>2, <1>4, <2>1 DEF AttemptsFit, BlockNext
<1>7. \A y \in Stages : AttemptsFit(r, y)'
  BY <1>0, <1>4, <1>6, StageFrame DEF RunInv
<1>8. RowsAgree(r)'
  <2>1. \A y \in Stages : stage'[r][y] # "cancelled"
    BY <1>0, <1>1, <1>4 DEF RowsAgree, RunEnded, SameStage
  <2> QED
    BY <1>0, <1>1, <2>1 DEF RowsAgree, RunEnded, BlockNext
<1>9. InputsFit(r)'
  <2>1. \A y \in Kinds :
          stage'[r][y] # "blocked" /\ (inputs'[r] # "none" => stage'[r][y] \notin Open)
    BY <1>0, <1>3, <1>4, SectionsAndRoles DEF InputsFit, SameStage, BlockNext
  <2>2. \A y \in Roles : stage'[r][y] \in {"pending", "cancelled", "blocked"}
    BY <1>0, <1>1, <1>4, SectionsAndRoles DEF InputsFit, SameStage
  <2> QED
    BY <1>1, <2>1, <2>2 DEF InputsFit, BlockNext
<1>10. ClaimFits(r)'
  <2>1. \A y \in Kinds : stage'[r][y] # "running"
    BY <1>0, <1>3, <1>4, SectionsAndRoles DEF ClaimFits, Working, SameStage
  <2>2. \A y \in Roles : co'[r][k][y] = "idle" /\ stage'[r][y] # "running"
    BY <1>0, <1>1, <1>4, SectionsAndRoles DEF ClaimFits, Working, SameStage, Idle, BlockNext
  <2> QED
    BY <1>0, <1>1, <2>1, <2>2 DEF ClaimFits, BlockNext
<1>11. RunnerFits(r, k)'
  BY <1>0, RunnerFrame DEF SameRunner, BlockNext
<1>12. ReuseStays(r)
  BY <1>1, <1>2, <1>4 DEF ReuseStays, SameStage, BlockNext, RunEnded
<1> QED
  BY <1>5, <1>7, <1>8, <1>9, <1>10, <1>11, <1>12, OwnRun DEF BlockNext

LEMMA RolesAreDecided ==
    ASSUME AnalysisInv, NEW r \in Runs, NEW k \in Claims, Guard(r, k), At(r, k, "report")
    PROVE  /\ inputs[r] = "eligible"
           /\ \A x \in Roles : IF x \in Completed(r, k) THEN stage[r][x] \in Usable
                               ELSE stage[r][x] \in {"failed", "blocked"}
<1>0. /\ TypeOK /\ ClaimFits(r) /\ RunnerFits(r, k)
      /\ pc[r][k] = "report" /\ task[r] = "running" /\ claim[r] = k
  BY DEF AnalysisInv, RunInv, At, Guard
<1>1. wave[r][k] = 3 /\ inputs[r] = "eligible"
  BY <1>0 DEF RunnerFits, ClaimFits, Working
<1>2. \A x \in Roles : co[r][k][x] \in {"done", "closed"}
  <2>1. \A x \in Roles : WaveOf[x] \in 1..3
    BY RolesAre DEF WaveOf
  <2> QED
    BY <1>0, <1>1, <2>1 DEF RunnerFits
<1> QED
  BY <1>0, <1>1, <1>2 DEF ClaimFits, Working, Completed

LEMMA FinalizeKeeps ==
    ASSUME AnalysisInv, TypeOK', NEW r \in Runs, NEW k \in Claims, FinalizeRun(r, k)
    PROVE  AnalysisInv'
<1> USE DEF runRows, stageRows, taskRow
<1>0. /\ TypeOK /\ RunInv(r) /\ RowsAgree(r) /\ InputsFit(r) /\ ClaimFits(r)
      /\ \A j \in Claims : RunnerFits(r, j)
      /\ task[r] = "running" /\ claim[r] = k /\ status[r] = "running"
  BY DEF AnalysisInv, RunInv, FinalizeRun, Guard
<1>1. At(r, k, "report") \/ (At(r, k, "blocking") /\ PendingRoles(r) = {})
  BY DEF FinalizeRun
<1>2. inputs[r] = IF At(r, k, "blocking") THEN "insufficient" ELSE "eligible"
  <2>1. CASE At(r, k, "report")
    BY <2>1, RolesAreDecided DEF At, FinalizeRun
  <2>2. CASE At(r, k, "blocking")
    <3>1. pc[r][k] = "blocking" /\ wave[r][k] = 1
      BY <1>0, <2>2 DEF At, RunnerFits
    <3>2. inputs[r] = "insufficient"
      BY <1>0, <3>1 DEF ClaimFits, Working
    <3> QED
      BY <2>2, <3>2
  <2> QED
    BY <1>1, <2>1, <2>2
<1>3. \A x \in Stages : stage[r][x] \notin Open \cup {"cancelled"}
  <2>1. \A x \in Stages : stage[r][x] # "cancelled"
    BY <1>0 DEF RowsAgree, RunEnded
  <2>2. \A x \in Kinds : stage[r][x] \notin Open
    BY <1>0, <1>2 DEF InputsFit
  <2>3. CASE At(r, k, "report")
    <3>1. \A x \in Roles : stage[r][x] \notin Open
      BY <2>3, RolesAreDecided DEF FinalizeRun, Usable, Open
    <3> QED
      BY <2>1, <2>2, <3>1, SectionsAndRoles
  <2>4. CASE At(r, k, "blocking") /\ PendingRoles(r) = {}
    <3>1. \A x \in Roles : stage[r][x] \in {"pending", "cancelled", "blocked"}
      BY <1>0, <1>2, <2>4 DEF InputsFit
    <3>2. \A x \in Roles : stage[r][x] # "pending"
      BY <2>4 DEF PendingRoles, Roles
    <3> QED
      BY <2>1, <2>2, <3>1, <3>2, SectionsAndRoles DEF Open
  <2> QED
    BY <1>1, <2>3, <2>4
<1>4. PICK v \in RunEnded :
        EndRun(r, v) /\ (v = "partial" => At(r, k, "report") /\ FailedRoles(r) # {})
  <2>1. CASE cancel[r]
    BY <2>1 DEF FinalizeRun, RunEnded
  <2>2. CASE ~cancel[r]
    <3>1. PICK v \in Verdicts(r, k) : EndRun(r, v)
      BY <2>2 DEF FinalizeRun
    <3>2. v \in RunEnded /\ (v = "partial" => At(r, k, "report") /\ FailedRoles(r) # {})
      BY <1>1, <3>1 DEF Verdicts, RunEnded
    <3> QED
      BY <3>1, <3>2
  <2> QED
    BY <2>1, <2>2
<1>5. status'[r] = v /\ task'[r] = "ended"
  BY <1>0, <1>4 DEF EndRun, EndTask, FinalizeRun, TypeOK
<1>6. \A q \in Runs \ {r} : SameRows(q) /\ task'[q] = task[q]
  <2>1. UNCHANGED report \/ report' = [report EXCEPT ![r] = Completed(r, k)]
    BY DEF FinalizeRun
  <2> QED
    BY <1>0, <1>4, <2>1 DEF FinalizeRun, EndRun, EndTask, SameRows, TypeOK
<1>7. RowsAgree(r)'
  BY <1>3, <1>5 DEF RowsAgree, RunEnded, FinalizeRun
<1>8. InputsFit(r)'
  <2>1. UNCHANGED <<stage, inputs>>
    BY DEF FinalizeRun
  <2>2. v = "partial" => inputs[r] = "eligible" /\ FailedRoles(r) # {}
    BY <1>4, RolesAreDecided DEF FinalizeRun
  <2> QED
    BY <1>0, <1>3, <1>5, <2>1, <2>2 DEF InputsFit, FailedRoles
<1>9. ClaimFits(r)'
  BY <1>5 DEF ClaimFits
<1>10. RunnerFits(r, k)' /\ OtherRunners(r, k)
  <2>1. k <= claim[r] /\ UNCHANGED claim /\ Leave(r, k)
    BY <1>0 DEF FinalizeRun, TypeOK
  <2> QED
    BY <1>0, <2>1, Leaving DEF OtherRunners
<1>11. ReuseStays(r) /\ \A x \in Stages : AttemptsFit(r, x)'
  BY <1>0, StageFrame DEF ReuseStays, RunInv, SameStage, FinalizeRun, RunEnded
<1> QED
  BY <1>6, <1>7, <1>8, <1>9, <1>10, <1>11, OwnRun DEF FinalizeRun

LEMMA EndingKeeps ==
    ASSUME AnalysisInv, TypeOK', NEW r \in Runs, NEW k \in Claims,
           ObserveCancel(r, k) \/ HandlerFails(r, k)
    PROVE  AnalysisInv'
<1>0. /\ TypeOK /\ RunInv(r) /\ \A j \in Claims : RunnerFits(r, j)
      /\ k <= claim[r] /\ Leave(r, k) /\ status[r] \in {"queued", "running"}
  <2>1. claim[r] = k
    BY DEF ObserveCancel, HandlerFails, Guard
  <2> QED
    BY <2>1 DEF AnalysisInv, RunInv, ObserveCancel, HandlerFails, CancelRun, FailRun, TypeOK
<1>1. PICK s \in {"cancelled", "failed"} : EndRun(r, s)
  BY DEF ObserveCancel, HandlerFails, CancelRun, FailRun
<1>2. PICK a \in AttemptStatuses \ {"running"} : CloseAttempts(r, a)
  BY DEF ObserveCancel, HandlerFails, CancelRun, FailRun, AttemptStatuses
<1>3. /\ EndTask(r) /\ CloseStages(r, Open, "cancelled")
      /\ UNCHANGED <<inputs, report, source, claim, calls>>
  BY DEF ObserveCancel, HandlerFails, CancelRun, FailRun
<1>4. /\ RowsAgree(r)' /\ InputsFit(r)' /\ ClaimFits(r)'
      /\ \A x \in Stages : AttemptsFit(r, x)'
      /\ ReuseStays(r)
  BY <1>0, <1>1, <1>2, <1>3, Closing
<1>5. RunnerFits(r, k)' /\ OtherRunners(r, k)
  BY <1>0, <1>3, Leaving DEF OtherRunners
<1>6. \A q \in Runs \ {r} : SameRows(q) /\ task'[q] = task[q]
  BY <1>0, <1>1, <1>2, <1>3
     DEF EndRun, EndTask, CloseStages, CloseAttempts, SameRows, TypeOK
<1> QED
  BY <1>3, <1>4, <1>5, <1>6, OwnRun

LEMMA PauseKeeps ==
    ASSUME AnalysisInv, TypeOK', NEW r \in Runs, NEW k \in Claims,
           Pause(r, k) \/ FailureUnrecorded(r, k)
    PROVE  AnalysisInv'
<1> USE DEF runRows, stageRows
<1>0. /\ TypeOK /\ RowsAgree(r) /\ \A j \in Claims : RunnerFits(r, j)
      /\ k <= claim[r] /\ Leave(r, k) /\ UNCHANGED claim /\ task[r] = "running"
  <2>1. claim[r] = k
    BY DEF Pause, FailureUnrecorded, Guard
  <2> QED
    BY <2>1 DEF AnalysisInv, RunInv, Pause, FailureUnrecorded, Guard, TypeOK
<1>1. /\ task'[r] \in {"lapsed", "failed"}
      /\ \A q \in Runs : SameRows(q) /\ (q # r => task'[q] = task[q])
  BY <1>0 DEF Pause, FailureUnrecorded, SameRows, TypeOK
<1>2. RowsAgree(r)' /\ ClaimFits(r)'
  BY <1>0, <1>1 DEF RowsAgree, ClaimFits, SameRows, RunEnded
<1>3. RunnerFits(r, k)' /\ OtherRunners(r, k)
  BY <1>0, Leaving DEF OtherRunners
<1>4. InputsFit(r)' /\ ReuseStays(r) /\ \A x \in Stages : AttemptsFit(r, x)'
  BY <1>1, RowsUntouched
<1> QED
  BY <1>0, <1>1, <1>2, <1>3, <1>4, OwnRun

--------------------------------------------------------------------------------
(* Retries.                                                                *)

\* What is built on a role that is asked again is asked again.
LEMMA RerunIsClosed ==
    ASSUME NEW p \in Runs
    PROVE  /\ FailedRoles(p) \subseteq Rerun(p) /\ Rerun(p) \subseteq Roles
           /\ \A x \in Roles, y \in Rerun(p) : y \in Deps[x] => x \in Rerun(p)
<1>1. \A z \in Roles : z \in RetryClosure[z] /\ RetryClosure[z] \subseteq Roles
  BY RolesAre DEF RetryClosure
<1>2. ASSUME NEW x \in Roles, NEW z \in Roles, NEW y \in RetryClosure[z], y \in Deps[x]
      PROVE  x \in RetryClosure[z]
  BY <1>2, RolesAre DEF RetryClosure, Deps
<1> QED
  BY <1>1, <1>2 DEF Rerun, FailedRoles

LEMMA RetryKeeps ==
    ASSUME AnalysisInv, NEW p \in Runs, NEW x \in Roles, NEW c \in Runs, EnqueueRetry(p, x, c)
    PROVE  AnalysisInv'
<1> USE DEF runner
<1>t. TypeOK'
  BY RetryTypes DEF AnalysisInv
<1>0. /\ TypeOK /\ status[p] = "partial" /\ status[c] = "absent" /\ p # c
      /\ RunInv(c) /\ RowsAgree(c) /\ InputsFit(p) /\ OriginsFit(p)
  BY DEF AnalysisInv, RunInv, EnqueueRetry, RetryAccepted
<1>1. inputs[p] = "eligible"
  BY <1>0 DEF InputsFit
<1>2. /\ status'[c] = "queued" /\ task'[c] = "queued" /\ inputs'[c] = "eligible"
      /\ \A y \in Stages :
           /\ stage'[c][y] = IF y \in Rerun(p) THEN "pending" ELSE "reused"
           /\ source'[c][y] = IF y \in Rerun(p) THEN 0 ELSE Origin(p, y)
  BY <1>0, <1>1 DEF EnqueueRetry, TypeOK
<1>3. \A q \in Runs \ {c} : SameRun(q)
  BY <1>0 DEF EnqueueRetry, SameRun, SameRows, SameRunner, TypeOK
<1>4. RunInv(c)'
  <2>1. RowsAgree(c)'
    BY <1>0, <1>2 DEF RowsAgree, EnqueueRetry, RunEnded
  <2>2. InputsFit(c)'
    <3>1. \A y \in Kinds : stage'[c][y] = "reused"
      BY <1>2, RerunIsClosed, SectionsAndRoles
    <3>2. \A y \in Roles : stage'[c][y] # "blocked"
      BY <1>2, SectionsAndRoles
    <3> QED
      BY <1>2, <3>1, <3>2 DEF InputsFit, Open
  <2>3. ClaimFits(c)'
    BY <1>2 DEF ClaimFits
  <2>4. ASSUME NEW y \in Stages PROVE AttemptsFit(c, y)'
    <3>1. attempts[c][y] = <<>> /\ AttemptsFit(c, y)
      BY <1>0 DEF RowsAgree, RunInv
    <3>2. attempts'[c][y] = <<>> /\ stage'[c][y] # "running" /\ calls' = calls
      BY <1>2, <3>1 DEF EnqueueRetry
    <3> QED
      BY <3>1, <3>2 DEF AttemptsFit
  <2>5. \A k \in Claims : RunnerFits(c, k)'
    BY <1>0, RunnerFrame DEF EnqueueRetry, SameRunner, RunInv
  <2> QED
    BY <2>1, <2>2, <2>3, <2>4, <2>5 DEF RunInv
<1>5. ASSUME NEW q \in Runs \ {c} PROVE RunInv(q)'
  BY <1>3, RunFrame DEF AnalysisInv
<1>6. \A q \in Runs \ {c}, y \in Stages : Origin(q, y)' = Origin(q, y)
  BY <1>3 DEF Origin, SameRun, SameRows
<1>7. ASSUME NEW q \in Runs \ {c} PROVE OriginsFit(q)'
  <2>1. SameRows(q) /\ OriginsFit(q)
    BY <1>3 DEF SameRun, AnalysisInv
  <2>2. ASSUME NEW y \in Stages, stage'[q][y] = "reused"
        PROVE  /\ source'[q][y] = source[q][y] /\ source[q][y] \in Runs \ {c}
               /\ status'[source'[q][y]] \in RunEnded
               /\ stage'[source'[q][y]][y]
                    \in IF y \in Roles THEN {"succeeded"} ELSE {"succeeded", "failed"}
    <3>1. /\ source'[q][y] = source[q][y] /\ source[q][y] \in Runs
          /\ status[source[q][y]] \in RunEnded
          /\ stage[source[q][y]][y]
               \in IF y \in Roles THEN {"succeeded"} ELSE {"succeeded", "failed"}
      BY <2>1, <2>2 DEF OriginsFit, SameRows
    <3>2. source[q][y] # c
      BY <1>0, <3>1 DEF RunEnded
    <3> QED
      BY <1>3, <3>1, <3>2 DEF SameRun, SameRows
  <2>3. ASSUME NEW y \in Roles, stage'[q][y] = "reused", NEW z \in Deps[y]
        PROVE  Origin(q, z)' = Origin(source[q][y], z)'
    <3>1. y \in Stages /\ z \in Stages
      BY SectionsAndRoles, DepsAreEarlier
    <3>2. source[q][y] \in Runs \ {c}
      BY <2>2, <2>3, <3>1
    <3>3. Origin(q, z) = Origin(source[q][y], z)
      BY <2>1, <2>3 DEF OriginsFit, SameRows
    <3>4. Origin(source[q][y], z)' = Origin(source[q][y], z)
      BY <1>3, <3>1, <3>2 DEF Origin, SameRun, SameRows
    <3> QED
      BY <1>6, <3>1, <3>3, <3>4
  <2> QED
    BY <2>2, <2>3, SectionsAndRoles DEF OriginsFit
<1>8. OriginsFit(c)'
  <2>1. ASSUME NEW y \in Stages, y \notin Rerun(p)
        PROVE  /\ Origin(p, y) \in Runs \ {c} /\ status[Origin(p, y)] \in RunEnded
               /\ stage[Origin(p, y)][y]
                    \in IF y \in Roles THEN {"succeeded"} ELSE {"succeeded", "failed"}
    <3>1. Reusable(p, y)
      BY <2>1 DEF EnqueueRetry, RetryAccepted
    <3>2. CASE stage[p][y] = "reused"
      BY <1>0, <3>2 DEF OriginsFit, Origin, RunEnded
    <3>3. CASE stage[p][y] # "reused"
      BY <1>0, <3>1, <3>3, SectionsAndRoles DEF Origin, Reusable, RunEnded
    <3> QED
      BY <3>2, <3>3
  <2>2. ASSUME NEW y \in Stages, stage'[c][y] = "reused"
        PROVE  /\ source'[c][y] \in Runs
               /\ status'[source'[c][y]] \in RunEnded
               /\ stage'[source'[c][y]][y]
                    \in IF y \in Roles THEN {"succeeded"} ELSE {"succeeded", "failed"}
    BY <1>2, <1>3, <2>1, <2>2 DEF SameRun, SameRows
  <2>3. ASSUME NEW y \in Roles, stage'[c][y] = "reused", NEW z \in Deps[y]
        PROVE  Origin(c, z)' = Origin(source[c][y], z)'
    <3>1. y \in Stages /\ z \in Stages /\ z \in Roles
      BY SectionsAndRoles, DepsAreEarlier
    <3>2. y \notin Rerun(p) /\ z \notin Rerun(p)
      BY <1>2, <2>3, <3>1, RerunIsClosed
    <3>3. PICK o : o = Origin(p, y)
      OBVIOUS
    <3>4. Origin(c, z)' = Origin(p, z) /\ source'[c][y] = o /\ o \in Runs \ {c}
      BY <1>2, <2>1, <3>1, <3>2, <3>3 DEF Origin
    <3>5. Origin(o, z)' = Origin(o, z)
      BY <1>3, <3>4, <3>1 DEF Origin, SameRun, SameRows
    <3>6. Origin(p, z) = Origin(o, z)
      BY <1>0, <3>1, <3>3 DEF OriginsFit, Origin
    <3> QED
      BY <3>4, <3>5, <3>6 DEF Origin
  <2> QED
    BY <2>2, <2>3 DEF OriginsFit
<1> QED
  BY <1>t, <1>4, <1>5, <1>7, <1>8 DEF AnalysisInv

--------------------------------------------------------------------------------
(* The invariant.                                                          *)

LEMMA Initially == Init => AnalysisInv
<1> SUFFICES ASSUME Init PROVE AnalysisInv
  OBVIOUS
<1>1. TypeOK
  BY BoundsAssumption DEF Init, TypeOK, StageStatuses, Open, Places, Coroutines
<1>2. ASSUME NEW r \in Runs PROVE RunInv(r) /\ OriginsFit(r)
  <2>1. \A x \in Stages :
          stage[r][x] = "pending" /\ attempts[r][x] = <<>> /\ (x \in Roles => calls[r][x] = 0)
    BY DEF Init
  <2>2. RowsAgree(r) /\ ClaimFits(r)
    BY <2>1 DEF Init, RowsAgree, RunEnded, ClaimFits
  <2>3. InputsFit(r)
    BY <2>1, SectionsAndRoles DEF Init, InputsFit
  <2>4. \A x \in Stages : AttemptsFit(r, x)
    BY <2>1, PolicyAssumption DEF AttemptsFit
  <2>5. ASSUME NEW k \in Claims PROVE RunnerFits(r, k)
    <3>1. pc[r][k] = "none" /\ wave[r][k] = 0 /\ \A x \in Roles : co[r][k][x] = "idle"
      BY DEF Init
    <3>2. \A x \in Roles : WaveOf[x] \in 1..3
      BY RolesAre DEF WaveOf
    <3> QED
      BY <3>1, <3>2 DEF RunnerFits
  <2>6. OriginsFit(r)
    BY <2>1, SectionsAndRoles DEF OriginsFit
  <2> QED
    BY <2>2, <2>3, <2>4, <2>5, <2>6 DEF RunInv
<1> QED
  BY <1>1, <1>2 DEF AnalysisInv

LEMMA Step == AnalysisInv /\ [Next]_vars => AnalysisInv'
<1> SUFFICES ASSUME AnalysisInv, [Next]_vars PROVE AnalysisInv'
  OBVIOUS
<1>1. CASE UNCHANGED vars
  <2>1. TypeOK'
    BY <1>1 DEF AnalysisInv, TypeOK, vars, runRows, stageRows, taskRow, runner
  <2>2. \A q \in Runs : SameRun(q)
    BY <1>1 DEF SameRun, SameRows, SameRunner, vars, runRows, stageRows, taskRow, runner
  <2>3. CASE Runs = {}
    BY <2>1, <2>3 DEF AnalysisInv
  <2>4. ASSUME NEW r \in Runs PROVE AnalysisInv'
    <3>1. RunInv(r)' /\ ReuseStays(r)
      BY <2>2, RunFrame DEF AnalysisInv, SameRun, SameRows, ReuseStays
    <3> QED
      BY <2>1, <2>2, <3>1, Combine
  <2> QED
    BY <2>3, <2>4
<1>2. ASSUME NEW r \in Runs,
             Scan(r) \/ Lapse(r) \/ Requeue(r) \/ RequestCancel(r)
      PROVE  AnalysisInv'
  BY <1>2, TaskStepKeeps DEF Scan
<1>3. ASSUME NEW r \in Runs, NEW x \in Roles, NEW c \in Runs, EnqueueRetry(r, x, c)
      PROVE  AnalysisInv'
  BY <1>3, RetryKeeps
<1>4. ASSUME NEW r \in Runs, NEW k \in Claims,
             RunnerStep(r, k) \/ Pause(r, k) \/ Breaks(r, k)
      PROVE  AnalysisInv'
  <2>1. At(r, k, "fetching") /\ Guard(r, k) => OpenKinds(r) # {}
    <3>1. ClaimFits(r)
      BY DEF AnalysisInv, RunInv
    <3> QED
      BY <3>1 DEF ClaimFits, Working, At, Guard
  <2>2. TypeOK'
    BY <1>4, <2>1, RunnerStepTypes DEF AnalysisInv
  <2>3. CASE Begin(r, k)
    BY <2>2, <2>3, BeginKeeps
  <2>4. CASE StartFetch(r, k) \/ Fetched(r, k) \/ \E b \in BOOLEAN : FetchFails(r, k, b)
    BY <2>2, <2>4, FetchKeeps
  <2>5. CASE BindInputs(r, k)
    BY <2>2, <2>5, BindKeeps
  <2>6. CASE BlockNext(r, k)
    BY <2>2, <2>6, BlockKeeps
  <2>7. ASSUME NEW x \in Roles,
               \/ Visit(r, k, x) \/ StartCall(r, k, x) \/ PrepareFails(r, k, x)
               \/ RecordUnprepared(r, k, x) \/ Answered(r, k, x)
               \/ \E b \in BOOLEAN : CallFails(r, k, x, b)
               \/ CoroutineBreaks(r, k, x)
        PROVE  AnalysisInv'
    BY <2>2, <2>7, WaveStepKeeps
  <2>8. CASE EndWave(r, k) \/ Pass(r, k) \/ Unexpected(r, k) \/ Fenced(r, k)
    BY <2>2, <2>8, PassingKeeps
  <2>9. CASE FinalizeRun(r, k)
    BY <2>2, <2>9, FinalizeKeeps
  <2>10. CASE ObserveCancel(r, k) \/ HandlerFails(r, k)
    BY <2>2, <2>10, EndingKeeps
  <2>11. CASE Pause(r, k) \/ FailureUnrecorded(r, k)
    BY <2>2, <2>11, PauseKeeps
  <2> QED
    BY <1>4, <2>3, <2>4, <2>5, <2>6, <2>7, <2>8, <2>9, <2>10, <2>11
       DEF RunnerStep, Breaks
<1> QED
  BY <1>1, <1>2, <1>3, <1>4 DEF Next

(* The inductive invariant: the rows of a run agree with each other, with  *)
(* the runner whose claim is current, and with the runs it reuses; and a   *)
(* runner whose claim is no longer current still has a memory that could   *)
(* not mislead it.  analysis/repository.py and workflow.py keep it by the  *)
(* guards of their transactions, never by looking at each other.           *)
THEOREM RowsAndRunnersAgree == Spec => []AnalysisInv
BY Initially, Step, PTL DEF Spec

(* The rows stay within their columns and check constraints, and every     *)
(* runner is at one of its awaits, for any sections, budget and bounds.    *)
THEOREM TypeCorrect == Spec => []TypeOK
BY RowsAndRunnersAgree, PTL DEF AnalysisInv

(* cancel_run, fail_run, resume_run, enqueue_retry and the scan for        *)
(* expired cancellations leave no attempt or stage open that nobody works  *)
(* on, however claims, lapses and cancellations interleave.                *)
THEOREM OpenWorkAccounted == Spec => []OpenWorkIsAccountedFor
<1>1. AnalysisInv => OpenWorkIsAccountedFor
  BY DEF AnalysisInv, RunInv, RowsAgree, AttemptsFit, OpenWorkIsAccountedFor
<1> QED
  BY <1>1, RowsAndRunnersAgree, PTL

(* Each request to the model has its attempt row, and the repository never *)
(* writes more rows than max_attempts: the budget holds across crashes,    *)
(* take-overs and late runners.                                            *)
THEOREM BudgetHolds == Spec => []CallsWithinBudget
<1>1. AnalysisInv => CallsWithinBudget
  <2> SUFFICES ASSUME AnalysisInv, NEW r \in Runs, NEW x \in Roles
               PROVE  calls[r][x] <= MaxAttempts
    BY DEF CallsWithinBudget
  <2>1. x \in Stages
    BY SectionsAndRoles
  <2>2. attempts[r][x] \in Seq(AttemptStatuses) /\ calls[r][x] \in Nat /\ MaxAttempts \in Nat
    BY <2>1, PolicyAssumption DEF AnalysisInv, TypeOK
  <2>3. Len(attempts[r][x]) <= MaxAttempts /\ calls[r][x] <= Len(attempts[r][x])
    BY <2>1 DEF AnalysisInv, RunInv, AttemptsFit
  <2>4. Len(attempts[r][x]) \in Nat
    BY <2>2
  <2> QED
    BY <2>2, <2>3, <2>4
<1> QED
  BY <1>1, RowsAndRunnersAgree, PTL

\* A role that was blocked stands on one that failed.
LEMMA BlockedIsRerun ==
    ASSUME NEW r \in Runs, InputsFit(r), inputs[r] = "eligible",
           NEW x \in Roles, stage[r][x] = "blocked"
    PROVE  x \in Rerun(r)
<1>1. ASSUME NEW y \in Roles, stage[r][y] = "blocked"
      PROVE  \E z \in Deps[y] : z \in Rerun(r) \/ stage[r][z] = "blocked"
  <2>1. PICK z \in Deps[y] : stage[r][z] \in {"failed", "blocked"}
    BY <1>1 DEF InputsFit
  <2> QED
    BY <2>1, DepsAreEarlier, RerunIsClosed DEF FailedRoles
<1>2. ASSUME NEW y \in Roles, stage[r][y] = "blocked", y \in {"technical", "fundamental_news"}
      PROVE  FALSE
  BY <1>1, <1>2 DEF Deps
<1>3. ASSUME NEW y \in Roles, stage[r][y] = "blocked", y \in {"bull", "bear"}
      PROVE  y \in Rerun(r)
  BY <1>1, <1>2, <1>3, RolesAre, RerunIsClosed DEF Deps
<1>4. ASSUME stage[r]["risk_decision"] = "blocked"
      PROVE  "risk_decision" \in Rerun(r)
  BY <1>1, <1>3, <1>4, RolesAre, RerunIsClosed DEF Deps
<1> QED
  BY <1>2, <1>3, <1>4, RolesAre

(* enqueue_retry accepts every retry a partial run offers, for its reuse   *)
(* validation never meets a stage that is open, blocked or cancelled, and  *)
(* what a child shows was built on the very outputs it shows.              *)
THEOREM RetriesBuildOnOriginals == Spec => []RetryBuildsOnOriginals
<1>1. AnalysisInv => RetryBuildsOnOriginals
  <2> SUFFICES ASSUME AnalysisInv, NEW r \in Runs
               PROVE  /\ status[r] = "partial" /\ ~ActiveChild(r) =>
                           FailedRoles(r) # {} /\ \A x \in FailedRoles(r) : RetryAccepted(r, x)
                      /\ \A x \in Roles : stage[r][x] = "reused" =>
                           /\ stage[source[r][x]][x] = "succeeded"
                           /\ \A y \in Deps[x] : Origin(r, y) = Origin(source[r][x], y)
    BY DEF RetryBuildsOnOriginals
  <2>0. TypeOK /\ InputsFit(r) /\ RowsAgree(r) /\ OriginsFit(r)
    BY DEF AnalysisInv, RunInv
  <2>1. ASSUME status[r] = "partial", NEW y \in Stages \ Rerun(r)
        PROVE  Reusable(r, y)
    <3>1. inputs[r] = "eligible" /\ stage[r][y] \notin Open \cup {"cancelled"}
      BY <2>0, <2>1 DEF InputsFit, RowsAgree, RunEnded
    <3>2. stage[r][y] # "blocked"
      BY <2>0, <3>1, BlockedIsRerun, SectionsAndRoles DEF InputsFit
    <3>3. y \in Roles => stage[r][y] # "failed"
      BY RerunIsClosed DEF FailedRoles
    <3>4. stage[r][y] \in {"succeeded", "failed", "reused"}
      BY <2>0, <3>1, <3>2 DEF TypeOK, StageStatuses, Usable
    <3>5. CASE stage[r][y] = "reused"
      BY <2>0, <3>5, SectionsAndRoles DEF OriginsFit, Origin, Reusable
    <3>6. CASE stage[r][y] # "reused"
      BY <3>3, <3>4, <3>6, SectionsAndRoles DEF Origin, Reusable
    <3> QED
      BY <3>5, <3>6
  <2>2. status[r] = "partial" => inputs[r] # "none" /\ FailedRoles(r) # {}
    BY <2>0 DEF InputsFit
  <2>3. ASSUME NEW x \in Roles, stage[r][x] = "reused"
        PROVE  /\ stage[source[r][x]][x] = "succeeded"
               /\ \A y \in Deps[x] : Origin(r, y) = Origin(source[r][x], y)
    BY <2>0, <2>3, SectionsAndRoles DEF OriginsFit
  <2> QED
    BY <2>1, <2>2, <2>3 DEF RetryAccepted
<1> QED
  BY <1>1, RowsAndRunnersAgree, PTL

--------------------------------------------------------------------------------
(* The refinement of ResearchPlan.                                         *)

Decided(r, x) == Decision(stage[r][x])

\* A step the plan of run r does not see.
Quiet(r) ==
    /\ \A x \in Roles : Decided(r, x)' = Decided(r, x)
    /\ Verdict(status'[r]) = Verdict(status[r])
    /\ report'[r] = report[r]

PlanStep(r) == UNCHANGED Plan(r)!vars \/ Plan(r)!Next

LEMMA PlanInit ==
    ASSUME NEW r \in Runs, Init
    PROVE  Plan(r)!Init
BY SectionsAndRoles DEF Init, Plan!Init, Decision, Verdict, Usable, NoReport

LEMMA QuietSteps ==
    ASSUME NEW r \in Runs, Quiet(r)
    PROVE  PlanStep(r)
BY DEF Quiet, Decided, PlanStep, Plan!vars

LEMMA Decides ==
    ASSUME NEW r \in Runs, NEW x \in Roles, status[r] = "running", status'[r] = status[r],
           report'[r] = report[r], Decided(r, x) = "open",
           \A y \in Roles \ {x} : Decided(r, y)' = Decided(r, y),
           \/ /\ Decided(r, x)' \in {"done", "failed"}
              /\ \A y \in Deps[x] : Decided(r, y) = "done"
           \/ /\ Decided(r, x)' = "blocked"
              /\ \/ \E y \in Deps[x] : Decided(r, y) \in {"failed", "blocked"}
                 \/ \A y \in Roles : Decided(r, y) \notin {"done", "failed"}
    PROVE  PlanStep(r)
<1> DEFINE d == [y \in Roles |-> Decision(stage[r][y])]
<1>1. \A y \in Deps[x] : y \in Roles
  BY DepsAreEarlier
<1>2. Plan(r)!Decide(x, Decided(r, x)')
  <2>1. [y \in Roles |-> Decision(stage'[r][y])] = [d EXCEPT ![x] = Decided(r, x)']
    BY DEF Decided
  <2> QED
    BY <2>1 DEF Plan!Decide, Decided, Verdict
<1>3. CASE Decided(r, x)' \in {"done", "failed"} /\ \A y \in Deps[x] : Decided(r, y) = "done"
  <2>1. CASE Deps[x] \subseteq Plan(r)!Having("done") /\ Decided(r, x)' = "done"
    <3>1. Plan(r)!Produce(x)
      BY <1>2, <2>1 DEF Plan!Produce
    <3> QED
      BY <3>1 DEF PlanStep, Plan!Next
  <2>2. CASE Deps[x] \subseteq Plan(r)!Having("done") /\ Decided(r, x)' = "failed"
    <3>1. Plan(r)!Fail(x)
      BY <1>2, <2>2 DEF Plan!Fail
    <3> QED
      BY <3>1 DEF PlanStep, Plan!Next
  <2>3. Deps[x] \subseteq Plan(r)!Having("done")
    BY <1>1, <1>3 DEF Plan!Having, Decided
  <2> QED
    BY <1>3, <2>1, <2>2, <2>3
<1>4. CASE Decided(r, x)' = "blocked" /\ \E y \in Deps[x] : Decided(r, y) \in {"failed", "blocked"}
  <2>1. Plan(r)!Block(x)
    BY <1>1, <1>2, <1>4 DEF Plan!Block, Decided
  <2> QED
    BY <2>1 DEF PlanStep, Plan!Next
<1>5. CASE Decided(r, x)' = "blocked" /\ \A y \in Roles : Decided(r, y) \notin {"done", "failed"}
  <2>1. Plan(r)!Having("done") \cup Plan(r)!Having("failed") = {}
    BY <1>5 DEF Plan!Having, Decided
  <2>2. Plan(r)!Refuse(x)
    BY <1>2, <1>5, <2>1 DEF Plan!Refuse
  <2> QED
    BY <2>2 DEF PlanStep, Plan!Next
<1> QED
  BY <1>3, <1>4, <1>5

LEMMA Abandons ==
    ASSUME NEW r \in Runs, status[r] \in {"queued", "running"},
           status'[r] \in {"failed", "cancelled"}, report'[r] = report[r],
           \A x \in Roles : Decided(r, x)' = Decided(r, x)
    PROVE  PlanStep(r)
<1>1. Plan(r)!Abandon
  BY DEF Plan!Abandon, Decided, Verdict
<1> QED
  BY <1>1 DEF PlanStep, Plan!Next

\* Only the rows of run r change.
OnlyRun(r) == \A q \in Runs \ {r} :
    stage'[q] = stage[q] /\ status'[q] = status[q] /\ report'[q] = report[q]

LEMMA FromOne ==
    ASSUME NEW r \in Runs, OnlyRun(r), PlanStep(r)
    PROVE  \A q \in Runs : PlanStep(q)
<1>1. \A q \in Runs \ {r} : Quiet(q)
  BY DEF OnlyRun, Quiet, Decided
<1> QED
  BY <1>1, QuietSteps

LEMMA ClosingIsQuiet ==
    ASSUME TypeOK, NEW r \in Runs, NEW from \in SUBSET Open, NEW s \in Open \cup {"cancelled"},
           CloseStages(r, from, s)
    PROVE  /\ \A x \in Roles : Decided(r, x)' = Decided(r, x)
           /\ \A q \in Runs \ {r} : stage'[q] = stage[q]
<1>1. \A x \in Stages : stage'[r][x] = IF stage[r][x] \in from THEN s ELSE stage[r][x]
  BY DEF CloseStages, TypeOK
<1>2. ASSUME NEW x \in Roles PROVE Decided(r, x)' = Decided(r, x)
  <2>1. CASE stage'[r][x] = stage[r][x]
    BY <2>1 DEF Decided
  <2>2. CASE stage[r][x] \in Open /\ stage'[r][x] \in Open \cup {"cancelled"}
    BY <2>2 DEF Decided, Decision, Open, Usable
  <2> QED
    BY <1>1, <2>1, <2>2, SectionsAndRoles
<1>3. \A q \in Runs \ {r} : stage'[q] = stage[q]
  BY DEF CloseStages, TypeOK
<1> QED
  BY <1>2, <1>3

LEMMA TaskPlanSteps ==
    ASSUME AnalysisInv, NEW r \in Runs,
           \/ ClaimTask(r) \/ Lapse(r) \/ Reclaim(r) \/ TerminalizeCancelled(r)
           \/ Requeue(r) \/ RequestCancel(r)
    PROVE  \A q \in Runs : PlanStep(q)
<1> USE DEF runRows, stageRows
<1>0. TypeOK /\ RowsAgree(r)
  BY DEF AnalysisInv, RunInv
<1>1. CASE ClaimTask(r) \/ Lapse(r) \/ Reclaim(r) \/ Requeue(r)
  <2>1. \A q \in Runs : Quiet(q)
    BY <1>1 DEF ClaimTask, Lapse, Reclaim, Requeue, Quiet, Decided
  <2> QED
    BY <2>1, QuietSteps
<1>2. ASSUME EndRun(r, "cancelled"), status[r] \in {"queued", "running"}, UNCHANGED report,
             NEW from \in SUBSET Open, CloseStages(r, from, "cancelled")
      PROVE  \A q \in Runs : PlanStep(q)
  <2>1. /\ \A x \in Roles : Decided(r, x)' = Decided(r, x)
        /\ \A q \in Runs \ {r} : stage'[q] = stage[q]
    BY <1>0, <1>2, ClosingIsQuiet
  <2>2. OnlyRun(r) /\ status'[r] = "cancelled"
    BY <1>0, <1>2, <2>1 DEF OnlyRun, EndRun, TypeOK
  <2>3. PlanStep(r)
    BY <1>2, <2>1, <2>2, Abandons
  <2> QED
    BY <2>2, <2>3, FromOne
<1>3. CASE TerminalizeCancelled(r)
  <2>1. status[r] \in {"queued", "running"}
    BY <1>0, <1>3 DEF TerminalizeCancelled, RowsAgree, TypeOK
  <2>2. EndRun(r, "cancelled") /\ CloseStages(r, Open, "cancelled") /\ UNCHANGED report
    BY <1>3 DEF TerminalizeCancelled, CancelRun
  <2> QED
    BY <1>2, <2>1, <2>2
<1>4. CASE RequestCancel(r)
  <2>1. CASE UNCHANGED <<status, stage>>
    <3>1. \A q \in Runs : Quiet(q)
      BY <1>4, <2>1 DEF RequestCancel, Quiet, Decided
    <3> QED
      BY <3>1, QuietSteps
  <2>2. CASE EndRun(r, "cancelled") /\ CloseStages(r, {"pending"}, "cancelled") /\ status[r] = "queued"
    <3>1. {"pending"} \in SUBSET Open /\ UNCHANGED report
      BY <1>4 DEF Open, RequestCancel
    <3> QED
      BY <1>2, <2>2, <3>1
  <2> QED
    BY <1>4, <2>1, <2>2 DEF RequestCancel
<1> QED
  BY <1>1, <1>3, <1>4

LEMMA RetryPlanSteps ==
    ASSUME AnalysisInv, NEW p \in Runs, NEW x \in Roles, NEW c \in Runs, EnqueueRetry(p, x, c)
    PROVE  \A q \in Runs : PlanStep(q)
<1>0. TypeOK /\ RowsAgree(c) /\ status[c] = "absent"
  BY DEF AnalysisInv, RunInv, EnqueueRetry
<1>1. OnlyRun(c) /\ status'[c] = "queued" /\ report' = report
  BY <1>0 DEF EnqueueRetry, OnlyRun, TypeOK
<1> DEFINE D == Roles \ Rerun(p)
<1>2. \A y \in D : Deps[y] \subseteq D
  BY DepsAreEarlier, RerunIsClosed
<1>3. \A y \in Roles : Decided(c, y) = "open" /\ Decided(c, y)' = IF y \in D THEN "done" ELSE "open"
  <2>1. \A y \in Roles : stage[c][y] = "pending"
    BY <1>0, SectionsAndRoles DEF RowsAgree
  <2>2. \A y \in Roles : stage'[c][y] = IF y \in D THEN "reused" ELSE "pending"
    BY <1>0, SectionsAndRoles DEF EnqueueRetry, TypeOK
  <2> QED
    BY <2>1, <2>2 DEF Decided, Decision, Usable
<1>4. Plan(c)!Adopt
  <2>1. Plan(c)!Having("open") = Roles
    BY <1>3 DEF Plan!Having, Decided
  <2>2. [y \in Roles |-> Decision(stage'[c][y])] = [y \in Roles |-> IF y \in D THEN "done" ELSE "open"]
    BY <1>3 DEF Decided
  <2>3. Verdict(status'[c]) = Verdict(status[c])
    BY <1>0, <1>1 DEF Verdict
  <2> HIDE DEF D
  <2>4. D \in SUBSET Roles
    BY DEF D
  <2> QED
    BY <1>1, <1>2, <2>1, <2>2, <2>3, <2>4 DEF Plan!Adopt
<1>5. PlanStep(c)
  BY <1>4 DEF PlanStep, Plan!Next
<1> QED
  BY <1>1, <1>5, FromOne

LEMMA UnseenSteps ==
    ASSUME NEW r \in Runs, UNCHANGED <<status, stage, report>>
    PROVE  PlanStep(r)
BY QuietSteps DEF Quiet, Decided

\* A coroutine records an outcome of a role that was open.
LEMMA RolePlanStep ==
    ASSUME AnalysisInv, NEW r \in Runs, NEW k \in Claims, At(r, k, "wave"), Guard(r, k),
           UNCHANGED runRows, NEW x \in Roles, stage[r][x] \in Open,
           NEW s \in Open \cup {"succeeded", "failed", "blocked"}, SetStage(r, x, s),
           IF s = "blocked" THEN \E y \in Deps[x] : stage[r][y] \in {"failed", "blocked"}
           ELSE Deps[x] \subseteq Completed(r, k)
    PROVE  \A q \in Runs : PlanStep(q)
<1> USE DEF runRows
<1>0. TypeOK /\ ClaimFits(r) /\ pc[r][k] = "wave" /\ task[r] = "running" /\ claim[r] = k
  BY DEF AnalysisInv, RunInv, At, Guard
<1>1. /\ OnlyRun(r) /\ stage'[r][x] = s
      /\ \A y \in Roles \ {x} : stage'[r][y] = stage[r][y]
  BY <1>0, SectionsAndRoles DEF SetStage, OnlyRun, TypeOK
<1>2. Decided(r, x) = "open" /\ \A y \in Roles \ {x} : Decided(r, y)' = Decided(r, y)
  BY <1>1 DEF Decided, Decision, Open, Usable
<1>3. status[r] = "running" /\ status'[r] = status[r] /\ report'[r] = report[r]
  BY <1>0 DEF ClaimFits, Working
<1>4. CASE s \in Open
  <2>1. Quiet(r)
    BY <1>1, <1>2, <1>3, <1>4 DEF Quiet, Decided, Decision, Open, Usable
  <2> QED
    BY <1>1, <2>1, QuietSteps, FromOne
<1>5. CASE s \in {"succeeded", "failed"}
  <2>1. Decided(r, x)' \in {"done", "failed"}
    BY <1>1, <1>5 DEF Decided, Decision, Usable
  <2>2. ASSUME NEW y \in Deps[x] PROVE Decided(r, y) = "done"
    <3>1. y \in Roles /\ co[r][k][y] = "done"
      BY <1>5, DepsAreEarlier DEF Completed
    <3>2. stage[r][y] \in Usable
      BY <1>0, <3>1 DEF ClaimFits, Working
    <3> QED
      BY <3>2 DEF Decided, Decision
  <2>3. PlanStep(r)
    BY <1>2, <1>3, <2>1, <2>2, Decides
  <2> QED
    BY <1>1, <2>3, FromOne
<1>6. CASE s = "blocked"
  <2>1. Decided(r, x)' = "blocked"
    BY <1>1, <1>6 DEF Decided, Decision, Usable
  <2>2. \E y \in Deps[x] : Decided(r, y) \in {"failed", "blocked"}
    BY <1>6 DEF Decided, Decision, Usable
  <2>3. PlanStep(r)
    BY <1>2, <1>3, <2>1, <2>2, Decides
  <2> QED
    BY <1>1, <2>3, FromOne
<1> QED
  BY <1>4, <1>5, <1>6

LEMMA WavePlanSteps ==
    ASSUME AnalysisInv, NEW r \in Runs, NEW k \in Claims, NEW x \in Roles,
           \/ Visit(r, k, x) \/ StartCall(r, k, x) \/ PrepareFails(r, k, x)
           \/ RecordUnprepared(r, k, x) \/ Answered(r, k, x)
           \/ \E b \in BOOLEAN : CallFails(r, k, x, b)
    PROVE  \A q \in Runs : PlanStep(q)
<1>0. /\ TypeOK /\ RunnerFits(r, k) /\ ClaimFits(r) /\ At(r, k, "wave") /\ pc[r][k] = "wave"
      /\ UNCHANGED runRows
  BY DEF AnalysisInv, RunInv, Visit, StartCall, PrepareFails, RecordUnprepared, Answered,
         CallFails, Running, At
<1>1. CASE UNCHANGED stage
  BY <1>0, <1>1, UnseenSteps DEF runRows
<1>2. co[r][k][x] \in {"ready", "unprepared", "calling", "backoff"} =>
        Deps[x] \subseteq Completed(r, k)
  BY <1>0 DEF RunnerFits
<1>3. co[r][k][x] \in {"unprepared", "calling"} /\ Guard(r, k) => stage[r][x] = "running"
  BY <1>0 DEF ClaimFits, Working, Guard
<1>4. ASSUME NEW s \in Open \cup {"succeeded", "failed"}, SetStage(r, x, s), Guard(r, k),
             stage[r][x] \in Open,
             co[r][k][x] \in {"ready", "unprepared", "calling", "backoff"}
      PROVE  \A q \in Runs : PlanStep(q)
  BY <1>0, <1>2, <1>4, RolePlanStep DEF Open
<1>5. CASE StartCall(r, k, x)
  <2>1. UNCHANGED stage \/ (stage[r][x] = "pending" /\ \E s \in {"running", "failed"} : SetStage(r, x, s))
    BY <1>5 DEF StartCall, ExhaustStage, StartAttempt
  <2> QED
    BY <1>1, <1>4, <1>5, <2>1 DEF StartCall, Running, Open
<1>6. CASE PrepareFails(r, k, x)
  BY <1>4, <1>6 DEF PrepareFails, Running, StartAttempt, Open
<1>7. CASE RecordUnprepared(r, k, x)
  BY <1>3, <1>4, <1>7 DEF RecordUnprepared, Running, FinishAttemptFailure, Open
<1>8. CASE Answered(r, k, x)
  BY <1>3, <1>4, <1>8 DEF Answered, Running, FinishAttemptSuccess, Open
<1>9. ASSUME NEW b \in BOOLEAN, CallFails(r, k, x, b) PROVE \A q \in Runs : PlanStep(q)
  <2>1. \E s \in {"pending", "failed"} : SetStage(r, x, s)
    BY <1>9 DEF CallFails, FinishAttemptFailure
  <2> QED
    BY <1>3, <1>4, <1>9, <2>1 DEF CallFails, Running, Open
<1>10. CASE Visit(r, k, x)
  <2>1. UNCHANGED stage
        \/ /\ stage[r][x] = "pending" /\ SetStage(r, x, "blocked") /\ Guard(r, k)
           /\ x \in Wave(r, k) /\ ~(Deps[x] \subseteq Completed(r, k))
    BY <1>10 DEF Visit, Unvisited
  <2>2. CASE /\ stage[r][x] = "pending" /\ SetStage(r, x, "blocked") /\ Guard(r, k)
             /\ x \in Wave(r, k) /\ ~(Deps[x] \subseteq Completed(r, k))
    <3>1. \E y \in Deps[x] : stage[r][y] \in {"failed", "blocked"}
      BY <1>0, <2>2, MissingDependency
    <3> QED
      BY <1>0, <2>2, <3>1, RolePlanStep DEF Open
  <2> QED
    BY <1>1, <2>1, <2>2
<1> QED
  BY <1>5, <1>6, <1>7, <1>8, <1>9, <1>10

LEMMA PublishSteps ==
    ASSUME AnalysisInv, NEW r \in Runs, NEW k \in Claims, FinalizeRun(r, k)
    PROVE  \A q \in Runs : PlanStep(q)
<1> USE DEF runRows, stageRows
<1>0. /\ TypeOK /\ RowsAgree(r) /\ InputsFit(r) /\ ClaimFits(r) /\ RunnerFits(r, k)
      /\ status[r] = "running" /\ task[r] = "running" /\ claim[r] = k /\ Guard(r, k)
      /\ UNCHANGED <<stage, inputs>> /\ report[r] = NoReport
  BY DEF AnalysisInv, RunInv, FinalizeRun, Guard, RowsAgree, RunEnded
<1>1. OnlyRun(r)
  <2>1. \E v \in RunEnded : EndRun(r, v)
    BY DEF FinalizeRun, Verdicts, RunEnded
  <2>2. UNCHANGED report \/ report' = [report EXCEPT ![r] = Completed(r, k)]
    BY DEF FinalizeRun
  <2> QED
    BY <1>0, <2>1, <2>2 DEF OnlyRun, EndRun, TypeOK
<1>2. CASE cancel[r]
  <2>1. status'[r] = "cancelled" /\ report'[r] = report[r]
    BY <1>0, <1>2 DEF FinalizeRun, EndRun, TypeOK
  <2>2. PlanStep(r)
    BY <1>0, <2>1, Abandons DEF Decided
  <2> QED
    BY <1>1, <2>2, FromOne
<1>3. CASE ~cancel[r]
  <2>0. PICK v \in Verdicts(r, k) : EndRun(r, v)
    BY <1>3 DEF FinalizeRun
  <2>1. v \in {"insufficient_evidence", "partial", "succeeded"} /\ status'[r] = v
        /\ report'[r] = Completed(r, k)
    BY <1>0, <1>3, <2>0 DEF FinalizeRun, EndRun, Verdicts, TypeOK
  <2>2. Completed(r, k) # NoReport
    BY RolesAre DEF Completed, NoReport
  <2>3. /\ \A x \in Roles : Decided(r, x) = "done" <=> x \in Completed(r, k)
        /\ \A x \in Roles : Decided(r, x) # "open"
        /\ v = IF FailedRoles(r) # {} THEN "partial" ELSE v
        /\ v = "partial" => FailedRoles(r) # {}
        /\ v = "succeeded" => Completed(r, k) = Roles
    <3>1. CASE At(r, k, "report")
      <4>1. /\ inputs[r] = "eligible"
            /\ \A x \in Roles : IF x \in Completed(r, k) THEN stage[r][x] \in Usable
                                ELSE stage[r][x] \in {"failed", "blocked"}
        BY <1>0, <3>1, RolesAreDecided
      <4>2. /\ \A x \in Roles : Decided(r, x) = "done" <=> x \in Completed(r, k)
            /\ \A x \in Roles : Decided(r, x) # "open"
        BY <4>1 DEF Decided, Decision, Usable
      <4>3. /\ v = IF FailedRoles(r) # {} THEN "partial" ELSE v
            /\ v = "partial" => FailedRoles(r) # {}
            /\ v = "succeeded" => FailedRoles(r) = {}
        BY <2>0, <3>1 DEF Verdicts, At
      <4>4. ASSUME FailedRoles(r) = {} PROVE Completed(r, k) = Roles
        <5>1. \A x \in Roles : stage[r][x] \notin {"failed", "blocked"}
          BY <1>0, <4>1, <4>4, BlockedIsRerun DEF FailedRoles, Rerun
        <5> QED
          BY <4>1, <5>1 DEF Completed
      <4> QED
        BY <4>2, <4>3, <4>4
    <3>2. CASE At(r, k, "blocking") /\ PendingRoles(r) = {}
      <4>1. pc[r][k] = "blocking" /\ wave[r][k] = 1 /\ co[r][k] = Idle
        BY <1>0, <3>2 DEF At, RunnerFits
      <4>2. inputs[r] = "insufficient" /\ v = "insufficient_evidence"
        BY <1>0, <2>0, <4>1 DEF ClaimFits, Working, Verdicts, At
      <4>3. \A x \in Roles : stage[r][x] = "blocked"
        <5>1. \A x \in Roles : stage[r][x] \in {"pending", "cancelled", "blocked"}
          BY <1>0, <4>2 DEF InputsFit
        <5>2. \A x \in Roles : stage[r][x] # "cancelled"
          BY <1>0, SectionsAndRoles DEF RowsAgree, RunEnded
        <5>3. \A x \in Roles : stage[r][x] # "pending"
          BY <3>2 DEF PendingRoles, Roles
        <5> QED
          BY <5>1, <5>2, <5>3
      <4>4. Completed(r, k) = {} /\ FailedRoles(r) = {}
        BY <4>1, <4>3 DEF Completed, Idle, FailedRoles
      <4> QED
        BY <4>2, <4>3, <4>4 DEF Decided, Decision, Usable
    <3> QED
      BY <3>1, <3>2 DEF FinalizeRun
  <2>4. Plan(r)!Having("done") = Completed(r, k) /\ Plan(r)!Having("open") = {}
    BY <2>3 DEF Plan!Having, Decided, Completed
  <2>5. Plan(r)!Having("failed") = FailedRoles(r)
    BY DEF Plan!Having, Decided, Decision, FailedRoles, Usable
  <2>6. Verdict(status[r]) = "open" /\ Verdict(status'[r]) = v
    BY <1>0, <2>1 DEF Verdict
  <2>7. Plan(r)!Publish
    BY <1>0, <2>1, <2>2, <2>3, <2>4, <2>5, <2>6 DEF Plan!Publish
  <2>8. PlanStep(r)
    BY <2>7 DEF PlanStep, Plan!Next
  <2> QED
    BY <1>1, <2>8, FromOne
<1> QED
  BY <1>2, <1>3

LEMMA RunnerPlanSteps ==
    ASSUME AnalysisInv, NEW r \in Runs, NEW k \in Claims,
           RunnerStep(r, k) \/ Pause(r, k) \/ Breaks(r, k)
    PROVE  \A q \in Runs : PlanStep(q)
<1> USE DEF runRows, stageRows
<1>0. TypeOK /\ RowsAgree(r) /\ InputsFit(r) /\ ClaimFits(r) /\ RunnerFits(r, k)
  BY DEF AnalysisInv, RunInv
<1>1. CASE Begin(r, k)
  <2>1. /\ \A x \in Roles : Decided(r, x)' = Decided(r, x)
        /\ \A q \in Runs \ {r} : stage'[q] = stage[q]
    <3>1. UNCHANGED stage \/ CloseStages(r, {"running"}, "pending")
      BY <1>1 DEF Begin, ResumeRun
    <3>2. {"running"} \in SUBSET Open /\ "pending" \in Open \cup {"cancelled"}
      BY DEF Open
    <3> QED
      BY <1>0, <3>1, <3>2, ClosingIsQuiet DEF Decided
  <2>2. OnlyRun(r) /\ UNCHANGED report /\ Verdict(status'[r]) = Verdict(status[r])
    BY <1>0, <1>1, <2>1 DEF Begin, OnlyRun, Verdict, TypeOK
  <2>3. PlanStep(r)
    BY <2>1, <2>2, QuietSteps DEF Quiet
  <2> QED
    BY <2>2, <2>3, FromOne
<1>2. CASE StartFetch(r, k) \/ Fetched(r, k) \/ \E b \in BOOLEAN : FetchFails(r, k, b)
  <2>1. CurrentKind(r) \in Kinds
    <3>1. Guard(r, k) /\ (OpenKinds(r) # {} \/ pc[r][k] = "fetching")
      BY <1>2 DEF StartFetch, Fetched, FetchFails, At
    <3> QED
      BY <1>0, <3>1, CurrentKindIsOpen DEF ClaimFits, Guard, Working
  <2>2. PICK x \in Kinds : x = CurrentKind(r)
    BY <2>1
  <2>3. PICK s : SetStage(r, x, s)
    BY <1>2, <2>2 DEF StartFetch, Fetched, FetchFails, ExhaustStage, StartAttempt,
                      FinishAttemptSuccess, FinishAttemptFailure
  <2>4. \A q \in Runs : Quiet(q)
    <3>1. UNCHANGED <<status, report>>
      BY <1>2 DEF StartFetch, Fetched, FetchFails
    <3>2. \A q \in Runs, y \in Roles : stage'[q][y] = stage[q][y]
      BY <1>0, <2>3, SectionsAndRoles DEF SetStage, TypeOK
    <3> QED
      BY <3>1, <3>2 DEF Quiet, Decided
  <2> QED
    BY <2>4, QuietSteps
<1>3. CASE BlockNext(r, k)
  <2>1. PICK x \in Roles : stage[r][x] = "pending" /\ SetStage(r, x, "blocked")
    BY <1>3 DEF BlockNext, PendingRoles, Roles
  <2>2. pc[r][k] = "blocking" /\ Guard(r, k) /\ UNCHANGED <<status, report>>
    BY <1>3 DEF BlockNext, At
  <2>3. inputs[r] = "insufficient" /\ status[r] = "running"
    <3>1. wave[r][k] = 1 /\ task[r] = "running" /\ claim[r] = k
      BY <1>0, <2>2 DEF RunnerFits, Guard
    <3> QED
      BY <1>0, <2>2, <3>1 DEF ClaimFits, Working
  <2>4. OnlyRun(r) /\ stage'[r][x] = "blocked" /\ \A y \in Roles \ {x} : stage'[r][y] = stage[r][y]
    BY <1>0, <2>1, <2>2, SectionsAndRoles DEF SetStage, OnlyRun, TypeOK
  <2>5. \A y \in Roles : Decided(r, y) \notin {"done", "failed"}
    BY <1>0, <2>3 DEF InputsFit, Decided, Decision, Usable
  <2>6. Decided(r, x) = "open" /\ Decided(r, x)' = "blocked"
        /\ \A y \in Roles \ {x} : Decided(r, y)' = Decided(r, y)
    BY <2>1, <2>4 DEF Decided, Decision, Usable
  <2>7. PlanStep(r)
    BY <2>2, <2>3, <2>5, <2>6, Decides
  <2> QED
    BY <2>4, <2>7, FromOne
<1>4. ASSUME NEW x \in Roles,
             \/ Visit(r, k, x) \/ StartCall(r, k, x) \/ PrepareFails(r, k, x)
             \/ RecordUnprepared(r, k, x) \/ Answered(r, k, x)
             \/ \E b \in BOOLEAN : CallFails(r, k, x, b)
      PROVE  \A q \in Runs : PlanStep(q)
  BY <1>4, WavePlanSteps
<1>5. CASE FinalizeRun(r, k)
  BY <1>5, PublishSteps
<1>6. CASE ObserveCancel(r, k) \/ HandlerFails(r, k)
  <2>1. /\ status[r] \in {"queued", "running"} /\ CloseStages(r, Open, "cancelled")
        /\ UNCHANGED report /\ (EndRun(r, "cancelled") \/ EndRun(r, "failed"))
    BY <1>6 DEF ObserveCancel, HandlerFails, CancelRun, FailRun
  <2>2. /\ \A x \in Roles : Decided(r, x)' = Decided(r, x)
        /\ \A q \in Runs \ {r} : stage'[q] = stage[q]
    BY <1>0, <2>1, ClosingIsQuiet
  <2>3. OnlyRun(r) /\ status'[r] \in {"failed", "cancelled"}
    BY <1>0, <2>1, <2>2 DEF OnlyRun, EndRun, TypeOK
  <2>4. PlanStep(r)
    BY <2>1, <2>2, <2>3, Abandons
  <2> QED
    BY <2>3, <2>4, FromOne
<1>7. CASE \/ BindInputs(r, k) \/ EndWave(r, k) \/ Pass(r, k)
           \/ Fenced(r, k) \/ Pause(r, k) \/ Breaks(r, k)
  BY <1>7, UnseenSteps
     DEF BindInputs, EndWave, Pass, Fenced, Pause, Breaks, Unexpected, FailureUnrecorded,
         CoroutineBreaks
<1> QED
  BY <1>1, <1>2, <1>3, <1>4, <1>5, <1>6, <1>7 DEF RunnerStep

(* Every step of the rows and runners is, for each run, a step of          *)
(* ResearchPlan or one it does not see: its roles are decided once and in  *)
(* order, and its report shows exactly the outputs that exist.             *)
THEOREM ImplementsResearchPlan == Spec => ImplementsPlan
<1>1. Init => \A r \in Runs : Plan(r)!Init
  BY PlanInit
<1>2. AnalysisInv /\ [Next]_vars =>
        [\A r \in Runs : UNCHANGED Plan(r)!vars \/ Plan(r)!Next]_vars
  <2> SUFFICES ASSUME AnalysisInv, Next
               PROVE  \A r \in Runs : PlanStep(r)
    BY DEF PlanStep
  <2>1. ASSUME NEW r \in Runs, Scan(r) \/ Lapse(r) \/ Requeue(r) \/ RequestCancel(r)
        PROVE  \A q \in Runs : PlanStep(q)
    BY <2>1, TaskPlanSteps DEF Scan
  <2>2. ASSUME NEW r \in Runs, NEW x \in Roles, NEW c \in Runs, EnqueueRetry(r, x, c)
        PROVE  \A q \in Runs : PlanStep(q)
    BY <2>2, RetryPlanSteps
  <2>3. ASSUME NEW r \in Runs, NEW k \in Claims,
               RunnerStep(r, k) \/ Pause(r, k) \/ Breaks(r, k)
        PROVE  \A q \in Runs : PlanStep(q)
    BY <2>3, RunnerPlanSteps
  <2> QED
    BY <2>1, <2>2, <2>3 DEF Next
<1> QED
  BY <1>1, <1>2, RowsAndRunnersAgree, PTL DEF Spec, ImplementsPlan
================================================================================
