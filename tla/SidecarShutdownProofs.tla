----------------------- MODULE SidecarShutdownProofs -----------------------
(***************************************************************************)
(* Theorems of SidecarShutdown, for any set of tasks and of calls and any  *)
(* number of faults: an accepted shutdown is quiet until the process ends, *)
(* and a refused one leaves no trace.                                      *)
(*                                                                         *)
(* Neither property is inductive.  What makes them so is how a call gets   *)
(* to be accepted: it counts and prepares under one hold of the gate, so a *)
(* count of no running task is still true when the claims are stopped; and *)
(* an acknowledgement is only given by a handler that unwinds while they   *)
(* are.  Only one call is under way at a time, so nothing but that call    *)
(* can take the preparation back.                                          *)
(***************************************************************************)
EXTENDS SidecarShutdown, TLAPS

\* At most one call is between its sending and its end.
OneCall ==
    alive => \A c, d \in Calls :
               call[c].stage \in Pending /\ call[d].stage \in Pending => c = d

\* The gate is held exactly by a call that has counted.
GateHolder == alive => \A c \in Calls : gate = c <=> At(c, "counted")

\* What the call has established at each stage.
Progressed ==
    alive => \A c \in Calls :
      /\ At(c, "counted") /\ ~call[c].running => handler = NoTask
      /\ At(c, "waiting") => prepared /\ claimStop /\ (acknowledged => handler = NoTask)
      /\ At(c, "drained") => prepared /\ claimStop /\ handler = NoTask
      /\ At(c, "missed") => ~requested
      /\ call[c].stage \in Accepting => prepared /\ claimStop /\ handler = NoTask

\* Every flag that keeps work from running has a reason.
Holding == {"waiting", "drained", "missed", "failed"} \cup Accepting
Reasons ==
    alive => /\ serverExit => \E c \in Calls : At(c, "committed")
             /\ prepared => \E c \in Calls : call[c].stage \in Holding
             /\ claimStop => recovery \/ prepared
             /\ requested => \E c \in Calls : \/ call[c].stage \in Holding
                                              \/ At(c, "unavailable")
             /\ recovery => claimStop /\ handler = NoTask

\* The end of the process is the end of its handler.
Gone == ~alive => handler = NoTask /\ gate = NoCall

StopInv == TypeOK /\ OneCall /\ GateHolder /\ Progressed /\ Reasons /\ Gone

(***************************************************************************)
(* What the three ways of moving a call do to the stages.                  *)
(***************************************************************************)
LEMMA GoesFacts ==
    ASSUME TypeOK, NEW c \in Calls, NEW s \in Stages, Goes(c, s)
    PROVE  /\ call' \in [Calls -> CallRecords]
           /\ \A d \in Calls : /\ call'[d].stage = IF d = c THEN s ELSE call[d].stage
                               /\ call'[d].running = call[d].running
                               /\ call'[d].active = call[d].active
BY DEF TypeOK, Goes, CallRecords

LEMMA CutOffFacts ==
    ASSUME TypeOK, call' = CutOff
    PROVE  call' \in [Calls -> CallRecords]
<1>1. "lost" \in Stages
  BY DEF Stages
<1>2. ASSUME NEW c \in Calls
      PROVE  CutOff[c] \in CallRecords
  BY <1>1, <1>2 DEF TypeOK, CutOff, CallRecords
<1> QED
  BY <1>2 DEF CutOff

LEMMA StartFacts ==
    ASSUME TypeOK, Start
    PROVE  /\ call' \in [Calls -> CallRecords]
           /\ \A d \in Calls : call'[d].stage \in {"unused", "lost"}
<1>1. "lost" \in Stages
  BY DEF Stages
<1> QED
  BY <1>1 DEF TypeOK, Start, At, CallRecords

LEMMA SendFacts ==
    ASSUME TypeOK, NEW c \in Calls, ClientSends(c)
    PROVE  /\ call' \in [Calls -> CallRecords]
           /\ \A d \in Calls : /\ call'[d].stage = IF d = c THEN "sent" ELSE call[d].stage
                               /\ call'[d].running = call[d].running
           /\ \A d \in Calls : call[d].stage \in Free
           /\ alive
           /\ UNCHANGED <<alive, status, handler, flags, checkpoint, gate, faults>>
<1>1. "sent" \in Stages
  BY DEF Stages
<1>2. PICK b \in BOOLEAN : Send(c, b)
  BY DEF ClientSends
<1>3. call' = [call EXCEPT ![c].stage = "sent", ![c].checkpointActive = b]
  BY <1>2 DEF Send
<1>4. /\ call' \in [Calls -> CallRecords]
      /\ \A d \in Calls : /\ call'[d].stage = IF d = c THEN "sent" ELSE call[d].stage
                          /\ call'[d].running = call[d].running
  BY <1>1, <1>3 DEF TypeOK, CallRecords
<1> QED
  BY <1>2, <1>4 DEF ClientSends, Send

LEMMA CountFacts ==
    ASSUME TypeOK, NEW c \in Calls, Count(c)
    PROVE  /\ call' \in [Calls -> CallRecords]
           /\ \A d \in Calls : call'[d].stage = IF d = c THEN "counted" ELSE call[d].stage
           /\ \A d \in Calls \ {c} : call'[d].running = call[d].running
           /\ call'[c].running = Running(status)
<1>1. "counted" \in Stages /\ Running(status) \in BOOLEAN /\ Active(status) \in BOOLEAN
  BY DEF Stages, Executing, Running, Active
<1> HIDE DEF Running, Active
<1> QED
  BY <1>1 DEF TypeOK, Count, CallRecords

(***************************************************************************)
(* Type correctness: one step per action.                                  *)
(***************************************************************************)
LEMMA InitHolds == SidecarInit => StopInv
<1> SUFFICES ASSUME SidecarInit PROVE StopInv
  OBVIOUS
<1>1. NewCall \in CallRecords /\ Active(status) \in BOOLEAN
  BY DEF NewCall, CallRecords, Stages, Active
<1>2. TypeOK
  BY <1>1, NamesAreDistinct DEF SidecarInit, TypeOK, Statuses
<1>3. \A c \in Calls : call[c].stage = "unused"
  BY DEF SidecarInit, NewCall
<1> QED
  BY <1>2, <1>3, NamesAreDistinct
     DEF StopInv, SidecarInit, OneCall, GateHolder, Progressed, Reasons, Gone, At, Pending,
         Accepting, Executing, Holding

LEMMA TaskTypes ==
    ASSUME TypeOK, alive /\ recovery => handler = NoTask, TaskStep
    PROVE  TypeOK'
<1> USE DEF flags, checkpoint
<1>1. ASSUME NEW t \in Tasks, Enqueue(t) \/ CancelQueued(t) \/ Claim(t)
      PROVE  TypeOK'
  BY <1>1, NamesAreDistinct DEF TypeOK, Enqueue, CancelQueued, Claim, Statuses
<1>2. CASE HandlerEnds \/ HandlerPauses
  BY <1>2 DEF TypeOK, HandlerEnds, HandlerPauses, Statuses
<1>3. CASE RecoveryResume \/ RecoveryCancel
  <2>1. handler = NoTask
    BY <1>3 DEF RecoveryResume, RecoveryCancel
  <2> QED
    BY <1>3, <2>1 DEF TypeOK, RecoveryResume, RecoveryCancel, RecoveryEnds, Statuses
<1> QED
  BY <1>1, <1>2, <1>3 DEF TaskStep

LEMMA CallTypes ==
    ASSUME TypeOK, NEW c \in Calls, CallStep(c)
    PROVE  TypeOK'
<1> USE DEF flags, checkpoint
<1>1. CASE Count(c)
  BY <1>1, CountFacts DEF TypeOK, Count
<1>2. CASE RefuseActive(c)
  <2>1. "blocked" \in Stages
    BY DEF Stages, Answered
  <2> QED
    BY <1>2, <2>1, GoesFacts DEF TypeOK, RefuseActive
<1>3. CASE Prepare(c)
  <2>1. "waiting" \in Stages /\ "accepted" \in Stages
    BY DEF Stages, Answered, Executing
  <2>2. call' \in [Calls -> CallRecords]
    BY <1>3, <2>1, GoesFacts DEF Prepare
  <2> QED
    BY <1>3, <2>2 DEF TypeOK, Prepare
<1>4. CASE Acknowledged(c) \/ DeadlinePasses(c) \/ Accept(c)
  <2>1. "drained" \in Stages /\ "missed" \in Stages /\ "accepted" \in Stages
    BY DEF Stages, Answered, Executing
  <2>2. call' \in [Calls -> CallRecords]
    BY <1>4, <2>1, GoesFacts DEF Acknowledged, DeadlinePasses, Accept
  <2> QED
    BY <1>4, <2>2 DEF TypeOK, Acknowledged, DeadlinePasses, Accept
<1>5. CASE Missed(c) \/ AnswerUnavailable(c)
  <2>1. "timedOut" \in Stages /\ "unavailable" \in Stages
    BY DEF Stages, Answered
  <2>2. call' \in [Calls -> CallRecords]
    BY <1>5, <2>1, GoesFacts DEF Missed, AnswerUnavailable
  <2> QED
    BY <1>5, <2>2 DEF TypeOK, Missed, AnswerUnavailable, CancelPrepared
<1>6. CASE StorageFails(c)
  <2>1. "failed" \in Stages
    BY DEF Stages, Executing
  <2> QED
    BY <1>6, <2>1, GoesFacts DEF TypeOK, StorageFails
<1>7. CASE CommitCheck(c) \/ CommitApply(c)
  <2>1. "commitChecked" \in Stages /\ "refused" \in Stages /\ "committed" \in Stages
    BY DEF Stages, Executing, Answered
  <2>2. call' \in [Calls -> CallRecords]
    BY <1>7, <2>1, GoesFacts DEF CommitCheck, CommitApply
  <2> QED
    BY <1>7, <2>2 DEF TypeOK, CommitCheck, CommitApply
<1> QED
  BY <1>1, <1>2, <1>3, <1>4, <1>5, <1>6, <1>7 DEF CallStep

LEMMA EndTypes ==
    ASSUME TypeOK, ProcessEnds, faults' \in Nat
    PROVE  TypeOK'
<1>1. call' \in [Calls -> CallRecords]
  BY CutOffFacts DEF ProcessEnds
<1> QED
  BY <1>1 DEF TypeOK, ProcessEnds, flags, checkpoint

LEMMA StartTypes ==
    ASSUME TypeOK, Start, handler = NoTask
    PROVE  TypeOK'
<1>1. Active(status) \in BOOLEAN
  BY DEF Active
<1> QED
  BY <1>1, StartFacts DEF TypeOK, Start, flags, checkpoint

LEMMA CommitTypes ==
    ASSUME TypeOK, NEW c \in Calls, SendCommit(c)
    PROVE  TypeOK'
<1>1. "commitSent" \in Stages /\ "lost" \in Stages
  BY DEF Stages
<1>2. call' \in [Calls -> CallRecords]
  BY <1>1, GoesFacts DEF SendCommit
<1> QED
  BY <1>2 DEF TypeOK, SendCommit, flags, checkpoint

LEMMA TypeStep ==
    ASSUME StopInv, Next
    PROVE  TypeOK'
<1>0. TypeOK
  BY DEF StopInv
<1>1. CASE TaskStep
  BY <1>0, <1>1, TaskTypes DEF StopInv, Reasons
<1>2. CASE \E c \in Calls : CallStep(c)
  BY <1>0, <1>2, CallTypes
<1>3. CASE Exit \/ Crash
  <2>1. ProcessEnds /\ faults' \in Nat
    BY <1>0, <1>3 DEF TypeOK, Exit, Crash
  <2> QED
    BY <1>0, <2>1, EndTypes
<1>4. CASE Start
  BY <1>0, <1>4, StartTypes DEF StopInv, Gone, Start
<1>5. ASSUME NEW c \in Calls, ClientSends(c)
      PROVE  TypeOK'
  BY <1>0, <1>5, SendFacts DEF TypeOK, flags, checkpoint
<1>6. ASSUME NEW c \in Calls, SendCommit(c)
      PROVE  TypeOK'
  BY <1>0, <1>6, CommitTypes
<1> QED
  BY <1>1, <1>2, <1>3, <1>4, <1>5, <1>6 DEF Next, SidecarStep

(***************************************************************************)
(* The rest of the invariant.  The steps of tasks, then those of calls,    *)
(* then the process and its client.                                        *)
(***************************************************************************)
TaskInv == OneCall /\ GateHolder /\ Progressed /\ Reasons /\ Gone

LEMMA TaskStepKeeps ==
    ASSUME StopInv, TaskStep
    PROVE  TaskInv'
<1> USE DEF flags, checkpoint
<1> SUFFICES ASSUME UNCHANGED <<alive, gate, call, serverExit, prepared>>, alive
             PROVE  TaskInv'
  BY DEF TaskStep, Enqueue, CancelQueued, Claim, HandlerEnds, HandlerPauses, RecoveryResume, RecoveryCancel
<1>1. ASSUME NEW t \in Tasks, Enqueue(t) \/ CancelQueued(t)
      PROVE  TaskInv'
  BY <1>1 DEF StopInv, TaskInv, OneCall, GateHolder, Progressed, Reasons, Gone, At, Enqueue, CancelQueued
<1>2. ASSUME NEW t \in Tasks, Claim(t)
      PROVE  TaskInv'
  <2>1. \A c \in Calls : ~At(c, "counted")
    BY <1>2, NamesAreDistinct DEF StopInv, GateHolder, Claim, MayClaim
  <2> QED
    BY <1>2, <2>1 DEF StopInv, TaskInv, OneCall, GateHolder, Progressed, Reasons, Gone, At,
                      Claim, MayClaim
<1>3. CASE HandlerEnds \/ HandlerPauses
  BY <1>3 DEF StopInv, TaskInv, OneCall, GateHolder, Progressed, Reasons, Gone, At,
              HandlerEnds, HandlerPauses
<1>4. CASE RecoveryResume \/ RecoveryCancel
  BY <1>4 DEF StopInv, TaskInv, TypeOK, OneCall, GateHolder, Progressed, Reasons, Gone, At,
              RecoveryResume, RecoveryCancel, RecoveryEnds
<1> QED
  BY <1>1, <1>2, <1>3, <1>4 DEF TaskStep

\* The call that moves is the only one under way.
LEMMA OthersAreFree ==
    ASSUME StopInv, alive, NEW c \in Calls, call[c].stage \in Pending
    PROVE  \A d \in Calls \ {c} : call[d].stage \notin Pending
BY DEF StopInv, OneCall

LEMMA CallStepKeeps ==
    ASSUME StopInv, NEW c \in Calls, CallStep(c)
    PROVE  TaskInv'
<1> USE DEF flags, checkpoint
<1>0. TypeOK /\ alive /\ alive' /\ UNCHANGED recovery
  BY DEF StopInv, CallStep, Count, RefuseActive, Prepare, Acknowledged, DeadlinePasses, Accept,
         Missed, StorageFails, AnswerUnavailable, CommitCheck, CommitApply
<1>1. call[c].stage \in Executing \cup {"sent", "commitSent"}
  BY DEF CallStep, Count, RefuseActive, Prepare, Acknowledged, DeadlinePasses, Accept,
         Missed, StorageFails, AnswerUnavailable, CommitCheck, CommitApply, At, Executing
<1>2. \A d \in Calls \ {c} : call[d].stage \notin Pending
  BY <1>0, <1>1, OthersAreFree DEF Pending, Accepting
<1>3. CASE Count(c)
  <2>1. ~call'[c].running => handler' = NoTask
    BY <1>0, <1>3, CountFacts DEF TypeOK, Count, Running
  <2>2. \A d \in Calls : d # c => call'[d].stage = call[d].stage /\ call'[d].running = call[d].running
    BY <1>0, <1>3, CountFacts
  <2>3. call'[c].stage = "counted" /\ call[c].stage = "sent"
    BY <1>0, <1>3, CountFacts DEF Count, At
  <2>4. gate = NoCall /\ gate' = c
        /\ UNCHANGED <<handler, prepared, claimStop, serverExit, requested, acknowledged>>
    BY <1>3 DEF Count
  <2>5. OneCall'
    BY <1>0, <1>2, <2>1, <2>2, <2>3, <2>4, NamesAreDistinct DEF StopInv, OneCall, Pending, Executing, Accepting
  <2>6. GateHolder'
    BY <1>0, <1>2, <2>1, <2>2, <2>3, <2>4, NamesAreDistinct DEF StopInv, GateHolder, At
  <2>7. Progressed'
    BY <1>0, <1>2, <2>1, <2>2, <2>3, <2>4, NamesAreDistinct DEF StopInv, Progressed, At, Accepting
  <2>8. Reasons'
    BY <1>0, <1>2, <2>1, <2>2, <2>3, <2>4, NamesAreDistinct DEF StopInv, Reasons, At, Holding, Accepting
  <2>9. Gone'
    BY <1>0, <1>2, <2>1, <2>2, <2>3, <2>4, NamesAreDistinct DEF StopInv, Gone
  <2> QED
    BY <2>5, <2>6, <2>7, <2>8, <2>9 DEF TaskInv
<1>4. CASE RefuseActive(c)
  <2>1. \A d \in Calls : call'[d].stage = IF d = c THEN "blocked" ELSE call[d].stage
    BY <1>0, <1>4, GoesFacts DEF RefuseActive, Stages, Answered
  <2> QED
    BY <1>0, <1>2, <1>4, <2>1, NamesAreDistinct
       DEF StopInv, TaskInv, OneCall, GateHolder, Progressed, Reasons, Gone, At, RefuseActive,
           Pending, Executing, Accepting, Holding
<1>5. CASE Prepare(c)
  <2>1. \A d \in Calls : call'[d].stage = IF d # c THEN call[d].stage
                                          ELSE IF call[c].running THEN "waiting" ELSE "accepted"
    BY <1>0, <1>5, GoesFacts DEF Prepare, Stages, Answered, Executing
  <2> QED
    BY <1>0, <1>2, <1>5, <2>1, NamesAreDistinct
       DEF StopInv, TaskInv, OneCall, GateHolder, Progressed, Reasons, Gone, At, Prepare,
           Pending, Executing, Accepting, Holding
<1>6. CASE Acknowledged(c) \/ DeadlinePasses(c)
  <2>1. \A d \in Calls : call'[d].stage = IF d # c THEN call[d].stage
                                          ELSE IF acknowledged THEN "drained" ELSE "missed"
    BY <1>0, <1>6, GoesFacts DEF Acknowledged, DeadlinePasses, Stages, Executing
  <2>2. /\ At(c, "waiting") /\ UNCHANGED <<handler, prepared, claimStop, serverExit, acknowledged, gate>>
        /\ requested' => requested
        /\ ~acknowledged => ~requested'
    BY <1>0, <1>6 DEF Acknowledged, DeadlinePasses, TypeOK
  <2>3. OneCall'
    BY <1>0, <1>2, <2>1, <2>2 DEF StopInv, OneCall, Pending, Executing, Accepting
  <2>4. GateHolder'
    BY <1>0, <1>2, <2>1, <2>2 DEF StopInv, GateHolder, At
  <2>5. Progressed'
    BY <1>0, <1>2, <2>1, <2>2 DEF StopInv, Progressed, At, Pending, Executing, Accepting
  <2>6. Reasons'
    BY <1>0, <1>2, <2>1, <2>2 DEF StopInv, Reasons, At, Holding, Accepting
  <2>7. Gone'
    BY <1>0, <1>2, <2>1, <2>2 DEF StopInv, Gone
  <2> QED
    BY <2>3, <2>4, <2>5, <2>6, <2>7 DEF TaskInv
<1>7. CASE Accept(c)
  <2>1. \A d \in Calls : call'[d].stage = IF d = c THEN "accepted" ELSE call[d].stage
    BY <1>0, <1>7, GoesFacts DEF Accept, Stages, Answered
  <2> QED
    BY <1>0, <1>2, <1>7, <2>1, NamesAreDistinct
       DEF StopInv, TaskInv, OneCall, GateHolder, Progressed, Reasons, Gone, At, Accept,
           Pending, Executing, Accepting, Holding
<1>8. CASE Missed(c) \/ AnswerUnavailable(c)
  <2>1. \A d \in Calls \ {c} : call'[d].stage = call[d].stage
    BY <1>0, <1>8, GoesFacts DEF Missed, AnswerUnavailable, Stages, Answered
  <2>2. Missed(c) => At(c, "missed") /\ call'[c].stage = "timedOut"
    BY <1>0, GoesFacts DEF Missed, Stages, Answered
  <2>3. AnswerUnavailable(c) => At(c, "failed") /\ call'[c].stage = "unavailable"
    BY <1>0, GoesFacts DEF AnswerUnavailable, Stages, Answered
  <2>4. ~serverExit
    BY <1>0, <1>2, <1>8, <2>2, <2>3 DEF StopInv, Reasons, At, Pending, Accepting
  <2>5. /\ prepared' = FALSE /\ (claimStop' => recovery')
        /\ UNCHANGED <<serverExit, handler, requested, acknowledged, gate>>
        /\ recovery' => claimStop' /\ handler' = NoTask
    BY <1>0, <1>8, <2>4 DEF StopInv, Reasons, TypeOK, Missed, AnswerUnavailable, CancelPrepared
  <2>6. \/ call[c].stage = "missed" /\ call'[c].stage = "timedOut" /\ ~requested
        \/ call[c].stage = "failed" /\ call'[c].stage = "unavailable"
    BY <1>0, <1>8, <2>2, <2>3 DEF StopInv, Progressed, At
  <2>7. OneCall'
    BY <1>0, <1>2, <2>1, <2>4, <2>5, <2>6 DEF StopInv, OneCall, Pending, Executing, Accepting
  <2>8. GateHolder'
    BY <1>0, <1>2, <2>1, <2>4, <2>5, <2>6 DEF StopInv, GateHolder, At
  <2>9. Progressed'
    BY <1>0, <1>2, <2>1, <2>4, <2>5, <2>6 DEF StopInv, Progressed, At, Pending, Executing, Accepting
  <2>10. Reasons'
    BY <1>0, <1>2, <2>1, <2>4, <2>5, <2>6 DEF StopInv, Reasons, At, Holding, Accepting
  <2>11. Gone'
    BY <1>0, <1>2, <2>1, <2>4, <2>5, <2>6 DEF StopInv, Gone
  <2> QED
    BY <2>7, <2>8, <2>9, <2>10, <2>11 DEF TaskInv
<1>9. CASE StorageFails(c)
  <2>1. \A d \in Calls : call'[d].stage = IF d = c THEN "failed" ELSE call[d].stage
    BY <1>0, <1>9, GoesFacts DEF StorageFails, Stages, Executing
  <2> QED
    BY <1>0, <1>2, <1>9, <2>1, NamesAreDistinct
       DEF StopInv, TaskInv, OneCall, GateHolder, Progressed, Reasons, Gone, At, StorageFails,
           Pending, Executing, Accepting, Holding
<1>10. CASE CommitCheck(c)
  <2>1. prepared
    BY <1>0, <1>10 DEF StopInv, Progressed, CommitCheck, At, Accepting
  <2>2. \A d \in Calls : call'[d].stage = IF d = c THEN "commitChecked" ELSE call[d].stage
    BY <1>0, <1>10, <2>1, GoesFacts DEF CommitCheck, Stages, Executing
  <2> QED
    BY <1>0, <1>2, <1>10, <2>2, NamesAreDistinct
       DEF StopInv, TaskInv, OneCall, GateHolder, Progressed, Reasons, Gone, At, CommitCheck,
           Pending, Executing, Accepting, Holding
<1>11. CASE CommitApply(c)
  <2>1. \A d \in Calls : call'[d].stage = IF d = c THEN "committed" ELSE call[d].stage
    BY <1>0, <1>11, GoesFacts DEF CommitApply, Stages, Answered
  <2> QED
    BY <1>0, <1>2, <1>11, <2>1, NamesAreDistinct
       DEF StopInv, TaskInv, OneCall, GateHolder, Progressed, Reasons, Gone, At, CommitApply,
           Pending, Executing, Accepting, Holding
<1> QED
  BY <1>3, <1>4, <1>5, <1>6, <1>7, <1>8, <1>9, <1>10, <1>11 DEF CallStep

\* With no process nothing of the invariant is claimed but that it left nothing behind.
LEMMA ProcessStepKeeps ==
    ASSUME StopInv, Exit \/ Crash \/ Start
    PROVE  TaskInv'
<1> USE DEF flags, checkpoint
<1>1. CASE Exit \/ Crash
  BY <1>1 DEF TaskInv, Exit, Crash, ProcessEnds, OneCall, GateHolder, Progressed, Reasons, Gone
<1>2. CASE Start
  <2>1. \A d \in Calls : call'[d].stage \in {"unused", "lost"}
    BY <1>2, StartFacts DEF StopInv
  <2>2. /\ handler' = NoTask /\ gate' = NoCall /\ prepared' = FALSE /\ serverExit' = FALSE
        /\ requested' = FALSE /\ recovery' = claimStop'
    BY <1>2 DEF StopInv, Gone, Start
  <2>3. OneCall' /\ GateHolder'
    BY <2>1, <2>2, NamesAreDistinct DEF OneCall, GateHolder, At, Pending, Executing, Accepting
  <2>4. Progressed'
    BY <2>1, <2>2 DEF Progressed, At, Accepting
  <2>5. Reasons' /\ Gone'
    BY <2>1, <2>2 DEF Reasons, Gone
  <2> QED
    BY <2>3, <2>4, <2>5 DEF TaskInv
<1> QED
  BY <1>1, <1>2

\* The host sends a call when no other is under way, and commits only what it was told.
LEMMA ClientStepKeeps ==
    ASSUME StopInv, NEW c \in Calls, ClientSends(c) \/ SendCommit(c)
    PROVE  TaskInv'
<1> USE DEF flags, checkpoint
<1>1. CASE ClientSends(c)
  <2>1. /\ \A d \in Calls : /\ call'[d].stage = IF d = c THEN "sent" ELSE call[d].stage
                            /\ call[d].stage \in Free
        /\ UNCHANGED <<alive, handler, flags, checkpoint, gate>>
    BY <1>1, SendFacts DEF StopInv
  <2>2. call[c].stage = "unused"
    BY <1>1 DEF ClientSends, Send, At
  <2> QED
    BY <2>1, <2>2, NamesAreDistinct
       DEF StopInv, TaskInv, OneCall, GateHolder, Progressed, Reasons, Gone, At, Free,
           Pending, Executing, Accepting, Answered, Holding
<1>2. CASE SendCommit(c)
  <2>1. /\ \A d \in Calls : /\ call'[d].stage = IF d # c THEN call[d].stage
                                                ELSE IF alive THEN "commitSent" ELSE "lost"
                            /\ call'[d].running = call[d].running
        /\ call[c].stage = "accepted"
        /\ UNCHANGED <<alive, handler, flags, checkpoint, gate>>
    BY <1>2, GoesFacts DEF StopInv, SendCommit, At, Stages
  <2>2. OneCall' /\ GateHolder'
    BY <2>1 DEF StopInv, OneCall, GateHolder, At, Pending, Executing, Accepting
  <2>3. Progressed'
    BY <2>1 DEF StopInv, Progressed, At, Accepting
  <2>4. Reasons' /\ Gone'
    BY <2>1 DEF StopInv, Reasons, Gone, At, Accepting, Holding
  <2> QED
    BY <2>2, <2>3, <2>4 DEF TaskInv
<1> QED
  BY <1>1, <1>2

LEMMA StutterKeeps ==
    ASSUME StopInv, UNCHANGED vars
    PROVE  StopInv'
<1> USE DEF vars, sidecarVars, flags, checkpoint
<1> QED
  BY DEF StopInv, TypeOK, OneCall, GateHolder, Progressed, Reasons, Gone, At, Running

\* StopInv is inductive.
LEMMA StopInvHolds == Spec => []StopInv
<1>1. ASSUME StopInv, Next PROVE StopInv'
  <2>1. TypeOK'
    BY <1>1, TypeStep
  <2>2. TaskInv'
    <3>1. CASE TaskStep
      BY <1>1, <3>1, TaskStepKeeps
    <3>2. CASE \E c \in Calls : CallStep(c)
      BY <1>1, <3>2, CallStepKeeps
    <3>3. CASE Exit \/ Crash \/ Start
      BY <1>1, <3>3, ProcessStepKeeps
    <3>4. CASE \E c \in Calls : ClientSends(c) \/ SendCommit(c)
      BY <1>1, <3>4, ClientStepKeeps
    <3> QED
      BY <1>1, <3>1, <3>2, <3>3, <3>4 DEF Next, SidecarStep
  <2> QED
    BY <2>1, <2>2 DEF StopInv, TaskInv
<1>2. StopInv /\ [Next]_vars => StopInv'
  BY <1>1, StutterKeeps
<1> QED
  BY <1>2, InitHolds, PTL DEF Spec

\* Every reachable state of the sidecar is well typed, and the worker thread only ever
\* runs a row that is durably running (claim, checkpoint, startup recovery).
THEOREM TypeCorrect == Spec => []TypeOK
<1>1. StopInv => TypeOK
  BY DEF StopInv
<1> QED
  BY <1>1, StopInvHolds, PTL

\* From the acceptance of a shutdown to the end of the process no handler runs and
\* none can start (desktop_shutdown, the claim gate, the checkpoint handshake).
THEOREM AcceptedIsQuiet == Spec => []QuiescedOnceAccepted
<1>1. StopInv => QuiescedOnceAccepted
  BY DEF StopInv, Progressed, QuiescedOnceAccepted, MayClaim
<1> QED
  BY <1>1, StopInvHolds, PTL

\* A refused shutdown leaves nothing prepared, no claim stopped and no handler asked to
\* pause (cancel_prepared_shutdown, cancel_desktop_checkpoint).
THEOREM RefusedLeavesNoTrace == Spec => []WorkRestored
<1>1. StopInv => WorkRestored
  <2>1. Holding \subseteq Pending
    BY DEF Holding, Pending, Executing
  <2> QED
    BY <2>1 DEF StopInv, Reasons, WorkRestored
<1> QED
  BY <1>1, StopInvHolds, PTL

\* No handler runs while startup recovery waits for the user
\* (initialize_startup_recovery, complete_startup_recovery).
THEOREM RecoveryIsHeld == Spec => []RecoveryHoldsWork
<1>1. StopInv => RecoveryHoldsWork
  BY DEF StopInv, Reasons, RecoveryHoldsWork
<1> QED
  BY <1>1, StopInvHolds, PTL
============================================================================
