-------------------------- MODULE SidecarShutdown --------------------------
(***************************************************************************)
(* The desktop sidecar while it is asked to stop: the shutdown and commit  *)
(* endpoints (main.py), the lifecycle controller (desktop_session.py), the *)
(* claim gate and checkpoint handshake (tasks/repository.py), the worker   *)
(* loop (market/worker_runtime.py) and the end of the process (sidecar.py).*)
(*                                                                         *)
(* A task is reduced to its status; leases, cancellation and domain runs   *)
(* are in TaskQueue.  Time is abstract: the checkpoint deadline may pass   *)
(* at any moment, a lease of a row nobody runs may have expired.           *)
(***************************************************************************)
EXTENDS Naturals, FiniteSets

CONSTANTS
    Tasks,          \* the durable tasks
    Calls,          \* shutdown requests the host may send
    NoTask,         \* the worker thread is between tasks
    NoCall,         \* the claim gate is free
    MaxFaults       \* bound on crashes and storage errors

ASSUME NamesAreDistinct == NoTask \notin Tasks /\ NoCall \notin Calls

VARIABLES
    alive,          \* the sidecar process exists
    status,         \* durable status of each task
    handler,        \* the task whose handler the worker thread is executing
    claimStop,      \* DesktopLifecycleController._claim_stop_event
    prepared,       \* ._shutdown_prepared
    serverExit,     \* ._server_exit_requested (and ._stop_event with it)
    recovery,       \* ._startup_recovery is not None
    requested,      \* TaskRepository._desktop_checkpoint_requested
    acknowledged,   \* ._desktop_checkpoint_acknowledged
    gate,           \* the shutdown call inside hold_claim_gate
    call,           \* progress of each shutdown call and of its commit
    faults

flags == <<claimStop, prepared, serverExit, recovery>>
checkpoint == <<requested, acknowledged>>
sidecarVars == <<alive, status, handler, flags, checkpoint, gate, call, faults>>

Statuses == {"none", "queued", "running", "ended"}
Active(s) == \E t \in Tasks : s[t] \in {"queued", "running"}
Running(s) == \E t \in Tasks : s[t] = "running"

(***************************************************************************)
(* A call is sent, counts the tasks under the gate, waits for the          *)
(* checkpoint and is answered; an accepted one may then be committed.      *)
(***************************************************************************)
Executing == {"counted", "waiting", "drained", "missed", "failed", "commitChecked"}
Answered == {"accepted", "blocked", "timedOut", "unavailable", "refused", "committed"}
Stages == Executing \cup Answered \cup {"unused", "sent", "commitSent", "lost"}
NewCall == [stage |-> "unused", checkpointActive |-> FALSE, running |-> FALSE, active |-> FALSE]
CallRecords == [stage : Stages, checkpointActive : BOOLEAN, running : BOOLEAN, active : BOOLEAN]
At(c, stage) == call[c].stage = stage
Goes(c, stage) == call' = [call EXCEPT ![c].stage = stage]

\* Calls that the end of the process leaves without an answer.
CutOff == [c \in Calls |->
             IF call[c].stage \in Executing \cup {"sent", "commitSent"}
             THEN [call[c] EXCEPT !.stage = "lost"] ELSE call[c]]

SidecarInit ==
    /\ alive = TRUE
    /\ status \in [Tasks -> {"none", "queued", "running"}]
    /\ recovery = Active(status) /\ claimStop = Active(status)
    /\ handler = NoTask
    /\ prepared = FALSE /\ serverExit = FALSE
    /\ requested = FALSE /\ acknowledged = FALSE
    /\ gate = NoCall
    /\ call = [c \in Calls |-> NewCall]
    /\ faults = 0

(***************************************************************************)
(* Tasks: the API enqueues and cancels without the gate; the worker claims *)
(* under it, after it has looked at the claim stop event once more.        *)
(***************************************************************************)
Enqueue(t) ==
    /\ alive /\ status[t] = "none"
    /\ status' = [status EXCEPT ![t] = "queued"]
    /\ UNCHANGED <<alive, handler, flags, checkpoint, gate, call, faults>>

CancelQueued(t) ==
    /\ alive /\ status[t] = "queued"
    /\ status' = [status EXCEPT ![t] = "ended"]
    /\ UNCHANGED <<alive, handler, flags, checkpoint, gate, call, faults>>

\* Fault: the claim does not take the gate.
ClaimOutsideGate == ~claimStop

MayClaim == gate = NoCall /\ ~claimStop

\* Fault: the handler is started before the row is written.
ClaimInMemory(t) ==
    /\ alive /\ handler = NoTask
    /\ MayClaim
    /\ status[t] \in {"queued", "running"}
    /\ handler' = t
    /\ UNCHANGED <<alive, status, flags, checkpoint, gate, call, faults>>

Claim(t) ==
    /\ alive /\ handler = NoTask
    /\ MayClaim
    /\ status[t] \in {"queued", "running"}       \* running: its lease has expired
    /\ status' = [status EXCEPT ![t] = "running"]
    /\ handler' = t
    /\ UNCHANGED <<alive, flags, checkpoint, gate, call, faults>>

HandlerEnds ==
    /\ alive /\ handler # NoTask
    /\ status' = [status EXCEPT ![handler] = "ended"]
    /\ handler' = NoTask
    /\ UNCHANGED <<alive, flags, checkpoint, gate, call, faults>>

\* pause_at_desktop_checkpoint: the row stays running, the handler unwinds.
HandlerPauses ==
    /\ alive /\ handler # NoTask /\ requested
    /\ acknowledged' = TRUE
    /\ handler' = NoTask
    /\ UNCHANGED <<alive, status, flags, requested, gate, call, faults>>

(***************************************************************************)
(* Startup recovery is decided under the gate.                             *)
(***************************************************************************)
RecoveryEnds ==
    /\ recovery' = FALSE
    /\ claimStop' = (claimStop /\ prepared)

RecoveryResume ==
    /\ alive /\ recovery /\ gate = NoCall
    /\ status' = [t \in Tasks |-> IF status[t] = "running" THEN "queued" ELSE status[t]]
    /\ RecoveryEnds
    /\ UNCHANGED <<alive, handler, prepared, serverExit, checkpoint, gate, call, faults>>

RecoveryCancel ==
    /\ alive /\ recovery /\ gate = NoCall
    /\ status' = [t \in Tasks |-> IF status[t] = "none" THEN "none" ELSE "ended"]
    /\ RecoveryEnds
    /\ UNCHANGED <<alive, handler, prepared, serverExit, checkpoint, gate, call, faults>>

(***************************************************************************)
(* POST /api/desktop/shutdown.                                             *)
(***************************************************************************)
Send(c, checkpointActive) ==
    /\ alive /\ At(c, "unused")
    /\ call' = [call EXCEPT ![c].stage = "sent", ![c].checkpointActive = checkpointActive]
    /\ UNCHANGED <<alive, status, handler, flags, checkpoint, gate, faults>>

Count(c) ==
    /\ alive /\ At(c, "sent") /\ gate = NoCall
    /\ gate' = c
    /\ call' = [call EXCEPT ![c].stage = "counted",
                            ![c].running = Running(status), ![c].active = Active(status)]
    /\ UNCHANGED <<alive, status, handler, flags, checkpoint, faults>>

RefuseActive(c) ==
    /\ alive /\ At(c, "counted") /\ call[c].active /\ ~call[c].checkpointActive
    /\ gate' = NoCall
    /\ Goes(c, "blocked")
    /\ UNCHANGED <<alive, status, handler, flags, checkpoint, faults>>

\* prepare_shutdown, then request_desktop_checkpoint, before the gate opens.
Prepare(c) ==
    /\ alive /\ At(c, "counted") /\ (call[c].active => call[c].checkpointActive)
    /\ prepared' = TRUE /\ claimStop' = TRUE
    /\ gate' = NoCall
    /\ IF call[c].running
       THEN /\ requested' = TRUE /\ acknowledged' = FALSE
            /\ Goes(c, "waiting")
       ELSE /\ UNCHANGED checkpoint
            /\ Goes(c, "accepted")
    /\ UNCHANGED <<alive, status, handler, serverExit, recovery, faults>>

Acknowledged(c) ==
    /\ alive /\ At(c, "waiting") /\ acknowledged
    /\ Goes(c, "drained")
    /\ UNCHANGED <<alive, status, handler, flags, checkpoint, gate, faults>>

\* Fault: the request outlives the call that made it.
DeadlineLeavesRequest(c) ==
    /\ alive /\ At(c, "waiting")
    /\ Goes(c, IF acknowledged THEN "drained" ELSE "missed")
    /\ UNCHANGED <<alive, status, handler, flags, checkpoint, gate, faults>>

\* The deadline passes; cancel_desktop_checkpoint lets a late acknowledgement win.
DeadlinePasses(c) ==
    /\ alive /\ At(c, "waiting")
    /\ requested' = (requested /\ acknowledged)
    /\ Goes(c, IF acknowledged THEN "drained" ELSE "missed")
    /\ UNCHANGED <<alive, status, handler, flags, acknowledged, gate, faults>>

Accept(c) ==
    /\ alive /\ At(c, "drained")
    /\ Goes(c, "accepted")
    /\ UNCHANGED <<alive, status, handler, flags, checkpoint, gate, faults>>

\* Fault: a missed deadline also lifts the stop of an undecided recovery.
CancelPreparedAndRecovery ==
    /\ prepared' = (prepared /\ serverExit)
    /\ claimStop' = (claimStop /\ serverExit)

\* cancel_prepared_shutdown leaves a committed shutdown and a pending recovery alone.
CancelPrepared ==
    /\ prepared' = (prepared /\ serverExit)
    /\ claimStop' = (claimStop /\ (serverExit \/ recovery))

Missed(c) ==
    /\ alive /\ At(c, "missed")
    /\ CancelPrepared
    /\ Goes(c, "timedOut")
    /\ UNCHANGED <<alive, status, handler, serverExit, recovery, checkpoint, gate, faults>>

\* metrics() raises, under the gate or after the wait.
StorageFails(c) ==
    /\ alive /\ faults < MaxFaults
    /\ \/ At(c, "sent") /\ gate = NoCall
       \/ At(c, "drained") \/ At(c, "missed")
    /\ Goes(c, "failed")
    /\ faults' = faults + 1
    /\ UNCHANGED <<alive, status, handler, flags, checkpoint, gate>>

AnswerUnavailable(c) ==
    /\ alive /\ At(c, "failed")
    /\ CancelPrepared
    /\ Goes(c, "unavailable")
    /\ UNCHANGED <<alive, status, handler, serverExit, recovery, checkpoint, gate, faults>>

(***************************************************************************)
(* POST /api/desktop/shutdown/commit, in its two reads of prepared.        *)
(***************************************************************************)
SendCommit(c) ==
    /\ At(c, "accepted")
    /\ Goes(c, IF alive THEN "commitSent" ELSE "lost")
    /\ UNCHANGED <<alive, status, handler, flags, checkpoint, gate, faults>>

CommitCheck(c) ==
    /\ alive /\ At(c, "commitSent")
    /\ Goes(c, IF prepared THEN "commitChecked" ELSE "refused")
    /\ UNCHANGED <<alive, status, handler, flags, checkpoint, gate, faults>>

\* Fault: the commit stops the worker but not the server.
CommitStopsClaimsOnly(c) ==
    /\ alive /\ At(c, "commitChecked")
    /\ claimStop' = (claimStop \/ prepared)
    /\ Goes(c, "committed")
    /\ UNCHANGED <<alive, status, handler, prepared, serverExit, recovery, checkpoint, gate, faults>>

CommitApply(c) ==
    /\ alive /\ At(c, "commitChecked")
    /\ claimStop' = (claimStop \/ prepared)
    /\ serverExit' = (serverExit \/ prepared)
    /\ Goes(c, "committed")
    /\ UNCHANGED <<alive, status, handler, prepared, recovery, checkpoint, gate, faults>>

(***************************************************************************)
(* The process.  The server answers what it has begun before it returns,   *)
(* and the worker thread is not a daemon: the interpreter waits for its    *)
(* handler.  A crash or a kill does neither.                               *)
(***************************************************************************)
ProcessEnds ==
    /\ alive' = FALSE
    /\ handler' = NoTask
    /\ gate' = NoCall
    /\ call' = CutOff
    /\ UNCHANGED <<status, flags, checkpoint>>

Exit ==
    /\ alive /\ serverExit /\ handler = NoTask
    /\ \A c \in Calls : call[c].stage \notin Executing
    /\ ProcessEnds
    /\ UNCHANGED faults

Crash ==
    /\ alive /\ faults < MaxFaults
    /\ faults' = faults + 1
    /\ ProcessEnds

\* A new process opens the store and stops claims while work is left over;
\* replies of the former one are no longer read.
Start ==
    /\ ~alive
    /\ alive' = TRUE
    /\ recovery' = Active(status) /\ claimStop' = Active(status)
    /\ prepared' = FALSE /\ serverExit' = FALSE
    /\ requested' = FALSE /\ acknowledged' = FALSE
    /\ call' = [c \in Calls |-> IF At(c, "unused") THEN call[c] ELSE [call[c] EXCEPT !.stage = "lost"]]
    /\ UNCHANGED <<status, handler, gate, faults>>

CallStep(c) ==
    \/ Count(c) \/ RefuseActive(c) \/ Prepare(c)
    \/ Acknowledged(c) \/ DeadlinePasses(c) \/ Accept(c) \/ Missed(c)
    \/ StorageFails(c) \/ AnswerUnavailable(c)
    \/ CommitCheck(c) \/ CommitApply(c)

TaskStep ==
    \/ \E t \in Tasks : Enqueue(t) \/ CancelQueued(t) \/ Claim(t)
    \/ HandlerEnds \/ HandlerPauses
    \/ RecoveryResume \/ RecoveryCancel

SidecarStep == TaskStep \/ (\E c \in Calls : CallStep(c)) \/ Exit \/ Crash

(***************************************************************************)
(* The sidecar with the client it is written for: one that sends a call    *)
(* only when the one before it was answered with a refusal, and after an   *)
(* acceptance does nothing but commit.                                     *)
(***************************************************************************)
Free == {"unused", "blocked", "timedOut", "unavailable", "lost"}

ClientSends(c) ==
    /\ \A d \in Calls : call[d].stage \in Free
    /\ \E checkpointActive \in BOOLEAN : Send(c, checkpointActive)

Next == SidecarStep \/ Start \/ \E c \in Calls : ClientSends(c) \/ SendCommit(c)

vars == sidecarVars
Spec == SidecarInit /\ [][Next]_vars

(***************************************************************************)
(* The request handlers run in threads of their own and the deadline is a  *)
(* timer, so a call makes progress; the loop of the server ends once it is *)
(* told to; the worker thread runs its handler on to its end.              *)
(***************************************************************************)
Fairness ==
    /\ \A c \in Calls : WF_vars(/\ CallStep(c)
                                /\ UNCHANGED faults)
    /\ WF_vars(HandlerEnds) /\ WF_vars(Exit)

LiveSpec == Spec /\ Fairness

(***************************************************************************)
(* Properties.                                                             *)
(***************************************************************************)
Accepting == {"accepted", "commitSent", "commitChecked", "committed"}
Pending == Executing \cup {"sent"} \cup Accepting

\* The shapes of the state; the worker thread only runs a running row.
TypeOK ==
    /\ alive \in BOOLEAN /\ status \in [Tasks -> Statuses] /\ handler \in Tasks \cup {NoTask}
    /\ claimStop \in BOOLEAN /\ prepared \in BOOLEAN /\ serverExit \in BOOLEAN /\ recovery \in BOOLEAN
    /\ requested \in BOOLEAN /\ acknowledged \in BOOLEAN
    /\ gate \in Calls \cup {NoCall} /\ call \in [Calls -> CallRecords] /\ faults \in Nat
    /\ handler # NoTask => status[handler] = "running"

\* From the 202 of desktop_shutdown to the end of the process no handler runs and
\* none can start, so the commit that follows cuts nothing off (main.py, claim gate,
\* checkpoint handshake): "accepts shutdown only when work is already durably queued
\* or running handlers have acknowledged a safe checkpoint" (docs/architecture.md).
QuiescedOnceAccepted ==
    \A c \in Calls : alive /\ call[c].stage \in Accepting
        => handler = NoTask /\ prepared /\ ~MayClaim

\* An attempt that was refused leaves the sidecar as it found it: nothing stays
\* prepared, claims are stopped only for an undecided recovery, and no handler is asked
\* to pause, whatever the order of deadline, acknowledgement and storage error
\* (cancel_prepared_shutdown, cancel_desktop_checkpoint).  The checkpoint request of
\* a call that failed after its acknowledgement is the exception.
WorkRestored ==
    alive /\ (\A c \in Calls : call[c].stage \notin Pending)
        => /\ ~prepared /\ (claimStop => recovery)
           /\ requested => \E c \in Calls : At(c, "unavailable")

\* Until the user has decided about the work an earlier process left, no handler runs
\* (initialize_startup_recovery, cancel_prepared_shutdown, complete_startup_recovery).
RecoveryHoldsWork == alive /\ recovery => handler = NoTask /\ claimStop

\* Every call the process received is answered or cut off with the process, so that no
\* wait for the gate, the checkpoint or another call lasts for ever (desktop_shutdown),
\* and once a commit has been answered the process ends (complete_shutdown, run_sidecar).
CallsComeToAnEnd ==
    \A c \in Calls :
        /\ At(c, "sent") ~> call[c].stage \notin Executing \cup {"sent"}
        /\ At(c, "committed") ~> ~alive

============================================================================
