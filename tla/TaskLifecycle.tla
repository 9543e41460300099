---------------------------- MODULE TaskLifecycle ----------------------------
(***************************************************************************)
(* What the durable task table promises to the browser and to the domain   *)
(* tables, without saying how: no leases, no clocks, no workers.           *)
(*                                                                         *)
(* A task is created queued, is picked up, may be put back in the queue    *)
(* when its runner is lost, and ends exactly once.  A cancellation that    *)
(* was accepted while the task was still active decides the outcome.       *)
(***************************************************************************)
CONSTANT Tasks

VARIABLES
  status,           \* task_run.status, "absent" before the row exists
  cancelRequested   \* task_run.cancel_requested

vars == <<status, cancelRequested>>

Terminal == {"succeeded", "failed", "cancelled"}
Active   == {"queued", "running"}

TypeOK ==
  /\ status \in [Tasks -> {"absent"} \union Active \union Terminal]
  /\ cancelRequested \in [Tasks -> BOOLEAN]

Init ==
  /\ status = [t \in Tasks |-> "absent"]
  /\ cancelRequested = [t \in Tasks |-> FALSE]

(***************************************************************************)
(* One transaction may move several rows (a claim also ends the expired    *)
(* cancelled claims, recovery moves every abandoned row), so a step is a   *)
(* relation between the old and the new row of every task.                 *)
(***************************************************************************)
Create(t)  == status[t] = "absent" /\ status'[t] = "queued" /\ ~cancelRequested'[t]
PickUp(t)  == /\ status[t] \in Active /\ status'[t] = "running"
              /\ ~cancelRequested[t] /\ ~cancelRequested'[t]
PutBack(t) == /\ status[t] = "running" /\ status'[t] = "queued"
              /\ cancelRequested'[t] = cancelRequested[t]
AskCancel(t) == /\ status[t] = "running" /\ status'[t] = "running"
                /\ cancelRequested'[t]
EndNormally(t) == /\ status[t] = "running" /\ status'[t] \in {"succeeded", "failed"}
                  /\ ~cancelRequested[t] /\ ~cancelRequested'[t]
EndCancelled(t) == /\ status[t] \in Active /\ status'[t] = "cancelled"
                   /\ cancelRequested'[t]
Keep(t) == status'[t] = status[t] /\ cancelRequested'[t] = cancelRequested[t]

RowStep(t) ==
  \/ Create(t) \/ PickUp(t) \/ PutBack(t) \/ AskCancel(t)
  \/ EndNormally(t) \/ EndCancelled(t) \/ Keep(t)

Next ==
  /\ status' \in [Tasks -> {"absent"} \union Active \union Terminal]
  /\ cancelRequested' \in [Tasks -> BOOLEAN]
  /\ \A t \in Tasks : RowStep(t)

Spec == Init /\ [][Next]_vars
=============================================================================
